------------------------------ MODULE Statements -------------------------------
(***************************************************************************)
(* What a script is cut into, where an error of one of its statements is   *)
(* shown, and how much of a result is kept: packages/sql-parser (parse.ts, *)
(* positions.ts), run-script.ts of packages/engine, and session.ts with    *)
(* its two adapters of packages/core.                                      *)
(*                                                                         *)
(* Positions come in three units: the parser cuts by bytes of UTF-8, the   *)
(* server points by characters of the statement it was sent, and strings   *)
(* and the editor count units of UTF-16.  A character is modelled by its   *)
(* widths, a row of a result by its size.                                  *)
(***************************************************************************)
EXTENDS Integers, Sequences, FiniteSets, SequencesExt

CONSTANTS
    Characters, \* what a script may be made of
    MaxLength,  \* bound: its characters
    RowSizes,   \* sizes of a row, add() counting one for every value
    MaxResult,  \* bound: the rows a statement produces
    Limits,     \* ResultLimits: [maxRows, maxBytes]
    BatchSize   \* BATCH_SIZE

Widths ==
    [letter |-> [bytes |-> 1, units |-> 1], accent |-> [bytes |-> 2, units |-> 1],
     euro   |-> [bytes |-> 3, units |-> 1], emoji  |-> [bytes |-> 4, units |-> 2],
     blank  |-> [bytes |-> 1, units |-> 1], semicolon |-> [bytes |-> 1, units |-> 1]]

\* What the constants must be (assumed by the instance).
StatementsAssumption ==
    /\ Characters \subseteq DOMAIN Widths
    /\ RowSizes \cup {MaxLength, MaxResult, BatchSize} \subseteq Nat /\ BatchSize > 0
    /\ \A l \in Limits : l.maxRows \in Nat \ {0} /\ l.maxBytes \in Nat

VARIABLES
    script,     \* the characters of a script
    produced    \* the sizes of the rows of a statement

vars == <<script, produced>>

Clamp(n, low, high) == IF n < low THEN low ELSE IF n > high THEN high ELSE n

-----------------------------------------------------------------------------
(***************************************************************************)
(* Positions                                                               *)
(***************************************************************************)

\* The width of the characters of s before the one at i.
Before(s, i, unit) == FoldLeft(LAMBDA n, c : n + Widths[c][unit], 0, SubSeq(s, 1, i - 1))
Whole(s, unit) == Before(s, Len(s) + 1, unit)

\* createPositionMap(): where in the string the character of each byte, and
\* each character, begins; and the end.
CreatePositionMap(s) ==
    LET indices == [i \in 1..Len(s) |-> Before(s, i, "units")] IN
    [bytes  |-> Append(FlattenSeq([i \in DOMAIN s |->
                          [b \in 1..Widths[s[i]].bytes |-> indices[i]]]), Whole(s, "units")),
     points |-> Append(indices, Whole(s, "units"))]

Lookup(table, offset) == table[1 + Clamp(offset, 0, Len(table) - 1)]

FromByteOffset(s, offset) == Lookup(CreatePositionMap(s).bytes, offset)
FromCodePointOffset(s, offset) == Lookup(CreatePositionMap(s).points, offset)

\* The library: where in s, by bytes, a statement begins and how long it is,
\* up to its semicolon; of the last without one it does not say how long.
Begins(s) == {i \in DOMAIN s :
    /\ s[i] \notin {"blank", "semicolon"}
    /\ \A j \in 1..(i - 1) : s[j] \in {"blank", "semicolon"}
                                \/ \E k \in (j + 1)..(i - 1) : s[k] = "semicolon"}

ParseSync(s) ==
    LET Until(i) == LET ends == {j \in i..Len(s) : s[j] = "semicolon"}
                    IN  IF ends = {} THEN 0 ELSE Before(s, Min(ends), "bytes")
        Raw(i) == [location |-> Before(s, i, "bytes"),
                   length |-> IF Until(i) = 0 THEN 0 ELSE Until(i) - Before(s, i, "bytes")]
        begins == SetToSortSeq(Begins(s), <)
    IN  [k \in DOMAIN begins |-> Raw(begins[k])]

\* The character of s a unit of the string belongs to.
At(s, unit) == CHOOSE i \in DOMAIN s :
    /\ Before(s, i, "units") <= unit /\ unit < Before(s, i + 1, "units")

\* trim()
Trimmed(s, start, end) ==
    LET solid == {u \in start..(end - 1) : s[At(s, u)] # "blank"}
    IN  IF solid = {} THEN [start |-> end, end |-> end]
                      ELSE [start |-> Min(solid), end |-> Max(solid) + 1]

Slice(s, start, end) ==
    SelectSeq([i \in DOMAIN s |-> [c |-> s[i], at |-> Before(s, i, "units")]],
              LAMBDA x : start <= x.at /\ x.at < end)

ParseScript(s) ==
    LET Cut(raw) ==
            LET end == IF raw.length = 0 THEN Whole(s, "bytes") ELSE raw.location + raw.length
            IN  Trimmed(s, FromByteOffset(s, raw.location), FromByteOffset(s, end))
        Text(cut) == LET slice == Slice(s, cut.start, cut.end)
                     IN  [i \in DOMAIN slice |-> slice[i].c]
        raws == ParseSync(s)
    IN  [k \in DOMAIN raws |-> [text |-> Text(Cut(raws[k]))] @@ Cut(raws[k])]

\* A mistake the runs must catch: characters are taken for units.
PointedAt(statement, position) == statement.start + position - 1

\* Where in the script the server points, counting from 1.
ToScriptPosition(statement, position) ==
    statement.start + FromCodePointOffset(statement.text, position - 1)

-----------------------------------------------------------------------------
(***************************************************************************)
(* Results                                                                 *)
(***************************************************************************)
NoRows == [rows |-> 0, size |-> 0, truncated |-> "no"]

\* RowCollector.add()
Add(collected, size, limits) ==
    IF collected.truncated # "no" THEN collected
    ELSE IF collected.rows >= limits.maxRows THEN [collected EXCEPT !.truncated = "rows"]
    ELSE IF collected.size + size > limits.maxBytes /\ collected.rows > 0
         THEN [collected EXCEPT !.truncated = "bytes"]
    ELSE [collected EXCEPT !.rows = @ + 1, !.size = @ + size]

AddAll(collected, sizes, limits) ==
    FoldLeft(LAMBDA c, size : Add(c, size, limits), collected, sizes)

\* The tag of a command, with its count: -1 when there is none.
CompleteOutput(collected, rowCount) ==
    [rows |-> collected.rows, truncated |-> collected.truncated,
     rowCount |-> IF collected.truncated # "no" THEN -1 ELSE rowCount]

\* PGlite has all of it before it is cut.
ExecuteWhole(sizes, limits) ==
    CompleteOutput(AddAll(NoRows, sizes, limits), Len(sizes))

\* A mistake the runs must catch: a batch that is full is taken for the last.
EndsEarly(batch) == Len(batch) <= BatchSize

EndsTheResult(batch) == Len(batch) < BatchSize

\* A turn of the loop: the server sends the tag once it has sent all rows.
ReadBatch(reading, sizes, limits) ==
    LET batch == SubSeq(sizes, reading.read + 1,
                        Clamp(reading.read + BatchSize, 0, Len(sizes)))
        collected == AddAll(reading.collected, batch, limits)
    IN
    IF reading.over THEN reading
    ELSE [collected |-> collected, read |-> reading.read + Len(batch),
          tag |-> IF Len(batch) < BatchSize THEN Len(sizes) ELSE -1,
          over |-> collected.truncated # "no" \/ EndsTheResult(batch)]

\* A cursor reads in batches, until it has enough or there is no more.
ReadByCursor(sizes, limits) ==
    FoldLeft(LAMBDA reading, turn : ReadBatch(reading, sizes, limits),
             [collected |-> NoRows, read |-> 0, tag |-> -1, over |-> FALSE],
             [turn \in 1..(Len(sizes) + 1) |-> turn])

ExecuteByCursor(sizes, limits) ==
    LET reading == ReadByCursor(sizes, limits)
    IN  CompleteOutput(reading.collected, reading.tag)

\* What the panel says of a result: a number of rows, and whether more exist.
Summary(output) ==
    IF output.truncated # "no" THEN [rows |-> output.rows, more |-> TRUE]
    ELSE [rows |-> IF output.rowCount = -1 THEN output.rows ELSE output.rowCount, more |-> FALSE]

-----------------------------------------------------------------------------
Type ==
    /\ produced = <<>> /\ Len(script) < MaxLength
    /\ \E c \in Characters : script' = Append(script, c)
    /\ UNCHANGED produced

Produce ==
    /\ script = <<>> /\ Len(produced) < MaxResult
    /\ \E size \in RowSizes : produced' = Append(produced, size)
    /\ UNCHANGED script

Init == script = <<>> /\ produced = <<>>

Next == Type \/ Produce

Spec == Init /\ [][Next]_vars

-----------------------------------------------------------------------------
\* Whatever stands before it in the script, every statement is cut from its
\* first to its last character, and wherever in it the server points - to a
\* character or past the last - the editor is shown that place.
ErrorsPointRight ==
    LET statements == ParseScript(script)
        begins == SetToSortSeq(Begins(script), <)
    IN
    /\ Len(statements) = Len(begins)
    /\ \A k \in DOMAIN statements :
          LET n == Len(statements[k].text)
              last == begins[k] + n - 1
          IN
          /\ n > 0 /\ statements[k].text = SubSeq(script, begins[k], last)
          /\ script[last] # "blank"
          /\ \A i \in (last + 1)..Len(script) :
                script[i] = "blank" \/ \E j \in (last + 1)..i : script[j] = "semicolon"
          /\ \A p \in 1..(n + 1) :
                ToScriptPosition(statements[k], p) = Before(script, begins[k] + p - 1, "units")

\* On both tiers a result is cut at the same row: as many rows as the limits
\* allow, the first in any case; rows are said to be missing, and their count
\* withheld, exactly when some are; and no more than a batch is read in vain.
ResultsAgree ==
    \A l \in Limits :
        LET whole == ExecuteWhole(produced, l)
            n == whole.rows
            size(m) == FoldLeft(+, 0, SubSeq(produced, 1, m))
            Fits(m) == m <= l.maxRows /\ (m <= 1 \/ size(m) <= l.maxBytes)
        IN
        /\ ExecuteByCursor(produced, l) = whole
        /\ n <= Len(produced) /\ Fits(n) /\ (n < Len(produced) => ~Fits(n + 1))
        /\ Summary(whole) = [rows |-> n, more |-> n < Len(produced)]
        /\ whole.rowCount = (IF n < Len(produced) THEN -1 ELSE n)
        /\ ReadByCursor(produced, l).read <= n + BatchSize

=============================================================================
