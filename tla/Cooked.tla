------------------------------- MODULE Cooked -------------------------------
(* The reader and the writer the cooked game data share (Serde.h as used by *)
(* UniverseData.h and CombatData.h).  A blob is a sequence of cells, one    *)
(* for every value written; the bits of a value are the concern of Wire.    *)
EXTENDS Integers, Sequences, SequencesExt, FiniteSets, FiniteSetsExt

Refused == << >>
MISSING == "0"          \* what a read past the end returns

FORMAT == "version"
WriteBuffer == << FORMAT >>

\* A counted list: the count, then the cells of every item.
PutList(items, Cells(_)) ==
    << Len(items) >> \o FlattenSeq([i \in 1 .. Len(items) |-> Cells(items[i])])

\* ReadBuffer: the header is checked, and an error stays.
ReadBuffer(blob) ==
    [cells |-> blob, pos |-> 1, good |-> Len(blob) > 0 /\ blob[1] = FORMAT]

More(r, n) == r.good /\ r.pos + n <= Len(r.cells)

\* The next n cells, all missing when the blob ends before them.
Take(r, n) ==
    IF More(r, n)
    THEN [r |-> [r EXCEPT !.pos = @ + n], v |-> SubSeq(r.cells, r.pos + 1, r.pos + n)]
    ELSE [r |-> [r EXCEPT !.good = FALSE], v |-> [i \in 1 .. n |-> MISSING]]

\* A count read past the end is zero.
TakeCount(r) ==
    IF More(r, 1) THEN [r |-> [r EXCEPT !.pos = @ + 1], n |-> r.cells[r.pos + 1]]
    ELSE [r |-> [r EXCEPT !.good = FALSE], n |-> 0]

\* A counted list, every item read by One.
TakeList(r, One(_)) ==
    LET count == TakeCount(r) IN
    FoldLeft(LAMBDA acc, i : LET item == One(acc.r) IN [r |-> item.r, v |-> Append(acc.v, item.v)],
             [r |-> count.r, v |-> << >>], [i \in 1 .. count.n |-> i])

\* A list of single cells.
TakeWords(r) ==
    TakeList(r, LAMBDA q : LET x == Take(q, 1) IN [r |-> x.r, v |-> x.v[1]])
=============================================================================
