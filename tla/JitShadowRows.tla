--------------------------- MODULE JitShadowRows ----------------------------
(***************************************************************************)
(* jit_shadow (JitShadowRows.h): which entry each row of the shadow        *)
(* playlist belongs to, and what a newly playing row means for the         *)
(* session.  A table is a record of its rows and whether it is stale; row  *)
(* numbers start at 1 here, and a position is the number of rows before it *)
(***************************************************************************)
EXTENDS Integers, Sequences

NoEntry == 0  \* serial of a row nobody owns
NoRow == 0    \* kNoRow

Row(e, kind, h) == [entry |-> e, kind |-> kind, handle |-> h]
RowsOf(e, kind, handles) == [i \in DOMAIN handles |-> Row(e, kind, handles[i])]

Reset == [rows |-> <<>>, stale |-> FALSE]
ResetAsBatch(actual, e) == [rows |-> RowsOf(e, "Batch", actual), stale |-> FALSE]

-----------------------------------------------------------------------------
\* the sequence without its elements first .. last
Cut(s, first, last) == SubSeq(s, 1, first - 1) \o SubSeq(s, last + 1, Len(s))
Splice(s, at, t) == SubSeq(s, 1, at) \o t \o SubSeq(s, at + 1, Len(s))

Agrees(table, actual) ==
  /\ Len(table.rows) <= Len(actual)
  /\ \A i \in DOMAIN table.rows : table.rows[i].handle = actual[i]

\* rows found behind the registered ones become ownerless; any other
\* difference makes the table stale
Verify(table, actual) ==
  IF ~table.stale /\ Agrees(table, actual)
  THEN [table EXCEPT !.rows =
          @ \o RowsOf(NoEntry, "Single", SubSeq(actual, Len(@) + 1, Len(actual)))]
  ELSE [table EXCEPT !.stale = TRUE]

Insert(table, at, e, kind, handles) ==
  IF table.stale THEN table
  ELSE [table EXCEPT !.rows =
          Splice(@, IF at > Len(@) THEN Len(@) ELSE at, RowsOf(e, kind, handles))]

\* Mutant of Remove: the last row stays
RemoveShort(table, first, last) ==
  IF table.stale \/ first > Len(table.rows) THEN table
  ELSE [table EXCEPT !.rows = Cut(@, first, last - 1)]

\* removes rows first .. last; what lies beyond the end is ignored
Remove(table, first, last) ==
  IF table.stale \/ first > Len(table.rows) THEN table
  ELSE [table EXCEPT !.rows = Cut(@, first, IF last > Len(@) THEN Len(@) ELSE last)]

OwnRows(table, e) ==
  IF table.stale \/ e = NoEntry THEN {}
  ELSE {i \in DOMAIN table.rows : table.rows[i].entry = e}

FirstRowOf(table, e) ==
  IF OwnRows(table, e) = {} THEN NoRow
  ELSE CHOOSE i \in OwnRows(table, e) : \A j \in OwnRows(table, e) : i <= j
LastRowOf(table, e) ==
  IF OwnRows(table, e) = {} THEN NoRow
  ELSE CHOOSE i \in OwnRows(table, e) : \A j \in OwnRows(table, e) : j <= i

CurrentInsertPosition(table, nextEntry, count) ==
  IF FirstRowOf(table, nextEntry) = NoRow THEN count
  ELSE FirstRowOf(table, nextEntry) - 1

-----------------------------------------------------------------------------
\* Mutant of Attribute: a buffered next entry is taken to play whichever row does
AttributeNextFirst(table, row, currentEntry, nextEntry, idle) ==
  IF row = NoRow \/ table.stale \/ row > Len(table.rows) THEN "Release"
  ELSE LET r == table.rows[row] IN
       IF r.entry = NoEntry THEN "Release"
       ELSE IF r.kind = "Batch" THEN (IF idle THEN "Release" ELSE "BatchRow")
       ELSE IF nextEntry # NoEntry THEN "Advance"
       ELSE IF r.entry = currentEntry THEN "SameEntry"
       ELSE "Release"

(* What a newly playing row means for the session; row is NoRow when the
   track does not play from the shadow playlist, or its row is unknown.     *)
Attribute(table, row, currentEntry, nextEntry, idle) ==
  IF row = NoRow \/ table.stale \/ row > Len(table.rows) THEN "Release"
  ELSE LET r == table.rows[row] IN
       IF r.entry = NoEntry THEN "Release"
       ELSE IF r.kind = "Batch" THEN (IF idle THEN "Release" ELSE "BatchRow")
       ELSE IF r.entry = nextEntry THEN "Advance"
       ELSE IF r.entry = currentEntry THEN "SameEntry"
       ELSE "Release"
=============================================================================
