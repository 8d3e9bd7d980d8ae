------------------------------- MODULE Paging -------------------------------
(***************************************************************************)
(* Cursor pages, pagination.util.ts: the window a listing asks Prisma for, *)
(* and the page and next cursor it makes of the rows it is given.  A row   *)
(* is known by its number, a later one by a greater number: rows that are  *)
(* created within one millisecond are left out.                            *)
(***************************************************************************)
EXTENDS Integers, FiniteSets, Sequences

CONSTANT NoRow

MaxLimit == 50

\* The clamp that both helpers have.
Limit(take) == IF take < 1 THEN 1 ELSE IF take > MaxLimit THEN MaxLimit ELSE take

\* Newest first: each row has as many newer ones as stand before it.
Newer(rows, r) == Cardinality({s \in rows : s > r})
Newest(rows)   == [i \in 1..Cardinality(rows) |-> CHOOSE r \in rows : Newer(rows, r) = i - 1]

UpTo(rows, limit) == SubSeq(rows, 1, IF Len(rows) < limit THEN Len(rows) ELSE limit)

\* The rows from a cursor on, without the first (skip: 1).  Prisma finds the cursor in
\* the table and the rows under the filter: when the filter has come to exclude the
\* cursor's own row, another one is skipped in its place, or, when it is looked for
\* among the rows that were read, all are.
Window(rows, cursor) ==
    LET from == Newest({r \in rows : cursor = NoRow \/ r <= cursor})
    IN  CASE cursor = NoRow -> {from}
          [] cursor \in rows -> {Tail(from)}
          [] OTHER           -> {IF from = <<>> THEN from ELSE Tail(from), <<>>}

\* buildCursorQuery, with the filter and the order of a listing: one row more than the
\* page holds.
CursorQuery(rows, cursor, take) == {UpTo(w, Limit(take) + 1) : w \in Window(rows, cursor)}

\* toCursorPage.
\* Mutant: the cursor is the row that only says there is more.
CursorOfNext(found, take) == IF Len(found) > Limit(take) THEN found[Len(found)] ELSE NoRow
NextCursor(found, take)   == IF Len(found) > Limit(take) THEN found[Limit(take)] ELSE NoRow
Items(found, take)        == UpTo(found, Limit(take))

=============================================================================
