---------------------------- MODULE StoreTables ----------------------------
(***************************************************************************)
(* What the two stores (store/mysql and store/boltdb) have in common.  A   *)
(* table is a function from the keys of its rows to the rows, a row is a   *)
(* record.  Two fields are common to every row the caches poll: valid, the *)
(* negation of the column flag (a soft delete clears it), and fresh, which *)
(* stands for the column mtime: every statement that touches mtime sets    *)
(* it, and a poll of the cache that has read the row clears it, so fresh   *)
(* means "mtime is not older than the last poll".                          *)
(*                                                                         *)
(* An operation that writes is an operator from a database (a record of    *)
(* tables) to a result: the database it leaves and the code it returns.    *)
(***************************************************************************)
EXTENDS Naturals, Sequences, FiniteSets, TLC

CONSTANT NoRow              \* the nil a lookup returns

OK == "ok"
EmptyParams == "empty_params"
Duplicate == "duplicate_entry"
Conflict == "data_conflict"
NotFoundService == "not_found_service"
Multiple == "multiple_found"

Done(db) == [db |-> db, err |-> OK]
Fail(db, code) == [db |-> db, err |-> code]

\* Insert or replace the row of key k.
Put(t, k, row) == [j \in DOMAIN t \cup {k} |-> IF j = k THEN row ELSE t[j]]

\* The record row with the fields of the record cols assigned.
Over(cols, row) ==
  [f \in DOMAIN cols \cup DOMAIN row |-> IF f \in DOMAIN cols THEN cols[f] ELSE row[f]]

\* Remove the rows of the keys in ks.
Without(t, ks) == [k \in DOMAIN t \ ks |-> t[k]]

\* Assign the fields of the record cols in every row whose key is in ks.
Assign(t, ks, cols) == [k \in DOMAIN t |-> IF k \in ks THEN Over(cols, t[k]) ELSE t[k]]

\* The soft delete every table shares: flag = 1, mtime = sysdate().
Removed == [valid |-> FALSE, fresh |-> TRUE]

Touched(cols) == Over([fresh |-> TRUE], cols)

ValidKeys(t) == {k \in DOMAIN t : t[k].valid}
FreshKeys(t) == {k \in DOMAIN t : t[k].fresh}

\* The rows of t a poll hands to a cache, by key.
Rows(t, ks) == [k \in ks \cap DOMAIN t |-> t[k]]

\* A row of t, or nil.
RowOf(t, k) == IF k \in DOMAIN t THEN t[k] ELSE NoRow

\* A page of a list: limit elements after the first offset ones.
PageOf(s, offset, limit) ==
  IF offset >= Len(s) THEN << >>
  ELSE SubSeq(s, offset + 1, IF offset + limit > Len(s) THEN Len(s) ELSE offset + limit)

\* The mirror a cache keeps of a table: it stores the valid rows of a poll
\* and forgets the invalid ones.
Mirror(m, polled) ==
  LET gone == {k \in DOMAIN polled : ~polled[k].valid}
  IN  Without(polled @@ m, gone)

\* The poll has read the rows ks: they are no longer newer than the poll.
Polled(t, ks) == Assign(t, ks, [fresh |-> FALSE])

\* Every principal is named by exactly one of the strategies named, and each
\* of these names one principal and nothing else.
OneEach(principals, named) ==
  /\ \A p \in principals : \E k \in DOMAIN named : \A j \in DOMAIN named : p \in named[j] <=> j = k
  /\ \A k \in DOMAIN named : \E p \in principals : named[k] = {p}
=============================================================================
