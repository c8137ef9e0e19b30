--------------------------------- MODULE Dio ---------------------------------
(* The methods of a DIO database handle (rivet/packages/dio) that change or   *)
(* read one row, on a table seen as a function from keys to rows.  `store` is *)
(* two statements, a select and what StoreWrite does with its outcome, and    *)
(* other clients of the database come between them.                           *)
CONSTANT Tdbc   \* the handle is a Tdbc one, whose `update` is its own

ASSUME DioAssumption == Tdbc \in BOOLEAN

(* The value of a statement: the table afterwards, and whether it failed.    *)
Answer(tab, ok) == [tab |-> tab, ok |-> ok]

(* fetch, and the select of store: is there a row?                           *)
Found(tab, key) == key \in DOMAIN tab

(* ::DIO::Database::update looks for the row's fields in an array of the name *)
(* "array", which its frame does not have: the statement has nothing to set   *)
(* and the server refuses it.  A row that is gone is no error.               *)
Update(tab, key, row) ==
    IF Tdbc
    THEN Answer([k \in DOMAIN tab |-> IF k = key THEN row ELSE tab[k]], TRUE)
    ELSE Answer(tab, FALSE)

(* insert: a key that is there already violates the table's unique index.    *)
Insert(tab, key, row) ==
    IF Found(tab, key)
    THEN Answer(tab, FALSE)
    ELSE Answer([k \in DOMAIN tab \cup {key} |-> IF k = key THEN row ELSE tab[k]], TRUE)

(* The second half of store.                                                 *)
StoreWrite(found, tab, key, row) ==
    IF found THEN Update(tab, key, row) ELSE Insert(tab, key, row)

(* delete, of all rows whose key is in ks.                                   *)
Without(tab, ks) == [k \in DOMAIN tab \ ks |-> tab[k]]
=============================================================================
