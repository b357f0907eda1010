---------------------------- MODULE SqliteLog ----------------------------
(***************************************************************************)
(* The kv_log table of store/sqlite.go as operators on a set of rows.      *)
(* A row is [idx, key, val]; idx is the table's PRIMARY KEY, so a table    *)
(* never holds two rows with the same idx.  The idempotency_key column is  *)
(* written but never read back by the program, so it is left out.          *)
(***************************************************************************)
EXTENDS CommittedLog, FiniteSets

\* Every table holds finitely many rows, for finitely many keys.
ASSUME KeyAssumption == IsFiniteSet(Key)

Row == [idx : Nat, key : Key, val : Value]

RowsOf(R, k) == {r \in R : r.key = k}

\* Mutant: the row with the smallest idx (ORDER BY idx DESC).
LatestDescending(S) == CHOOSE r \in S : \A s \in S : r.idx <= s.idx

Latest(S) == CHOOSE r \in S : \A s \in S : s.idx <= r.idx

\* SELECT ... ORDER BY idx, each row overwriting the map: the row with the
\* largest idx decides each key.  Both main.go and FSM.Snapshot fold it so.
Replay(R) ==
    [k \in Key |-> IF RowsOf(R, k) = {} THEN NoVal
                                        ELSE Latest(RowsOf(R, k)).val]

\* INSERT OR IGNORE: a row whose idx is taken is skipped without an error.
InsertOrIgnore(R, E) == R \cup {e \in E : \A r \in R : r.idx # e.idx}

\* DELETE FROM kv_log, then one row per key of the snapshot under the
\* synthetic indices 0, 1, ..., in the order Go happens to iterate the map.
ReplaceAll(data) ==
    LET present == {k \in Key : data[k] # NoVal}
        slots == 0 .. Cardinality(present) - 1
        orders == {o \in [present -> slots] :
                     \A j, k \in present : o[j] = o[k] => j = k}
    IN { {[idx |-> o[k], key |-> k, val |-> data[k]] : k \in present} :
           o \in orders }

==========================================================================
