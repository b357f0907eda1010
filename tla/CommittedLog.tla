--------------------------- MODULE CommittedLog ---------------------------
(***************************************************************************)
(* The commands raft commits, and the map that a prefix of them defines:   *)
(* of the commands with one idempotency key only the first has an effect,  *)
(* and the last effective write to a key decides its value.  Every replica *)
(* is measured against StateAt.                                            *)
(***************************************************************************)
EXTENDS Integers, Sequences

CONSTANTS Key,      \* the keys clients write
          Value,    \* the values clients write
          IdemKey,  \* idempotency keys; the HTTP handler rejects empty ones
          NoVal     \* what Get answers for a key that is absent

ASSUME NoValAssumption == NoVal \notin Value

\* fsm.Command; "put" is the only op a handler ever encodes.
Command == [key : Key, val : Value, idem : IdemKey]

\* The contents of a KV map: NoVal where the key is absent.
Map == [Key -> Value \cup {NoVal}]
EmptyMap == [k \in Key |-> NoVal]

Effective(l, i) == \A j \in 1 .. i - 1 : l[j].idem # l[i].idem

Writes(l, k, a) == {i \in 1 .. a : l[i].key = k /\ Effective(l, i)}

Last(S) == CHOOSE i \in S : \A j \in S : j <= i

StateAt(l, a) ==
    [k \in Key |-> IF Writes(l, k, a) = {} THEN NoVal
                                           ELSE l[Last(Writes(l, k, a))].val]

===========================================================================
