----------------------------- MODULE AsyncLog -----------------------------
(***************************************************************************)
(* What the FSM may rely on when it hands an entry to the batch writer:    *)
(* the entry is stored at once or waits; waiting entries leave oldest      *)
(* first, all those up to some index together; each is stored, or lost to  *)
(* a failed insert; and when the process ends those that wait are gone.    *)
(* Entries are handed over in index order, so their indices identify them. *)
(***************************************************************************)
EXTENDS Integers

VARIABLES accepted,  \* the entries handed over so far: 1 .. accepted
          waiting,   \* indices that wait in memory
          stored,    \* indices in the table
          lost,      \* indices whose insert failed
          running    \* the process has not ended

vars == <<accepted, waiting, stored, lost, running>>

Init ==
    /\ accepted = 0
    /\ waiting = {} /\ stored = {} /\ lost = {}
    /\ running = TRUE

Queue ==
    /\ running
    /\ accepted' = accepted + 1
    /\ waiting' = waiting \cup {accepted + 1}
    /\ UNCHANGED <<stored, lost, running>>

StoreDirectly ==
    /\ running
    /\ accepted' = accepted + 1
    /\ stored' = stored \cup {accepted + 1}
    /\ UNCHANGED <<waiting, lost, running>>

LoseDirectly ==
    /\ running
    /\ accepted' = accepted + 1
    /\ lost' = lost \cup {accepted + 1}
    /\ UNCHANGED <<waiting, stored, running>>

UpTo(i) == {j \in waiting : j <= i}

Store ==
    /\ running
    /\ \E i \in waiting : /\ waiting' = waiting \ UpTo(i)
                          /\ stored' = stored \cup UpTo(i)
    /\ UNCHANGED <<accepted, lost, running>>

Lose ==
    /\ running
    /\ \E i \in waiting : /\ waiting' = waiting \ UpTo(i)
                          /\ lost' = lost \cup UpTo(i)
    /\ UNCHANGED <<accepted, stored, running>>

Exit ==
    /\ running
    /\ running' = FALSE
    /\ waiting' = {}
    /\ UNCHANGED <<accepted, stored, lost>>

Next == Queue \/ StoreDirectly \/ LoseDirectly \/ Store \/ Lose \/ Exit

Spec == Init /\ [][Next]_vars

===========================================================================
