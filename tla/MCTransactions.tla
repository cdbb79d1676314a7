--------------------------- MODULE MCTransactions ---------------------------
(* Documents are the sets of updates they carry.  c3 declines a document that *)
(* c1 has updated; the plain writes add a mark and take it away again, so a   *)
(* document may become what it was before.                                    *)
EXTENDS Transactions

CONSTANTS c1, c2, c3, mark

MCDocument == SUBSET {c1, c2, c3, mark}
MCUpdater  == [c \in Call |-> [d \in Document |->
                 IF c = c3 /\ c1 \in d THEN Undefined ELSE d \cup {c}]]
MCPatches  == {[d \in Document |-> d \cup {mark}], [d \in Document |-> d \ {mark}]}
=============================================================================
