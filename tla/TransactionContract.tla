------------------------ MODULE TransactionContract ------------------------
(***************************************************************************)
(* What the transactions of both providers share (db/databaseClient.js):   *)
(* a call has an updater and a number of attempts, and its caller is told  *)
(* { committed, snapshot }, or an error.                                   *)
(***************************************************************************)
EXTENDS Naturals

CONSTANTS
    Call, Document, Undefined, Updater, Patches,    \* as in AtomicDocument
    MaxRetries,  \* maxRetries, 8 in the code
    MaxWrites    \* bound: plain writes in a behaviour, with SQLite to other paths as well

ASSUME UndefinedAssumption == Undefined \notin Document
ASSUME UpdaterAssumption == Updater \in [Call -> [Document -> Document \cup {Undefined}]]
ASSUME PatchesAssumption == Patches \subseteq [Document -> Document]
ASSUME RetriesAssumption == MaxRetries \in Nat \ {0}

Kinds    == {"pending", "committed", "declined", "contended", "failed"}
Outcomes == [kind : Kinds, snapshot : Document \cup {Undefined}]

Told(kind, snapshot) == [kind |-> kind, snapshot |-> snapshot]
Pending == Told("pending", Undefined)
=============================================================================
