------------------------- MODULE SqliteTransaction -------------------------
(***************************************************************************)
(* SqliteStore.transact (backend/src/db/sqliteStore.js): optimistic        *)
(* transactions that compare the revision of the whole database.  Several  *)
(* processes have the file open; a statement is atomic, and so is          *)
(* atomic() (BEGIN IMMEDIATE ... COMMIT), but between the statements of a  *)
(* call, and while it awaits its updater, others may write.                *)
(***************************************************************************)
EXTENDS TransactionContract

VARIABLES
    row,          \* the row of the path
    revision,     \* metadata.revision
    storeWrites,  \* plain writes so far
    stage,        \* [Call -> how far its current attempt has come]
    tries,        \* [Call -> attempts that found another revision]
    before,       \* [Call -> the revision it read]
    existing,     \* [Call -> the document it read]
    answer        \* [Call -> what the caller was told]

sqliteVars == <<row, revision, storeWrites, stage, tries, before, existing, answer>>

SqliteTypeOK ==
    /\ row \in Document
    /\ revision \in Nat /\ storeWrites \in Nat
    /\ stage \in [Call -> {"start", "revision", "updated", "end"}]
    /\ tries \in [Call -> 0..MaxRetries]
    /\ before \in [Call -> Nat]
    /\ existing \in [Call -> Document \cup {Undefined}]
    /\ answer \in [Call -> Outcomes]

SqliteInit ==
    /\ row \in Document
    /\ revision = 0 /\ storeWrites = 0
    /\ stage = [c \in Call |-> "start"]
    /\ tries = [c \in Call |-> 0]
    /\ before = [c \in Call |-> 0]
    /\ existing = [c \in Call |-> Undefined]
    /\ answer = [c \in Call |-> Pending]

-----------------------------------------------------------------------------
(* The body of write(): the row, and the revision of the database *)
(* Mutant: the revision is left alone *)
StoredUncounted(d) == row' = d /\ UNCHANGED revision

Stored(d) == row' = d /\ revision' = revision + 1

(* write(): of this path, or of another one, which counts as well *)
StoreWrite ==
    /\ storeWrites < MaxWrites /\ storeWrites' = storeWrites + 1
    /\ \/ \E p \in Patches : Stored(p[row])
       \/ revision' = revision + 1 /\ UNCHANGED row
    /\ UNCHANGED <<stage, tries, before, existing, answer>>

-----------------------------------------------------------------------------
End(c, kind, snapshot) ==
    /\ stage' = [stage EXCEPT ![c] = "end"]
    /\ answer' = [answer EXCEPT ![c] = Told(kind, snapshot)]

(* const before = this.revision() *)
ReadRevision(c) ==
    /\ stage[c] = "start"
    /\ stage' = [stage EXCEPT ![c] = "revision"]
    /\ before' = [before EXCEPT ![c] = revision]
    /\ UNCHANGED <<row, revision, storeWrites, tries, existing, answer>>

(* existing = this.read(dataPath), and the updater that is awaited *)
ReadDocument(c) ==
    /\ stage[c] = "revision"
    /\ existing' = [existing EXCEPT ![c] = row]
    /\ \/ Updater[c][row] = Undefined /\ End(c, "declined", row)
       \/ /\ Updater[c][row] # Undefined
          /\ stage' = [stage EXCEPT ![c] = "updated"]
          /\ UNCHANGED answer
    /\ UNCHANGED <<row, revision, storeWrites, tries, before>>

UnchangedSince(c) == revision = before[c]

(* Mutant: one attempt too many *)
LastTryLate(c) == tries[c] >= MaxRetries

(* Mutant: the last attempt is not made *)
LastTryEarly(c) == tries[c] + 2 >= MaxRetries

LastTry(c) == tries[c] + 1 >= MaxRetries

(* this.atomic(...): the row is written, or the next attempt begins *)
CommitOrRetry(c) ==
    LET next == Updater[c][existing[c]] IN
    /\ stage[c] = "updated"
    /\ \/ /\ UnchangedSince(c)
          /\ Stored(next)
          /\ End(c, "committed", next)
          /\ UNCHANGED tries
       \/ /\ ~UnchangedSince(c)
          /\ tries' = [tries EXCEPT ![c] = @ + 1]
          /\ IF LastTry(c) THEN End(c, "contended", Undefined)
             ELSE stage' = [stage EXCEPT ![c] = "start"] /\ UNCHANGED answer
          /\ UNCHANGED <<row, revision>>
    /\ UNCHANGED <<storeWrites, before, existing>>

(* A statement throws, as when the database stays busy: atomic() rolls back *)
StatementFails(c) ==
    /\ stage[c] # "end"
    /\ End(c, "failed", Undefined)
    /\ UNCHANGED <<row, revision, storeWrites, tries, before, existing>>

SqliteNext ==
    \/ \E c \in Call : ReadRevision(c) \/ ReadDocument(c) \/ CommitOrRetry(c) \/ StatementFails(c)
    \/ StoreWrite

SqliteSpec == SqliteInit /\ [][SqliteNext]_sqliteVars

-----------------------------------------------------------------------------
Stores(c) == IF answer[c].kind = "committed" THEN answer[c].snapshot ELSE Undefined

(* A transaction gives up only when the database was written maxRetries times *)
(* under it: whatever the interleaving, an attempt that fails is another's    *)
(* success (though perhaps on another path).                                  *)
SqliteContention ==
    \A c \in Call : answer[c].kind = "contended" => revision >= MaxRetries

AtomicRow == INSTANCE AtomicDocument WITH doc <- row, outcome <- answer, wrote <- [c \in Call |-> Stores(c)]

(* The revision is read before the document, so it is never newer: a commit that *)
(* finds it unchanged replaces the very document its updater was given.           *)
RowIsAtomic == AtomicRow!AtomicSpec
=============================================================================
