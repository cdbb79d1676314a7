--------------------------- MODULE AtomicDocument ---------------------------
(***************************************************************************)
(* What database.transaction (backend/src/db/databaseClient.js) promises:  *)
(* a call replaces a document by the result of its updater on the document *)
(* it replaces, in one step and at most once; a call whose updater returns *)
(* undefined reports the document it saw and writes nothing; a call that   *)
(* throws may have written, or may still write, at most once.              *)
(***************************************************************************)
CONSTANTS
    Call,       \* transactions, one call of database.transaction each
    Document,   \* the documents a path may hold, null among them
    Undefined,  \* what an updater returns to write nothing
    Updater,    \* [Call -> [Document -> Document or Undefined]]
    Patches     \* what the other writes do to the document: functions on Document

VARIABLES
    doc,      \* the document at the path
    wrote,    \* [Call -> the document the call has written, or Undefined]
    outcome   \* [Call -> what the caller was told]

atomicVars == <<doc, wrote, outcome>>

Told(kind, snapshot) == [kind |-> kind, snapshot |-> snapshot]
Pending == Told("pending", Undefined)

AtomicInit ==
    /\ doc \in Document
    /\ wrote = [c \in Call |-> Undefined]
    /\ outcome = [c \in Call |-> Pending]

(* committed: true is told only of a document that was written, at once or later *)
Write(c) ==
    /\ wrote[c] = Undefined /\ outcome[c].kind \in {"pending", "failed"}
    /\ Updater[c][doc] # Undefined
    /\ doc' = Updater[c][doc]
    /\ wrote' = [wrote EXCEPT ![c] = Updater[c][doc]]
    /\ \/ UNCHANGED outcome
       \/ /\ outcome[c] = Pending
          /\ outcome' = [outcome EXCEPT ![c] = Told("committed", Updater[c][doc])]

Commit(c) ==
    /\ outcome[c] = Pending /\ wrote[c] # Undefined
    /\ outcome' = [outcome EXCEPT ![c] = Told("committed", wrote[c])]
    /\ UNCHANGED <<doc, wrote>>

Decline(c) ==
    /\ outcome[c] = Pending /\ wrote[c] = Undefined
    /\ Updater[c][doc] = Undefined
    /\ outcome' = [outcome EXCEPT ![c] = Told("declined", doc)]
    /\ UNCHANGED <<doc, wrote>>

(* A call that gives up because of contention has written nothing and never will *)
GiveUp(c) ==
    /\ outcome[c] = Pending /\ wrote[c] = Undefined
    /\ outcome' = [outcome EXCEPT ![c] = Told("contended", Undefined)]
    /\ UNCHANGED <<doc, wrote>>

Fail(c) ==
    /\ outcome[c] = Pending
    /\ outcome' = [outcome EXCEPT ![c] = Told("failed", Undefined)]
    /\ UNCHANGED <<doc, wrote>>

Patch ==
    /\ \E p \in Patches : doc' = p[doc]
    /\ UNCHANGED <<wrote, outcome>>

AtomicNext ==
    \/ \E c \in Call : Write(c) \/ Commit(c) \/ Decline(c) \/ GiveUp(c) \/ Fail(c)
    \/ Patch

AtomicSpec == AtomicInit /\ [][AtomicNext]_atomicVars
=============================================================================
