-------------------------- MODULE RestTransaction --------------------------
(***************************************************************************)
(* transactionFirebase (backend/src/db/firebaseRestClient.js): optimistic  *)
(* transactions over the REST interface of the Firebase realtime database. *)
(* GET answers the document and its ETag; the updater runs; PUT with       *)
(* if-match replaces the document unless the ETag has changed (412).       *)
(* Responses may be late or lost: the caller then sees an error, and the   *)
(* request may still reach the server.                                     *)
(***************************************************************************)
EXTENDS TransactionContract, FiniteSets

CONSTANT ETagsAnswered   \* the server answers a GET with X-Firebase-ETag with an ETag

(* What the transactions rely on: without ETags each PUT says if-match: *, which *)
(* any document matches, and no write of another is noticed.                     *)
ASSUME ETagAssumption == ETagsAnswered = TRUE

VARIABLES
    doc,      \* the document on the server
    writes,   \* plain writes so far
    attempt,  \* [Call -> attempts that ended with 412]
    put,      \* [Call -> its last PUT, and what the server did with it]
    outcome   \* [Call -> what the caller was told]

vars == <<doc, writes, attempt, put, outcome>>

NoPut   == [state |-> "none", ifMatch |-> Undefined, body |-> Undefined]

Puts    == [state : {"none", "sent", "applied", "refused"},
            ifMatch : Document \cup {Undefined}, body : Document \cup {Undefined}]

TypeOK ==
    /\ doc \in Document
    /\ writes \in Nat
    /\ attempt \in [Call -> 0..MaxRetries]
    /\ put \in [Call -> Puts]
    /\ outcome \in [Call -> Outcomes]

Init ==
    /\ doc \in Document
    /\ writes = 0
    /\ attempt = [c \in Call |-> 0]
    /\ put = [c \in Call |-> NoPut]
    /\ outcome = [c \in Call |-> Pending]

-----------------------------------------------------------------------------
(* The server.  The ETag of a document is a hash of its text: two documents *)
(* have the same ETag when they are equal, also when one was written later. *)
ETag(d) == d

(* if-match: the ETag that was answered, or * *)
AnyTag == Undefined
IfMatch(d) == IF ETagsAnswered THEN ETag(d) ELSE AnyTag

(* Mutant: the precondition is not sent *)
MatchesAnything(p) == TRUE

Matches(p) == p.ifMatch \in {AnyTag, ETag(doc)}

ServerPut(c) ==
    /\ put[c].state = "sent"
    /\ \/ /\ Matches(put[c])
          /\ doc' = put[c].body
          /\ put' = [put EXCEPT ![c].state = "applied"]
       \/ /\ ~Matches(put[c])
          /\ put' = [put EXCEPT ![c].state = "refused"]
          /\ UNCHANGED doc
    /\ UNCHANGED <<writes, attempt, outcome>>

(* PATCH, or PUT without a precondition, of writeFirebase and replaceFirebase *)
PlainWrite ==
    /\ writes < MaxWrites /\ writes' = writes + 1
    /\ \E p \in Patches : doc' = p[doc]
    /\ UNCHANGED <<attempt, put, outcome>>

-----------------------------------------------------------------------------
Answer(c, kind, snapshot) == outcome' = [outcome EXCEPT ![c] = Told(kind, snapshot)]

(* GET, await updater(...): the end if it returned undefined, else PUT *)
Read(c) ==
    /\ outcome[c] = Pending /\ put[c].state = "none"
    /\ \/ /\ Updater[c][doc] = Undefined
          /\ Answer(c, "declined", doc)
          /\ UNCHANGED put
       \/ /\ Updater[c][doc] # Undefined
          /\ put' = [put EXCEPT ![c] = [state |-> "sent", ifMatch |-> IfMatch(doc),
                                        body |-> Updater[c][doc]]]
          /\ UNCHANGED outcome
    /\ UNCHANGED <<doc, writes, attempt>>

(* Mutant: the last attempt is not made *)
LastAttemptEarly(c) == attempt[c] + 2 >= MaxRetries

LastAttempt(c) == attempt[c] + 1 >= MaxRetries

(* The response to the PUT arrives *)
Response(c) ==
    /\ outcome[c] = Pending
    /\ \/ /\ put[c].state = "applied"
          /\ Answer(c, "committed", put[c].body)
          /\ UNCHANGED <<attempt, put>>
       \/ /\ put[c].state = "refused"
          /\ attempt' = [attempt EXCEPT ![c] = @ + 1]
          /\ put' = [put EXCEPT ![c] = NoPut]
          /\ IF LastAttempt(c) THEN Answer(c, "contended", Undefined) ELSE UNCHANGED outcome
    /\ UNCHANGED <<doc, writes>>

(* fetch rejects or the server answers an error: the call throws, whatever has *)
(* become, or will become, of its PUT.                                         *)
Error(c) ==
    /\ outcome[c] = Pending
    /\ Answer(c, "failed", Undefined)
    /\ UNCHANGED <<doc, writes, attempt, put>>

Next ==
    \/ \E c \in Call : Read(c) \/ ServerPut(c) \/ Response(c) \/ Error(c)
    \/ PlainWrite

Spec == Init /\ [][Next]_vars

-----------------------------------------------------------------------------
Wrote(c) == IF put[c].state = "applied" THEN put[c].body ELSE Undefined

(* A transaction gives up only when others got ahead of it maxRetries times: *)
(* whatever the interleaving, an attempt that fails is another's success.    *)
RestContention ==
    \A c \in Call : outcome[c].kind = "contended" =>
        writes + Cardinality({k \in Call \ {c} : Wrote(k) # Undefined}) >= MaxRetries

Atomic == INSTANCE AtomicDocument WITH wrote <- [c \in Call |-> Wrote(c)]

(* GET and PUT together behave as one step: no update is lost, none is applied *)
(* twice, and the snapshot that is answered is what was stored.                *)
IsAtomic == Atomic!AtomicSpec
=============================================================================
