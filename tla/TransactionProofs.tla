-------------------------- MODULE TransactionProofs --------------------------
(***************************************************************************)
(* The transactions of both providers, for any calls, documents and        *)
(* updaters: each implements AtomicDocument, and a call that gives up was  *)
(* overtaken in every one of its attempts.                                 *)
(*   REST: a PUT on its way is the updater's result on the document it     *)
(* names, from a call that has been told nothing, or that it failed.       *)
(*   SQLite: a revision a call has read is never ahead of the database,    *)
(* and while it is the current one the call has read the stored document.  *)
(***************************************************************************)
EXTENDS Transactions, FiniteSetTheorems, TLAPS

-----------------------------------------------------------------------------
(* transactionFirebase: what is on its way *)

PutsAreUpdates ==
    \A c \in Call : put[c].state # "none" =>
        /\ put[c].ifMatch \in Document
        /\ put[c].body = Updater[c][put[c].ifMatch]
        /\ put[c].body # Undefined

OutcomesFit ==
    \A c \in Call :
        /\ put[c].state \in {"sent", "refused"} => outcome[c].kind \in {"pending", "failed"}
        /\ outcome[c].kind = "pending" => outcome[c] = Pending /\ attempt[c] < MaxRetries

RestInv == TypeOK /\ PutsAreUpdates /\ OutcomesFit

LEMMA RestBegins == Init => RestInv
BY RetriesAssumption DEF Init, RestInv, TypeOK, PutsAreUpdates, OutcomesFit, Pending, Told, NoPut,
   Kinds, Outcomes, Puts

(* A PUT carries the ETag of the document that was read, and nothing else matches it *)
LEMMA TagsAreSent ==
    ASSUME NEW d \in Document
    PROVE  IfMatch(d) = d
BY ETagAssumption DEF IfMatch, ETag

LEMMA OnlyTheTagMatches ==
    ASSUME NEW p, p.ifMatch \in Document
    PROVE  Matches(p) <=> p.ifMatch = doc
BY UndefinedAssumption DEF Matches, AnyTag, ETag

(* What a call sends is a document *)
LEMMA UpdatesAreDocuments ==
    ASSUME NEW c \in Call, NEW d \in Document, Updater[c][d] # Undefined
    PROVE  Updater[c][d] \in Document
BY UpdaterAssumption

LEMMA ToldIsAnOutcome ==
    ASSUME NEW k \in Kinds, NEW s \in Document \cup {Undefined}
    PROVE  Told(k, s) \in Outcomes /\ Told(k, s).kind = k /\ Told(k, s).snapshot = s
BY DEF Told, Outcomes

LEMMA RestGoesOn == RestInv /\ [Next]_vars => RestInv'
<1> SUFFICES ASSUME RestInv, [Next]_vars PROVE RestInv'
  OBVIOUS
<1> USE DEF RestInv
<1>1. CASE UNCHANGED vars
  BY <1>1 DEF vars, TypeOK, PutsAreUpdates, OutcomesFit
<1>2. ASSUME NEW c \in Call, Read(c) PROVE RestInv'
  <2> USE <1>2 DEF TypeOK
  <2>1. CASE Updater[c][doc] = Undefined
    <3>1. outcome' = [outcome EXCEPT ![c] = Told("declined", doc)] /\ UNCHANGED <<doc, writes, attempt, put>>
      BY <2>1 DEF Read, Answer
    <3>2. put[c].state = "none"
      BY DEF Read
    <3>3. Told("declined", doc) \in Outcomes /\ Told("declined", doc).kind = "declined"
      BY ToldIsAnOutcome DEF Kinds
    <3> QED
      BY <3>1, <3>2, <3>3 DEF PutsAreUpdates, OutcomesFit
  <2>2. CASE Updater[c][doc] # Undefined
    <3> DEFINE p == [state |-> "sent", ifMatch |-> doc, body |-> Updater[c][doc]]
    <3>1. put' = [put EXCEPT ![c] = p] /\ UNCHANGED <<doc, writes, attempt, outcome>>
      BY <2>2, TagsAreSent DEF Read
    <3>2. p \in Puts
      BY <2>2, UpdatesAreDocuments DEF Puts
    <3>3. outcome[c].kind = "pending"
      BY DEF Read, Pending, Told
    <3> QED
      BY <3>1, <3>2, <3>3, <2>2 DEF PutsAreUpdates, OutcomesFit
  <2> QED
    BY <2>1, <2>2
<1>3. ASSUME NEW c \in Call, ServerPut(c) PROVE RestInv'
  <2> USE <1>3 DEF TypeOK
  <2>1. PICK s \in {"applied", "refused"} : put' = [put EXCEPT ![c].state = s]
    BY DEF ServerPut
  <2>2. doc' \in Document
    <3>1. put[c].body \in Document
      BY UpdatesAreDocuments DEF ServerPut, PutsAreUpdates
    <3> QED
      BY <3>1 DEF ServerPut
  <2>3. UNCHANGED <<writes, attempt, outcome>> /\ put[c].state = "sent"
    BY DEF ServerPut
  <2>4. put[c] \in Puts
    OBVIOUS
  <2>5. put' \in [Call -> Puts]
    BY <2>1, <2>4 DEF Puts
  <2>6. PutsAreUpdates'
    BY <2>1, <2>3, <2>4 DEF PutsAreUpdates, Puts
  <2> QED
    BY <2>1, <2>2, <2>3, <2>5, <2>6 DEF OutcomesFit, Puts
<1>4. ASSUME NEW c \in Call, Response(c) PROVE RestInv'
  <2> USE <1>4 DEF TypeOK
  <2>1. CASE put[c].state = "applied"
    <3>1. outcome' = [outcome EXCEPT ![c] = Told("committed", put[c].body)]
          /\ UNCHANGED <<doc, writes, attempt, put>>
      BY <2>1 DEF Response, Answer
    <3>2. put[c].body \in Document \cup {Undefined}
      BY DEF Puts
    <3>3. Told("committed", put[c].body) \in Outcomes /\ Told("committed", put[c].body).kind = "committed"
      BY <3>2, ToldIsAnOutcome DEF Kinds
    <3> QED
      BY <3>1, <3>3, <2>1 DEF PutsAreUpdates, OutcomesFit
  <2>2. CASE put[c].state = "refused"
    <3>1. attempt' = [attempt EXCEPT ![c] = @ + 1] /\ put' = [put EXCEPT ![c] = NoPut]
          /\ UNCHANGED <<doc, writes>>
      BY <2>2 DEF Response
    <3>2. NoPut \in Puts /\ NoPut.state = "none"
      BY DEF NoPut, Puts
    <3>3. Told("contended", Undefined) \in Outcomes /\ Told("contended", Undefined).kind = "contended"
      BY ToldIsAnOutcome DEF Kinds
    <3>4. \/ UNCHANGED outcome /\ attempt[c] + 1 < MaxRetries
          \/ outcome' = [outcome EXCEPT ![c] = Told("contended", Undefined)]
      BY <2>2, RetriesAssumption DEF Response, Answer, LastAttempt
    <3>5. outcome' \in [Call -> Outcomes]
      BY <3>3, <3>4
    <3>6. PutsAreUpdates'
      BY <3>1, <3>2 DEF PutsAreUpdates
    <3>7. OutcomesFit'
      BY <3>1, <3>2, <3>3, <3>4 DEF OutcomesFit
    <3>8. attempt' \in [Call -> 0..MaxRetries]
      <4>1. attempt[c] < MaxRetries
        BY DEF Response, OutcomesFit, Pending, Told
      <4> QED
        BY <4>1, <3>1, RetriesAssumption
    <3> QED
      BY <3>1, <3>2, <3>5, <3>6, <3>7, <3>8
  <2> QED
    BY <2>1, <2>2 DEF Response
<1>5. ASSUME NEW c \in Call, Error(c) PROVE RestInv'
  <2> USE <1>5 DEF TypeOK
  <2>1. outcome' = [outcome EXCEPT ![c] = Told("failed", Undefined)] /\ UNCHANGED <<doc, writes, attempt, put>>
    BY DEF Error, Answer
  <2>2. Told("failed", Undefined) \in Outcomes /\ Told("failed", Undefined).kind = "failed"
    BY ToldIsAnOutcome DEF Kinds
  <2> QED
    BY <2>1, <2>2 DEF PutsAreUpdates, OutcomesFit
<1>6. ASSUME PlainWrite PROVE RestInv'
  BY <1>6, PatchesAssumption DEF PlainWrite, TypeOK, PutsAreUpdates, OutcomesFit
<1> QED
  BY <1>1, <1>2, <1>3, <1>4, <1>5, <1>6 DEF Next

(* Documents stay documents, and no call makes more attempts than it may *)
THEOREM RestTypes == Spec => []TypeOK
<1>1. Spec => []RestInv
  BY RestBegins, RestGoesOn, PTL DEF Spec
<1> QED
  BY <1>1, PTL DEF RestInv

-----------------------------------------------------------------------------
LEMMA AtomicBegins == Init => Atomic!AtomicInit
BY DEF Init, Atomic!AtomicInit, Wrote, NoPut, Pending, Told, Atomic!Pending, Atomic!Told

(* The PUT that the server applies is where the transaction happens *)
LEMMA AtomicGoesOn == RestInv /\ [Next]_vars => [Atomic!AtomicNext]_(Atomic!atomicVars)
<1> DEFINE wrote == [c \in Call |-> Wrote(c)]
<1> SUFFICES ASSUME RestInv, [Next]_vars
             PROVE  Atomic!AtomicNext \/ UNCHANGED <<doc, wrote, outcome>>
  BY DEF Atomic!atomicVars
<1> USE DEF RestInv, TypeOK
<1>1. CASE UNCHANGED vars
  BY <1>1 DEF vars, Wrote
<1>2. ASSUME NEW c \in Call, Read(c) PROVE Atomic!AtomicNext \/ UNCHANGED <<doc, wrote, outcome>>
  <2>1. CASE Updater[c][doc] = Undefined
    <3>1. UNCHANGED <<doc, wrote>> /\ wrote[c] = Undefined
      BY <1>2, <2>1 DEF Read, Wrote
    <3>2. outcome[c] = Pending /\ outcome' = [outcome EXCEPT ![c] = Told("declined", doc)]
      BY <1>2, <2>1 DEF Read, Answer
    <3>3. Atomic!Decline(c)
      BY <3>1, <3>2, <2>1 DEF Atomic!Decline, Pending, Told, Atomic!Pending, Atomic!Told
    <3> QED
      BY <3>3 DEF Atomic!AtomicNext
  <2>2. CASE Updater[c][doc] # Undefined
    <3>1. UNCHANGED <<doc, outcome>>
      BY <1>2, <2>2 DEF Read
    <3>2. \A k \in Call : Wrote(k)' = Wrote(k)
      BY <1>2, <2>2 DEF Read, Wrote
    <3> QED
      BY <3>1, <3>2
  <2> QED
    BY <2>1, <2>2
<1>3. ASSUME NEW c \in Call, ServerPut(c) PROVE Atomic!AtomicNext \/ UNCHANGED <<doc, wrote, outcome>>
  <2>1. put[c].state = "sent" /\ UNCHANGED outcome /\ put[c] \in Puts
    BY <1>3 DEF ServerPut
  <2>2. CASE Matches(put[c])
    <3>1. doc' = put[c].body /\ put' = [put EXCEPT ![c].state = "applied"]
      BY <1>3, <2>2 DEF ServerPut
    <3>2. put[c].body = Updater[c][doc] /\ Updater[c][doc] # Undefined
      BY <2>1, <2>2, OnlyTheTagMatches DEF PutsAreUpdates
    <3>3. wrote[c] = Undefined /\ outcome[c].kind \in {"pending", "failed"}
      BY <2>1 DEF Wrote, OutcomesFit
    <3>4. wrote' = [wrote EXCEPT ![c] = Updater[c][doc]]
      BY <3>1, <3>2, <2>1 DEF Wrote, Puts
    <3>5. Atomic!Write(c)
      BY <3>1, <3>2, <3>3, <3>4, <2>1 DEF Atomic!Write
    <3> QED
      BY <3>5 DEF Atomic!AtomicNext
  <2>3. CASE ~Matches(put[c])
    <3>1. UNCHANGED doc /\ put' = [put EXCEPT ![c].state = "refused"]
      BY <1>3, <2>3 DEF ServerPut
    <3>2. \A k \in Call : Wrote(k)' = Wrote(k)
      BY <3>1, <2>1 DEF Wrote, Puts
    <3> QED
      BY <3>1, <3>2, <2>1
  <2> QED
    BY <2>2, <2>3
<1>4. ASSUME NEW c \in Call, Response(c) PROVE Atomic!AtomicNext \/ UNCHANGED <<doc, wrote, outcome>>
  <2>1. outcome[c] = Pending /\ UNCHANGED doc
    BY <1>4 DEF Response
  <2>2. CASE put[c].state = "applied"
    <3>1. outcome' = [outcome EXCEPT ![c] = Told("committed", put[c].body)] /\ UNCHANGED put
      BY <1>4, <2>2 DEF Response, Answer
    <3>2. wrote[c] = put[c].body /\ put[c].body # Undefined /\ UNCHANGED wrote
      BY <2>2, <3>1 DEF Wrote, PutsAreUpdates
    <3>3. Atomic!Commit(c)
      BY <2>1, <3>1, <3>2 DEF Atomic!Commit, Pending, Told, Atomic!Pending, Atomic!Told
    <3> QED
      BY <3>3 DEF Atomic!AtomicNext
  <2>3. CASE put[c].state = "refused"
    <3>1. put' = [put EXCEPT ![c] = NoPut]
      BY <1>4, <2>3 DEF Response
    <3>2. \A k \in Call : Wrote(k)' = Wrote(k)
      BY <3>1, <2>3 DEF Wrote, NoPut
    <3>3. UNCHANGED wrote /\ wrote[c] = Undefined
      BY <3>2, <2>3 DEF Wrote
    <3>4. CASE LastAttempt(c)
      <4>1. outcome' = [outcome EXCEPT ![c] = Told("contended", Undefined)]
        BY <1>4, <2>3, <3>4 DEF Response, Answer
      <4>2. Atomic!GiveUp(c)
        BY <2>1, <3>3, <4>1 DEF Atomic!GiveUp, Pending, Told, Atomic!Pending, Atomic!Told
      <4> QED
        BY <4>2 DEF Atomic!AtomicNext
    <3>5. CASE ~LastAttempt(c)
      BY <1>4, <2>1, <2>3, <3>3, <3>5 DEF Response
    <3> QED
      BY <3>4, <3>5
  <2> QED
    BY <1>4, <2>2, <2>3 DEF Response
<1>5. ASSUME NEW c \in Call, Error(c) PROVE Atomic!AtomicNext \/ UNCHANGED <<doc, wrote, outcome>>
  <2>1. outcome[c] = Pending /\ outcome' = [outcome EXCEPT ![c] = Told("failed", Undefined)]
        /\ UNCHANGED <<doc, wrote>>
    BY <1>5 DEF Error, Answer, Wrote
  <2>2. Atomic!Fail(c)
    BY <2>1 DEF Atomic!Fail, Pending, Told, Atomic!Pending, Atomic!Told
  <2> QED
    BY <2>2 DEF Atomic!AtomicNext
<1>6. ASSUME PlainWrite PROVE Atomic!AtomicNext
  <2>1. Atomic!Patch
    BY <1>6 DEF PlainWrite, Wrote, Atomic!Patch
  <2> QED
    BY <2>1 DEF Atomic!AtomicNext
<1> QED
  BY <1>1, <1>2, <1>3, <1>4, <1>5, <1>6 DEF Next

(* transactionFirebase is atomic: no update is lost or applied twice, also when *)
(* responses are lost, PUTs arrive late, and a document returns to an old text. *)
THEOREM RestIsAtomic == Spec => IsAtomic
<1>1. Spec => []RestInv
  BY RestBegins, RestGoesOn, PTL DEF Spec
<1> QED
  BY <1>1, AtomicBegins, AtomicGoesOn, PTL DEF Spec, IsAtomic, Atomic!AtomicSpec

-----------------------------------------------------------------------------
(* A call is overtaken by writes of others, and each of them writes once *)

Writers   == {k \in Call : Wrote(k) # Undefined}
Others(c) == {k \in Call \ {c} : Wrote(k) # Undefined}

(* The PUT that is on its way was refused, or will be if nothing else happens *)
Overtaken(c) == put[c].state = "refused" \/ (put[c].state = "sent" /\ put[c].ifMatch # doc)

AttemptsAreOvertaken ==
    /\ IsFiniteSet(Writers)
    /\ \A c \in Call : attempt[c] <= writes + Cardinality(Others(c))
    /\ \A c \in Call : Overtaken(c) => attempt[c] + 1 <= writes + Cardinality(Others(c))
    /\ \A c \in Call : outcome[c].kind = "contended" => attempt[c] >= MaxRetries

LEMMA OthersAreCounted ==
    ASSUME IsFiniteSet(Writers), NEW c \in Call
    PROVE  IsFiniteSet(Others(c)) /\ Cardinality(Others(c)) \in Nat
PROOF
<1>1. Others(c) \subseteq Writers
    BY DEF Others, Writers
<1> QED
    BY <1>1, FS_Subset, FS_CardinalityType

(* A step that writes nothing over REST *)
LEMMA OthersStay ==
    ASSUME \A k \in Call : Wrote(k)' = Wrote(k)
    PROVE  Writers' = Writers /\ \A c \in Call : Others(c)' = Others(c)
PROOF
BY DEF Writers, Others

(* The step that applies the PUT of a call *)
LEMMA OthersGrow ==
    ASSUME IsFiniteSet(Writers), NEW c \in Call, Wrote(c) = Undefined, Wrote(c)' # Undefined,
           \A k \in Call \ {c} : Wrote(k)' = Wrote(k)
    PROVE  /\ IsFiniteSet(Writers') /\ Others(c)' = Others(c)
           /\ \A k \in Call \ {c} : Cardinality(Others(k)') = Cardinality(Others(k)) + 1
PROOF
<1>1. Writers' = Writers \cup {c}
    BY DEF Writers
<1>2. Others(c)' = Others(c)
    BY DEF Others
<1>3. ASSUME NEW k \in Call \ {c}
      PROVE  Cardinality(Others(k)') = Cardinality(Others(k)) + 1
    <2>1. Others(k)' = Others(k) \cup {c} /\ c \notin Others(k)
        BY <1>3 DEF Others
    <2> QED
        BY <2>1, <1>3, OthersAreCounted, FS_AddElement
<1> QED
    BY <1>1, <1>2, <1>3, FS_AddElement

LEMMA ContentionBegins == Init => AttemptsAreOvertaken
PROOF
<1> SUFFICES ASSUME Init PROVE AttemptsAreOvertaken
    OBVIOUS
<1>1. \A c \in Call : put[c].state = "none" /\ attempt[c] = 0 /\ outcome[c].kind = "pending"
    BY DEF Init, NoPut, Pending, Told
<1>2. Writers = {} /\ \A c \in Call : Others(c) = {}
    BY <1>1 DEF Writers, Others, Wrote
<1>3. IsFiniteSet({}) /\ Cardinality({}) = 0
    BY FS_EmptySet
<1>4. writes = 0
    BY DEF Init
<1>5. \A c \in Call : Cardinality(Others(c)) = 0
    BY <1>2, <1>3
<1> QED
    BY <1>1, <1>2, <1>3, <1>4, <1>5 DEF AttemptsAreOvertaken, Overtaken

LEMMA ContentionGoesOn == RestInv /\ AttemptsAreOvertaken /\ [Next]_vars => AttemptsAreOvertaken'
PROOF
<1> SUFFICES ASSUME RestInv, AttemptsAreOvertaken, [Next]_vars
             PROVE  AttemptsAreOvertaken'
    OBVIOUS
<1>0. /\ writes \in Nat /\ \A c \in Call : attempt[c] \in Nat /\ Cardinality(Others(c)) \in Nat
      /\ put \in [Call -> Puts] /\ outcome \in [Call -> Outcomes] /\ attempt \in [Call -> 0..MaxRetries]
    BY OthersAreCounted, RetriesAssumption DEF RestInv, TypeOK, AttemptsAreOvertaken
<1>1. ASSUME UNCHANGED <<doc, writes, attempt>>, \A k \in Call : Wrote(k)' = Wrote(k),
             \A k \in Call : Overtaken(k)' => Overtaken(k),
             \A k \in Call : outcome'[k].kind = "contended" => outcome[k].kind = "contended"
      PROVE  AttemptsAreOvertaken'
    BY <1>1, OthersStay DEF AttemptsAreOvertaken
<1>2. ASSUME NEW c \in Call, Read(c)
      PROVE  AttemptsAreOvertaken'
    <2>0. IfMatch(doc) = doc
        BY TagsAreSent DEF RestInv, TypeOK
    <2>1. /\ UNCHANGED <<doc, writes, attempt>> /\ put[c].state = "none" /\ \A k \in Call \ {c} : put'[k] = put[k]
          /\ put'[c] = put[c] \/ (put'[c].state = "sent" /\ put'[c].ifMatch = doc)
        BY <1>0, <1>2, <2>0 DEF Read
    <2>2. \A k \in Call : Wrote(k)' = Wrote(k)
        BY <2>1 DEF Wrote
    <2>3. \A k \in Call : Overtaken(k)' => Overtaken(k)
        BY <2>1 DEF Overtaken
    <2>4. \A k \in Call : outcome'[k].kind = "contended" => outcome[k].kind = "contended"
        BY <1>0, <1>2 DEF Read, Answer, Told
    <2> QED
        BY <1>1, <2>1, <2>2, <2>3, <2>4
<1>3. ASSUME NEW c \in Call, ServerPut(c)
      PROVE  AttemptsAreOvertaken'
    <2>1. put[c].state = "sent" /\ UNCHANGED <<writes, attempt, outcome>>
        BY <1>3 DEF ServerPut
    <2>2. CASE Matches(put[c])
        <3>1. put'[c].state = "applied" /\ put'[c].body = put[c].body /\ \A k \in Call \ {c} : put'[k] = put[k]
            BY <1>0, <1>3, <2>2 DEF ServerPut, Puts
        <3>2. Wrote(c) = Undefined /\ Wrote(c)' # Undefined /\ \A k \in Call \ {c} : Wrote(k)' = Wrote(k)
            BY <2>1, <3>1 DEF Wrote, RestInv, PutsAreUpdates
        <3>3. /\ IsFiniteSet(Writers') /\ Others(c)' = Others(c)
              /\ \A k \in Call \ {c} : Cardinality(Others(k)') = Cardinality(Others(k)) + 1
            BY <3>2, OthersGrow DEF AttemptsAreOvertaken
        <3>4. \A k \in Call \ {c} : attempt[k] + 1 <= writes + (Cardinality(Others(k)) + 1)
            BY <1>0 DEF AttemptsAreOvertaken
        <3>5. \A k \in Call \ {c} : attempt[k] <= writes + (Cardinality(Others(k)) + 1)
            BY <1>0 DEF AttemptsAreOvertaken
        <3>6. ~Overtaken(c)'
            BY <3>1 DEF Overtaken
        <3> QED
            BY <2>1, <3>3, <3>4, <3>5, <3>6 DEF AttemptsAreOvertaken
    <2>3. CASE ~Matches(put[c])
        <3>1. put'[c].state = "refused" /\ UNCHANGED doc /\ \A k \in Call \ {c} : put'[k] = put[k]
            BY <1>0, <1>3, <2>3 DEF ServerPut, Puts
        <3>2. \A k \in Call : Wrote(k)' = Wrote(k)
            BY <2>1, <3>1 DEF Wrote
        <3>3. Overtaken(c)
            BY <2>1, <2>3, OnlyTheTagMatches DEF Overtaken, RestInv, PutsAreUpdates
        <3>4. \A k \in Call : Overtaken(k)' => Overtaken(k)
            BY <3>1, <3>3 DEF Overtaken
        <3> QED
            BY <1>1, <2>1, <3>1, <3>2, <3>4
    <2> QED
        BY <2>2, <2>3
<1>4. ASSUME NEW c \in Call, Response(c)
      PROVE  AttemptsAreOvertaken'
    <2>1. CASE put[c].state = "applied"
        <3>1. UNCHANGED <<doc, writes, attempt, put>>
            BY <1>4, <2>1 DEF Response
        <3>2. \A k \in Call : outcome'[k].kind = "contended" => outcome[k].kind = "contended"
            BY <1>0, <1>4, <2>1 DEF Response, Answer, Told
        <3> QED
            BY <1>1, <3>1, <3>2 DEF Overtaken, Wrote
    <2>2. CASE put[c].state = "refused"
        <3>1. /\ attempt'[c] = attempt[c] + 1 /\ \A k \in Call \ {c} : attempt'[k] = attempt[k] /\ put'[k] = put[k]
              /\ put'[c] = NoPut /\ UNCHANGED <<doc, writes>>
            BY <1>0, <1>4, <2>2 DEF Response
        <3>2. \A k \in Call : Wrote(k)' = Wrote(k)
            BY <2>2, <3>1 DEF Wrote, NoPut
        <3>3. ~Overtaken(c)' /\ \A k \in Call \ {c} : Overtaken(k)' => Overtaken(k)
            BY <3>1 DEF Overtaken, NoPut
        <3>4. attempt[c] + 1 <= writes + Cardinality(Others(c))
            BY <2>2 DEF AttemptsAreOvertaken, Overtaken
        <3>5. \A k \in Call \ {c} : outcome'[k] = outcome[k]
            BY <1>0, <1>4, <2>2 DEF Response, Answer
        <3>6. outcome'[c].kind = "contended" => attempt[c] + 1 >= MaxRetries
            <4>1. CASE LastAttempt(c)
                BY <4>1 DEF LastAttempt
            <4>2. CASE ~LastAttempt(c)
                BY <1>4, <2>2, <4>2 DEF Response, Pending, Told
            <4> QED
                BY <4>1, <4>2
        <3> QED
            BY <3>1, <3>2, <3>3, <3>4, <3>5, <3>6, OthersStay DEF AttemptsAreOvertaken
    <2> QED
        BY <1>4, <2>1, <2>2 DEF Response
<1>5. ASSUME NEW c \in Call, Error(c)
      PROVE  AttemptsAreOvertaken'
    <2>1. \A k \in Call : outcome'[k].kind = "contended" => outcome[k].kind = "contended"
        BY <1>0, <1>5 DEF Error, Answer, Told
    <2> QED
        BY <1>1, <1>5, <2>1 DEF Error, Overtaken, Wrote
<1>6. CASE PlainWrite
    <2>1. writes' = writes + 1 /\ UNCHANGED <<attempt, put, outcome>>
        BY <1>6 DEF PlainWrite
    <2>2. \A k \in Call : Wrote(k)' = Wrote(k)
        BY <2>1 DEF Wrote
    <2>3. \A k \in Call : attempt[k] + 1 <= (writes + 1) + Cardinality(Others(k))
        BY <1>0 DEF AttemptsAreOvertaken
    <2>4. \A k \in Call : attempt[k] <= (writes + 1) + Cardinality(Others(k))
        BY <1>0 DEF AttemptsAreOvertaken
    <2> QED
        BY <2>1, <2>2, <2>3, <2>4, OthersStay DEF AttemptsAreOvertaken
<1>7. CASE UNCHANGED vars
    BY <1>1, <1>7 DEF vars, Overtaken, Wrote
<1> QED
    BY <1>2, <1>3, <1>4, <1>5, <1>6, <1>7 DEF Next

LEMMA RestContentionHolds == RestInv /\ AttemptsAreOvertaken => RestContention
PROOF
<1> SUFFICES ASSUME RestInv, AttemptsAreOvertaken, NEW c \in Call, outcome[c].kind = "contended"
             PROVE  writes + Cardinality({k \in Call \ {c} : Wrote(k) # Undefined}) >= MaxRetries
    BY DEF RestContention
<1>1. attempt[c] >= MaxRetries /\ attempt[c] <= writes + Cardinality(Others(c))
    BY DEF AttemptsAreOvertaken
<1>2. attempt[c] \in Nat /\ writes \in Nat /\ Cardinality(Others(c)) \in Nat /\ MaxRetries \in Nat
    BY OthersAreCounted, RetriesAssumption DEF RestInv, TypeOK, AttemptsAreOvertaken
<1> QED
    BY <1>1, <1>2 DEF Others

-----------------------------------------------------------------------------
(* SqliteStore.transact: what a call has read *)

ReadsAreCurrent ==
    \A c \in Call :
        /\ stage[c] \in {"revision", "updated"} => before[c] <= revision
        /\ stage[c] = "updated" =>
              /\ existing[c] \in Document
              /\ Updater[c][existing[c]] # Undefined
              /\ before[c] = revision => existing[c] = row

AnswersFit ==
    \A c \in Call : stage[c] # "end" => answer[c] = Pending /\ tries[c] < MaxRetries

SqliteInv == SqliteTypeOK /\ ReadsAreCurrent /\ AnswersFit

LEMMA SqliteBegins == SqliteInit => SqliteInv
BY RetriesAssumption DEF SqliteInit, SqliteInv, SqliteTypeOK, ReadsAreCurrent, AnswersFit, Pending, Told,
   Kinds, Outcomes

(* What an end does to the invariant: the call no longer depends on what it read *)
LEMMA Ending ==
    ASSUME SqliteInv, NEW c \in Call, NEW k \in Kinds, NEW s \in Document \cup {Undefined}, End(c, k, s)
    PROVE  /\ stage' \in [Call -> {"start", "revision", "updated", "end"}] /\ stage'[c] = "end"
           /\ answer' \in [Call -> Outcomes] /\ answer'[c] = Told(k, s)
           /\ \A b \in Call \ {c} : stage'[b] = stage[b] /\ answer'[b] = answer[b]
BY ToldIsAnOutcome DEF SqliteInv, SqliteTypeOK, End

LEMMA SqliteGoesOn == SqliteInv /\ [SqliteNext]_sqliteVars => SqliteInv'
<1> SUFFICES ASSUME SqliteInv, [SqliteNext]_sqliteVars PROVE SqliteInv'
  OBVIOUS
<1> USE DEF SqliteInv, SqliteTypeOK
<1>1. CASE UNCHANGED sqliteVars
  BY <1>1 DEF sqliteVars, ReadsAreCurrent, AnswersFit
<1>2. ASSUME NEW c \in Call, ReadRevision(c) PROVE SqliteInv'
  BY <1>2 DEF ReadRevision, ReadsAreCurrent, AnswersFit
<1>3. ASSUME NEW c \in Call, ReadDocument(c) PROVE SqliteInv'
  <2>1. existing' = [existing EXCEPT ![c] = row] /\ UNCHANGED <<row, revision, storeWrites, tries, before>>
    BY <1>3 DEF ReadDocument
  <2>2. CASE Updater[c][row] = Undefined
    <3>1. End(c, "declined", row)
      BY <1>3, <2>2 DEF ReadDocument
    <3> QED
      BY <2>1, <3>1, Ending DEF Kinds, ReadsAreCurrent, AnswersFit
  <2>3. CASE Updater[c][row] # Undefined
    <3>1. stage' = [stage EXCEPT ![c] = "updated"] /\ UNCHANGED answer /\ stage[c] = "revision"
      BY <1>3, <2>3 DEF ReadDocument
    <3> QED
      BY <2>1, <2>3, <3>1 DEF ReadsAreCurrent, AnswersFit
  <2> QED
    BY <2>2, <2>3
<1>4. ASSUME NEW c \in Call, CommitOrRetry(c) PROVE SqliteInv'
  <2> DEFINE next == Updater[c][existing[c]]
  <2>1. stage[c] = "updated" /\ UNCHANGED <<storeWrites, before, existing>>
    BY <1>4 DEF CommitOrRetry
  <2>2. next \in Document
    BY <2>1, UpdaterAssumption DEF ReadsAreCurrent
  <2>3. CASE UnchangedSince(c)
    <3>1. row' = next /\ revision' = revision + 1 /\ UNCHANGED tries /\ End(c, "committed", next)
      BY <1>4, <2>3 DEF CommitOrRetry, Stored
    <3> HIDE DEF next
    <3>2. ReadsAreCurrent'
      BY <2>1, <3>1, <2>2, Ending DEF Kinds, ReadsAreCurrent
    <3>3. AnswersFit'
      BY <2>1, <3>1, <2>2, Ending DEF Kinds, AnswersFit
    <3> QED
      BY <2>1, <3>1, <3>2, <3>3, <2>2, Ending DEF Kinds
  <2>4. CASE ~UnchangedSince(c)
    <3>1. tries' = [tries EXCEPT ![c] = @ + 1] /\ UNCHANGED <<row, revision>>
      BY <1>4, <2>4 DEF CommitOrRetry
    <3>2. tries[c] < MaxRetries
      BY <2>1 DEF AnswersFit
    <3>3. tries' \in [Call -> 0..MaxRetries]
      BY <3>1, <3>2, RetriesAssumption
    <3>4. CASE LastTry(c)
      <4>1. End(c, "contended", Undefined)
        BY <1>4, <2>4, <3>4 DEF CommitOrRetry
      <4> QED
        BY <2>1, <3>1, <3>3, <4>1, Ending DEF Kinds, ReadsAreCurrent, AnswersFit
    <3>5. CASE ~LastTry(c)
      <4>1. stage' = [stage EXCEPT ![c] = "start"] /\ UNCHANGED answer
        BY <1>4, <2>4, <3>5 DEF CommitOrRetry
      <4>2. tries[c] + 1 < MaxRetries
        BY <3>5, <3>2, RetriesAssumption DEF LastTry
      <4>3. AnswersFit'
        BY <2>1, <3>1, <4>1, <4>2 DEF AnswersFit
      <4> QED
        BY <2>1, <3>1, <3>3, <4>1, <4>3 DEF ReadsAreCurrent
    <3> QED
      BY <3>4, <3>5
  <2> QED
    BY <2>3, <2>4
<1>5. ASSUME NEW c \in Call, StatementFails(c) PROVE SqliteInv'
  <2>1. End(c, "failed", Undefined) /\ UNCHANGED <<row, revision, storeWrites, tries, before, existing>>
    BY <1>5 DEF StatementFails
  <2> QED
    BY <2>1, Ending DEF Kinds, ReadsAreCurrent, AnswersFit
<1>6. ASSUME StoreWrite PROVE SqliteInv'
  <2>1. row' \in Document /\ revision' = revision + 1 /\ storeWrites' = storeWrites + 1
        /\ UNCHANGED <<stage, tries, before, existing, answer>>
    BY <1>6, PatchesAssumption DEF StoreWrite, Stored
  <2> QED
    BY <2>1 DEF ReadsAreCurrent, AnswersFit
<1> QED
  BY <1>1, <1>2, <1>3, <1>4, <1>5, <1>6 DEF SqliteNext

(* Documents stay documents, and no call makes more attempts than it may *)
THEOREM SqliteTypes == SqliteSpec => []SqliteTypeOK
<1>1. SqliteSpec => []SqliteInv
  BY SqliteBegins, SqliteGoesOn, PTL DEF SqliteSpec
<1> QED
  BY <1>1, PTL DEF SqliteInv

-----------------------------------------------------------------------------
LEMMA RowBegins == SqliteInit => AtomicRow!AtomicInit
BY DEF SqliteInit, AtomicRow!AtomicInit, Stores, Pending, Told, AtomicRow!Pending, AtomicRow!Told

(* A step that leaves the outcomes alone writes, for AtomicDocument, nothing *)
LEMMA Silent ==
    ASSUME UNCHANGED answer
    PROVE  \A c \in Call : Stores(c)' = Stores(c)
BY DEF Stores

(* The commit that finds the revision it started from is where a call happens *)
LEMMA RowSteps == SqliteInv /\ [SqliteNext]_sqliteVars => [AtomicRow!AtomicNext]_(AtomicRow!atomicVars)
<1> DEFINE wrote == [c \in Call |-> Stores(c)]
<1> SUFFICES ASSUME SqliteInv, [SqliteNext]_sqliteVars
             PROVE  AtomicRow!AtomicNext \/ UNCHANGED <<row, wrote, answer>>
  BY DEF AtomicRow!atomicVars
<1> USE DEF SqliteInv, SqliteTypeOK
<1>1. CASE UNCHANGED sqliteVars
  BY <1>1 DEF sqliteVars, Stores
<1>2. ASSUME NEW c \in Call, ReadRevision(c) PROVE UNCHANGED <<row, wrote, answer>>
  BY <1>2, Silent DEF ReadRevision
<1>a. ASSUME NEW c \in Call, stage[c] # "end", NEW k \in Kinds, k # "committed",
             NEW s \in Document \cup {Undefined}, End(c, k, s)
      PROVE  /\ answer[c] = Pending /\ wrote[c] = Undefined /\ UNCHANGED wrote
             /\ answer' = [answer EXCEPT ![c] = Told(k, s)]
  <2>1. answer[c] = Pending /\ answer' = [answer EXCEPT ![c] = Told(k, s)]
    BY <1>a DEF AnswersFit, End
  <2>2. Told(k, s).kind # "committed" /\ Pending.kind # "committed"
    BY <1>a, ToldIsAnOutcome DEF Pending, Told
  <2>3. \A b \in Call : Stores(b)' = Stores(b)
    BY <2>1, <2>2 DEF Stores
  <2> QED
    BY <2>1, <2>2, <2>3 DEF Stores
<1>3. ASSUME NEW c \in Call, ReadDocument(c) PROVE AtomicRow!AtomicNext \/ UNCHANGED <<row, wrote, answer>>
  <2>1. CASE Updater[c][row] = Undefined
    <3>1. End(c, "declined", row) /\ UNCHANGED row /\ stage[c] = "revision"
      BY <1>3, <2>1 DEF ReadDocument
    <3>2. AtomicRow!Decline(c)
      BY <3>1, <1>a, <2>1 DEF AtomicRow!Decline, Kinds, Pending, Told, AtomicRow!Pending, AtomicRow!Told
    <3> QED
      BY <3>2 DEF AtomicRow!AtomicNext
  <2>2. CASE Updater[c][row] # Undefined
    BY <1>3, <2>2, Silent DEF ReadDocument
  <2> QED
    BY <2>1, <2>2
<1>4. ASSUME NEW c \in Call, CommitOrRetry(c) PROVE AtomicRow!AtomicNext \/ UNCHANGED <<row, wrote, answer>>
  <2>1. stage[c] = "updated" /\ answer[c] = Pending
    BY <1>4 DEF CommitOrRetry, AnswersFit
  <2>2. CASE UnchangedSince(c)
    <3>1. existing[c] = row /\ Updater[c][row] # Undefined
      BY <2>1, <2>2 DEF UnchangedSince, ReadsAreCurrent
    <3>2. row' = Updater[c][row] /\ answer' = [answer EXCEPT ![c] = Told("committed", Updater[c][row])]
      BY <1>4, <2>2, <3>1 DEF CommitOrRetry, Stored, End
    <3>3. wrote[c] = Undefined
      BY <2>1 DEF Stores, Pending, Told
    <3>4. \A b \in Call : Stores(b)' = IF b = c THEN Updater[c][row] ELSE Stores(b)
      BY <3>2 DEF Stores, Told
    <3>5. wrote' = [wrote EXCEPT ![c] = Updater[c][row]]
      BY <3>4
    <3>6. answer[c].kind = "pending"
      BY <2>1 DEF Pending, Told
    <3>7. AtomicRow!Write(c)
      BY <2>1, <3>1, <3>2, <3>3, <3>5, <3>6 DEF AtomicRow!Write, Pending, Told, AtomicRow!Pending, AtomicRow!Told
    <3> QED
      BY <3>7 DEF AtomicRow!AtomicNext
  <2>3. CASE ~UnchangedSince(c) /\ LastTry(c)
    <3>1. End(c, "contended", Undefined) /\ UNCHANGED row
      BY <1>4, <2>3 DEF CommitOrRetry
    <3>2. AtomicRow!GiveUp(c)
      BY <3>1, <2>1, <1>a DEF AtomicRow!GiveUp, Kinds, Pending, Told, AtomicRow!Pending, AtomicRow!Told
    <3> QED
      BY <3>2 DEF AtomicRow!AtomicNext
  <2>4. CASE ~UnchangedSince(c) /\ ~LastTry(c)
    BY <1>4, <2>4, Silent DEF CommitOrRetry
  <2> QED
    BY <2>2, <2>3, <2>4
<1>5. ASSUME NEW c \in Call, StatementFails(c) PROVE AtomicRow!AtomicNext
  <2>1. End(c, "failed", Undefined) /\ UNCHANGED row /\ stage[c] # "end"
    BY <1>5 DEF StatementFails
  <2>2. AtomicRow!Fail(c)
    BY <2>1, <1>a DEF AtomicRow!Fail, Kinds, Pending, Told, AtomicRow!Pending, AtomicRow!Told
  <2> QED
    BY <2>2 DEF AtomicRow!AtomicNext
<1>6. ASSUME StoreWrite PROVE AtomicRow!AtomicNext \/ UNCHANGED <<row, wrote, answer>>
  <2>1. UNCHANGED answer /\ UNCHANGED wrote
    BY <1>6, Silent DEF StoreWrite
  <2>2. (\E p \in Patches : row' = p[row]) \/ UNCHANGED row
    BY <1>6 DEF StoreWrite, Stored
  <2>3. ASSUME NEW p \in Patches, row' = p[row] PROVE AtomicRow!Patch
    BY <2>1, <2>3 DEF AtomicRow!Patch
  <2> QED
    BY <2>1, <2>2, <2>3 DEF AtomicRow!AtomicNext
<1> QED
  BY <1>1, <1>2, <1>3, <1>4, <1>5, <1>6 DEF SqliteNext

(* transact is atomic although it reads the revision and the document in two *)
(* statements and awaits its updater between them and the commit.            *)
THEOREM SqliteIsAtomic == SqliteSpec => RowIsAtomic
<1>1. SqliteSpec => []SqliteInv
  BY SqliteBegins, SqliteGoesOn, PTL DEF SqliteSpec
<1> QED
  BY <1>1, RowBegins, RowSteps, PTL DEF SqliteSpec, RowIsAtomic, AtomicRow!AtomicSpec

-----------------------------------------------------------------------------
(* Every attempt that fails has seen the revision grow *)

TriesAreOvertaken ==
    \A c \in Call :
        /\ tries[c] <= revision
        /\ stage[c] \in {"revision", "updated"} => tries[c] <= before[c]
        /\ answer[c].kind = "contended" => tries[c] >= MaxRetries

LEMMA RevisionsBegin == SqliteInit => TriesAreOvertaken
PROOF
<1> SUFFICES ASSUME SqliteInit PROVE TriesAreOvertaken
    OBVIOUS
<1>1. revision = 0 /\ \A c \in Call : stage[c] = "start" /\ tries[c] = 0 /\ answer[c] = Pending
    BY DEF SqliteInit
<1>2. Pending.kind = "pending"
    BY DEF Pending, Told
<1>3. 0 <= 0
    OBVIOUS
<1>4. ASSUME NEW c \in Call PROVE tries[c] <= revision
    BY <1>1, <1>3, Zenon
<1> QED
    BY <1>1, <1>2, <1>4 DEF TriesAreOvertaken

LEMMA RevisionsGoOn == SqliteInv /\ TriesAreOvertaken /\ [SqliteNext]_sqliteVars => TriesAreOvertaken'
PROOF
<1> SUFFICES ASSUME SqliteInv, TriesAreOvertaken, [SqliteNext]_sqliteVars
             PROVE  TriesAreOvertaken'
    OBVIOUS
<1>0. SqliteTypeOK /\ revision \in Nat /\ MaxRetries \in Nat /\ \A c \in Call : tries[c] \in Nat /\ before[c] \in Nat
    BY RetriesAssumption DEF SqliteInv, SqliteTypeOK
<1>1. CASE UNCHANGED sqliteVars
    BY <1>1 DEF sqliteVars, TriesAreOvertaken
<1>2. ASSUME NEW c \in Call, ReadRevision(c)
      PROVE  TriesAreOvertaken'
    BY <1>0, <1>2 DEF ReadRevision, TriesAreOvertaken, SqliteTypeOK
<1>3. ASSUME NEW c \in Call, ReadDocument(c)
      PROVE  TriesAreOvertaken'
    BY <1>0, <1>3 DEF ReadDocument, End, Told, TriesAreOvertaken, SqliteTypeOK
<1>4. ASSUME NEW c \in Call, CommitOrRetry(c)
      PROVE  TriesAreOvertaken'
    <2>1. stage[c] = "updated" /\ tries[c] <= before[c] /\ before[c] <= revision /\ UNCHANGED before
        BY <1>4 DEF CommitOrRetry, TriesAreOvertaken, SqliteInv, ReadsAreCurrent
    <2>2. CASE UnchangedSince(c)
        <3>1. revision' = revision + 1 /\ UNCHANGED tries
            BY <1>4, <2>2 DEF CommitOrRetry, Stored
        <3>2. /\ stage'[c] = "end" /\ answer'[c].kind = "committed"
              /\ \A k \in Call \ {c} : stage'[k] = stage[k] /\ answer'[k] = answer[k]
            BY <1>0, <1>4, <2>2 DEF CommitOrRetry, End, Told, SqliteTypeOK
        <3>3. \A k \in Call : tries[k] <= revision + 1
            BY <1>0 DEF TriesAreOvertaken
        <3> QED
            BY <2>1, <3>1, <3>2, <3>3 DEF TriesAreOvertaken
    <2>3. CASE ~UnchangedSince(c)
        <3>1. /\ tries'[c] = tries[c] + 1 /\ \A k \in Call \ {c} : tries'[k] = tries[k]
              /\ UNCHANGED revision
            BY <1>0, <1>4, <2>3 DEF CommitOrRetry, SqliteTypeOK
        <3>2. tries[c] + 1 <= revision
            BY <1>0, <2>1, <2>3 DEF UnchangedSince
        <3>3. /\ stage'[c] \in {"start", "end"}
              /\ \A k \in Call \ {c} : stage'[k] = stage[k] /\ answer'[k] = answer[k]
            BY <1>0, <1>4, <2>3 DEF CommitOrRetry, End, SqliteTypeOK
        <3>4. answer'[c].kind = "contended" => tries[c] + 1 >= MaxRetries
            <4>1. CASE LastTry(c)
                BY <4>1 DEF LastTry
            <4>2. CASE ~LastTry(c)
                BY <1>4, <2>1, <2>3, <4>2 DEF CommitOrRetry, SqliteInv, AnswersFit, Pending, Told
            <4> QED
                BY <4>1, <4>2
        <3> QED
            BY <2>1, <3>1, <3>2, <3>3, <3>4 DEF TriesAreOvertaken
    <2> QED
        BY <2>2, <2>3
<1>5. ASSUME NEW c \in Call, StatementFails(c)
      PROVE  TriesAreOvertaken'
    BY <1>0, <1>5 DEF StatementFails, End, Told, TriesAreOvertaken, SqliteTypeOK
<1>6. CASE StoreWrite
    BY <1>0, <1>6 DEF StoreWrite, Stored, TriesAreOvertaken
<1> QED
    BY <1>1, <1>2, <1>3, <1>4, <1>5, <1>6 DEF SqliteNext

LEMMA SqliteContentionHolds == SqliteInv /\ TriesAreOvertaken => SqliteContention
PROOF
<1> SUFFICES ASSUME SqliteInv, TriesAreOvertaken, NEW c \in Call, answer[c].kind = "contended"
             PROVE  revision >= MaxRetries
    BY DEF SqliteContention
<1>1. tries[c] \in Nat /\ revision \in Nat /\ MaxRetries \in Nat
    BY RetriesAssumption DEF SqliteInv, SqliteTypeOK
<1> QED
    BY <1>1 DEF TriesAreOvertaken

-----------------------------------------------------------------------------
(* Whichever provider a process uses, a transaction that reports contention was    *)
(* overtaken by a write of somebody else in each of its attempts, for any number   *)
(* of calls and of attempts: contention is always somebody's progress.             *)
THEOREM ContentionIsProgress == TransactionsSpec => []ContentionMeansProgress
PROOF
<1> DEFINE RestPart   == RestInv /\ AttemptsAreOvertaken
           SqlitePart == SqliteInv /\ TriesAreOvertaken
<1>1. TransactionsInit => RestPart /\ SqlitePart
    BY RestBegins, ContentionBegins, SqliteBegins, RevisionsBegin DEF TransactionsInit
<1>2. [TransactionsNext]_transactionVars => [Next]_vars /\ [SqliteNext]_sqliteVars
    BY DEF TransactionsNext, transactionVars, vars, sqliteVars
<1>3. RestPart /\ [TransactionsNext]_transactionVars => RestPart'
    BY <1>2, RestGoesOn, ContentionGoesOn
<1>4. SqlitePart /\ [TransactionsNext]_transactionVars => SqlitePart'
    BY <1>2, SqliteGoesOn, RevisionsGoOn
<1>5. RestPart /\ SqlitePart => ContentionMeansProgress
    BY RestContentionHolds, SqliteContentionHolds DEF ContentionMeansProgress
<1> QED
    BY <1>1, <1>3, <1>4, <1>5, PTL DEF TransactionsSpec
=============================================================================
