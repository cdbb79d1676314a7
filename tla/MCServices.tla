----------------------------- MODULE MCServices -----------------------------
(* s1 and s2 carry the same idempotency key, s3 another one *)
EXTENDS ServicePlatform, TLC

CONSTANTS Actor, s1, s2, s3, k1, k2

(* A selection: the parameter is varied over one kind of file, the file over a parameter *)
(* that is left empty.  FormsAreTrue in ServiceProofs is about all contracts.            *)
MCContract ==
    {c \in Contracts :
       \/ /\ c.file = "managed" /\ ~c.needed /\ ~c.several /\ ~c.alike
          /\ (c.default # "" => c.shown = "never") /\ (c.omitted => c.shown = "sometimes" /\ c.required)
          /\ (c.shown = "sometimes" => c.rule \in {"list", "number"})
       \/ /\ c.rule = "free" /\ ~c.required /\ c.shown = "never" /\ ~c.omitted /\ c.default = ""
          /\ c.file # "managed" /\ (c.several => c.needed) /\ (c.alike => c.needed /\ ~c.several)}

MCKeyOf == [s \in Submission |-> IF s = s3 THEN k2 ELSE k1]

(* Only one part moves: the two actors of every part are the same pair of values, *)
(* which are exchanged in all of them at once.                                   *)
Symmetric == Permutations(Actor)
=============================================================================
