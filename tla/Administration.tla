---------------------------- MODULE Administration ----------------------------
(***************************************************************************)
(* The administration of one SQLite database: logins                       *)
(* (services/adminAuthService.js, models/AdminUser.js), the check of every *)
(* request (middleware/adminAuth.js), and the editing, export and import   *)
(* of settings (services/adminDataService.js with AdminDataView.vue).      *)
(*                                                                         *)
(* Sessions are browsers of the default administrator; other processes     *)
(* write to the same database.  A setting is its revision: every write     *)
(* makes a new one.  However many rows a step writes, the revision of the  *)
(* database is counted up by one, since it is only compared.               *)
(***************************************************************************)
EXTENDS Naturals, FiniteSets

CONSTANTS
    Session, NoAccount, Setting,
    MaxRevision   \* bound: revisions of the database

ASSUME AdminAssumption == NoAccount \notin Session /\ MaxRevision \in Nat

VARIABLES
    account,    \* admin_users/admin: its _id, named after the login that made it
    active,     \* its isActive
    founders,   \* logins that found no account
    signing,    \* [Session -> how far loginAdmin has come]
    signed,     \* [Session -> the _id in its copy of the account, then in its token]
    settings,   \* [Setting -> revision]
    revision,   \* of the database
    desk        \* [Session -> what its view works on]

adminVars   == <<account, active, founders, signing, signed, settings, revision, desk>>
accountVars == <<account, active, founders, signing, signed>>

Clear == [at |-> "clear", keys |-> {}, seen |-> [k \in Setting |-> 0], base |-> 0]

AdminTypeOK ==
    /\ account \in Session \cup {NoAccount} /\ active \in BOOLEAN /\ founders \subseteq Session
    /\ signing \in [Session -> {"no", "founding", "ready", "comparing", "saved", "in"}]
    /\ signed \in [Session -> Session \cup {NoAccount}]
    /\ settings \in [Setting -> 0..MaxRevision] /\ revision \in 0..MaxRevision
    /\ desk \in [Session -> [at : {"clear", "editing", "composed", "previewed", "backed up"}, keys : SUBSET Setting,
                             seen : [Setting -> 0..MaxRevision], base : 0..MaxRevision]]

AdminInit ==
    /\ account = NoAccount /\ active = FALSE /\ founders = {}
    /\ signing = [s \in Session |-> "no"] /\ signed = [s \in Session |-> NoAccount]
    /\ settings = [k \in Setting |-> 0] /\ revision = 0
    /\ desk = [s \in Session |-> Clear]

WritesDatabase == revision < MaxRevision /\ revision' = revision + 1

-----------------------------------------------------------------------------
(* loginAdmin.  A wrong password, like every failure, ends in an audit row. *)

SigningIs(s, stage) == signing[s] = stage
SigningTo(s, stage) == signing' = [signing EXCEPT ![s] = stage]

(* Mutant: the default account is made on every login *)
NeedsAccountAlways == TRUE

NeedsAccount == account = NoAccount

(* ensureDefaultAdmin counts the accounts, then hashes the password *)
LoginCounts(s) ==
    /\ SigningIs(s, "no")
    /\ SigningTo(s, IF NeedsAccount THEN "founding" ELSE "ready")
    /\ founders' = IF account = NoAccount THEN founders \cup {s} ELSE founders
    /\ UNCHANGED <<account, active, signed, settings, revision, desk>>

(* AdminUser.create replaces what is there, under an _id of its own *)
LoginFounds(s) ==
    /\ SigningIs(s, "founding") /\ SigningTo(s, "ready")
    /\ account' = s /\ active' = TRUE /\ WritesDatabase
    /\ UNCHANGED <<founders, signed, settings, desk>>

(* findOne, and the test of isActive *)
LoginReads(s) ==
    /\ SigningIs(s, "ready") /\ active
    /\ SigningTo(s, "comparing") /\ signed' = [signed EXCEPT ![s] = account]
    /\ UNCHANGED <<account, active, founders, settings, revision, desk>>

LoginRefused(s) ==
    /\ \/ SigningIs(s, "comparing")
       \/ SigningIs(s, "ready") /\ ~active
    /\ SigningTo(s, "no") /\ WritesDatabase
    /\ signed' = [signed EXCEPT ![s] = NoAccount]
    /\ UNCHANGED <<account, active, founders, settings, desk>>

(* The password matches: save() writes the copy, isActive included *)
LoginSaves(s) ==
    /\ SigningIs(s, "comparing") /\ SigningTo(s, "saved")
    /\ account' = signed[s] /\ active' = TRUE /\ WritesDatabase
    /\ UNCHANGED <<founders, signed, settings, desk>>

(* The audit row, and the token for the _id of the copy *)
LoginAnswered(s) ==
    /\ SigningIs(s, "saved") /\ SigningTo(s, "in") /\ WritesDatabase
    /\ UNCHANGED <<account, active, founders, signed, settings, desk>>

(* An account is only deactivated in the database itself *)
Deactivated ==
    /\ active /\ active' = FALSE /\ WritesDatabase
    /\ UNCHANGED <<account, founders, signing, signed, settings, desk>>

(* logoutAdmin, or an answer 401 (clearAdminSession): the view is left *)
SignOut(s) ==
    /\ SigningIs(s, "in") /\ SigningTo(s, "no")
    /\ signed' = [signed EXCEPT ![s] = NoAccount] /\ desk' = [desk EXCEPT ![s] = Clear]
    /\ WritesDatabase
    /\ UNCHANGED <<account, active, founders, settings>>

(* adminAuth reads the account for every request *)
Served(s) == SigningIs(s, "in") /\ signed[s] = account /\ active

-----------------------------------------------------------------------------
(* Settings.  A step that is refused (STALE_RECORD, STALE_IMPORT, INVALID_PREVIEW) *)
(* changes nothing; the view keeps its editor or its preview.                     *)

(* openRecord and beginEdit: the editor keeps the revision it was opened with *)
OpenRecord(s, k) ==
    /\ Served(s) /\ desk[s] = Clear
    /\ desk' = [desk EXCEPT ![s] = [at |-> "editing", keys |-> {k}, seen |-> settings, base |-> 0]]
    /\ UNCHANGED <<accountVars, settings, revision>>

SettingsUnchanged(s) == \A k \in desk[s].keys : settings[k] = desk[s].seen[k]

WriteSettings(s) ==
    /\ settings' = [k \in Setting |-> IF k \in desk[s].keys THEN settings[k] + 1 ELSE settings[k]]
    /\ WritesDatabase
    /\ desk' = [desk EXCEPT ![s] = Clear]
    /\ UNCHANGED accountVars

(* save *)
SaveEdit(s) ==
    /\ Served(s) /\ desk[s].at = "editing"
    /\ SettingsUnchanged(s) /\ WriteSettings(s)

(* An import file with the revisions somebody has seen *)
ComposeImport(s) ==
    /\ desk[s] = Clear /\ SigningIs(s, "in")
    /\ \E keys \in (SUBSET Setting) \ {{}} :
          desk' = [desk EXCEPT ![s] = [at |-> "composed", keys |-> keys, seen |-> settings, base |-> 0]]
    /\ UNCHANGED <<accountVars, settings, revision>>

(* previewImport: without conflicts the view offers to apply it, for ten minutes *)
PreviewImport(s) ==
    /\ Served(s) /\ desk[s].at \in {"composed", "previewed"} /\ SettingsUnchanged(s)
    /\ desk' = [desk EXCEPT ![s].at = "previewed", ![s].seen = settings, ![s].base = revision]
    /\ UNCHANGED <<accountVars, settings, revision>>

(* invalidateImport, a new editor or the button Cancel *)
Abandon(s) ==
    /\ desk[s].at \in {"editing", "composed", "previewed"}
    /\ desk' = [desk EXCEPT ![s] = Clear]
    /\ UNCHANGED <<accountVars, settings, revision>>

(* applyImport up to the backup: the token is this one and the database unchanged *)
ApplyBacksUp(s) ==
    /\ Served(s) /\ desk[s].at = "previewed" /\ desk[s].base = revision
    /\ desk' = [desk EXCEPT ![s].at = "backed up"]
    /\ UNCHANGED <<accountVars, settings, revision>>

(* Mutant: the check before the backup is enough *)
StillAsPreviewedOnce(s) == SettingsUnchanged(s)

StillAsPreviewed(s) == desk[s].base = revision /\ SettingsUnchanged(s)

(* The transaction after the backup; other processes had time to write *)
ApplyWrites(s) ==
    /\ desk[s].at = "backed up"
    /\ IF StillAsPreviewed(s) THEN WriteSettings(s)
       ELSE /\ desk' = [desk EXCEPT ![s].at = "previewed"]
            /\ UNCHANGED <<accountVars, settings, revision>>

(* exportCollection, a job, another process of the platform: settings are untouched *)
OtherWrite ==
    /\ WritesDatabase
    /\ UNCHANGED <<accountVars, settings, desk>>

AdminNext ==
    \/ \E s \in Session :
          \/ LoginCounts(s) \/ LoginFounds(s) \/ LoginReads(s) \/ LoginRefused(s) \/ LoginSaves(s)
          \/ LoginAnswered(s) \/ SignOut(s) \/ SaveEdit(s) \/ ComposeImport(s) \/ PreviewImport(s)
          \/ Abandon(s) \/ ApplyBacksUp(s) \/ ApplyWrites(s)
          \/ \E k \in Setting : OpenRecord(s, k)
    \/ Deactivated \/ OtherWrite

-----------------------------------------------------------------------------
(* Nobody overwrites what he has not seen: an edit replaces the revision its editor *)
(* was opened with, and an import is applied to exactly the settings that its       *)
(* preview showed, those that are not in the file included, although the backup     *)
(* lies between the check and the transaction.                                      *)
WritesAreInformed ==
    [][\A k \in Setting : settings'[k] # settings[k] =>
          \E s \in Session : /\ k \in desk[s].keys /\ desk'[s] = Clear
                             /\ \/ desk[s].at = "editing" /\ desk[s].seen[k] = settings[k]
                                \/ desk[s].at = "backed up" /\ desk[s].seen = settings]_adminVars

(* A token names the account of the store, and goes on doing so, however logins  *)
(* overlap and write back their copies, unless two logins have found no account  *)
(* at the same time: then each founds one under the same key, and one session is *)
(* refused with a token that was just issued.                                    *)
TokensNameTheAccount ==
    Cardinality(founders) <= 1 => \A s \in Session : SigningIs(s, "in") => signed[s] = account
=============================================================================
