---------------------------- MODULE Transactions ----------------------------
(***************************************************************************)
(* The transactions of the two providers side by side: a process uses one  *)
(* of them (DB_PROVIDER), the other rests.                                 *)
(***************************************************************************)
EXTENDS RestTransaction, SqliteTransaction

VARIABLE dbProvider

transactionVars == <<vars, sqliteVars, dbProvider>>

TransactionsInit ==
    /\ dbProvider \in {"firebase", "sqlite"}
    /\ Init /\ SqliteInit /\ row = doc

TransactionsNext ==
    /\ \/ dbProvider = "firebase" /\ Next /\ UNCHANGED sqliteVars
       \/ dbProvider = "sqlite" /\ SqliteNext /\ UNCHANGED vars
    /\ UNCHANGED dbProvider

TransactionsSpec == TransactionsInit /\ [][TransactionsNext]_transactionVars

(* A transaction gives up ("contended") only when others got ahead of it       *)
(* maxRetries times: whatever the interleaving, an attempt that fails is       *)
(* another writer's success (with SQLite, perhaps on another path).            *)
ContentionMeansProgress == RestContention /\ SqliteContention
=============================================================================
