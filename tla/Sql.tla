--------------------------------- MODULE Sql ---------------------------------
(***************************************************************************)
(* The SQL module over its SQLite driver.  Every driver call runs under    *)
(* one lock and never suspends, so in a process a request is one step; but *)
(* the database file may be shared with other processes (WAL, and a busy   *)
(* timeout), a migration is one transaction after another, and a process   *)
(* may die at any time.  What a crash or a ROLLBACK undoes is SQLite's     *)
(* (external): a transaction is seen by others, and lasts, once committed. *)
(*                                                                         *)
(* A statement is what becomes of it: it is refused by the gate, it runs,  *)
(* it is stopped by a constraint, rejected, stopped by trouble of the      *)
(* store, or it raises before SQLite has it (a parameter that is no 64-bit *)
(* integer, a string that is no UTF-8).  Migrations pass no gate: one of   *)
(* their statements may end the transaction around it.  That one writes to *)
(* the ledger's own table is left out.                                     *)
(***************************************************************************)
EXTENDS Naturals, Sequences, SequencesExt, FiniteSets

CONSTANTS
  SqlProcs,      \* processes that share the file
  SqlLists,      \* the migration lists clients submit: sequences of names
  SelfEnding,    \* the migrations with a COMMIT or a ROLLBACK among their statements
  MaxBatches,    \* bound on the write batches
  MaxBatchLen,   \* bound on the statements of one
  MaxSqlCrashes, \* bound on the crashes
  NoTxn          \* no transaction, no walk

SqlNames == UNION {ToSet(l) : l \in SqlLists}

ASSUME SqlAssumption == /\ MaxBatches \in Nat /\ MaxBatchLen \in Nat \ {0} /\ MaxSqlCrashes \in Nat
                        /\ SqlLists \subseteq Seq(SqlNames)

VARIABLES
  rows,       \* committed: <<batch, statement>> for each statement that took effect
  ledger,     \* committed: the names in _jetty_sql_migrations, by pos
  effects,    \* committed: how often the statements of a migration took effect
  conn,       \* conn[p]: "closed" or "open"
  txn,        \* txn[p]: NoTxn, or the rows of the transaction p has open
  walk,       \* walk[p]: NoTxn, or the migrate p is in: its list and the next position
  batches,    \* history: the lengths of the batches that were begun, by number
  confirmed,  \* history: numbers of the batches answered 200
  refused,    \* history: numbers of the batches answered with an error
  migrated,   \* history: the lists answered 200
  sqlAnswer,  \* the last answer: its status, and the rows a /query returned
  sqlCrashes

sqlVars == <<rows, ledger, effects, conn, txn, walk, batches, confirmed, refused, migrated,
             sqlAnswer, sqlCrashes>>
committed == <<rows, ledger, effects>>
history == <<batches, confirmed, refused, migrated, sqlCrashes>>

Said(status) == [status |-> status, rows |-> {}]

SqlInit ==
  /\ rows = {} /\ ledger = <<>> /\ effects = [m \in SqlNames |-> 0]
  /\ conn = [p \in SqlProcs |-> "closed"]
  /\ txn = [p \in SqlProcs |-> NoTxn] /\ walk = [p \in SqlProcs |-> NoTxn]
  /\ batches = <<>> /\ confirmed = {} /\ refused = {} /\ migrated = {}
  /\ sqlAnswer = Said(0) /\ sqlCrashes = 0

\* startup: open and ping.
SqlOpen(p) ==
  /\ conn[p] = "closed"
  /\ conn' = [conn EXCEPT ![p] = "open"]
  /\ UNCHANGED <<committed, txn, walk, history, sqlAnswer>>

\* The process dies, or closes its connection: what it has not committed is lost.
SqlDies(p) ==
  /\ conn[p] = "open" /\ sqlCrashes < MaxSqlCrashes
  /\ conn' = [conn EXCEPT ![p] = "closed"]
  /\ txn' = [txn EXCEPT ![p] = NoTxn] /\ walk' = [walk EXCEPT ![p] = NoTxn]
  /\ sqlCrashes' = sqlCrashes + 1
  /\ UNCHANGED <<ledger, effects, confirmed, refused, migrated, sqlAnswer>>

SqlCrash(p) == SqlDies(p) /\ UNCHANGED <<rows, batches>>

\* A process that is walking through migrations serves nothing else.
Serving(p) == conn[p] = "open" /\ walk[p] = NoTxn

\* BEGIN IMMEDIATE: refused inside a transaction, and (after busy_timeout) while
\* another process has one.
CanBegin(p) == \A q \in SqlProcs : txn[q] = NoTxn

SqlRefuse(status) ==
  /\ sqlAnswer' = Said(status)
  /\ UNCHANGED <<committed, conn, txn, walk, history>>

------------------------------------------------------------------------------
(***************************************************************************)
(* /query and /exec.                                                       *)
(***************************************************************************)
Statements == {"params", "select", "ok", "constraint", "rejected", "trouble", "raises"}

\* _gate: the parameters match and the kind is the endpoint's.
Gate(st, expect) == st # "params" /\ (st = "select") = (expect = "query")

\* _drive over _translate: the status of a statement that stopped.  What the
\* driver does not translate is the store's trouble.
Status(st) == CASE st = "constraint" -> 409 [] st = "rejected" -> 400 [] OTHER -> 503

\* The connection sees what is committed and its own open transaction.
Visible(p) == rows \union (IF txn[p] = NoTxn THEN {} ELSE txn[p])

Query(p, st) ==
  /\ Serving(p)
  /\ \/ ~Gate(st, "query") /\ SqlRefuse(400)
     \/ Gate(st, "query") /\ \E trouble \in {"rejected", "trouble"} : SqlRefuse(Status(trouble))
     \/ /\ Gate(st, "query")
        /\ sqlAnswer' = [status |-> 200, rows |-> Visible(p)]
        /\ UNCHANGED <<committed, conn, txn, walk, history>>

\* The statements of a batch that run, up to the first that does not.
Running(batch) ==
  {i \in DOMAIN batch : \A j \in 1 .. i : batch[j] = "ok"}

BatchRows(batch) == {<<Len(batches) + 1, i>> : i \in Running(batch)}

\* Variant: without the transaction, what ran before an error stays.
Execute_autocommit(p, batch) ==
  /\ CanBegin(p)
  /\ batches' = Append(batches, Len(batch))
  /\ rows' = rows \union BatchRows(batch)
  /\ IF Running(batch) = DOMAIN batch
       THEN /\ sqlAnswer' = Said(200)
            /\ confirmed' = confirmed \union {Len(batches')} /\ UNCHANGED refused
       ELSE /\ sqlAnswer' = Said(Status(batch[Cardinality(Running(batch)) + 1]))
            /\ refused' = refused \union {Len(batches')} /\ UNCHANGED confirmed
  /\ UNCHANGED <<ledger, effects, conn, txn, walk, migrated, sqlCrashes>>

\* execute: all statements and COMMIT; a sqlite3.Error of a statement or of the
\* COMMIT is rolled back; any other exception leaves the transaction open.
Execute(p, batch) ==
  LET ran == Running(batch)
      all == ran = DOMAIN batch
      stopped == IF all THEN "trouble" ELSE batch[Cardinality(ran) + 1]
  IN  /\ CanBegin(p)
      /\ batches' = Append(batches, Len(batch))
      /\ \/ /\ all
            /\ rows' = rows \union BatchRows(batch)
            /\ confirmed' = confirmed \union {Len(batches')}
            /\ sqlAnswer' = Said(200) /\ UNCHANGED <<txn, refused>>
         \/ /\ sqlAnswer' = Said(Status(stopped))
            /\ txn' = IF stopped = "raises" THEN [txn EXCEPT ![p] = BatchRows(batch)] ELSE txn
            /\ refused' = refused \union {Len(batches')}
            /\ UNCHANGED <<rows, confirmed>>
      /\ UNCHANGED <<ledger, effects, conn, walk, migrated, sqlCrashes>>

\* The process dies between the COMMIT and the answer.
ExecuteUnanswered(p, batch) ==
  /\ CanBegin(p) /\ Running(batch) = DOMAIN batch
  /\ batches' = Append(batches, Len(batch))
  /\ rows' = rows \union BatchRows(batch)
  /\ SqlDies(p)

\* The whole batch passes the gate before any of it runs.
Exec(p, batch) ==
  /\ Serving(p)
  /\ \/ (\E i \in DOMAIN batch : ~Gate(batch[i], "dml")) /\ SqlRefuse(400)
     \/ (\A i \in DOMAIN batch : Gate(batch[i], "dml")) /\ ~CanBegin(p) /\ SqlRefuse(503)
     \/ /\ (\A i \in DOMAIN batch : Gate(batch[i], "dml")) /\ Len(batches) < MaxBatches
        /\ Execute(p, batch) \/ ExecuteUnanswered(p, batch)

------------------------------------------------------------------------------
\* _check_history.
CheckHistory(applied, names) == IsInjective(names) /\ IsPrefix(applied, names)

\* The ledger is read outside of any transaction; its table is created if need
\* be, which is a write.
MigrateStart(p, names) ==
  /\ Serving(p)
  /\ \/ (\E q \in SqlProcs \ {p} : txn[q] # NoTxn) /\ SqlRefuse(503)
     \/ ~CheckHistory(ledger, names) /\ SqlRefuse(409)
     \/ /\ CheckHistory(ledger, names)
        /\ walk' = [walk EXCEPT ![p] = [names |-> names, pos |-> Len(ledger) + 1]]
        /\ UNCHANGED <<committed, conn, txn, history, sqlAnswer>>

EndWalk(p, status) == walk' = [walk EXCEPT ![p] = NoTxn] /\ sqlAnswer' = Said(status)

MigrateDone(p) ==
  /\ walk[p] # NoTxn /\ walk[p].pos > Len(walk[p].names)
  /\ EndWalk(p, 200)
  /\ migrated' = migrated \union {walk[p].names}
  /\ UNCHANGED <<committed, conn, txn, batches, confirmed, refused, sqlCrashes>>

\* Counting stops at twice.
UpToTwice(n) == IF n < 2 THEN n ELSE 2

\* The ledger's keys: pos is its primary key, names are unique.
LedgerTakes(pos, name) == Len(ledger) < pos /\ name \notin ToSet(ledger)

\* One migration: its statements, its row in the ledger, COMMIT.  Any
\* sqlite3.Error undoes it and ends the walk; a statement that raises
\* otherwise leaves the transaction open.
MigrateStep(p, st) ==
  /\ walk[p] # NoTxn /\ walk[p].pos =< Len(walk[p].names)
  /\ LET name == walk[p].names[walk[p].pos]
         ok == st = "ok" /\ CanBegin(p)
     IN  \/ /\ ok /\ LedgerTakes(walk[p].pos, name)
            /\ ledger' = Append(ledger, name)
            /\ effects' = [effects EXCEPT ![name] = @ + 1]
            /\ walk' = [walk EXCEPT ![p].pos = @ + 1]
            /\ UNCHANGED <<txn, sqlAnswer>>
         \/ /\ ~ok \/ ~LedgerTakes(walk[p].pos, name)
            /\ EndWalk(p, IF ~CanBegin(p) THEN 503 ELSE IF ok \/ st = "constraint" THEN 400 ELSE Status(st))
            /\ txn' = IF CanBegin(p) /\ st = "raises" THEN [txn EXCEPT ![p] = {}] ELSE txn
            /\ UNCHANGED <<ledger, effects>>
  /\ UNCHANGED <<rows, conn, history>>

\* A migration with a COMMIT or a ROLLBACK of its own: what ran before a COMMIT, or
\* after either, takes effect by itself; so does the row in the ledger, if it comes
\* to that.  The driver's COMMIT and ROLLBACK then fail, for want of a transaction,
\* unless the migration has begun another (which stays open if a statement raises).
MigrateEscapes(p) ==
  /\ walk[p] # NoTxn /\ walk[p].pos =< Len(walk[p].names) /\ CanBegin(p)
  /\ LET name == walk[p].names[walk[p].pos]
     IN  /\ name \in SelfEnding
         /\ effects' \in {effects, [effects EXCEPT ![name] = UpToTwice(@ + 1)]}
         /\ \/ LedgerTakes(walk[p].pos, name) /\ ledger' = Append(ledger, name) /\ EndWalk(p, 503)
            \/ /\ LedgerTakes(walk[p].pos, name) /\ ledger' = Append(ledger, name)
               /\ walk' = [walk EXCEPT ![p].pos = @ + 1] /\ UNCHANGED sqlAnswer
            \/ (\E status \in {400, 503} : EndWalk(p, status)) /\ UNCHANGED ledger
         /\ \/ UNCHANGED txn
            \/ ledger' = ledger /\ txn' = [txn EXCEPT ![p] = {}]
  /\ UNCHANGED <<rows, conn, batches, confirmed, refused, migrated, sqlCrashes>>

\* What comes after a statement that stops a batch makes no difference.
Batches == {b \in UNION {[1 .. n -> Statements] : n \in 1 .. MaxBatchLen} :
              \A i \in DOMAIN b : i < Len(b) => b[i] = "ok"}

SqlNext ==
  \E p \in SqlProcs :
    \/ SqlOpen(p) \/ SqlCrash(p)
    \/ \E st \in {"select", "ok", "params"} : Query(p, st)
    \/ \E batch \in Batches : Exec(p, batch)
    \/ \E names \in SqlLists : MigrateStart(p, names)
    \/ MigrateDone(p) \/ MigrateEscapes(p)
    \/ \E st \in {"ok", "constraint", "rejected", "trouble", "raises"} : MigrateStep(p, st)

SqlSpec == SqlInit /\ [][SqlNext]_sqlVars

------------------------------------------------------------------------------
\* sql-v1 5.2: "either every statement commits or none does".  Of every batch
\* either all statements are in the file or none is: all if it was answered 200,
\* none if it was answered with an error, either if nobody was left to answer;
\* with errors of any kind, other processes and crashes.
BatchesAtomic ==
  \A n \in DOMAIN batches :
    LET there == {i \in 1 .. batches[n] : <<n, i>> \in rows}
    IN  /\ there \in {{}, 1 .. batches[n]}
        /\ n \in confirmed => there # {}
        /\ n \in refused => there = {}

\* A migration takes effect once, when its name enters the ledger, also if two
\* processes migrate the file at the same time or one dies on the way; unless it
\* has a COMMIT or a ROLLBACK of its own.
MigratedOnce ==
  /\ IsInjective(ledger)
  /\ \A m \in SqlNames \ SelfEnding : effects[m] = IF m \in ToSet(ledger) THEN 1 ELSE 0

\* A list that was answered 200 is what the ledger begins with from then on,
\* whatever lists others submit.
AnsweredListsHold == \A names \in migrated : IsPrefix(names, ledger)

\* What the file promises, whoever writes to it.
SqlDurable == BatchesAtomic /\ MigratedOnce /\ AnsweredListsHold

\* What /query returns is committed: no part of a batch that was refused is seen.
ReadsCommitted == sqlAnswer.rows \subseteq rows
==============================================================================
