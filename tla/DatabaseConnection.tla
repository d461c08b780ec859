------------------------- MODULE DatabaseConnection -------------------------
(***************************************************************************)
(* One MySQLConnection and the operations its owner runs on it:            *)
(* TransactionTask::Execute / DirectCommitTransaction (a transaction with  *)
(* the retry of error 1213) and BasicStatementTask / PreparedStatementTask *)
(* (one statement with autocommit).  One step is one exchange with the     *)
(* server: a query sent and its answer, a reconnect, the loss of the link. *)
(*                                                                         *)
(* The MySQL server is external: a session is a flag (inside an explicit   *)
(* transaction or not) and the writes that are not committed yet, and the  *)
(* durable state counts how often each statement has been applied.         *)
(***************************************************************************)
EXTENDS Naturals

CONSTANTS
  Operations,     \* the operations handed to the connection
  Autocommit,     \* those that are one statement outside any transaction
  NumStatements,  \* NumStatements[o]: the length of m_queries
  Faults,         \* the faults the environment may inject, see FaultKinds
  MaxFaults       \* bound on the number of faults

\* idle_lost: the server drops the session while the connection is unused
\* lost:      ... while an operation is under way
\* refused:   mysql_real_connect fails when reconnecting
\* dropped:   the link breaks again while the statements are re-prepared
\* deadlock, duplicate, schema: ER_LOCK_DEADLOCK, ER_DUP_ENTRY (and
\*            ER_WRONG_VALUE_COUNT), ER_BAD_FIELD_ERROR and its like
FaultKinds ==
  {"idle_lost", "lost", "refused", "dropped", "deadlock", "duplicate", "schema"}

ASSUME OperationsAssumption ==
  /\ NumStatements \in [Operations -> Nat]
  /\ Autocommit \subseteq Operations
  /\ \A o \in Autocommit : NumStatements[o] = 1

ASSUME FaultsAssumption ==
  /\ Faults \subseteq FaultKinds
  /\ MaxFaults \in Nat

loopBreaker == 5

NoError == 0
ER_DUP_ENTRY == 1062
ER_LOCK_DEADLOCK == 1213
CR_SERVER_GONE_ERROR == 2006

Statements == UNION {{o} \X (1..NumStatements[o]) : o \in Operations}

VARIABLES
  \* the server
  applied,   \* how often each statement has become durable
  session,   \* "transaction" after START TRANSACTION, else "autocommit"
  writes,    \* statements executed in the session and not committed
  \* the connection
  link,      \* "up"; "down": the server is gone, not noticed yet; "null": m_Mysql is NULL
  errno,     \* mysql_errno(m_Mysql)
  \* the thread that owns the connection
  pc,        \* "idle" or the query to be sent next
  cur,       \* the operation being executed
  itr,       \* the statement of it to be executed next
  loop,      \* 0 in the first attempt, i in the i-th retry of error 1213
  outcome,   \* per operation: "new", "running", "ok" or "failed"
  phase,     \* "running", "closed", or, the process being gone, "aborted" or
             \* "assert_failed"
  faults     \* faults left to inject

server == <<applied, session, writes>>
vars == <<applied, session, writes, link, errno, pc, cur, itr, loop, outcome,
          phase, faults>>

Sending == {"begin", "statement", "commit", "rollback"}

Init ==
  /\ applied = [s \in Statements |-> 0]
  /\ session = "autocommit"
  /\ writes = {}
  /\ link = "up"
  /\ errno = NoError
  /\ pc = "idle"
  /\ cur \in Operations
  /\ itr = 1
  /\ loop = 0
  /\ outcome = [o \in Operations |-> "new"]
  /\ phase = "running"
  /\ faults = MaxFaults

-----------------------------------------------------------------------------
(* The server's side of a session.                                         *)

\* The session ends: the server rolls back what is not committed.
EndSession == session' = "autocommit" /\ writes' = {}

Inject(kind) == kind \in Faults /\ faults > 0 /\ faults' = faults - 1

\* A statement takes effect: in the open transaction, or at once.
Apply(s) ==
  IF session = "transaction"
  THEN writes' = writes \cup {s} /\ UNCHANGED <<applied, session>>
  ELSE applied' = [applied EXCEPT ![s] = @ + 1] /\ UNCHANGED <<session, writes>>

\* COMMIT makes the open transaction durable; outside one it does nothing.
CommitWrites ==
  applied' = [s \in Statements |->
                IF s \in writes THEN applied[s] + 1 ELSE applied[s]]

\* START TRANSACTION commits a transaction that is still open.
StartTransaction == CommitWrites /\ session' = "transaction" /\ writes' = {}

-----------------------------------------------------------------------------
(* What the owner of the connection does with the result of its operation. *)

Finish(result) ==
  /\ outcome' = [outcome EXCEPT ![cur] = result]
  /\ pc' = "idle"
  /\ UNCHANGED <<cur, itr, loop>>

\* Seeded fault: every failure is retried and no retry is counted.
RetryForever(e) ==
  pc' = "begin" /\ UNCHANGED <<cur, itr, loop, outcome>>

\* TransactionTask::Execute after ExecuteTransaction returned false, with
\* GetLastError() = e: only the first failure looks at the error number.
TransactionFailed(e) ==
  IF IF loop = 0 THEN e = ER_LOCK_DEADLOCK ELSE loop < loopBreaker
  THEN pc' = "begin" /\ loop' = loop + 1 /\ UNCHANGED <<cur, itr, outcome>>
  ELSE Finish("failed")

\* Seeded fault: the loop over m_queries runs once too often.
StatementDonePastEnd ==
  IF cur \in Autocommit
  THEN Finish("ok")
  ELSE /\ IF itr <= NumStatements[cur]
          THEN itr' = itr + 1 /\ UNCHANGED pc
          ELSE pc' = "commit" /\ UNCHANGED itr
       /\ UNCHANGED <<cur, loop, outcome>>

\* A statement succeeded: the next one, or COMMIT after the last.
StatementDone ==
  IF cur \in Autocommit
  THEN Finish("ok")
  ELSE /\ IF itr < NumStatements[cur]
          THEN itr' = itr + 1 /\ UNCHANGED pc
          ELSE pc' = "commit" /\ UNCHANGED itr
       /\ UNCHANGED <<cur, loop, outcome>>

\* Seeded fault: the result of Execute is ignored.
StatementFailureIgnored == StatementDone

\* A statement failed: a transaction is rolled back, anything else is over.
StatementFailed ==
  IF cur \in Autocommit
  THEN Finish("failed")
  ELSE pc' = "rollback" /\ UNCHANGED <<cur, itr, loop, outcome>>

-----------------------------------------------------------------------------
(* The operations of the connection.                                       *)

\* The owner takes an operation up.  A transaction without queries is
\* reported as failed and touches nothing.
Start(o) ==
  /\ phase = "running" /\ pc = "idle"
  /\ outcome[o] = "new"
  /\ cur' = o
  /\ itr' = 1
  /\ loop' = 0
  /\ IF NumStatements[o] = 0
     THEN outcome' = [outcome EXCEPT ![o] = "failed"] /\ UNCHANGED pc
     ELSE /\ outcome' = [outcome EXCEPT ![o] = "running"]
          /\ pc' = IF o \in Autocommit THEN "statement" ELSE "begin"
  /\ UNCHANGED <<server, link, errno, phase, faults>>

\* Seeded fault: the queries are sent without START TRANSACTION.
BeginNothing ==
  /\ phase = "running" /\ pc = "begin" /\ link # "down"
  /\ pc' = "statement"
  /\ itr' = 1
  /\ UNCHANGED <<server, link, errno, cur, loop, outcome, phase, faults>>

\* Execute("START TRANSACTION"), whose result nobody looks at.
BeginTransaction ==
  /\ phase = "running" /\ pc = "begin"
  /\ \/ link = "up" /\ StartTransaction /\ errno' = NoError
     \/ link = "null" /\ UNCHANGED <<server, errno>>
  /\ pc' = "statement"
  /\ itr' = 1
  /\ UNCHANGED <<link, cur, loop, outcome, phase, faults>>

\* Execute(sql) / Execute(stmt): the server answers OK.
ExecuteOk ==
  /\ phase = "running" /\ pc = "statement" /\ link = "up"
  /\ Apply(<<cur, itr>>)
  /\ errno' = NoError
  /\ StatementDone
  /\ UNCHANGED <<link, phase, faults>>

\* Execute(...): the server answers with an error that is not handled, and
\* on a deadlock it has rolled the whole transaction back.
ExecuteError ==
  /\ phase = "running" /\ pc = "statement" /\ link = "up"
  /\ \/ Inject("duplicate") /\ errno' = ER_DUP_ENTRY /\ UNCHANGED server
     \/ /\ Inject("deadlock") /\ errno' = ER_LOCK_DEADLOCK
        /\ EndSession /\ UNCHANGED applied
  /\ StatementFailed
  /\ UNCHANGED <<link, phase>>

\* Execute(...): an error that says the database structure is outdated.
ExecuteAbort ==
  /\ phase = "running" /\ pc = "statement" /\ link = "up"
  /\ Inject("schema")
  /\ EndSession
  /\ phase' = "aborted"
  /\ UNCHANGED <<applied, link, errno, pc, cur, itr, loop, outcome>>

\* Execute(...) without a handle returns false at once.
ExecuteNoHandle ==
  /\ phase = "running" /\ pc = "statement" /\ link = "null"
  /\ StatementFailed
  /\ UNCHANGED <<server, link, errno, phase, faults>>

\* Seeded fault: ExecuteTransaction returns without ROLLBACK.
RollbackNothing ==
  /\ phase = "running" /\ pc = "rollback" /\ link # "down"
  /\ TransactionFailed(errno)
  /\ UNCHANGED <<server, link, errno, phase, faults>>

\* Execute("ROLLBACK"); ExecuteTransaction returns false.  A query that
\* succeeds clears the error number the caller is about to look at.
RollbackTransaction ==
  /\ phase = "running" /\ pc = "rollback"
  /\ \/ link = "up" /\ EndSession /\ errno' = NoError
     \/ link = "null" /\ UNCHANGED <<session, writes, errno>>
  /\ TransactionFailed(errno')
  /\ UNCHANGED <<applied, link, phase, faults>>

\* Execute("COMMIT"), whose result nobody looks at; ExecuteTransaction
\* returns true.
CommitTransaction ==
  /\ phase = "running" /\ pc = "commit"
  /\ \/ link = "up" /\ CommitWrites /\ EndSession /\ errno' = NoError
     \/ link = "null" /\ UNCHANGED <<server, errno>>
  /\ Finish("ok")
  /\ UNCHANGED <<link, phase, faults>>

\* The server drops the session; the client notices at its next query.
LinkLost ==
  /\ phase = "running" /\ link = "up"
  /\ Inject(IF pc = "idle" THEN "idle_lost" ELSE "lost")
  /\ link' = "down"
  /\ EndSession
  /\ UNCHANGED <<applied, errno, pc, cur, itr, loop, outcome, phase>>

\* The server executes the query and the link breaks before the answer is
\* in.  What an open transaction had written is gone with the session.
AnswerLost ==
  /\ phase = "running" /\ link = "up" /\ pc \in {"statement", "commit"}
  /\ Inject("lost")
  /\ IF pc = "commit"
     THEN CommitWrites
     ELSE applied' = IF session = "transaction" THEN applied
                     ELSE [applied EXCEPT ![<<cur, itr>>] = @ + 1]
  /\ EndSession
  /\ link' = "down"
  /\ UNCHANGED <<errno, pc, cur, itr, loop, outcome, phase>>

\* Open() when reconnecting: a new session, or m_Mysql stays NULL.  The
\* error number of a NULL handle is 0.
Open ==
  /\ errno' = NoError
  /\ \/ link' = "up" /\ UNCHANGED faults
     \/ link' = "null" /\ Inject("refused")
  /\ UNCHANGED phase

\* The link breaks again while Open() prepares the statements: the one being
\* prepared is deleted and not replaced, and the Open() that follows deletes
\* it a second time.
PrepareStatementBroken ==
  /\ Inject("dropped")
  /\ phase' = "aborted"
  /\ UNCHANGED <<link, errno>>

\* A query fails with CR_SERVER_GONE_ERROR or CR_SERVER_LOST: one attempt to
\* reconnect.  After a success the same query is sent again, in a session
\* with autocommit on; the error 0 of a failure is one that the recursive
\* call does not handle, and the query fails as all that follow it do.
HandleMySQLErrno ==
  /\ phase = "running" /\ link = "down" /\ pc \in Sending
  /\ Open \/ PrepareStatementBroken
  /\ UNCHANGED <<server, pc, cur, itr, loop, outcome>>

\* Ping() of KeepAlive, which never reconnects and does not expect NULL.
Ping ==
  /\ phase = "running" /\ pc = "idle"
  /\ errno' = CASE link = "up" -> NoError
                [] link = "down" -> CR_SERVER_GONE_ERROR
                [] link = "null" -> errno
  /\ phase' = IF link = "null" THEN "aborted" ELSE phase
  /\ UNCHANGED <<server, link, pc, cur, itr, loop, outcome, faults>>

\* ~MySQLConnection asserts that there is a handle and closes it.
Close ==
  /\ phase = "running" /\ pc = "idle"
  /\ phase' = IF link = "null" THEN "assert_failed" ELSE "closed"
  /\ EndSession
  /\ UNCHANGED <<applied, link, errno, pc, cur, itr, loop, outcome, faults>>

Next ==
  \/ \E o \in Operations : Start(o)
  \/ BeginTransaction \/ CommitTransaction \/ RollbackTransaction
  \/ ExecuteOk \/ ExecuteError \/ ExecuteAbort \/ ExecuteNoHandle
  \/ LinkLost \/ AnswerLost \/ HandleMySQLErrno
  \/ Ping \/ Close

\* The thread that owns the connection keeps going until its operation is
\* over, and a DatabaseWorker takes the next operation as long as it runs.
OwnerStep ==
  \/ \E o \in Operations : Start(o)
  \/ BeginTransaction \/ CommitTransaction \/ RollbackTransaction
  \/ ExecuteOk \/ ExecuteError \/ ExecuteAbort \/ ExecuteNoHandle
  \/ HandleMySQLErrno

Spec == Init /\ [][Next]_vars
FairSpec == Spec /\ WF_vars(OwnerStep)

-----------------------------------------------------------------------------
(* Properties.                                                             *)

\* The values the connection, its session and its owner can hold.
TypeOK ==
  /\ applied \in [Statements -> Nat]
  /\ session \in {"autocommit", "transaction"}
  /\ writes \subseteq Statements
  /\ link \in {"up", "down", "null"}
  /\ errno \in {NoError, ER_DUP_ENTRY, ER_LOCK_DEADLOCK, CR_SERVER_GONE_ERROR}
  /\ pc \in Sending \cup {"idle"}
  /\ cur \in Operations
  /\ itr \in Nat
  /\ loop \in 0..loopBreaker
  /\ outcome \in [Operations -> {"new", "running", "ok", "failed"}]
  /\ phase \in {"running", "closed", "aborted", "assert_failed"}
  /\ faults \in 0..MaxFaults

AppliedNone(o) == \A i \in 1..NumStatements[o] : applied[<<o, i>>] = 0
AppliedOnce(o) == \A i \in 1..NumStatements[o] : applied[<<o, i>>] = 1

\* ExecuteTransaction is all or nothing, and nothing is applied twice: at
\* every moment, and so also when the process dies, each operation is
\* durable entirely and once, or not at all.
Atomic == \A o \in Operations : AppliedNone(o) \/ AppliedOnce(o)

\* The same for transactions alone, which BeginTransaction's comment says
\* are rolled back as a whole when they are not committed.
TransactionsAtomic ==
  \A o \in Operations \ Autocommit : AppliedNone(o) \/ AppliedOnce(o)

\* Between two operations the session is outside any transaction: no error
\* path of ExecuteTransaction leaves writes behind that the next operation
\* on this connection would commit or lose.
NoOrphanTransaction == pc = "idle" => session = "autocommit" /\ writes = {}

\* Once Execute or ExecuteTransaction has returned, no retry or late commit
\* changes what is durable of that operation.
ReportIsFinal ==
  [][\A o \in Operations :
       outcome[o] \in {"ok", "failed"} =>
         /\ outcome'[o] = outcome[o]
         /\ \A i \in 1..NumStatements[o] :
              applied'[<<o, i>>] = applied[<<o, i>>]]_vars

\* Every operation taken up ends with a result, whatever the retry of error
\* 1213 and the reconnect in Execute do, unless the process dies first.
EventuallyReported ==
  \A o \in Operations :
    outcome[o] = "running" ~> outcome[o] \in {"ok", "failed"} \/ phase = "aborted"

\* The refinement: an operation's durable state as AtomicStore sees it.
StoreView ==
  [o \in Operations |->
     IF AppliedNone(o) THEN "none" ELSE IF AppliedOnce(o) THEN "all" ELSE "torn"]

ReportView ==
  [o \in Operations |->
     IF outcome[o] \in {"ok", "failed"} THEN outcome[o] ELSE "none"]

AtomicStoreImpl ==
  INSTANCE AtomicStore WITH store <- StoreView, reported <- ReportView

\* The connection implements AtomicStore: durable all together, once, never
\* after a reported failure, and reported truthfully.
ImplementsAtomicStore == AtomicStoreImpl!Spec
=============================================================================
