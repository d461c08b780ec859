---------------------- MODULE DatabaseConnectionProofs ----------------------
(***************************************************************************)
(* Proofs about DatabaseConnection for any set of operations of any        *)
(* length and any number of faults: what holds whatever breaks, and what   *)
(* holds of every fault but the loss of the link in the middle of an       *)
(* operation.                                                              *)
(***************************************************************************)
EXTENDS DatabaseConnection, TLAPS

\* The writes of the current transaction before statement n.
Prefix(n) == {<<cur, i>> : i \in 1..(n - 1)}

\* What is durable of an operation follows from its outcome alone.
OutcomeInv ==
  \A o \in Operations :
    /\ outcome[o] # "ok" => AppliedNone(o)
    /\ outcome[o] = "ok" => AppliedOnce(o) /\ NumStatements[o] > 0

\* The owner executes one operation at a time.
OwnerInv ==
  /\ \A o \in Operations : outcome[o] = "running" => pc # "idle" /\ o = cur
  /\ pc # "idle" => outcome[cur] = "running"
  /\ pc \in {"begin", "commit", "rollback"} => cur \notin Autocommit
  /\ pc = "statement" => itr \in 1..NumStatements[cur]
  /\ pc # "idle" => NumStatements[cur] > 0

\* The session is in a transaction exactly while one is executed, and then
\* it holds the statements executed so far.
SessionInv ==
  /\ session = "autocommit" => writes = {}
  /\ session = "transaction" =>
              /\ pc \in {"statement", "commit", "rollback"}
              /\ cur \notin Autocommit
              /\ link = "up"
  /\ phase = "running" /\ pc = "statement" /\ cur \notin Autocommit =>
       link = "null" \/ (session = "transaction" /\ writes = Prefix(itr))
  /\ phase = "running" /\ pc = "commit" =>
       link = "up" /\ session = "transaction" /\ writes = Prefix(NumStatements[cur] + 1)

IInv == TypeOK /\ OutcomeInv /\ OwnerInv /\ SessionInv

-----------------------------------------------------------------------------

LEMMA StatementsMembers ==
  /\ \A o \in Operations : \A i \in 1..NumStatements[o] : <<o, i>> \in Statements
  /\ \A s \in Statements : \E o \in Operations : \E i \in 1..NumStatements[o] :
       s = <<o, i>>
<1>1. ASSUME NEW o \in Operations, NEW i \in 1..NumStatements[o]
      PROVE  <<o, i>> \in Statements
  BY <1>1 DEF Statements
<1>2. ASSUME NEW s \in Statements
      PROVE  \E o \in Operations : \E i \in 1..NumStatements[o] : s = <<o, i>>
  <2>1. PICK o \in Operations : s \in {o} \X (1..NumStatements[o])
    BY <1>2 DEF Statements
  <2> QED BY <2>1
<1> QED BY <1>1, <1>2

LEMMA InitIInv == Init => IInv
<1> SUFFICES ASSUME Init PROVE IInv
  OBVIOUS
<1>1. TypeOK
  BY FaultsAssumption
  DEF Init, TypeOK, Sending, loopBreaker, NoError
<1>2. OutcomeInv
  BY StatementsMembers DEF Init, OutcomeInv, AppliedNone
<1>3. OwnerInv
  BY DEF Init, OwnerInv
<1>4. SessionInv
  BY DEF Init, SessionInv
<1> QED BY <1>1, <1>2, <1>3, <1>4 DEF IInv

LEMMA StartStep ==
  ASSUME IInv, NEW o \in Operations, Start(o)
  PROVE  IInv'
<1> USE DEF IInv, Start, server
<1>1. TypeOK'
  BY DEF TypeOK, Sending, loopBreaker
<1>2. OutcomeInv'
  BY DEF TypeOK, OutcomeInv, AppliedNone, AppliedOnce
<1>3. OwnerInv'
  BY OperationsAssumption DEF TypeOK, OwnerInv
<1>4. SessionInv'
  BY DEF TypeOK, SessionInv
<1> QED BY <1>1, <1>2, <1>3, <1>4

LEMMA BeginTransactionStep ==
  ASSUME IInv, BeginTransaction
  PROVE  IInv'
<1> USE DEF IInv, BeginTransaction, server
<1>1. applied' = applied
  BY DEF StartTransaction, CommitWrites, TypeOK, SessionInv
<1>2. TypeOK'
  BY <1>1 DEF StartTransaction, TypeOK, Sending, NoError
<1>3. OutcomeInv'
  BY <1>1 DEF OutcomeInv, AppliedNone, AppliedOnce
<1>4. OwnerInv'
  BY OperationsAssumption DEF TypeOK, OwnerInv
<1>5. SessionInv'
  BY DEF StartTransaction, TypeOK, OwnerInv, SessionInv, Prefix
<1> QED BY <1>2, <1>3, <1>4, <1>5

LEMMA ExecuteOkStep ==
  ASSUME IInv, ExecuteOk
  PROVE  IInv'
<1> DEFINE s == <<cur, itr>>
<1> USE DEF IInv, ExecuteOk
<1>1. s \in Statements
  BY StatementsMembers DEF TypeOK, OwnerInv
<1>2. CASE session = "transaction"
  <2>1. /\ writes' = writes \cup {s}
        /\ applied' = applied
        /\ session' = session
    BY <1>2 DEF Apply
  <2>2. cur \notin Autocommit /\ writes = Prefix(itr)
    BY <1>2 DEF TypeOK, SessionInv
  <2>3. outcome' = outcome /\ cur' = cur
    BY <2>2 DEF StatementDone
  <2>4. TypeOK'
    BY <1>1, <2>1, <2>2 DEF StatementDone, TypeOK, Sending, NoError
  <2>5. OutcomeInv'
    BY <2>1, <2>3 DEF OutcomeInv, AppliedNone, AppliedOnce
  <2>6. OwnerInv'
    BY <2>2, OperationsAssumption DEF StatementDone, TypeOK, OwnerInv
  <2>7. SessionInv'
    BY <2>1, <2>2, OperationsAssumption
    DEF StatementDone, TypeOK, OwnerInv, SessionInv, Prefix
  <2> QED BY <2>4, <2>5, <2>6, <2>7
<1>3. CASE session = "autocommit"
  <2>1. /\ applied' = [applied EXCEPT ![s] = @ + 1]
        /\ UNCHANGED <<session, writes>>
    BY <1>3 DEF Apply
  <2>2. cur \in Autocommit
    BY <1>3 DEF TypeOK, SessionInv
  <2>3. Finish("ok")
    BY <2>2 DEF StatementDone
  <2>4. applied' \in [Statements -> Nat]
    BY <1>1, <2>1 DEF TypeOK
  <2>5. TypeOK'
    BY <2>1, <2>3, <2>4 DEF Finish, TypeOK, Sending, NoError
  <2>6. ASSUME NEW o \in Operations, NEW i \in 1..NumStatements[o]
        PROVE  applied'[<<o, i>>] =
                 IF o = cur THEN applied[<<o, i>>] + 1 ELSE applied[<<o, i>>]
    <3>1. <<o, i>> \in Statements
      BY StatementsMembers
    <3>2. o = cur => i = itr
      BY <2>2, OperationsAssumption DEF TypeOK, OwnerInv
    <3> QED BY <1>1, <2>1, <3>1, <3>2 DEF TypeOK
  <2>7. OutcomeInv'
    BY <2>3, <2>6 DEF Finish, TypeOK, OwnerInv, OutcomeInv, AppliedNone, AppliedOnce
  <2>8. OwnerInv'
    BY <2>3 DEF Finish, TypeOK, OwnerInv
  <2>9. SessionInv'
    BY <1>3, <2>1, <2>3 DEF Finish, TypeOK, SessionInv
  <2> QED BY <2>5, <2>7, <2>8, <2>9
<1> QED BY <1>2, <1>3 DEF TypeOK

LEMMA ExecuteErrorStep ==
  ASSUME IInv, ExecuteError
  PROVE  IInv'
<1> USE DEF IInv, server, ExecuteError, StatementFailed, Finish, Inject, EndSession
<1>1. TypeOK'
  BY FaultsAssumption DEF TypeOK, Sending, loopBreaker, NoError, ER_DUP_ENTRY, ER_LOCK_DEADLOCK
<1>2. OutcomeInv'
  BY DEF TypeOK, OwnerInv, OutcomeInv, AppliedNone, AppliedOnce
<1>3. OwnerInv'
  BY OperationsAssumption DEF TypeOK, OwnerInv
<1>4. SessionInv'
  BY OperationsAssumption DEF TypeOK, OwnerInv, SessionInv, Prefix
<1> QED BY <1>1, <1>2, <1>3, <1>4

LEMMA ExecuteAbortStep ==
  ASSUME IInv, ExecuteAbort
  PROVE  IInv'
<1> USE DEF IInv, server, ExecuteAbort, Inject, EndSession
<1>1. TypeOK'
  BY FaultsAssumption DEF TypeOK, Sending, loopBreaker, NoError, ER_DUP_ENTRY, ER_LOCK_DEADLOCK
<1>2. OutcomeInv'
  BY DEF TypeOK, OwnerInv, OutcomeInv, AppliedNone, AppliedOnce
<1>3. OwnerInv'
  BY OperationsAssumption DEF TypeOK, OwnerInv
<1>4. SessionInv'
  BY DEF TypeOK, OwnerInv, SessionInv, Prefix
<1> QED BY <1>1, <1>2, <1>3, <1>4

LEMMA ExecuteNoHandleStep ==
  ASSUME IInv, ExecuteNoHandle
  PROVE  IInv'
<1> USE DEF IInv, server, ExecuteNoHandle, StatementFailed, Finish
<1>1. TypeOK'
  BY DEF TypeOK, Sending, loopBreaker, NoError, ER_DUP_ENTRY, ER_LOCK_DEADLOCK
<1>2. OutcomeInv'
  BY DEF TypeOK, OwnerInv, OutcomeInv, AppliedNone, AppliedOnce
<1>3. OwnerInv'
  BY OperationsAssumption DEF TypeOK, OwnerInv
<1>4. SessionInv'
  BY DEF TypeOK, OwnerInv, SessionInv, Prefix
<1> QED BY <1>1, <1>2, <1>3, <1>4

LEMMA RollbackTransactionStep ==
  ASSUME IInv, RollbackTransaction
  PROVE  IInv'
<1> USE DEF IInv, server, RollbackTransaction, TransactionFailed, Finish, EndSession
<1>1. TypeOK'
  BY DEF TypeOK, Sending, loopBreaker, NoError, ER_DUP_ENTRY, ER_LOCK_DEADLOCK
<1>2. OutcomeInv'
  BY DEF TypeOK, OwnerInv, OutcomeInv, AppliedNone, AppliedOnce
<1>3. OwnerInv'
  BY OperationsAssumption DEF TypeOK, OwnerInv
<1>4. SessionInv'
  BY DEF TypeOK, OwnerInv, SessionInv, Prefix
<1> QED BY <1>1, <1>2, <1>3, <1>4

LEMMA CommitTransactionStep ==
  ASSUME IInv, CommitTransaction
  PROVE  IInv'
<1> USE DEF IInv, CommitTransaction
<1>1. link = "up" /\ CommitWrites /\ EndSession /\ errno' = NoError
  BY DEF SessionInv
<1>2. applied' \in [Statements -> Nat]
  BY <1>1 DEF CommitWrites, TypeOK
<1>3. TypeOK'
  BY <1>1, <1>2 DEF EndSession, Finish, TypeOK, Sending, NoError
<1>4. ASSUME NEW o \in Operations, NEW i \in 1..NumStatements[o]
      PROVE  applied'[<<o, i>>] =
               IF o = cur THEN applied[<<o, i>>] + 1 ELSE applied[<<o, i>>]
  <2>1. <<o, i>> \in Statements
    BY StatementsMembers
  <2>2. <<o, i>> \in writes <=> o = cur
    BY OperationsAssumption DEF TypeOK, SessionInv, Prefix
  <2> QED BY <1>1, <2>1, <2>2 DEF CommitWrites
<1>5. OutcomeInv'
  BY <1>4 DEF Finish, TypeOK, OwnerInv, OutcomeInv, AppliedNone, AppliedOnce
<1>6. OwnerInv'
  BY DEF Finish, TypeOK, OwnerInv
<1>7. SessionInv'
  BY <1>1 DEF Finish, EndSession, SessionInv
<1> QED BY <1>3, <1>5, <1>6, <1>7

LEMMA LinkLostStep ==
  ASSUME IInv, "lost" \notin Faults, LinkLost
  PROVE  IInv'
<1> USE DEF IInv, server, LinkLost, Inject, EndSession
<1>1. TypeOK'
  BY FaultsAssumption DEF TypeOK, Sending, loopBreaker, NoError, ER_DUP_ENTRY, ER_LOCK_DEADLOCK
<1>2. OutcomeInv'
  BY DEF TypeOK, OwnerInv, OutcomeInv, AppliedNone, AppliedOnce
<1>3. OwnerInv'
  BY DEF TypeOK, OwnerInv
<1>4. SessionInv'
  BY DEF TypeOK, OwnerInv, SessionInv, Prefix
<1> QED BY <1>1, <1>2, <1>3, <1>4

LEMMA HandleMySQLErrnoStep ==
  ASSUME IInv, HandleMySQLErrno
  PROVE  IInv'
<1> USE DEF IInv, server, HandleMySQLErrno, Open, PrepareStatementBroken, Inject
<1>1. TypeOK'
  BY FaultsAssumption DEF TypeOK, Sending, loopBreaker, NoError, ER_DUP_ENTRY, ER_LOCK_DEADLOCK
<1>2. OutcomeInv'
  BY DEF TypeOK, OwnerInv, OutcomeInv, AppliedNone, AppliedOnce
<1>3. OwnerInv'
  BY DEF TypeOK, OwnerInv
<1>4. SessionInv'
  BY DEF TypeOK, OwnerInv, SessionInv, Prefix
<1> QED BY <1>1, <1>2, <1>3, <1>4

LEMMA PingStep ==
  ASSUME IInv, Ping
  PROVE  IInv'
<1> USE DEF IInv, server, Ping
<1>1. TypeOK'
  BY DEF TypeOK, Sending, loopBreaker, NoError, ER_DUP_ENTRY, ER_LOCK_DEADLOCK,
         CR_SERVER_GONE_ERROR
<1>2. OutcomeInv'
  BY DEF TypeOK, OwnerInv, OutcomeInv, AppliedNone, AppliedOnce
<1>3. OwnerInv'
  BY DEF TypeOK, OwnerInv
<1>4. SessionInv'
  BY DEF TypeOK, OwnerInv, SessionInv, Prefix
<1> QED BY <1>1, <1>2, <1>3, <1>4

LEMMA CloseStep ==
  ASSUME IInv, Close
  PROVE  IInv'
<1> USE DEF IInv, server, Close, EndSession
<1>1. TypeOK'
  BY DEF TypeOK, Sending, loopBreaker, NoError, ER_DUP_ENTRY, ER_LOCK_DEADLOCK
<1>2. OutcomeInv'
  BY DEF TypeOK, OwnerInv, OutcomeInv, AppliedNone, AppliedOnce
<1>3. OwnerInv'
  BY DEF TypeOK, OwnerInv
<1>4. SessionInv'
  BY DEF TypeOK, OwnerInv, SessionInv, Prefix
<1> QED BY <1>1, <1>2, <1>3, <1>4

LEMMA NextStep ==
  ASSUME "lost" \notin Faults, IInv, [Next]_vars
  PROVE  IInv'
<1>1. CASE \E o \in Operations : Start(o)
  BY <1>1, StartStep
<1>2. CASE BeginTransaction
  BY <1>2, BeginTransactionStep
<1>3. CASE CommitTransaction
  BY <1>3, CommitTransactionStep
<1>4. CASE RollbackTransaction
  BY <1>4, RollbackTransactionStep
<1>5. CASE ExecuteOk
  BY <1>5, ExecuteOkStep
<1>6. CASE ExecuteError
  BY <1>6, ExecuteErrorStep
<1>7. CASE ExecuteAbort
  BY <1>7, ExecuteAbortStep
<1>8. CASE ExecuteNoHandle
  BY <1>8, ExecuteNoHandleStep
<1>9. CASE LinkLost
  BY <1>9, LinkLostStep
<1>10. CASE AnswerLost
  BY <1>10 DEF AnswerLost, Inject
<1>11. CASE HandleMySQLErrno
  BY <1>11, HandleMySQLErrnoStep
<1>12. CASE Ping
  BY <1>12, PingStep
<1>13. CASE Close
  BY <1>13, CloseStep
<1>14. CASE UNCHANGED vars
  BY <1>14 DEF vars, IInv, TypeOK, OutcomeInv, OwnerInv, SessionInv, Prefix,
               AppliedNone, AppliedOnce
<1> QED
  BY <1>1, <1>2, <1>3, <1>4, <1>5, <1>6, <1>7, <1>8, <1>9, <1>10, <1>11, <1>12,
     <1>13, <1>14 DEF Next

LEMMA SpecIInv ==
  ASSUME "lost" \notin Faults
  PROVE  Spec => []IInv
<1>1. Init => IInv
  BY InitIInv
<1>2. IInv /\ [Next]_vars => IInv'
  BY NextStep
<1> QED BY <1>1, <1>2, PTL DEF Spec

\* ExecuteTransaction is all or nothing and never applied twice, for any
\* operations and any number of deadlocks, duplicates, schema errors, refused
\* or broken reconnects and sessions dropped between two operations.
THEOREM AtomicTheorem ==
  ASSUME "lost" \notin Faults
  PROVE  Spec => []Atomic
<1>1. IInv => Atomic
  BY DEF IInv, TypeOK, OutcomeInv, Atomic
<1> QED BY <1>1, SpecIInv, PTL

-----------------------------------------------------------------------------
(* The refinement of AtomicStore.                                          *)

ViewsAgree ==
  /\ StoreView = [o \in Operations |->
                    IF outcome[o] = "ok" THEN "all" ELSE "none"]
  /\ ReportView = [o \in Operations |->
                     IF outcome[o] \in {"ok", "failed"} THEN outcome[o] ELSE "none"]

\* What AtomicStore sees of the connection follows from the outcomes.
LEMMA ViewsFromOutcome ==
  IInv => ViewsAgree
<1> SUFFICES ASSUME IInv PROVE ViewsAgree
  OBVIOUS
<1>1. ASSUME NEW o \in Operations
      PROVE  (IF AppliedNone(o) THEN "none"
              ELSE IF AppliedOnce(o) THEN "all" ELSE "torn")
             = IF outcome[o] = "ok" THEN "all" ELSE "none"
  <2>1. CASE outcome[o] = "ok"
    <3>1. NumStatements[o] \in Nat /\ NumStatements[o] > 0 /\ AppliedOnce(o)
      BY <2>1, OperationsAssumption DEF IInv, OutcomeInv
    <3>2. 1 \in 1..NumStatements[o]
      BY <3>1
    <3>3. applied[<<o, 1>>] = 1
      BY <3>1, <3>2 DEF AppliedOnce
    <3>4. ~AppliedNone(o)
      BY <3>2, <3>3 DEF AppliedNone
    <3> QED BY <2>1, <3>1, <3>4
  <2>2. CASE outcome[o] # "ok"
    BY <2>2 DEF IInv, OutcomeInv
  <2> QED BY <2>1, <2>2
<1> QED BY <1>1 DEF ViewsAgree, StoreView, ReportView

\* A step changes the outcome of at most one operation, which is not over.
LEMMA OutcomeStep ==
  ASSUME IInv, [Next]_vars
  PROVE  \/ outcome' = outcome
         \/ \E o \in Operations : \E r \in {"running", "ok", "failed"} :
              /\ outcome[o] \in {"new", "running"}
              /\ outcome' = [outcome EXCEPT ![o] = r]
<1> USE DEF IInv
<1>1. ASSUME NEW o \in Operations, Start(o)
      PROVE  /\ outcome[o] = "new"
             /\ \E r \in {"running", "failed"} :
                  outcome' = [outcome EXCEPT ![o] = r]
  BY <1>1 DEF Start
<1>2. CASE BeginTransaction \/ ExecuteAbort \/ LinkLost \/ AnswerLost
           \/ HandleMySQLErrno \/ Ping \/ Close \/ UNCHANGED vars
  BY <1>2 DEF BeginTransaction, ExecuteAbort, LinkLost, AnswerLost,
              HandleMySQLErrno, Ping, Close, vars
<1>3. CASE CommitTransaction \/ RollbackTransaction \/ ExecuteOk
           \/ ExecuteError \/ ExecuteNoHandle
  <2>1. outcome[cur] = "running" /\ cur \in Operations
    BY <1>3 DEF TypeOK, OwnerInv, CommitTransaction, RollbackTransaction,
                ExecuteOk, ExecuteError, ExecuteNoHandle
  <2>2. outcome' = outcome \/ \E r \in {"ok", "failed"} :
                                outcome' = [outcome EXCEPT ![cur] = r]
    BY <1>3 DEF CommitTransaction, RollbackTransaction, ExecuteOk, ExecuteError,
                ExecuteNoHandle, TransactionFailed, StatementDone,
                StatementFailed, Finish
  <2> QED BY <2>1, <2>2
<1> QED BY <1>1, <1>2, <1>3 DEF Next

LEMMA RefinementStep ==
  ASSUME "lost" \notin Faults, IInv, [Next]_vars
  PROVE  [AtomicStoreImpl!Next]_(AtomicStoreImpl!vars)
<1>1. IInv'
  BY NextStep
<1> DEFINE S(f) == [o \in Operations |-> IF f[o] = "ok" THEN "all" ELSE "none"]
           R(f) == [o \in Operations |->
                      IF f[o] \in {"ok", "failed"} THEN f[o] ELSE "none"]
<1>2. StoreView = S(outcome) /\ ReportView = R(outcome)
  BY ViewsFromOutcome DEF ViewsAgree
<1>3. StoreView' = S(outcome') /\ ReportView' = R(outcome')
  <2>1. ViewsAgree'
    BY <1>1, ViewsFromOutcome, PTL
  <2> QED BY <2>1 DEF ViewsAgree
<1>4. CASE outcome' = outcome
  BY <1>2, <1>3, <1>4 DEF AtomicStoreImpl!vars
<1>5. ASSUME NEW o \in Operations, NEW r \in {"running", "ok", "failed"},
             outcome[o] \in {"new", "running"},
             outcome' = [outcome EXCEPT ![o] = r]
      PROVE  [AtomicStoreImpl!Next]_(AtomicStoreImpl!vars)
  <2>1. outcome \in [Operations -> {"new", "running", "ok", "failed"}]
    BY DEF IInv, TypeOK
  <2>2. CASE r = "running"
    BY <1>2, <1>3, <1>5, <2>1, <2>2 DEF AtomicStoreImpl!vars
  <2>3. CASE r = "ok"
    BY <1>2, <1>3, <1>5, <2>1, <2>3 DEF AtomicStoreImpl!Next, AtomicStoreImpl!Commit
  <2>4. CASE r = "failed"
    BY <1>2, <1>3, <1>5, <2>1, <2>4 DEF AtomicStoreImpl!Next, AtomicStoreImpl!Reject
  <2> QED BY <2>2, <2>3, <2>4
<1> QED BY <1>4, <1>5, OutcomeStep

\* The connection implements AtomicStore: what is durable of an operation
\* changes in one step, together with a truthful report.
THEOREM Refinement ==
  ASSUME "lost" \notin Faults
  PROVE  Spec => ImplementsAtomicStore
<1>1. Init => AtomicStoreImpl!Init
  <2> SUFFICES ASSUME Init PROVE AtomicStoreImpl!Init
    OBVIOUS
  <2>1. IInv
    BY InitIInv
  <2> QED BY <2>1, ViewsFromOutcome DEF ViewsAgree, Init, AtomicStoreImpl!Init
<1>2. IInv /\ [Next]_vars => [AtomicStoreImpl!Next]_(AtomicStoreImpl!vars)
  BY RefinementStep
<1> QED BY <1>1, <1>2, SpecIInv, PTL
  DEF Spec, ImplementsAtomicStore, AtomicStoreImpl!Spec
-----------------------------------------------------------------------------
(* Whatever breaks: the link may be lost anywhere.  What the session holds *)
(* is then no longer known, but it is the current operation's.             *)

OpenInv ==
  /\ session = "autocommit" => writes = {}
  /\ session = "transaction" =>
       /\ pc \in {"statement", "commit", "rollback"}
       /\ cur \notin Autocommit
       /\ link = "up"
  /\ \A s \in writes : s[1] = cur

LossyInv == TypeOK /\ OwnerInv /\ OpenInv

LEMMA LossyInit == Init => LossyInv
<1> SUFFICES ASSUME Init PROVE LossyInv
  OBVIOUS
<1>1. TypeOK
  BY FaultsAssumption
     DEF Init, TypeOK, Sending, NoError, loopBreaker
<1> QED
  BY <1>1 DEF Init, LossyInv, OwnerInv, OpenInv

\* COMMIT and a statement outside a transaction count every statement once.
LEMMA WritesTyped ==
  ASSUME TypeOK
  PROVE  /\ CommitWrites => applied' \in [Statements -> Nat]
         /\ \A s \in Statements :
              [applied EXCEPT ![s] = @ + 1] \in [Statements -> Nat]
BY DEF TypeOK, CommitWrites

LEMMA LossyStart ==
  ASSUME LossyInv, NEW o \in Operations, Start(o)
  PROVE  LossyInv'
<1> USE DEF LossyInv, Start, server
<1>1. TypeOK'
  BY DEF TypeOK, Sending, loopBreaker
<1>2. OwnerInv'
  BY OperationsAssumption DEF TypeOK, OwnerInv
<1>3. OpenInv'
  BY DEF TypeOK, OpenInv
<1> QED BY <1>1, <1>2, <1>3

LEMMA LossyBegin ==
  ASSUME LossyInv, BeginTransaction
  PROVE  LossyInv'
<1> USE DEF LossyInv, BeginTransaction, StartTransaction, server
<1>1. TypeOK'
  BY WritesTyped DEF TypeOK, Sending, NoError
<1>2. OwnerInv'
  BY OperationsAssumption DEF TypeOK, OwnerInv
<1>3. OpenInv'
  BY DEF TypeOK, OwnerInv, OpenInv
<1> QED BY <1>1, <1>2, <1>3

LEMMA LossyCommit ==
  ASSUME LossyInv, CommitTransaction
  PROVE  LossyInv'
<1> USE DEF LossyInv, CommitTransaction, EndSession, Finish, server
<1>1. TypeOK'
  BY WritesTyped DEF TypeOK, Sending, NoError
<1>2. OwnerInv'
  BY DEF TypeOK, OwnerInv
<1>3. OpenInv'
  BY DEF TypeOK, OpenInv
<1> QED BY <1>1, <1>2, <1>3

LEMMA LossyRollback ==
  ASSUME LossyInv, RollbackTransaction
  PROVE  LossyInv'
<1> USE DEF LossyInv, RollbackTransaction, TransactionFailed, EndSession, Finish
<1>1. TypeOK'
  BY DEF TypeOK, Sending, loopBreaker, NoError, ER_LOCK_DEADLOCK
<1>2. OwnerInv'
  BY DEF TypeOK, OwnerInv
<1>3. OpenInv'
  BY DEF TypeOK, OpenInv
<1> QED BY <1>1, <1>2, <1>3

LEMMA LossyExecuteOk ==
  ASSUME LossyInv, ExecuteOk
  PROVE  LossyInv'
<1> USE DEF LossyInv, ExecuteOk, StatementDone, Finish
<1>0. <<cur, itr>> \in Statements
  BY StatementsMembers DEF TypeOK, OwnerInv
<1>a. /\ applied' \in [Statements -> Nat] /\ writes' \subseteq Statements
      /\ session' = session
  BY <1>0, WritesTyped DEF TypeOK, Apply
<1>b. \A s \in writes' : s \in writes \/ (s = <<cur, itr>> /\ session = "transaction")
  BY DEF Apply
<1>1. TypeOK'
  BY <1>a DEF TypeOK, Sending, NoError
<1>2. OwnerInv'
  BY OperationsAssumption DEF TypeOK, OwnerInv
<1>3. OpenInv'
  BY <1>a, <1>b DEF TypeOK, OpenInv
<1> QED BY <1>1, <1>2, <1>3

LEMMA LossyExecuteError ==
  ASSUME LossyInv, ExecuteError
  PROVE  LossyInv'
<1> USE DEF LossyInv, ExecuteError, StatementFailed, Finish, Inject, EndSession, server
<1>1. TypeOK'
  BY FaultsAssumption DEF TypeOK, Sending, NoError, ER_DUP_ENTRY, ER_LOCK_DEADLOCK
<1>2. OwnerInv'
  BY DEF TypeOK, OwnerInv
<1>3. OpenInv'
  BY DEF TypeOK, OwnerInv, OpenInv
<1> QED BY <1>1, <1>2, <1>3

LEMMA LossyExecuteAbort ==
  ASSUME LossyInv, ExecuteAbort
  PROVE  LossyInv'
<1> USE DEF LossyInv, ExecuteAbort, Inject, EndSession
<1>1. TypeOK'
  BY FaultsAssumption DEF TypeOK
<1>2. OwnerInv'
  BY DEF TypeOK, OwnerInv
<1>3. OpenInv'
  BY DEF TypeOK, OwnerInv, OpenInv
<1> QED BY <1>1, <1>2, <1>3

LEMMA LossyExecuteNoHandle ==
  ASSUME LossyInv, ExecuteNoHandle
  PROVE  LossyInv'
<1> USE DEF LossyInv, ExecuteNoHandle, StatementFailed, Finish, server
<1>1. TypeOK'
  BY DEF TypeOK, Sending
<1>2. OwnerInv'
  BY DEF TypeOK, OwnerInv
<1>3. OpenInv'
  BY DEF TypeOK, OwnerInv, OpenInv
<1> QED BY <1>1, <1>2, <1>3

LEMMA LossyLinkLost ==
  ASSUME LossyInv, LinkLost
  PROVE  LossyInv'
<1> USE DEF LossyInv, LinkLost, Inject, EndSession
<1>1. TypeOK'
  BY FaultsAssumption DEF TypeOK
<1>2. OwnerInv'
  BY DEF TypeOK, OwnerInv
<1>3. OpenInv'
  BY DEF TypeOK, OwnerInv, OpenInv
<1> QED BY <1>1, <1>2, <1>3

LEMMA LossyAnswer ==
  ASSUME LossyInv, AnswerLost
  PROVE  LossyInv'
<1> USE DEF LossyInv, AnswerLost, Inject, EndSession
<1>0. pc = "statement" => <<cur, itr>> \in Statements
  BY StatementsMembers DEF TypeOK, OwnerInv
<1>a. applied' \in [Statements -> Nat]
  BY <1>0, WritesTyped DEF TypeOK
<1>1. TypeOK'
  BY <1>a, FaultsAssumption DEF TypeOK
<1>2. OwnerInv'
  BY DEF TypeOK, OwnerInv
<1>3. OpenInv'
  BY DEF TypeOK, OpenInv
<1> QED BY <1>1, <1>2, <1>3

LEMMA LossyReconnect ==
  ASSUME LossyInv, HandleMySQLErrno
  PROVE  LossyInv'
<1> USE DEF LossyInv, HandleMySQLErrno, Open, PrepareStatementBroken, Inject, server
<1>1. TypeOK'
  BY FaultsAssumption DEF TypeOK, NoError
<1>2. OwnerInv'
  BY DEF TypeOK, OwnerInv
<1>3. OpenInv'
  BY DEF TypeOK, OwnerInv, OpenInv
<1> QED BY <1>1, <1>2, <1>3

LEMMA LossyPing ==
  ASSUME LossyInv, Ping
  PROVE  LossyInv'
<1> USE DEF LossyInv, Ping, server
<1>1. TypeOK'
  BY DEF TypeOK, NoError, CR_SERVER_GONE_ERROR
<1>2. OwnerInv'
  BY DEF TypeOK, OwnerInv
<1>3. OpenInv'
  BY DEF TypeOK, OwnerInv, OpenInv
<1> QED BY <1>1, <1>2, <1>3

LEMMA LossyClose ==
  ASSUME LossyInv, Close
  PROVE  LossyInv'
<1> USE DEF LossyInv, Close, EndSession
<1>1. TypeOK'
  BY DEF TypeOK
<1>2. OwnerInv'
  BY DEF TypeOK, OwnerInv
<1>3. OpenInv'
  BY DEF TypeOK, OwnerInv, OpenInv
<1> QED BY <1>1, <1>2, <1>3

LEMMA LossyNext ==
  ASSUME LossyInv, [Next]_vars
  PROVE  LossyInv'
<1>1. CASE UNCHANGED vars
  BY <1>1 DEF vars, LossyInv, TypeOK, OwnerInv, OpenInv
<1> QED
  BY <1>1, LossyStart, LossyBegin, LossyCommit, LossyRollback, LossyExecuteOk,
     LossyExecuteError, LossyExecuteAbort, LossyExecuteNoHandle, LossyLinkLost,
     LossyAnswer, LossyReconnect, LossyPing, LossyClose DEF Next

\* Only the operation that is executed gets a result or becomes durable.
LEMMA OnlyCurrent ==
  ASSUME LossyInv, [Next]_vars, NEW o \in Operations, outcome[o] \in {"ok", "failed"}
  PROVE  /\ outcome'[o] = outcome[o]
         /\ \A i \in 1..NumStatements[o] : applied'[<<o, i>>] = applied[<<o, i>>]
<1>1. outcome'[o] = outcome[o]
  BY DEF LossyInv, TypeOK, OwnerInv, Next, vars, Start, BeginTransaction,
         CommitTransaction, RollbackTransaction, ExecuteOk, ExecuteError, ExecuteAbort,
         ExecuteNoHandle, LinkLost, AnswerLost, HandleMySQLErrno, Ping, Close,
         Finish, TransactionFailed, StatementDone, StatementFailed
<1>2. pc # "idle" => o # cur
  BY DEF LossyInv, OwnerInv
<1>3. \/ pc # "idle" /\ CommitWrites
      \/ pc # "idle" /\ applied' = [applied EXCEPT ![<<cur, itr>>] = @ + 1]
      \/ applied' = applied
  BY DEF Next, vars, server, Start, BeginTransaction, StartTransaction,
         CommitTransaction, RollbackTransaction, ExecuteOk, Apply, ExecuteError,
         ExecuteAbort, ExecuteNoHandle, LinkLost, AnswerLost, HandleMySQLErrno, Ping, Close
<1>4. ASSUME NEW i \in 1..NumStatements[o]
      PROVE  applied'[<<o, i>>] = applied[<<o, i>>]
  <2>1. <<o, i>> \in Statements
    BY StatementsMembers
  <2>2. CASE pc # "idle" /\ CommitWrites
    <3>1. <<o, i>> \notin writes
      BY <1>2, <2>2 DEF LossyInv, OpenInv
    <3> QED
      BY <2>1, <2>2, <3>1 DEF CommitWrites
  <2>3. CASE pc # "idle" /\ applied' = [applied EXCEPT ![<<cur, itr>>] = @ + 1]
    BY <1>2, <2>1, <2>3 DEF LossyInv, TypeOK
  <2> QED
    BY <1>3, <2>2, <2>3
<1> QED
  BY <1>1, <1>4

LEMMA SpecLossyInv == Spec => []LossyInv
<1>1. LossyInv /\ [Next]_vars => LossyInv'
  BY LossyNext
<1> QED BY <1>1, LossyInit, PTL DEF Spec

\* TypeOK holds of every behaviour of the connection, whatever breaks.
THEOREM TypeCorrect == Spec => []TypeOK
<1>1. LossyInv => TypeOK
  BY DEF LossyInv
<1> QED BY <1>1, SpecLossyInv, PTL

\* No error path of ExecuteTransaction and no loss of the link, wherever it
\* falls, leaves an open transaction to the next operation of the connection.
THEOREM NoOrphanTheorem == Spec => []NoOrphanTransaction
<1>1. LossyInv => NoOrphanTransaction
  BY DEF LossyInv, TypeOK, OpenInv, NoOrphanTransaction
<1> QED BY <1>1, SpecLossyInv, PTL

\* Once Execute or ExecuteTransaction has returned, no retry, reconnect or
\* late commit changes the result or what is durable of that operation.
THEOREM ReportIsFinalTheorem == Spec => ReportIsFinal
<1>1. LossyInv /\ [Next]_vars =>
        [\A o \in Operations :
           outcome[o] \in {"ok", "failed"} =>
             /\ outcome'[o] = outcome[o]
             /\ \A i \in 1..NumStatements[o] :
                  applied'[<<o, i>>] = applied[<<o, i>>]]_vars
  BY OnlyCurrent
<1> QED BY <1>1, SpecLossyInv, PTL DEF Spec, ReportIsFinal
=============================================================================
