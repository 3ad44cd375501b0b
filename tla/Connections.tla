---------------------------- MODULE Connections ----------------------------
(***************************************************************************)
(* Database access of data/pgdb: tasks run operations, each a sequence of  *)
(* statements, over a pool of connections.  A statement joins the          *)
(* transaction its context carries and takes a connection of its own when  *)
(* there is none.                                                          *)
(*                                                                         *)
(* What the statements do to rows, and the locks they wait for, is in the  *)
(* modules of the components; here any statement may fail.                 *)
(***************************************************************************)
EXTENDS Integers, Sequences, FiniteSets

CONSTANTS
  Tasks,      \* what may access the database: requests and workflows
  MaxConns    \* PgDB.Pool.MaxConns

ASSUME ConnectionsAssumption == MaxConns \in Nat \ {0} /\ IsFiniteSet(Tasks)

VARIABLES
  job,        \* the operation of each task, see NoJob
  wrote,      \* the statements that wrote in a task's open transaction
  saved,      \* history: the statements of a task whose writes are committed
  outcome,    \* "none", "ok", "error" or, when the pool refused it, "closed"
  cancelled,  \* the tasks whose context is cancelled
  pool        \* "none", "open" or "closed"

dbVars == <<job, wrote, saved, outcome, cancelled, pool>>

(* The operation, its statement, the transaction in its context ("none",   *)
(* "open", or "closed" once it is committed) and whether the statement has *)
(* taken a connection.                                                     *)
NoJob == [op |-> "none", at |-> 1, tx |-> "none", conn |-> FALSE]
-----------------------------------------------------------------------------
(* The statements of the cores' operations: "begin" is RunTx, whose        *)
(* transaction lasts to the end of the operation, "read" and "write" are   *)
(* RunBatch, "lock" is RunExec and "write tx" is RunBatchTx.               *)
RoleStatements == <<"begin", "read", "write tx">>
RoleNameStatements == <<"write tx">>
RolePermissionsStatements == <<"begin", "read", "lock", "read", "read", "write tx">>
MagicLinkStatements == <<"begin", "lock", "read", "write", "write">>
VerifyStatements == <<"read", "begin", "write", "write", "write">>

(* Mutant: the administrator role is created as other roles are. *)
OrganizationStatementsWithRoleTx ==
  <<"begin", "write", "write", "write", "write tx", "write">>

OrganizationStatements == <<"begin", "write", "write", "write", "write", "write">>

Body(op) ==
  CASE op = "Users" -> <<"read">>
    [] op = "UpdateUser" -> <<"write">>
    [] op = "CreateCustomRole" -> RoleStatements
    [] op = "UpdateCustomRole, name" -> RoleNameStatements
    [] op = "UpdateCustomRole, permissions" -> RolePermissionsStatements
    [] op = "MagicLinkToken" -> MagicLinkStatements
    [] op = "VerifyMagicLink" -> VerifyStatements
    [] op = "CreateOrganization" -> OrganizationStatements
    [] OTHER -> << >>

Writes(op) == {i \in DOMAIN Body(op) : Body(op)[i] \in {"write", "write tx"}}
-----------------------------------------------------------------------------
Running(c) == job[c].op # "none" /\ outcome[c] = "none"

AtStatement(c) == Running(c) /\ job[c].at \in DOMAIN Body(job[c].op)

(* The connections that are taken, by transactions and by statements. *)
HeldConns ==
  Cardinality({c \in Tasks : job[c].tx = "open"}) + Cardinality({c \in Tasks : job[c].conn})

(* Mutant: statements use the pool also within a transaction. *)
JoinsNoTx(c) == FALSE

(* txFromCtx *)
JoinsTx(c) == job[c].tx # "none"

DbInit ==
  /\ job = [c \in Tasks |-> NoJob]
  /\ wrote = [c \in Tasks |-> {}] /\ saved = [c \in Tasks |-> {}]
  /\ outcome = [c \in Tasks |-> "none"]
  /\ cancelled = {} /\ pool = "none"

(* The operation ends: its transaction is over, its connections are back. *)
Conclude(c, result, committed) ==
  /\ outcome' = [outcome EXCEPT ![c] = result]
  /\ saved' = [saved EXCEPT ![c] = @ \cup committed]
  /\ wrote' = [wrote EXCEPT ![c] = {}]
  /\ job' = [job EXCEPT ![c].tx = "none", ![c].conn = FALSE]
  /\ UNCHANGED <<cancelled, pool>>

(* pgxpool waits for a free connection, in no transaction to wait with. *)
Acquire(c) ==
  /\ AtStatement(c) /\ ~JoinsTx(c) /\ ~job[c].conn
  /\ pool = "open" /\ HeldConns < MaxConns
  /\ job' = [job EXCEPT ![c].conn = TRUE]
  /\ UNCHANGED <<wrote, saved, outcome, cancelled, pool>>

AcquireFails(c) ==
  /\ AtStatement(c) /\ ~JoinsTx(c) /\ ~job[c].conn
  /\ \/ pool # "open" /\ Conclude(c, "closed", {})
     \/ c \in cancelled /\ Conclude(c, "error", {})

Ready(c) == AtStatement(c) /\ (JoinsTx(c) \/ job[c].conn)

(* The transaction in the context may be closed by now: ErrTxClosed. *)
RunStatement(c) ==
  LET j == job[c]
      s == Body(j.op)[j.at]
      next == [j EXCEPT !.at = @ + 1, !.conn = FALSE]
  IN /\ Ready(c) /\ c \notin cancelled
     /\ JoinsTx(c) => j.tx = "open"
     /\ CASE s = "begin" ->  \* RunTx begins, or joins
               /\ job' = [job EXCEPT ![c] = [next EXCEPT !.tx = "open"]]
               /\ UNCHANGED <<wrote, saved>>
          [] s \in {"read", "lock"} ->
               /\ job' = [job EXCEPT ![c] = next]
               /\ UNCHANGED <<wrote, saved>>
          [] s = "write" ->
               /\ job' = [job EXCEPT ![c] = next]
               /\ IF JoinsTx(c)
                  THEN wrote' = [wrote EXCEPT ![c] = @ \cup {j.at}] /\ UNCHANGED saved
                  ELSE saved' = [saved EXCEPT ![c] = @ \cup {j.at}] /\ UNCHANGED wrote
          [] s = "write tx" ->  \* commits, whoever began the transaction
               /\ job' = [job EXCEPT ![c] =
                            [next EXCEPT !.tx = IF JoinsTx(c) THEN "closed" ELSE "none"]]
               /\ saved' = [saved EXCEPT ![c] = @ \cup wrote[c] \cup {j.at}]
               /\ wrote' = [wrote EXCEPT ![c] = {}]
     /\ UNCHANGED <<outcome, cancelled, pool>>

(* The statement fails, and whoever owns the transaction rolls it back. *)
StatementFails(c) == Ready(c) /\ Conclude(c, "error", {})

(* The operation returns; RunTx commits, and takes ErrTxClosed for done. *)
FinishOperation(c) ==
  /\ Running(c) /\ ~AtStatement(c)
  /\ \/ Conclude(c, "ok", wrote[c])
     \/ job[c].tx = "open" /\ Conclude(c, "error", {})

DbStep(c) ==
  \/ Acquire(c) \/ AcquireFails(c) \/ RunStatement(c) \/ StatementFails(c)
  \/ FinishOperation(c)
-----------------------------------------------------------------------------
(* What an operation reports is what it did: all of its writes are         *)
(* committed when it succeeds and none when it fails, although RunBatchTx  *)
(* commits also the transaction of an outer RunTx.                         *)
AllOrNothing ==
  \A c \in Tasks :
    CASE outcome[c] = "ok" -> saved[c] = Writes(job[c].op)
      [] outcome[c] \in {"error", "closed"} -> saved[c] = {}
      [] OTHER -> TRUE
=============================================================================
