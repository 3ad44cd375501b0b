------------------------------ MODULE MCServer ------------------------------
(* Instances of MagicLinkWorkflow and ServerProcess for TLC.  The first    *)
(* follows workflows over several processes, the second one process, for   *)
(* which a workflow is one of the tasks that use its connections; so a     *)
(* behaviour is of one of them.                                            *)
EXTENDS MCMagicLinkWorkflow, ServerProcess

(* Two requests for the address of one account; nobody asks for another. *)
MCOneAddress == (r1 :> known) @@ (r2 :> known)

VARIABLE part   \* whose behaviour it is

W(A) == part = "workflows" /\ A /\ UNCHANGED <<serverVars, part>>
P(A) == part = "process" /\ A /\ UNCHANGED <<vars, part>>

MCInit == Init /\ ServerInit /\ part \in {"workflows", "process"}

MCNext ==
  \/ \E r \in Requests :
       \/ W(RunWorkflow(r)) \/ W(StoreToken(r)) \/ W(RejectToken(r)) \/ W(FailToken(r))
       \/ W(RecordToken(r)) \/ W(SendEmail(r)) \/ W(FailEmail(r)) \/ W(RecordEmail(r))
       \/ W(Finish(r))
  \/ W(Crash) \/ W(Launch)
  \/ \E a \in Addresses : W(CoolDown(a))
  \/ P(SetUp) \/ P(SetUpFails) \/ P(Serve) \/ P(ServeFails)
  \/ P(Signal) \/ P(BudgetElapses)
  \/ \E s \in {"http", "grpc"} : P(Drain(s)) \/ P(Drained(s))
  \/ P(ForceStop) \/ P(Stopped) \/ P(ClosePool) \/ P(TearDown) \/ P(Return) \/ P(Kill)
  \/ \E c \in RequestTasks :
       \/ P(HTTPRequest(c)) \/ P(CloseStream(c))
       \/ \E op \in Operations \cup {Stream} : P(GRPCCall(c, op))
  \/ \E c \in Workflows : P(WorkflowRuns(c))
  \/ \E c \in Tasks :
       \/ \E op \in Operations : P(Forward(c, op))
       \/ P(ForwardFails(c))
       \/ P(Access(c, Acquire(c))) \/ P(Access(c, AcquireFails(c)))
       \/ P(Access(c, RunStatement(c))) \/ P(Access(c, StatementFails(c)))
       \/ P(Access(c, FinishOperation(c)))
       \/ P(Answer(c))

MCVars == <<vars, serverVars, part>>

(* The fairness of FairSpec and of ServerSpec. *)
MCFairness ==
  /\ WF_MCVars(W(Launch)) /\ \A r \in Requests : WF_MCVars(W(Step(r)))
  /\ WF_MCVars(P(ProcessStep)) /\ \A c \in Tasks : WF_MCVars(P(TaskStep(c)))

MCSpec == MCInit /\ [][MCNext]_MCVars /\ MCFairness

(* The state of the workflows of workflows/auth and of the process of      *)
(* cmd/server is of its types, whichever is followed.                      *)
TypesOK == TypeOK /\ ServerTypeOK
=============================================================================
