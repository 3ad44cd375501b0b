------------------------- MODULE MagicLinkWorkflow --------------------------
(***************************************************************************)
(* RequestMagicLink of workflows/auth/auth.go: a workflow of two steps,    *)
(* store-token and send-email, which DBOS runs and resumes.  DBOS is       *)
(* external: it keeps a row per workflow id and one per finished step, and *)
(* on restart it runs every pending workflow again, taking the results of  *)
(* finished steps from their rows.  Between what a step does and the row   *)
(* that records it the process may crash.                                  *)
(*                                                                         *)
(* MagicLinkToken is atomic here; MagicLinks has its transaction.  Of the  *)
(* rate limit only the window that an issued link opens is kept.           *)
(***************************************************************************)
EXTENDS Naturals, Sequences

CONSTANTS
  Requests,     \* workflow ids, one for each idempotency key and request
  Addresses,    \* e-mail addresses
  Address,      \* the address of each request
  Provisioned,  \* addresses that belong to an account
  MaxLinks,     \* how many links may be issued, which bounds a run
  MaxCrashes    \* how often the process may crash, which bounds a run

ASSUME AddressAssumption ==
  Address \in [Requests -> Addresses] /\ Provisioned \subseteq Addresses
ASSUME BoundsAssumption == MaxLinks \in Nat /\ MaxCrashes \in Nat

Links == 1 .. MaxLinks
NoLink == 0

VARIABLES
  up,           \* the server process runs
  crashes,
  status,       \* workflow rows: "absent", "pending", "success" or "error"
  token,        \* rows of store-token: "none", "stored", "rejected" or "failed"
  link,         \* the link such a row records
  mail,         \* rows of send-email: "none", "sent" or "failed"
  pc,           \* where the workflow's goroutine is; "idle" when there is none
  local,        \* the link in the goroutine's memory
  owners,       \* the request each issued link was issued for
  cooling,      \* addresses within MagicLinkRateLimit of their last link
  mails,        \* history: the links e-mailed for each request
  interrupted,  \* history: requests whose link was committed when the
                \* process crashed before its row was written
  replayed      \* history: requests that DBOS has resumed

rows == <<status, token, link, mail>>
memory == <<up, pc, local>>
history == <<mails, interrupted, replayed>>
vars == <<crashes, rows, memory, owners, cooling, history>>

issued == Len(owners)

IssuedFor(r) == {l \in 1 .. issued : owners[l] = r}

Init ==
  /\ up = TRUE
  /\ crashes = 0
  /\ status = [r \in Requests |-> "absent"]
  /\ token = [r \in Requests |-> "none"]
  /\ link = [r \in Requests |-> NoLink]
  /\ mail = [r \in Requests |-> "none"]
  /\ pc = [r \in Requests |-> "idle"]
  /\ local = [r \in Requests |-> NoLink]
  /\ owners = <<>>
  /\ cooling = {}
  /\ mails = [r \in Requests |-> <<>>]
  /\ interrupted = {}
  /\ replayed = {}

Goto(r, to) == pc' = [pc EXCEPT ![r] = to] /\ UNCHANGED up
-----------------------------------------------------------------------------
(* Mutant: a finished workflow with the same id runs again. *)
StartAgain(r) ==
  /\ up
  /\ status[r] # "pending"
  /\ status' = [status EXCEPT ![r] = "pending"]
  /\ token' = [token EXCEPT ![r] = "none"]
  /\ mail' = [mail EXCEPT ![r] = "none"]
  /\ Goto(r, "store")
  /\ UNCHANGED <<crashes, link, local, owners, cooling, history>>

(* RunWorkflow with an id that exists returns a handle to that workflow,   *)
(* so a retry changes nothing.                                             *)
RunWorkflow(r) ==
  /\ up
  /\ status[r] = "absent"
  /\ status' = [status EXCEPT ![r] = "pending"]
  /\ Goto(r, "store")
  /\ UNCHANGED <<crashes, token, link, mail, local, owners, cooling, history>>

MayIssue(r) == Address[r] \in Provisioned /\ Address[r] \notin cooling

Issue(r) ==
  /\ issued < MaxLinks
  /\ owners' = Append(owners, r)
  /\ cooling' = cooling \cup {Address[r]}

(* MagicLinkToken commits a link; the row of the step is still to come. *)
StoreToken(r) ==
  /\ pc[r] = "store"
  /\ MayIssue(r)
  /\ Issue(r)
  /\ local' = [local EXCEPT ![r] = issued + 1]
  /\ Goto(r, "stored")
  /\ UNCHANGED <<crashes, rows, history>>

(* ErrNotFound or ErrRateLimited, and the row that records it. *)
RejectToken(r) ==
  /\ pc[r] = "store"
  /\ ~MayIssue(r)
  /\ token' = [token EXCEPT ![r] = "rejected"]
  /\ Goto(r, "finish")
  /\ UNCHANGED <<crashes, status, link, mail, local, owners, cooling, history>>

(* Any other error, also a commit whose acknowledgement is lost. *)
FailToken(r) ==
  /\ pc[r] = "store"
  /\ \/ UNCHANGED <<owners, cooling>>
     \/ MayIssue(r) /\ Issue(r)
  /\ token' = [token EXCEPT ![r] = "failed"]
  /\ Goto(r, "finish")
  /\ UNCHANGED <<crashes, status, link, mail, local, history>>

RecordToken(r) ==
  /\ pc[r] = "stored"
  /\ token' = [token EXCEPT ![r] = "stored"]
  /\ link' = [link EXCEPT ![r] = local[r]]
  /\ Goto(r, "send")
  /\ UNCHANGED <<crashes, status, mail, local, owners, cooling, history>>

(* The sender accepts the message. *)
SendEmail(r) ==
  /\ pc[r] = "send"
  /\ mails' = [mails EXCEPT ![r] = Append(@, local[r])]
  /\ Goto(r, "mailed")
  /\ UNCHANGED <<crashes, rows, local, owners, cooling, interrupted, replayed>>

(* The sender reports an error, having sent the message or not. *)
FailEmail(r) ==
  /\ pc[r] = "send"
  /\ mails' \in {mails, [mails EXCEPT ![r] = Append(@, local[r])]}
  /\ mail' = [mail EXCEPT ![r] = "failed"]
  /\ Goto(r, "finish")
  /\ UNCHANGED <<crashes, status, token, link, local, owners, cooling>>
  /\ UNCHANGED <<interrupted, replayed>>

RecordEmail(r) ==
  /\ pc[r] = "mailed"
  /\ mail' = [mail EXCEPT ![r] = "sent"]
  /\ Goto(r, "finish")
  /\ UNCHANGED <<crashes, status, token, link, local, owners, cooling, history>>

(* Mutant: the error of send-email is swallowed. *)
OutcomesSwallowingMailError(r) ==
  IF token[r] \in {"stored", "rejected"} THEN {"success"} ELSE {"error"}

(* requestMagicLinkWorkflow recognises a rejection by the identity of the  *)
(* error, which one read back from a row may have lost.                    *)
Outcomes(r) ==
  CASE mail[r] = "sent" -> {"success"}
    [] token[r] = "rejected" ->
         IF r \in replayed THEN {"success", "error"} ELSE {"success"}
    [] OTHER -> {"error"}

(* Mutant: the goroutine stays. *)
FinishLingering(r) ==
  /\ pc[r] = "finish"
  /\ \E o \in Outcomes(r) : status' = [status EXCEPT ![r] = o]
  /\ UNCHANGED <<crashes, memory, token, link, mail, owners, cooling, history>>

Finish(r) ==
  /\ pc[r] = "finish"
  /\ \E o \in Outcomes(r) : status' = [status EXCEPT ![r] = o]
  /\ local' = [local EXCEPT ![r] = NoLink]
  /\ Goto(r, "idle")
  /\ UNCHANGED <<crashes, token, link, mail, owners, cooling, history>>
-----------------------------------------------------------------------------
(* The process ends, also by a shutdown that does not wait any longer. *)
Crash ==
  /\ up
  /\ crashes < MaxCrashes
  /\ crashes' = crashes + 1
  /\ up' = FALSE
  /\ pc' = [r \in Requests |-> "idle"]
  /\ local' = [r \in Requests |-> NoLink]
  /\ interrupted' = interrupted \cup {r \in Requests : pc[r] = "stored"}
  /\ UNCHANGED <<rows, owners, cooling, mails, replayed>>

Pending == {r \in Requests : status[r] = "pending"}

(* Where a pending workflow goes on, given the rows of its steps. *)
Resume(r) ==
  CASE token[r] = "none" -> "store"
    [] token[r] = "stored" /\ mail[r] = "none" -> "send"
    [] OTHER -> "finish"

(* Mutant: Launch forgets the workflows the last process left. *)
LaunchForgetting ==
  /\ ~up
  /\ up' = TRUE
  /\ UNCHANGED <<crashes, rows, pc, local, owners, cooling, history>>

(* Launch resumes what the last process left pending. *)
Launch ==
  /\ ~up
  /\ up' = TRUE
  /\ pc' = [r \in Requests |-> IF r \in Pending THEN Resume(r) ELSE "idle"]
  /\ local' = [r \in Requests |-> IF r \in Pending THEN link[r] ELSE NoLink]
  /\ replayed' = replayed \cup Pending
  /\ UNCHANGED <<crashes, rows, owners, cooling, mails, interrupted>>

(* MagicLinkRateLimit passes. *)
CoolDown(a) ==
  /\ a \in cooling
  /\ cooling' = cooling \ {a}
  /\ UNCHANGED <<crashes, rows, memory, owners, history>>

Step(r) ==
  \/ StoreToken(r) \/ RejectToken(r) \/ FailToken(r) \/ RecordToken(r)
  \/ SendEmail(r) \/ FailEmail(r) \/ RecordEmail(r) \/ Finish(r)

Next ==
  \/ \E r \in Requests : RunWorkflow(r) \/ Step(r)
  \/ Crash \/ Launch
  \/ \E a \in Addresses : CoolDown(a)

Spec == Init /\ [][Next]_vars

(* The runtime schedules the goroutines; the process is restarted. *)
FairSpec == Spec /\ WF_vars(Launch) /\ \A r \in Requests : WF_vars(Step(r))
-----------------------------------------------------------------------------
TypeOK ==
  /\ up \in BOOLEAN
  /\ crashes \in 0 .. MaxCrashes
  /\ status \in [Requests -> {"absent", "pending", "success", "error"}]
  /\ token \in [Requests -> {"none", "stored", "rejected", "failed"}]
  /\ link \in [Requests -> Links \cup {NoLink}]
  /\ mail \in [Requests -> {"none", "sent", "failed"}]
  /\ pc \in [Requests -> {"idle", "store", "stored", "send", "mailed", "finish"}]
  /\ local \in [Requests -> Links \cup {NoLink}]
  /\ owners \in Seq(Requests) /\ issued \in 0 .. MaxLinks
  /\ cooling \subseteq Provisioned
  /\ mails \in [Requests -> Seq(Links)]
  /\ interrupted \subseteq Requests
  /\ replayed \subseteq Requests
  /\ \A r \in Requests : pc[r] # "idle" => up /\ status[r] = "pending"

(* What RequestMagicLink says of itself: a crash after the token is stored *)
(* and before the e-mail is sent still gets the e-mail sent (auth.go:70).  *)
StoredTokenIsMailed ==
  \A r \in Requests :
    status[r] = "success" /\ IssuedFor(r) # {} => mails[r] # <<>>

(* A request that issued a link and reports success has sent it, however   *)
(* often it was resumed, unless a crash hit between the commit of the link *)
(* and the row of store-token.                                             *)
MailedUnlessInterrupted ==
  \A r \in Requests :
    /\ status[r] = "success"
    /\ IssuedFor(r) # {}
    /\ r \notin interrupted
    => mails[r] # <<>>

(* Retries of a request send one e-mail; only a crash can repeat it, and   *)
(* what is sent is a link issued for that very request (auth.go:71).       *)
OneMailPerRequest ==
  \A r \in Requests :
    /\ Len(mails[r]) <= 1 + crashes
    /\ \A i \in 1 .. Len(mails[r]) : owners[mails[r][i]] = r

(* A request ends, whatever crashes on the way: RequestMagicLink, which    *)
(* waits for the result, is answered.                                      *)
RequestsEnd ==
  \A r \in Requests : status[r] = "pending" ~> status[r] \in {"success", "error"}
=============================================================================
