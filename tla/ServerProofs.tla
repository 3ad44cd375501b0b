---------------------------- MODULE ServerProofs ----------------------------
(***************************************************************************)
(* Proofs about the two parts of MCServer and about both together.         *)
(*                                                                         *)
(* First MagicLinkWorkflow, for any requests, addresses, crashes and       *)
(* links.  Rows says how the rows of a workflow and the place of its       *)
(* goroutine go together, Owned whose link is where, Unsent how many       *)
(* e-mails a request may still add to.                                     *)
(*                                                                         *)
(* Then ServerProcess, for any operations, tasks and connections.  KeptBy  *)
(* says which writes of an operation are in its transaction and which are  *)
(* committed, statement by statement, Places where a task stands while the *)
(* process runs, stops or has stopped, Drains what a shutdown still waits  *)
(* for.                                                                    *)
(***************************************************************************)
EXTENDS MCServer, FiniteSetTheorems, TLAPS

AtTokenStep == {"store", "stored"}
AtMailStep == {"send", "mailed"}

(* What is recorded, by where the workflow is. *)
Rows ==
  \A r \in Requests :
    /\ pc[r] \in AtTokenStep => token[r] = "none"
    /\ pc[r] \in AtMailStep => token[r] = "stored"
    /\ pc[r] \in AtTokenStep \cup AtMailStep => mail[r] = "none"
    /\ token[r] = "none" => mail[r] = "none"
    /\ status[r] = "success" => mail[r] = "sent" \/ token[r] = "rejected"

(* A link in a row, in memory or in an e-mail is one issued for its own    *)
(* request.                                                                *)
Owned ==
  \A r \in Requests :
    /\ token[r] = "stored" => link[r] \in IssuedFor(r)
    /\ pc[r] \in {"stored"} \cup AtMailStep => local[r] \in IssuedFor(r)
    /\ \A i \in 1 .. Len(mails[r]) : mails[r][i] \in IssuedFor(r)

(* A link whose row was never written is one that a crash cut off. *)
CutOff ==
  \A r \in Requests :
    /\ (token[r] = "none" /\ pc[r] # "stored") \/ token[r] = "rejected" =>
         IssuedFor(r) = {} \/ r \in interrupted

Mailed == \A r \in Requests : pc[r] = "mailed" \/ mail[r] = "sent" => mails[r] # <<>>

(* Every further e-mail is paid for by a crash. *)
Unsent ==
  \A r \in Requests :
    /\ Len(mails[r]) <= 1 + crashes
    /\ mail[r] = "none" /\ pc[r] # "mailed" => Len(mails[r]) <= crashes

(* Before it runs a workflow has no rows. *)
Absent == \A r \in Requests : status[r] = "absent" => token[r] = "none"

WInv == TypeOK /\ Rows /\ Owned /\ CutOff /\ Mailed /\ Unsent /\ Absent
-----------------------------------------------------------------------------
LEMMA WInit == Init => WInv
<1> SUFFICES ASSUME Init PROVE WInv
  OBVIOUS
<1>1. /\ issued = 0 /\ (\A r \in Requests : IssuedFor(r) = {} /\ Len(mails[r]) = 0)
  BY DEF Init, issued, IssuedFor
<1>2. TypeOK
  <2>1. owners \in Seq(Requests) /\ mails \in [Requests -> Seq(Links)]
    BY DEF Init
  <2>2. /\ up \in BOOLEAN /\ crashes \in 0 .. MaxCrashes
        /\ issued \in 0 .. MaxLinks /\ cooling \subseteq Provisioned
        /\ interrupted \subseteq Requests /\ replayed \subseteq Requests
    BY <1>1, BoundsAssumption DEF Init
  <2>3. /\ status \in [Requests -> {"absent", "pending", "success", "error"}]
        /\ token \in [Requests -> {"none", "stored", "rejected", "failed"}]
        /\ mail \in [Requests -> {"none", "sent", "failed"}]
        /\ pc \in [Requests -> {"idle", "store", "stored", "send", "mailed", "finish"}]
        /\ link \in [Requests -> Links \cup {NoLink}]
        /\ local \in [Requests -> Links \cup {NoLink}]
        /\ \A r \in Requests : pc[r] # "idle" => up /\ status[r] = "pending"
    BY DEF Init
  <2>4. QED BY <2>1, <2>2, <2>3 DEF TypeOK
<1>3. Rows /\ Mailed /\ Absent
  BY DEF Init, Rows, Mailed, Absent, AtTokenStep, AtMailStep
<1>4. Owned /\ CutOff
  BY <1>1 DEF Init, Owned, CutOff, AtMailStep
<1>5. Unsent
  <2>1. crashes = 0
    BY DEF Init
  <2>2. ASSUME NEW r \in Requests
        PROVE  Len(mails[r]) <= 1 + crashes /\ Len(mails[r]) <= crashes
    <3>1. Len(mails[r]) = 0
      BY <1>1
    <3>2. QED BY ONLY <2>1, <3>1
  <2>3. QED BY <2>2 DEF Unsent
<1>6. QED BY <1>2, <1>3, <1>4, <1>5 DEF WInv

(* A link is issued after those there are. *)
LEMMA Issuing ==
  ASSUME TypeOK, NEW r \in Requests, Issue(r)
  PROVE  /\ owners' \in Seq(Requests) /\ issued' = issued + 1
         /\ issued + 1 \in Links /\ issued' \in 0 .. MaxLinks
         /\ IssuedFor(r)' = IssuedFor(r) \cup {issued + 1}
         /\ \A q \in Requests \ {r} : IssuedFor(q)' = IssuedFor(q)
<1>1. owners \in Seq(Requests) /\ issued \in 0 .. MaxLinks /\ owners' = Append(owners, r)
      /\ issued < MaxLinks
  BY DEF TypeOK, Issue
<1>2. owners' \in Seq(Requests) /\ issued' = issued + 1
  BY <1>1 DEF issued
<1>3. issued + 1 \in Links /\ issued' \in 0 .. MaxLinks
  BY <1>1, <1>2, BoundsAssumption DEF Links
<1>4. /\ owners'[issued + 1] = r
      /\ \A l \in 1 .. issued : owners'[l] = owners[l]
  BY <1>1 DEF issued
<1>5. ASSUME NEW q, NEW l
      PROVE  l \in IssuedFor(q)' <=> l \in IssuedFor(q) \/ (l = issued + 1 /\ q = r)
  <2>1. l \in 1 .. issued' <=> l \in 1 .. issued \/ l = issued + 1
    BY <1>1, <1>2
  <2>2. issued + 1 \notin 1 .. issued
    BY <1>1
  <2>3. /\ l \in IssuedFor(q) <=> l \in 1 .. issued /\ owners[l] = q
        /\ l \in IssuedFor(q)' <=> l \in 1 .. issued' /\ owners'[l] = q
    BY DEF IssuedFor
  <2>4. CASE l = issued + 1
    BY <1>4, <2>1, <2>2, <2>3, <2>4
  <2>5. CASE l # issued + 1
    BY <1>4, <2>1, <2>3, <2>5
  <2>6. QED BY <2>4, <2>5
<1>6. IssuedFor(r)' = IssuedFor(r) \cup {issued + 1}
  BY <1>5
<1>7. ASSUME NEW q \in Requests \ {r} PROVE IssuedFor(q)' = IssuedFor(q)
  BY <1>5, <1>7
<1>8. QED BY <1>2, <1>3, <1>6, <1>7

LEMMA WCrash == ASSUME WInv, Crash PROVE WInv'
<1>1. /\ up /\ crashes' = crashes + 1 /\ crashes' \in 0 .. MaxCrashes /\ up' = FALSE
      /\ pc' = [r \in Requests |-> "idle"] /\ local' = [r \in Requests |-> NoLink]
      /\ interrupted' = interrupted \cup {r \in Requests : pc[r] = "stored"}
      /\ UNCHANGED <<status, token, link, mail, owners, cooling, mails, replayed>>
  BY BoundsAssumption DEF Crash, WInv, TypeOK, rows
<1>2. issued' = issued /\ \A r : IssuedFor(r)' = IssuedFor(r)
  BY <1>1 DEF issued, IssuedFor
<1>3. TypeOK'
  BY <1>1, <1>2 DEF WInv, TypeOK
<1>4. Rows' /\ Mailed' /\ Absent'
  BY <1>1 DEF WInv, Rows, Mailed, Absent, AtTokenStep, AtMailStep
<1>5. Owned'
  BY <1>1, <1>2 DEF WInv, Owned, AtMailStep
<1>6. CutOff'
  BY <1>1, <1>2 DEF WInv, CutOff
<1>7. Unsent'
  <2>1. ASSUME NEW r \in Requests PROVE Len(mails[r]) \in Nat /\ crashes \in Nat
    BY <2>1 DEF WInv, TypeOK
  <2>2. QED BY <1>1, <2>1 DEF WInv, Unsent
<1>8. QED BY <1>3, <1>4, <1>5, <1>6, <1>7 DEF WInv

(* A pending workflow goes on with what its rows say. *)
LEMMA WLaunch == ASSUME WInv, Launch PROVE WInv'
<1>1. /\ up' = TRUE
      /\ pc' = [r \in Requests |-> IF r \in Pending THEN Resume(r) ELSE "idle"]
      /\ local' = [r \in Requests |-> IF r \in Pending THEN link[r] ELSE NoLink]
      /\ replayed' = replayed \cup Pending
      /\ UNCHANGED <<crashes, status, token, link, mail, owners, cooling, mails, interrupted>>
  BY DEF Launch, rows
<1>2. issued' = issued /\ \A r : IssuedFor(r)' = IssuedFor(r)
  BY <1>1 DEF issued, IssuedFor
<1>3. \A r \in Requests :
        /\ pc'[r] \in {"idle", "store", "send", "finish"}
        /\ pc'[r] = "store" => token[r] = "none"
        /\ pc'[r] = "send" => token[r] = "stored" /\ mail[r] = "none" /\ local'[r] = link[r]
        /\ pc'[r] # "idle" => status[r] = "pending"
        /\ pc[r] = "idle"
  BY <1>1 DEF Resume, Pending, WInv, TypeOK, Launch
<1>4. TypeOK'
  BY <1>1, <1>2, <1>3 DEF WInv, TypeOK, Pending, NoLink
<1>5. Rows'
  BY <1>1, <1>3 DEF WInv, Rows, AtTokenStep, AtMailStep
<1>6. Mailed' /\ Absent'
  BY <1>1, <1>3 DEF WInv, Mailed, Absent
<1>7. Owned'
  BY <1>1, <1>2, <1>3 DEF WInv, Owned, AtMailStep
<1>8. CutOff'
  BY <1>1, <1>2, <1>3 DEF WInv, CutOff
<1>9. Unsent'
  BY <1>1, <1>3 DEF WInv, Unsent
<1>10. QED BY <1>4, <1>5, <1>6, <1>7, <1>8, <1>9 DEF WInv

LEMMA WCoolDown == ASSUME WInv, NEW a, CoolDown(a) PROVE WInv'
<1>1. /\ cooling' \subseteq cooling
      /\ UNCHANGED <<crashes, status, token, link, mail, up, pc, local, owners, mails,
                     interrupted, replayed>>
  BY DEF CoolDown, rows, memory, history
<1>2. issued' = issued /\ \A r : IssuedFor(r)' = IssuedFor(r)
  BY <1>1 DEF issued, IssuedFor
<1>3. TypeOK'
  BY <1>1, <1>2 DEF WInv, TypeOK
<1>4. Rows' /\ Mailed' /\ Absent'
  BY <1>1 DEF WInv, Rows, Mailed, Absent
<1>5. Owned' /\ CutOff'
  BY <1>1, <1>2 DEF WInv, Owned, CutOff
<1>6. Unsent'
  BY <1>1 DEF WInv, Unsent
<1>7. QED BY <1>3, <1>4, <1>5, <1>6 DEF WInv
-----------------------------------------------------------------------------
LEMMA WRunWorkflow == ASSUME WInv, NEW r \in Requests, RunWorkflow(r) PROVE WInv'
<1>1. /\ up /\ status[r] = "absent" /\ status' = [status EXCEPT ![r] = "pending"]
      /\ pc' = [pc EXCEPT ![r] = "store"] /\ up' = up
      /\ UNCHANGED <<crashes, token, link, mail, local, owners, cooling, mails, interrupted,
                     replayed>>
  BY DEF RunWorkflow, Goto, history
<1>2. issued' = issued /\ \A q : IssuedFor(q)' = IssuedFor(q)
  BY <1>1 DEF issued, IssuedFor
<1>3. TypeOK'
  BY <1>1, <1>2 DEF WInv, TypeOK
<1>4. token[r] = "none" /\ mail[r] = "none" /\ pc[r] = "idle"
  BY <1>1 DEF WInv, Absent, Rows, TypeOK
<1>5. Rows'
  BY <1>1, <1>4 DEF WInv, TypeOK, Rows, AtTokenStep, AtMailStep
<1>6. Owned'
  BY <1>1, <1>2 DEF WInv, TypeOK, Owned, AtMailStep
<1>7. CutOff'
  BY <1>1, <1>2, <1>4 DEF WInv, TypeOK, CutOff
<1>8. Mailed' /\ Unsent' /\ Absent'
  BY <1>1, <1>4 DEF WInv, TypeOK, Mailed, Unsent, Absent
<1>9. QED BY <1>3, <1>5, <1>6, <1>7, <1>8 DEF WInv

LEMMA WStoreToken == ASSUME WInv, NEW r \in Requests, StoreToken(r) PROVE WInv'
<1>1. /\ pc[r] = "store" /\ local' = [local EXCEPT ![r] = issued + 1]
      /\ pc' = [pc EXCEPT ![r] = "stored"] /\ up' = up
      /\ Issue(r) /\ MayIssue(r) /\ cooling' = cooling \cup {Address[r]}
      /\ UNCHANGED <<crashes, status, token, link, mail, mails, interrupted, replayed>>
  BY DEF StoreToken, Goto, rows, history, Issue
<1>2. /\ owners' \in Seq(Requests) /\ issued' \in 0 .. MaxLinks /\ issued + 1 \in Links
      /\ IssuedFor(r)' = IssuedFor(r) \cup {issued + 1}
      /\ \A q \in Requests \ {r} : IssuedFor(q)' = IssuedFor(q)
  BY <1>1, Issuing DEF WInv
<1>3. TypeOK'
  BY <1>1, <1>2 DEF WInv, TypeOK, MayIssue
<1>4. Rows'
  BY <1>1 DEF WInv, TypeOK, Rows, AtTokenStep, AtMailStep
<1>5. Owned'
  BY <1>1, <1>2 DEF WInv, TypeOK, Owned, AtMailStep
<1>6. token[r] = "none"
  BY <1>1 DEF WInv, Rows, AtTokenStep
<1>7. CutOff'
  BY <1>1, <1>2, <1>6 DEF WInv, TypeOK, CutOff
<1>8. Mailed' /\ Unsent' /\ Absent'
  BY <1>1 DEF WInv, TypeOK, Mailed, Unsent, Absent
<1>9. QED BY <1>3, <1>4, <1>5, <1>7, <1>8 DEF WInv

LEMMA WRejectToken == ASSUME WInv, NEW r \in Requests, RejectToken(r) PROVE WInv'
<1>1. /\ pc[r] = "store" /\ token' = [token EXCEPT ![r] = "rejected"]
      /\ pc' = [pc EXCEPT ![r] = "finish"] /\ up' = up
      /\ UNCHANGED <<crashes, status, link, mail, local, owners, cooling, mails, interrupted,
                     replayed>>
  BY DEF RejectToken, Goto, history
<1>2. issued' = issued /\ \A q : IssuedFor(q)' = IssuedFor(q)
  BY <1>1 DEF issued, IssuedFor
<1>3. TypeOK'
  BY <1>1, <1>2 DEF WInv, TypeOK
<1>4. token[r] = "none" /\ mail[r] = "none"
  BY <1>1 DEF WInv, Rows, AtTokenStep
<1>5. Rows'
  BY <1>1, <1>4 DEF WInv, TypeOK, Rows, AtTokenStep, AtMailStep
<1>6. Owned'
  BY <1>1, <1>2 DEF WInv, TypeOK, Owned, AtMailStep
<1>7. CutOff'
  BY <1>1, <1>2, <1>4 DEF WInv, TypeOK, CutOff
<1>8. Mailed' /\ Unsent' /\ Absent'
  BY <1>1 DEF WInv, TypeOK, Mailed, Unsent, Absent
<1>9. QED BY <1>3, <1>5, <1>6, <1>7, <1>8 DEF WInv

LEMMA WFailToken == ASSUME WInv, NEW r \in Requests, FailToken(r) PROVE WInv'
<1>1. /\ pc[r] = "store" /\ token' = [token EXCEPT ![r] = "failed"]
      /\ pc' = [pc EXCEPT ![r] = "finish"] /\ up' = up
      /\ UNCHANGED <<crashes, status, link, mail, local, mails, interrupted, replayed>>
      /\ \/ UNCHANGED <<owners, cooling>>
         \/ MayIssue(r) /\ Issue(r)
  BY DEF FailToken, Goto, history
<1>2. /\ owners' \in Seq(Requests) /\ issued' \in 0 .. MaxLinks /\ cooling' \subseteq Provisioned
      /\ IssuedFor(r) \subseteq IssuedFor(r)'
      /\ \A q \in Requests \ {r} : IssuedFor(q)' = IssuedFor(q)
  <2>1. CASE UNCHANGED <<owners, cooling>>
    BY <2>1 DEF WInv, TypeOK, issued, IssuedFor
  <2>2. CASE MayIssue(r) /\ Issue(r)
    <3>1. cooling' = cooling \cup {Address[r]} /\ Address[r] \in Provisioned
      BY <2>2 DEF Issue, MayIssue
    <3>2. QED BY <2>2, <3>1, Issuing DEF WInv, TypeOK
  <2>3. QED BY <1>1, <2>1, <2>2
<1>3. TypeOK'
  BY <1>1, <1>2 DEF WInv, TypeOK
<1>4. token[r] = "none" /\ mail[r] = "none"
  BY <1>1 DEF WInv, Rows, AtTokenStep
<1>5. Rows'
  BY <1>1, <1>4 DEF WInv, TypeOK, Rows, AtTokenStep, AtMailStep
<1>6. Owned'
  BY <1>1, <1>2 DEF WInv, TypeOK, Owned, AtMailStep
<1>7. CutOff'
  BY <1>1, <1>2, <1>4 DEF WInv, TypeOK, CutOff
<1>8. Mailed' /\ Unsent' /\ Absent'
  BY <1>1 DEF WInv, TypeOK, Mailed, Unsent, Absent
<1>9. QED BY <1>3, <1>5, <1>6, <1>7, <1>8 DEF WInv

LEMMA WRecordToken == ASSUME WInv, NEW r \in Requests, RecordToken(r) PROVE WInv'
<1>1. /\ pc[r] = "stored" /\ token' = [token EXCEPT ![r] = "stored"]
      /\ link' = [link EXCEPT ![r] = local[r]]
      /\ pc' = [pc EXCEPT ![r] = "send"] /\ up' = up
      /\ UNCHANGED <<crashes, status, mail, local, owners, cooling, mails, interrupted,
                     replayed>>
  BY DEF RecordToken, Goto, history
<1>2. issued' = issued /\ \A q : IssuedFor(q)' = IssuedFor(q)
  BY <1>1 DEF issued, IssuedFor
<1>3. TypeOK'
  BY <1>1, <1>2 DEF WInv, TypeOK
<1>4. mail[r] = "none" /\ local[r] \in IssuedFor(r) /\ status[r] = "pending"
  BY <1>1 DEF WInv, Rows, AtTokenStep, Owned, TypeOK
<1>5. Rows'
  BY <1>1, <1>4 DEF WInv, TypeOK, Rows, AtTokenStep, AtMailStep
<1>6. Owned'
  BY <1>1, <1>2, <1>4 DEF WInv, TypeOK, Owned, AtMailStep
<1>7. CutOff'
  BY <1>1, <1>2, <1>4 DEF WInv, TypeOK, CutOff
<1>8. Mailed' /\ Unsent' /\ Absent'
  BY <1>1 DEF WInv, TypeOK, Mailed, Unsent, Absent
<1>9. QED BY <1>3, <1>5, <1>6, <1>7, <1>8 DEF WInv

(* A further e-mail goes to the request its link was issued for. *)
LEMMA Sending ==
  ASSUME WInv, NEW r \in Requests, pc[r] = "send",
         mails' = [mails EXCEPT ![r] = Append(@, local[r])]
  PROVE  /\ mails' \in [Requests -> Seq(Links)] /\ mails'[r] # <<>>
         /\ Len(mails'[r]) <= 1 + crashes
         /\ \A i \in 1 .. Len(mails'[r]) : mails'[r][i] \in IssuedFor(r)
         /\ \A q \in Requests \ {r} : mails'[q] = mails[q]
<1>1. local[r] \in IssuedFor(r) /\ local[r] \in Links
  <2>1. local[r] \in IssuedFor(r)
    BY DEF WInv, Owned, AtMailStep
  <2>2. local[r] \in 1 .. issued /\ issued \in 0 .. MaxLinks /\ MaxLinks \in Nat
    BY <2>1, BoundsAssumption DEF IssuedFor, WInv, TypeOK
  <2>3. local[r] \in Links
    BY ONLY <2>2 DEF Links
  <2>4. QED BY <2>1, <2>3
<1>2. /\ mails[r] \in Seq(Links) /\ mails'[r] = Append(mails[r], local[r])
      /\ mails' \in [Requests -> Seq(Links)]
  BY <1>1 DEF WInv, TypeOK
<1>3. Len(mails'[r]) = Len(mails[r]) + 1 /\ mails'[r] # <<>>
  BY <1>1, <1>2
<1>4. Len(mails[r]) <= crashes /\ crashes \in Nat /\ Len(mails[r]) \in Nat
  BY <1>2 DEF WInv, Unsent, Rows, AtMailStep, TypeOK
<1>5. ASSUME NEW i \in 1 .. Len(mails'[r]) PROVE mails'[r][i] \in IssuedFor(r)
  <2>1. \A k \in 1 .. Len(mails[r]) : mails[r][k] \in IssuedFor(r)
    BY DEF WInv, Owned
  <2>2. CASE i \in 1 .. Len(mails[r])
    BY <1>2, <2>1, <2>2
  <2>3. CASE i = Len(mails[r]) + 1
    BY <1>1, <1>2, <2>3
  <2>4. QED BY <1>3, <1>4, <2>2, <2>3
<1>6. QED BY <1>2, <1>3, <1>4, <1>5 DEF WInv, TypeOK

LEMMA WSendEmail == ASSUME WInv, NEW r \in Requests, SendEmail(r) PROVE WInv'
<1>1. /\ pc[r] = "send" /\ mails' = [mails EXCEPT ![r] = Append(@, local[r])]
      /\ pc' = [pc EXCEPT ![r] = "mailed"] /\ up' = up
      /\ UNCHANGED <<crashes, status, token, link, mail, local, owners, cooling, interrupted,
                     replayed>>
  BY DEF SendEmail, Goto, rows
<1>2. issued' = issued /\ \A q : IssuedFor(q)' = IssuedFor(q)
  BY <1>1 DEF issued, IssuedFor
<1>3. /\ mails' \in [Requests -> Seq(Links)] /\ mails'[r] # <<>>
      /\ Len(mails'[r]) <= 1 + crashes
      /\ \A i \in 1 .. Len(mails'[r]) : mails'[r][i] \in IssuedFor(r)
      /\ \A q \in Requests \ {r} : mails'[q] = mails[q]
  BY <1>1, Sending
<1>4. TypeOK'
  BY <1>1, <1>2, <1>3 DEF WInv, TypeOK
<1>5. Rows'
  BY <1>1 DEF WInv, TypeOK, Rows, AtTokenStep, AtMailStep
<1>6. Owned'
  BY <1>1, <1>2, <1>3 DEF WInv, TypeOK, Owned, AtMailStep
<1>7. CutOff'
  BY <1>1, <1>2 DEF WInv, TypeOK, CutOff
<1>8. Mailed' /\ Unsent' /\ Absent'
  BY <1>1, <1>3 DEF WInv, TypeOK, Mailed, Unsent, Absent
<1>9. QED BY <1>4, <1>5, <1>6, <1>7, <1>8 DEF WInv

LEMMA WFailEmail == ASSUME WInv, NEW r \in Requests, FailEmail(r) PROVE WInv'
<1>1. /\ pc[r] = "send" /\ mails' \in {mails, [mails EXCEPT ![r] = Append(@, local[r])]}
      /\ mail' = [mail EXCEPT ![r] = "failed"]
      /\ pc' = [pc EXCEPT ![r] = "finish"] /\ up' = up
      /\ UNCHANGED <<crashes, status, token, link, local, owners, cooling, interrupted,
                     replayed>>
  BY DEF FailEmail, Goto
<1>2. issued' = issued /\ \A q : IssuedFor(q)' = IssuedFor(q)
  BY <1>1 DEF issued, IssuedFor
<1>3. /\ mails' \in [Requests -> Seq(Links)]
      /\ Len(mails'[r]) <= 1 + crashes
      /\ \A i \in 1 .. Len(mails'[r]) : mails'[r][i] \in IssuedFor(r)
      /\ \A q \in Requests \ {r} : mails'[q] = mails[q]
  <2>1. CASE mails' = mails
    BY <2>1 DEF WInv, TypeOK, Unsent, Owned
  <2>2. CASE mails' = [mails EXCEPT ![r] = Append(@, local[r])]
    BY <1>1, <2>2, Sending
  <2>3. QED BY <1>1, <2>1, <2>2
<1>4. token[r] = "stored" /\ status[r] = "pending"
  BY <1>1 DEF WInv, Rows, TypeOK, AtMailStep
<1>5. TypeOK'
  BY <1>1, <1>2, <1>3 DEF WInv, TypeOK
<1>6. Rows'
  BY <1>1, <1>4 DEF WInv, TypeOK, Rows, AtTokenStep, AtMailStep
<1>7. Owned'
  BY <1>1, <1>2, <1>3 DEF WInv, TypeOK, Owned, AtMailStep
<1>8. CutOff'
  BY <1>1, <1>2 DEF WInv, TypeOK, CutOff
<1>9. Mailed' /\ Unsent' /\ Absent'
  BY <1>1, <1>3, <1>4 DEF WInv, TypeOK, Mailed, Unsent, Absent
<1>10. QED BY <1>5, <1>6, <1>7, <1>8, <1>9 DEF WInv

LEMMA WRecordEmail == ASSUME WInv, NEW r \in Requests, RecordEmail(r) PROVE WInv'
<1>1. /\ pc[r] = "mailed" /\ mail' = [mail EXCEPT ![r] = "sent"]
      /\ pc' = [pc EXCEPT ![r] = "finish"] /\ up' = up
      /\ UNCHANGED <<crashes, status, token, link, local, owners, cooling, mails, interrupted,
                     replayed>>
  BY DEF RecordEmail, Goto, history
<1>2. issued' = issued /\ \A q : IssuedFor(q)' = IssuedFor(q)
  BY <1>1 DEF issued, IssuedFor
<1>3. token[r] = "stored" /\ status[r] = "pending"
  BY <1>1 DEF WInv, Rows, TypeOK, AtMailStep
<1>4. TypeOK'
  BY <1>1, <1>2 DEF WInv, TypeOK
<1>5. Rows'
  BY <1>1, <1>3 DEF WInv, TypeOK, Rows, AtTokenStep, AtMailStep
<1>6. Owned'
  BY <1>1, <1>2 DEF WInv, TypeOK, Owned, AtMailStep
<1>7. CutOff'
  BY <1>1, <1>2 DEF WInv, TypeOK, CutOff
<1>8. Mailed' /\ Unsent' /\ Absent'
  BY <1>1, <1>3 DEF WInv, TypeOK, Mailed, Unsent, Absent
<1>9. QED BY <1>4, <1>5, <1>6, <1>7, <1>8 DEF WInv

LEMMA WFinish == ASSUME WInv, NEW r \in Requests, Finish(r) PROVE WInv'
<1>1. /\ pc[r] = "finish" /\ pc' = [pc EXCEPT ![r] = "idle"] /\ up' = up
      /\ local' = [local EXCEPT ![r] = NoLink]
      /\ UNCHANGED <<crashes, token, link, mail, owners, cooling, mails, interrupted, replayed>>
  BY DEF Finish, Goto, history
<1>2. PICK o \in Outcomes(r) : status' = [status EXCEPT ![r] = o]
  BY DEF Finish
<1>3. /\ o \in {"success", "error"}
      /\ o = "success" => mail[r] = "sent" \/ token[r] = "rejected"
  BY <1>2 DEF Outcomes
<1>4. issued' = issued /\ \A q : IssuedFor(q)' = IssuedFor(q)
  BY <1>1 DEF issued, IssuedFor
<1>5. TypeOK'
  BY <1>1, <1>2, <1>3, <1>4 DEF WInv, TypeOK, NoLink
<1>6. Rows'
  BY <1>1, <1>2, <1>3 DEF WInv, TypeOK, Rows, AtTokenStep, AtMailStep
<1>7. Owned'
  BY <1>1, <1>4 DEF WInv, TypeOK, Owned, AtMailStep
<1>8. CutOff'
  BY <1>1, <1>4 DEF WInv, TypeOK, CutOff
<1>9. Mailed' /\ Unsent' /\ Absent'
  BY <1>1, <1>2, <1>3 DEF WInv, TypeOK, Mailed, Unsent, Absent
<1>10. QED BY <1>5, <1>6, <1>7, <1>8, <1>9 DEF WInv
-----------------------------------------------------------------------------
LEMMA WStep == WInv /\ [Next]_vars => WInv'
<1> SUFFICES ASSUME WInv, [Next]_vars PROVE WInv'
  OBVIOUS
<1>1. CASE UNCHANGED vars
  <2>1. UNCHANGED <<crashes, status, token, link, mail, up, pc, local, owners, cooling,
                    mails, interrupted, replayed>>
    BY <1>1 DEF vars, rows, memory, history
  <2>2. issued' = issued /\ \A q : IssuedFor(q)' = IssuedFor(q)
    BY <2>1 DEF issued, IssuedFor
  <2>3. TypeOK'
    BY <2>1, <2>2 DEF WInv, TypeOK
  <2>4. Rows' /\ Mailed' /\ Unsent' /\ Absent'
    BY <2>1 DEF WInv, Rows, Mailed, Unsent, Absent
  <2>5. Owned' /\ CutOff'
    BY <2>1, <2>2 DEF WInv, Owned, CutOff
  <2>6. QED BY <2>3, <2>4, <2>5 DEF WInv
<1>2. CASE Next
  BY <1>2, WRunWorkflow, WStoreToken, WRejectToken, WFailToken, WRecordToken, WSendEmail,
     WFailEmail, WRecordEmail, WFinish, WCrash, WLaunch, WCoolDown DEF Next, Step
<1>3. QED BY <1>1, <1>2

LEMMA WInvariance == Spec => []WInv
BY WInit, WStep, PTL DEF Spec

(* Every row, goroutine and link of the workflows keeps its type, and a    *)
(* goroutine runs only in a process that is up, for a pending workflow.    *)
THEOREM WorkflowTypeCorrect == Spec => []TypeOK
<1>1. WInv => TypeOK
  BY DEF WInv
<1>2. QED BY <1>1, WInvariance, PTL

(* However often the process crashes and DBOS resumes it: a request that   *)
(* issued a link and reports success has sent it, but for a crash between  *)
(* the commit of the link and the row of store-token.                      *)
THEOREM SuccessIsMailed == Spec => []MailedUnlessInterrupted
<1>1. WInv => MailedUnlessInterrupted
  BY DEF WInv, Rows, CutOff, Mailed, MailedUnlessInterrupted
<1>2. QED BY <1>1, WInvariance, PTL

(* A request sends no more e-mails than one and one for every crash, each  *)
(* with a link that was issued for that request.                           *)
THEOREM MailsArePaidFor == Spec => []OneMailPerRequest
<1>1. WInv => OneMailPerRequest
  BY DEF WInv, Unsent, Owned, IssuedFor, OneMailPerRequest
<1>2. QED BY <1>1, WInvariance, PTL
-----------------------------------------------------------------------------
(* ServerProcess, for any tasks, operations and connections.  Kept says    *)
(* what an operation has written so far, Places where a task is and what   *)
(* it does there, Drains what a process that is not out of time still has  *)
(* for the calls it accepted.                                              *)
Jobs ==
  [op : Operations \cup {Stream, "none", "MagicLinkToken"}, at : Nat,
   tx : {"none", "open", "closed"}, conn : BOOLEAN]

DbShapes ==
  /\ job \in [Tasks -> Jobs]
  /\ wrote \in [Tasks -> SUBSET Nat] /\ saved \in [Tasks -> SUBSET Nat]
  /\ outcome \in [Tasks -> {"none", "ok", "error", "closed"}]

(* A statement within a transaction has no connection of its own. *)
Sharing == \A c \in Tasks : job[c].conn => job[c].tx = "none"

Done(op, a) == {i \in Writes(op) : i < a}

NotBegun(op, a) == \A i \in DOMAIN Body(op) : i < a => Body(op)[i] # "begin"

(* The writes done so far are saved when there was no transaction, held    *)
(* back while it is open, and all of them saved when it is closed.         *)
KeptBy(c) ==
  Running(c) =>
    /\ job[c].at \in 1 .. Len(Body(job[c].op)) + 1
    /\ job[c].tx = "none" => /\ wrote[c] = {} /\ saved[c] = Done(job[c].op, job[c].at)
                             /\ NotBegun(job[c].op, job[c].at)
    /\ job[c].tx = "open" => saved[c] = {} /\ wrote[c] = Done(job[c].op, job[c].at)
    /\ job[c].tx = "closed" => /\ wrote[c] = {} /\ saved[c] = Writes(job[c].op)
                               /\ job[c].at = Len(Body(job[c].op)) + 1

Reported(c) ==
  /\ ~Running(c) => wrote[c] = {}
  /\ outcome[c] = "ok" => saved[c] = Writes(job[c].op)
  /\ outcome[c] \in {"error", "closed"} => saved[c] = {}

DbInv ==
  /\ DbShapes /\ Sharing /\ HeldConns <= MaxConns
  /\ \A c \in Tasks : KeptBy(c) /\ Reported(c)
-----------------------------------------------------------------------------
(* What the statements of the cores' operations have in common: a          *)
(* RunBatchTx comes last, and what follows a write is in a transaction.    *)
Statements == {"begin", "read", "lock", "write", "write tx"}

WellFormed(body) ==
  /\ body \in Seq(Statements)
  /\ \A i \in 1 .. Len(body) : body[i] = "write tx" => i = Len(body)
  /\ \A i \in 1 .. Len(body), k \in 1 .. Len(body) :
       i < k /\ body[i] \in {"write", "write tx"} =>
         \E b \in 1 .. Len(body) : b < k /\ body[b] = "begin"

LEMMA InOrder ==
  ASSUME NEW body \in Seq(Statements), NEW p \in 1 .. Len(body),
         NEW i \in 1 .. Len(body), NEW k \in 1 .. Len(body), p < i, i < k
  PROVE  p < k
OBVIOUS

LEMMA BegunAt ==
  ASSUME NEW body \in Seq(Statements), NEW p \in 1 .. Len(body), body[p] = "begin",
         \A i \in 1 .. Len(body) : body[i] \in {"write", "write tx"} => p < i,
         \A i \in 1 .. Len(body) : body[i] = "write tx" => i = Len(body)
  PROVE  WellFormed(body)
<1>1. ASSUME NEW i \in 1 .. Len(body), NEW k \in 1 .. Len(body), i < k,
             body[i] \in {"write", "write tx"}
      PROVE  \E b \in 1 .. Len(body) : b < k /\ body[b] = "begin"
  <2>1. p < i
    BY <1>1
  <2>2. p < k
    BY <1>1, <2>1, InOrder, Zenon
  <2>3. QED BY <2>2
<1>2. QED BY <1>1 DEF WellFormed

(* An operation of a single statement. *)
LEMMA OneStatement ==
  ASSUME NEW body \in Seq(Statements), Len(body) <= 1
  PROVE  WellFormed(body)
<1>1. Len(body) \in Nat
  OBVIOUS
<1>2. \A i \in 1 .. Len(body), k \in 1 .. Len(body) : i = Len(body) /\ ~(i < k)
  BY <1>1
<1>3. QED BY <1>2 DEF WellFormed

LEMMA SixPlaces == \A i \in 1 .. 6 : i = 1 \/ i = 2 \/ i = 3 \/ i = 4 \/ i = 5 \/ i = 6
OBVIOUS

LEMMA FivePlaces == \A i \in 1 .. 5 : i = 1 \/ i = 2 \/ i = 3 \/ i = 4 \/ i = 5
OBVIOUS

LEMMA ThreePlaces == \A i \in 1 .. 3 : i = 1 \/ i = 2 \/ i = 3
OBVIOUS

LEMMA BodiesAreWellFormed == ASSUME NEW op PROVE WellFormed(Body(op))
<1>1. WellFormed(<< >>)
  <2>1. << >> \in Seq(Statements) /\ Len(<< >>) <= 1
    OBVIOUS
  <2>2. QED BY <2>1, OneStatement
<1>2. WellFormed(<<"read">>) /\ WellFormed(<<"write">>) /\ WellFormed(RoleNameStatements)
  <2>1. ASSUME NEW s \in Statements PROVE WellFormed(<<s>>)
    <3>1. <<s>> \in Seq(Statements) /\ Len(<<s>>) <= 1
      OBVIOUS
    <3>2. QED BY <3>1, OneStatement
  <2>2. QED BY <2>1 DEF Statements, RoleNameStatements
<1>3. WellFormed(RoleStatements)
  <2> DEFINE b == RoleStatements
  <2>1. Len(b) = 3
    BY DEF RoleStatements
  <2>2. /\ b \in Seq(Statements)
        /\ b[1] = "begin" /\ b[2] = "read" /\ b[3] = "write tx"
    BY DEF RoleStatements, Statements
  <2> HIDE DEF b
  <2>3. 1 \in 1 .. Len(b)
    BY ONLY <2>1
  <2>4. ASSUME NEW i \in 1 .. Len(b), b[i] \in {"write", "write tx"} PROVE 1 < i
    <3>1. i # 1
      BY <2>2, <2>4
    <3>2. i \in 1 .. Len(b)
      OBVIOUS
    <3>3. QED BY ONLY <2>1, <3>1, <3>2
  <2>5. \A i \in 1 .. Len(b) : b[i] = "write tx" => i = Len(b)
    BY <2>1, <2>2, ThreePlaces
  <2>6. WellFormed(b)
    BY <2>2, <2>3, <2>4, <2>5, BegunAt
  <2>7. QED BY <2>6 DEF b
<1>4. WellFormed(RolePermissionsStatements)
  <2> DEFINE b == RolePermissionsStatements
  <2>1. Len(b) = 6
    BY DEF RolePermissionsStatements
  <2>2. /\ b \in Seq(Statements)
        /\ b[1] = "begin" /\ b[2] = "read" /\ b[3] = "lock" /\ b[4] = "read"
        /\ b[5] = "read" /\ b[6] = "write tx"
    BY DEF RolePermissionsStatements, Statements
  <2> HIDE DEF b
  <2>3. 1 \in 1 .. Len(b)
    BY ONLY <2>1
  <2>4. ASSUME NEW i \in 1 .. Len(b), b[i] \in {"write", "write tx"} PROVE 1 < i
    <3>1. i # 1
      BY <2>2, <2>4
    <3>2. i \in 1 .. Len(b)
      OBVIOUS
    <3>3. QED BY ONLY <2>1, <3>1, <3>2
  <2>5. \A i \in 1 .. Len(b) : b[i] = "write tx" => i = Len(b)
    BY <2>1, <2>2, SixPlaces
  <2>6. WellFormed(b)
    BY <2>2, <2>3, <2>4, <2>5, BegunAt
  <2>7. QED BY <2>6 DEF b
<1>5. WellFormed(MagicLinkStatements)
  <2> DEFINE b == MagicLinkStatements
  <2>1. Len(b) = 5
    BY DEF MagicLinkStatements
  <2>2. /\ b \in Seq(Statements)
        /\ b[1] = "begin" /\ b[2] = "lock" /\ b[3] = "read" /\ b[4] = "write"
        /\ b[5] = "write"
    BY DEF MagicLinkStatements, Statements
  <2> HIDE DEF b
  <2>3. 1 \in 1 .. Len(b)
    BY ONLY <2>1
  <2>4. ASSUME NEW i \in 1 .. Len(b), b[i] \in {"write", "write tx"} PROVE 1 < i
    <3>1. i # 1
      BY <2>2, <2>4
    <3>2. i \in 1 .. Len(b)
      OBVIOUS
    <3>3. QED BY ONLY <2>1, <3>1, <3>2
  <2>5. \A i \in 1 .. Len(b) : b[i] = "write tx" => i = Len(b)
    BY <2>1, <2>2, FivePlaces
  <2>6. WellFormed(b)
    BY <2>2, <2>3, <2>4, <2>5, BegunAt
  <2>7. QED BY <2>6 DEF b
<1>6. WellFormed(VerifyStatements)
  <2> DEFINE b == VerifyStatements
  <2>1. Len(b) = 5
    BY DEF VerifyStatements
  <2>2. /\ b \in Seq(Statements)
        /\ b[1] = "read" /\ b[2] = "begin" /\ b[3] = "write" /\ b[4] = "write"
        /\ b[5] = "write"
    BY DEF VerifyStatements, Statements
  <2> HIDE DEF b
  <2>3. 2 \in 1 .. Len(b)
    BY ONLY <2>1
  <2>4. ASSUME NEW i \in 1 .. Len(b), b[i] \in {"write", "write tx"} PROVE 2 < i
    <3>1. i # 1 /\ i # 2
      BY <2>2, <2>4
    <3>2. i \in 1 .. Len(b)
      OBVIOUS
    <3>3. QED BY ONLY <2>1, <3>1, <3>2
  <2>5. \A i \in 1 .. Len(b) : b[i] = "write tx" => i = Len(b)
    BY <2>1, <2>2, FivePlaces
  <2>6. WellFormed(b)
    BY <2>2, <2>3, <2>4, <2>5, BegunAt
  <2>7. QED BY <2>6 DEF b
<1>7. WellFormed(OrganizationStatements)
  <2> DEFINE b == OrganizationStatements
  <2>1. Len(b) = 6
    BY DEF OrganizationStatements
  <2>2. /\ b \in Seq(Statements)
        /\ b[1] = "begin" /\ b[2] = "write" /\ b[3] = "write" /\ b[4] = "write"
        /\ b[5] = "write" /\ b[6] = "write"
    BY DEF OrganizationStatements, Statements
  <2> HIDE DEF b
  <2>3. 1 \in 1 .. Len(b)
    BY ONLY <2>1
  <2>4. ASSUME NEW i \in 1 .. Len(b), b[i] \in {"write", "write tx"} PROVE 1 < i
    <3>1. i # 1
      BY <2>2, <2>4
    <3>2. i \in 1 .. Len(b)
      OBVIOUS
    <3>3. QED BY ONLY <2>1, <3>1, <3>2
  <2>5. \A i \in 1 .. Len(b) : b[i] = "write tx" => i = Len(b)
    BY <2>1, <2>2, SixPlaces
  <2>6. WellFormed(b)
    BY <2>2, <2>3, <2>4, <2>5, BegunAt
  <2>7. QED BY <2>6 DEF b
<1>8. Body(op) \in {<< >>, <<"read">>, <<"write">>, RoleStatements, RoleNameStatements,
                    RolePermissionsStatements, MagicLinkStatements, VerifyStatements,
                    OrganizationStatements}
  BY DEF Body
<1>9. QED BY <1>1, <1>2, <1>3, <1>4, <1>5, <1>6, <1>7, <1>8

(* The writes before a statement, as an operation goes on. *)
LEMMA WritesDone ==
  ASSUME NEW op, NEW a \in 1 .. Len(Body(op))
  PROVE  /\ Body(op)[a] \in Statements
         /\ Body(op)[a] \notin {"write", "write tx"} => Done(op, a + 1) = Done(op, a)
         /\ Body(op)[a] \in {"write", "write tx"} => Done(op, a + 1) = Done(op, a) \cup {a}
         /\ Body(op)[a] = "write tx" => a = Len(Body(op))
         /\ NotBegun(op, a) => Done(op, a) = {}
         /\ NotBegun(op, a) /\ Body(op)[a] # "begin" => NotBegun(op, a + 1)
<1> DEFINE b == Body(op)
<1>1. WellFormed(b)
  BY BodiesAreWellFormed
<1>2. Writes(op) = {i \in DOMAIN b : b[i] \in {"write", "write tx"}}
  BY DEF Writes
<1>3. NotBegun(op, a) <=> \A i \in DOMAIN b : i < a => b[i] # "begin"
  BY DEF NotBegun
<1>4. NotBegun(op, a + 1) <=> \A i \in DOMAIN b : i < a + 1 => b[i] # "begin"
  BY DEF NotBegun
<1>5. a \in 1 .. Len(b)
  OBVIOUS
<1> HIDE DEF b
<1>6. b \in Seq(Statements) /\ DOMAIN b = 1 .. Len(b)
  <2>1. b \in Seq(Statements)
    BY <1>1 DEF WellFormed
  <2>2. QED BY ONLY <2>1
<1>7. b[a] \in Statements /\ (b[a] = "write tx" => a = Len(b))
  <2>1. b[a] \in Statements
    BY ONLY <1>5, <1>6
  <2>2. b[a] = "write tx" => a = Len(b)
    BY <1>1, <1>5 DEF WellFormed
  <2>3. QED BY <2>1, <2>2
<1>8. ASSUME NEW i
      PROVE  i \in Done(op, a + 1) <=>
               i \in Done(op, a) \/ (i = a /\ b[a] \in {"write", "write tx"})
  <2>1. i \in 1 .. Len(b) => (i < a + 1 <=> i < a \/ i = a)
    BY <1>5
  <2>2. QED BY <1>2, <1>5, <1>6, <2>1 DEF Done
<1>9. b[a] \notin {"write", "write tx"} => Done(op, a + 1) = Done(op, a)
  BY <1>8
<1>10. b[a] \in {"write", "write tx"} => Done(op, a + 1) = Done(op, a) \cup {a}
  BY <1>8
<1>11. ASSUME NotBegun(op, a) PROVE Done(op, a) = {}
  <2>1. ASSUME NEW i \in Done(op, a) PROVE FALSE
    <3>1. i \in 1 .. Len(b) /\ b[i] \in {"write", "write tx"} /\ i < a
      BY <1>2, <1>6, <2>1 DEF Done
    <3>2. PICK k \in 1 .. Len(b) : k < a /\ b[k] = "begin"
      BY <1>1, <1>5, <3>1 DEF WellFormed
    <3>3. QED BY <1>3, <1>6, <1>11, <3>2
  <2>2. QED BY <2>1
<1>12. ASSUME NotBegun(op, a), b[a] # "begin" PROVE NotBegun(op, a + 1)
  <2>1. ASSUME NEW i \in 1 .. Len(b), i < a + 1 PROVE b[i] # "begin"
    <3>1. i < a \/ i = a
      BY <1>5, <2>1
    <3>2. QED BY <1>3, <1>6, <1>12, <3>1
  <2>2. QED BY <1>4, <1>6, <2>1
<1>13. QED BY <1>7, <1>9, <1>10, <1>11, <1>12 DEF b

LEMMA AllDone ==
  ASSUME NEW op, NEW a, a = Len(Body(op)) + 1
  PROVE  Done(op, a) = Writes(op)
<1>1. Body(op) \in Seq(Statements)
  BY BodiesAreWellFormed DEF WellFormed
<1>2. \A i \in DOMAIN Body(op) : i < a
  BY <1>1
<1>3. QED BY <1>2 DEF Done, Writes
-----------------------------------------------------------------------------
(* A task that takes no connection, or one for one it gives back, leaves   *)
(* no more of them held; one that takes one leaves one more.               *)
LEMMA Holding ==
  ASSUME NEW c \in Tasks, \A d \in Tasks \ {c} : job'[d] = job[d]
  PROVE  /\ (job'[c].tx = "open" => job[c].tx = "open") /\ (job'[c].conn => job[c].conn)
              => HeldConns' <= HeldConns
         /\ ~job'[c].conn /\ job[c].conn => HeldConns' <= HeldConns
         /\ (job'[c].tx = "open" => job[c].tx = "open") => HeldConns' <= HeldConns + 1
         /\ HeldConns \in Nat /\ HeldConns' \in Nat
<1> DEFINE tx == {d \in Tasks : job[d].tx = "open"}
           own == {d \in Tasks : job[d].conn}
<1>1. IsFiniteSet(Tasks)
  BY ConnectionsAssumption
<1>2. IsFiniteSet(tx) /\ IsFiniteSet(own) /\ IsFiniteSet(tx') /\ IsFiniteSet(own')
  BY <1>1, FS_Subset
<1>3. /\ Cardinality(tx) \in Nat /\ Cardinality(own) \in Nat
      /\ Cardinality(tx') \in Nat /\ Cardinality(own') \in Nat
  BY <1>2, FS_CardinalityType
<1>4. HeldConns = Cardinality(tx) + Cardinality(own)
  BY DEF HeldConns
<1>5. HeldConns' = Cardinality(tx') + Cardinality(own')
  BY DEF HeldConns
<1>6. (job'[c].tx = "open" => job[c].tx = "open") => tx' \subseteq tx
  OBVIOUS
<1>7. (job'[c].conn => job[c].conn) => own' \subseteq own
  OBVIOUS
<1>8. ~job'[c].conn /\ job[c].conn => own' \subseteq own \ {c} /\ c \in own
  OBVIOUS
<1>9. tx' \subseteq tx \cup {c} /\ own' \subseteq own \cup {c}
  OBVIOUS
<1> HIDE DEF tx, own
<1>10. tx' \subseteq tx => Cardinality(tx') <= Cardinality(tx)
  BY <1>2, FS_Subset
<1>11. own' \subseteq own => Cardinality(own') <= Cardinality(own)
  BY <1>2, FS_Subset
<1>12. /\ Cardinality(tx') <= Cardinality(tx) + 1
       /\ Cardinality(own') <= Cardinality(own) + 1
  <2>1. /\ Cardinality(tx \cup {c}) <= Cardinality(tx) + 1 /\ IsFiniteSet(tx \cup {c})
        /\ Cardinality(own \cup {c}) <= Cardinality(own) + 1 /\ IsFiniteSet(own \cup {c})
    <3>1. ASSUME NEW S, IsFiniteSet(S), Cardinality(S) \in Nat
          PROVE  Cardinality(S \cup {c}) <= Cardinality(S) + 1 /\ IsFiniteSet(S \cup {c})
      <4>1. /\ IsFiniteSet(S \cup {c})
            /\ \/ Cardinality(S \cup {c}) = Cardinality(S)
               \/ Cardinality(S \cup {c}) = Cardinality(S) + 1
        BY <3>1, FS_AddElement
      <4>2. QED BY <3>1, <4>1
    <3>2. QED BY <1>2, <1>3, <3>1
  <2>2. /\ Cardinality(tx \cup {c}) \in Nat /\ Cardinality(own \cup {c}) \in Nat
    BY <2>1, FS_CardinalityType
  <2>3. /\ Cardinality(tx') <= Cardinality(tx \cup {c})
        /\ Cardinality(own') <= Cardinality(own \cup {c})
    BY <1>9, <2>1, FS_Subset
  <2>4. QED BY ONLY <1>3, <2>1, <2>2, <2>3
<1>13. own' \subseteq own \ {c} /\ c \in own => Cardinality(own') <= Cardinality(own) - 1
  <2>1. c \in own => Cardinality(own \ {c}) = Cardinality(own) - 1 /\ IsFiniteSet(own \ {c})
    BY <1>2, FS_RemoveElement
  <2>2. own' \subseteq own \ {c} /\ c \in own => Cardinality(own') <= Cardinality(own \ {c})
    BY <2>1, FS_Subset
  <2>3. QED BY <2>1, <2>2
<1>14. CASE (job'[c].tx = "open" => job[c].tx = "open") /\ (job'[c].conn => job[c].conn)
  <2>1. Cardinality(tx') <= Cardinality(tx) /\ Cardinality(own') <= Cardinality(own)
    BY <1>6, <1>7, <1>10, <1>11, <1>14
  <2>2. HeldConns' <= HeldConns
    BY ONLY <1>3, <1>4, <1>5, <2>1
  <2>3. HeldConns \in Nat /\ HeldConns' \in Nat /\ HeldConns' <= HeldConns + 1
    BY ONLY <1>3, <1>4, <1>5, <2>1
  <2>4. QED BY <2>2, <2>3
<1>15. CASE ~job'[c].conn /\ job[c].conn
  <2>1. Cardinality(own') <= Cardinality(own) - 1
    BY <1>8, <1>13, <1>15
  <2>2. HeldConns' <= HeldConns
    BY ONLY <1>3, <1>4, <1>5, <1>12, <2>1
  <2>3. HeldConns \in Nat /\ HeldConns' \in Nat /\ HeldConns' <= HeldConns + 1
    BY ONLY <1>3, <1>4, <1>5, <1>12, <2>1
  <2>4. QED BY <2>2, <2>3
<1>16. CASE job'[c].conn /\ ~job[c].conn
  <2>1. HeldConns \in Nat /\ HeldConns' \in Nat
    BY ONLY <1>3, <1>4, <1>5
  <2>2. ASSUME job'[c].tx = "open" => job[c].tx = "open"
        PROVE  HeldConns' <= HeldConns + 1
    <3>1. Cardinality(tx') <= Cardinality(tx)
      BY <1>6, <1>10, <2>2
    <3>2. QED BY ONLY <1>3, <1>4, <1>5, <1>12, <3>1
  <2>3. QED BY <1>16, <2>1, <2>2
<1>17. CASE (job[c].conn => job'[c].conn) /\ job'[c].tx = "open" /\ job[c].tx # "open"
  <2>1. HeldConns \in Nat /\ HeldConns' \in Nat
    BY ONLY <1>3, <1>4, <1>5
  <2>2. ~(job'[c].tx = "open" => job[c].tx = "open")
    BY <1>17
  <2>3. ~(~job'[c].conn /\ job[c].conn)
    BY <1>17
  <2>4. QED BY <2>1, <2>2, <2>3
<1>18. QED BY <1>14, <1>15, <1>16, <1>17

(* A step of one operation leaves the others alone. *)
LEMMA OneOperation ==
  ASSUME DbInv, NEW c \in Tasks, DbShapes',
         \A d \in Tasks \ {c} : /\ job'[d] = job[d] /\ wrote'[d] = wrote[d]
                                /\ saved'[d] = saved[d] /\ outcome'[d] = outcome[d],
         job'[c].conn => job'[c].tx = "none", KeptBy(c)', Reported(c)',
         HeldConns' <= MaxConns
  PROVE  DbInv'
<1>1. Sharing'
  BY DEF DbInv, Sharing
<1>2. ASSUME NEW d \in Tasks \ {c} PROVE KeptBy(d)' /\ Reported(d)'
  <2>1. KeptBy(d) /\ Reported(d)
    BY DEF DbInv
  <2>2. /\ job'[d] = job[d] /\ wrote'[d] = wrote[d]
        /\ saved'[d] = saved[d] /\ outcome'[d] = outcome[d]
    OBVIOUS
  <2>3. Running(d)' <=> Running(d)
    BY <2>2 DEF Running
  <2>4. QED BY <2>1, <2>2, <2>3 DEF KeptBy, Reported
<1>3. QED BY <1>1, <1>2 DEF DbInv

LEMMA Room ==
  ASSUME DbInv, HeldConns \in Nat, HeldConns' \in Nat, HeldConns' <= HeldConns
  PROVE  HeldConns' <= MaxConns
BY ConnectionsAssumption DEF DbInv

(* An operation that ends has committed all of its writes or none. *)
LEMMA Concluding ==
  ASSUME DbInv, NEW c \in Tasks, Running(c), NEW result \in {"ok", "error", "closed"},
         NEW committed \in SUBSET Nat, Conclude(c, result, committed),
         saved[c] \cup committed = IF result = "ok" THEN Writes(job[c].op) ELSE {}
  PROVE  /\ DbInv' /\ job'[c].op = job[c].op /\ outcome'[c] = result
         /\ pool' = pool
<1>1. /\ job' = [job EXCEPT ![c].tx = "none", ![c].conn = FALSE]
      /\ wrote' = [wrote EXCEPT ![c] = {}]
      /\ saved' = [saved EXCEPT ![c] = @ \cup committed]
      /\ outcome' = [outcome EXCEPT ![c] = result] /\ pool' = pool
  BY DEF Conclude
<1>2. job[c] \in Jobs /\ DbShapes
  BY DEF DbInv, DbShapes
<1>3. /\ job'[c] = [job[c] EXCEPT !.tx = "none", !.conn = FALSE]
      /\ job'[c].op = job[c].op /\ job'[c] \in Jobs
      /\ job'[c].tx = "none" /\ job'[c].conn = FALSE
  BY <1>1, <1>2 DEF Jobs, DbShapes
<1>4. /\ saved'[c] = saved[c] \cup committed /\ outcome'[c] = result
      /\ saved[c] \subseteq Nat
  BY <1>1, <1>2 DEF DbShapes
<1>5. DbShapes'
  BY <1>1, <1>2, <1>3, <1>4 DEF DbShapes
<1>6. \A d \in Tasks \ {c} : /\ job'[d] = job[d] /\ wrote'[d] = wrote[d]
                             /\ saved'[d] = saved[d] /\ outcome'[d] = outcome[d]
  BY <1>1, <1>2 DEF DbShapes
<1>7. KeptBy(c)'
  BY <1>4 DEF KeptBy, Running
<1>8. Reported(c)'
  <2>1. wrote'[c] = {}
    BY <1>1, <1>2 DEF DbShapes
  <2>2. QED BY <1>3, <1>4, <2>1 DEF Reported
<1>9. HeldConns' <= MaxConns
  BY <1>3, <1>6, Holding, Room
<1>10. QED BY <1>1, <1>3, <1>4, <1>5, <1>6, <1>7, <1>8, <1>9, OneOperation

LEMMA Acquiring == ASSUME DbInv, NEW c \in Tasks, Acquire(c) PROVE DbInv'
<1>1. /\ job' = [job EXCEPT ![c].conn = TRUE]
      /\ UNCHANGED <<wrote, saved, outcome>> /\ job[c].tx = "none"
  BY DEF Acquire, JoinsTx
<1>2. job[c] \in Jobs /\ DbShapes /\ KeptBy(c) /\ Reported(c)
  BY DEF DbInv, DbShapes
<1>3. /\ job'[c] = [job[c] EXCEPT !.conn = TRUE]
      /\ job'[c].op = job[c].op /\ job'[c].at = job[c].at /\ job'[c].tx = "none"
      /\ job'[c] \in Jobs
  BY <1>1, <1>2 DEF Jobs, DbShapes
<1>4. DbShapes'
  BY <1>1, <1>2, <1>3 DEF DbShapes
<1>5. \A d \in Tasks \ {c} : job'[d] = job[d]
  BY <1>1, <1>2 DEF DbShapes
<1>6. KeptBy(c)' /\ Reported(c)'
  <2>1. Running(c)' <=> Running(c)
    BY <1>1, <1>3 DEF Running
  <2>2. QED BY <1>1, <1>2, <1>3, <2>1 DEF KeptBy, Reported
<1>7. HeldConns' <= MaxConns
  <2>1. HeldConns < MaxConns
    BY DEF Acquire
  <2>2. HeldConns' <= HeldConns + 1 /\ HeldConns \in Nat /\ HeldConns' \in Nat
    BY <1>3, <1>5, Holding DEF HeldConns
  <2>3. QED BY <2>1, <2>2, ConnectionsAssumption
<1>8. QED BY <1>1, <1>3, <1>4, <1>5, <1>6, <1>7, OneOperation

(* Where no transaction is open nothing has been written that a failure    *)
(* would leave behind.                                                     *)
LEMMA NothingSaved ==
  ASSUME DbInv, NEW c \in Tasks, AtStatement(c)
  PROVE  /\ Running(c) /\ job[c].at \in 1 .. Len(Body(job[c].op))
         /\ saved[c] = {} /\ job[c].tx \in {"none", "open"}
<1>1. KeptBy(c) /\ Running(c) /\ job[c].at \in DOMAIN Body(job[c].op) /\ job[c] \in Jobs
  BY DEF DbInv, DbShapes, AtStatement
<1>2. Body(job[c].op) \in Seq(Statements)
  BY BodiesAreWellFormed DEF WellFormed
<1>3. job[c].at \in 1 .. Len(Body(job[c].op)) /\ job[c].at # Len(Body(job[c].op)) + 1
  <2>1. DOMAIN Body(job[c].op) = 1 .. Len(Body(job[c].op))
    BY ONLY <1>2
  <2>2. QED BY ONLY <1>1, <2>1
<1>4. job[c].tx \in {"none", "open"}
  BY <1>1, <1>3 DEF Jobs, KeptBy
<1>5. saved[c] = {}
  BY <1>1, <1>3, <1>4, WritesDone DEF KeptBy
<1>6. QED BY <1>1, <1>3, <1>4, <1>5

(* A statement that runs: what it leaves of the operation. *)
LEMMA RunningStatement ==
  ASSUME DbInv, NEW c \in Tasks, RunStatement(c)
  PROVE  /\ DbInv' /\ job'[c].op = job[c].op
         /\ \A d \in Tasks \ {c} : /\ job'[d] = job[d] /\ outcome'[d] = outcome[d]
                                   /\ wrote'[d] = wrote[d] /\ saved'[d] = saved[d]
<1> DEFINE op == job[c].op
           a == job[c].at
           s == Body(op)[a]
<1>1. /\ AtStatement(c) /\ (job[c].tx # "none" => job[c].tx = "open")
      /\ UNCHANGED outcome
  BY DEF RunStatement, Ready, JoinsTx
<1>2. /\ Running(c) /\ a \in 1 .. Len(Body(op)) /\ saved[c] = {}
      /\ job[c].tx \in {"none", "open"} /\ outcome[c] = "none"
  BY <1>1, NothingSaved DEF Running
<1>3. DbShapes /\ KeptBy(c) /\ job[c] \in Jobs
  BY DEF DbInv, DbShapes
<1>4. /\ job[c].tx = "none" => wrote[c] = {} /\ NotBegun(op, a)
      /\ job[c].tx = "open" => wrote[c] = Done(op, a)
  BY <1>2, <1>3 DEF KeptBy
<1>5. /\ s \in Statements /\ (s = "write tx" => a = Len(Body(op)))
      /\ s \notin {"write", "write tx"} => Done(op, a + 1) = Done(op, a)
      /\ s \in {"write", "write tx"} => Done(op, a + 1) = Done(op, a) \cup {a}
      /\ NotBegun(op, a) => Done(op, a) = {}
      /\ NotBegun(op, a) /\ s # "begin" => NotBegun(op, a + 1)
  BY <1>2, WritesDone
<1>6. /\ a \in Nat /\ a + 1 \in Nat /\ a + 1 \in 1 .. Len(Body(op)) + 1
      /\ s = "write tx" => a + 1 = Len(Body(op)) + 1 /\ Done(op, a + 1) = Writes(op)
  <2>1. a \in Nat /\ a + 1 \in Nat /\ a + 1 \in 1 .. Len(Body(op)) + 1
    BY ONLY <1>2
  <2>2. s = "write tx" => a + 1 = Len(Body(op)) + 1
    BY <1>5
  <2>3. QED BY <2>1, <2>2, AllDone
<1>7. wrote[c] \in SUBSET Nat /\ saved[c] \in SUBSET Nat
  BY <1>3 DEF DbShapes
<1> DEFINE Moved(tx) == [[job[c] EXCEPT !.at = @ + 1, !.conn = FALSE] EXCEPT !.tx = tx]
<1>8. \A tx \in {"none", "open", "closed"} :
        /\ Moved(tx) \in Jobs /\ Moved(tx).op = op /\ Moved(tx).at = a + 1
        /\ Moved(tx).tx = tx /\ Moved(tx).conn = FALSE
  BY <1>3, <1>6 DEF Jobs
<1>9. SUFFICES ASSUME NEW tx \in {"none", "open", "closed"},
                      NEW w \in SUBSET Nat, NEW v \in SUBSET Nat,
                      job' = [job EXCEPT ![c] = Moved(tx)],
                      wrote' = [wrote EXCEPT ![c] = w], saved' = [saved EXCEPT ![c] = v],
                      /\ tx = "none" => w = {} /\ v = Done(op, a + 1) /\ NotBegun(op, a + 1)
                      /\ tx = "open" => v = {} /\ w = Done(op, a + 1)
                      /\ tx = "closed" => /\ w = {} /\ v = Writes(op)
                                          /\ a + 1 = Len(Body(op)) + 1
               PROVE  /\ DbInv' /\ job'[c].op = op
                      /\ \A d \in Tasks \ {c} :
                           /\ job'[d] = job[d] /\ outcome'[d] = outcome[d]
                           /\ wrote'[d] = wrote[d] /\ saved'[d] = saved[d]
  <2>1. wrote = [wrote EXCEPT ![c] = wrote[c]] /\ saved = [saved EXCEPT ![c] = saved[c]]
    BY <1>3 DEF DbShapes
  <2>2. job[c] = [job[c] EXCEPT !.tx = job[c].tx]
    BY <1>3 DEF Jobs
  <2>3. [job[c] EXCEPT !.at = @ + 1, !.conn = FALSE] = Moved(job[c].tx)
    BY <1>3 DEF Jobs
  <2>4. CASE s = "begin"
    <3>1. job' = [job EXCEPT ![c] = Moved("open")] /\ UNCHANGED <<wrote, saved>>
      BY <2>4 DEF RunStatement
    <3>2. wrote[c] = Done(op, a + 1)
      BY <1>2, <1>4, <1>5, <2>4
    <3>3. QED BY <1>2, <1>7, <1>9, <2>1, <3>1, <3>2
  <2>5. CASE s \in {"read", "lock"}
    <3>1. job' = [job EXCEPT ![c] = Moved(job[c].tx)] /\ UNCHANGED <<wrote, saved>>
      BY <2>3, <2>5 DEF RunStatement
    <3>2. QED BY <1>2, <1>4, <1>5, <1>7, <1>9, <2>1, <2>5, <3>1
  <2>6. CASE s = "write"
    <3>1. /\ job' = [job EXCEPT ![c] = Moved(job[c].tx)]
          /\ IF job[c].tx # "none"
             THEN wrote' = [wrote EXCEPT ![c] = wrote[c] \cup {a}] /\ UNCHANGED saved
             ELSE saved' = [saved EXCEPT ![c] = saved[c] \cup {a}] /\ UNCHANGED wrote
      BY <2>3, <2>6 DEF RunStatement, JoinsTx
    <3>2. CASE job[c].tx = "open"
      <4>1. wrote[c] \cup {a} = Done(op, a + 1) /\ wrote[c] \cup {a} \in SUBSET Nat
        BY <1>4, <1>5, <1>6, <1>7, <2>6, <3>2
      <4>2. QED BY <1>2, <1>7, <1>9, <2>1, <3>1, <3>2, <4>1
    <3>3. CASE job[c].tx = "none"
      <4>1. /\ saved[c] \cup {a} = Done(op, a + 1) /\ saved[c] \cup {a} \in SUBSET Nat
            /\ NotBegun(op, a + 1)
        BY <1>2, <1>4, <1>5, <1>6, <1>7, <2>6, <3>3
      <4>2. QED BY <1>4, <1>7, <1>9, <2>1, <3>1, <3>3, <4>1
    <3>4. QED BY <1>2, <3>2, <3>3
  <2>7. CASE s = "write tx"
    <3>1. /\ job' = [job EXCEPT ![c] = Moved(IF job[c].tx # "none" THEN "closed" ELSE "none")]
          /\ saved' = [saved EXCEPT ![c] = saved[c] \cup wrote[c] \cup {a}]
          /\ wrote' = [wrote EXCEPT ![c] = {}]
      BY <2>7 DEF RunStatement, JoinsTx
    <3>2. /\ saved[c] \cup wrote[c] \cup {a} = Done(op, a + 1)
          /\ saved[c] \cup wrote[c] \cup {a} \in SUBSET Nat
      BY <1>2, <1>4, <1>5, <1>6, <1>7, <2>7
    <3>3. CASE job[c].tx = "open"
      BY <1>6, <1>9, <2>7, <3>1, <3>2, <3>3
    <3>4. CASE job[c].tx = "none"
      <4>1. NotBegun(op, a + 1)
        BY <1>4, <1>5, <2>7, <3>4
      <4>2. job' = [job EXCEPT ![c] = Moved("none")]
        BY <3>1, <3>4
      <4>3. QED BY <1>9, <3>1, <3>2, <4>1, <4>2
    <3>5. QED BY <1>2, <3>3, <3>4
  <2>8. QED BY <1>5, <2>4, <2>5, <2>6, <2>7 DEF Statements
<1> HIDE DEF Moved, op, a, s
<1>10. job'[c] = Moved(tx) /\ wrote'[c] = w /\ saved'[c] = v /\ outcome' = outcome
  BY <1>1, <1>3, <1>9 DEF DbShapes
<1>11. DbShapes'
  BY <1>1, <1>3, <1>8, <1>9 DEF DbShapes
<1>12. \A d \in Tasks \ {c} : /\ job'[d] = job[d] /\ wrote'[d] = wrote[d]
                              /\ saved'[d] = saved[d] /\ outcome'[d] = outcome[d]
  BY <1>1, <1>3, <1>9 DEF DbShapes
<1>13. /\ job'[c].op = op /\ job'[c].at = a + 1 /\ job'[c].tx = tx
       /\ job'[c].conn = FALSE
  BY <1>8, <1>10
<1>14. KeptBy(c)'
  BY <1>6, <1>9, <1>10, <1>13 DEF KeptBy
<1>15. Reported(c)'
  <2>1. Running(c)'
    BY <1>2, <1>10, <1>13 DEF Running, op
  <2>2. QED BY <1>2, <1>10, <2>1 DEF Reported
<1>16. HeldConns' <= MaxConns
  <2>1. job[c].tx = "open" \/ job[c].conn
    BY <1>2 DEF RunStatement, Ready, JoinsTx
  <2>2. QED BY <1>12, <1>13, <2>1, Holding, Room
<1>17. DbInv'
  BY <1>16, <1>11, <1>12, <1>13, <1>14, <1>15, OneOperation
<1>18. QED BY <1>12, <1>13, <1>17

LEMMA DbSteps ==
  ASSUME DbInv, NEW c \in Tasks, DbStep(c)
  PROVE  /\ DbInv' /\ Running(c) /\ job'[c].op = job[c].op /\ pool' = pool
         /\ \A d \in Tasks \ {c} : /\ job'[d] = job[d] /\ outcome'[d] = outcome[d]
                                   /\ wrote'[d] = wrote[d] /\ saved'[d] = saved[d]
         /\ outcome'[c] = "closed" => pool # "open"
<1>1. DbShapes /\ KeptBy(c) /\ job[c] \in Jobs
  BY DEF DbInv, DbShapes
<1>2. CASE Acquire(c)
  <2>1. DbInv' /\ Running(c)
    BY <1>2, Acquiring DEF Acquire, AtStatement
  <2>2. /\ job' = [job EXCEPT ![c].conn = TRUE] /\ outcome[c] = "none"
        /\ UNCHANGED <<wrote, saved, outcome, pool>>
    BY <1>2, <2>1 DEF Acquire, Running
  <2>3. QED BY <1>1, <2>1, <2>2 DEF DbShapes, Jobs
<1>3. ASSUME NEW result \in {"ok", "error", "closed"}, NEW committed \in SUBSET Nat,
             Conclude(c, result, committed), Running(c),
             saved[c] \cup committed = IF result = "ok" THEN Writes(job[c].op) ELSE {},
             result = "closed" => pool # "open"
      PROVE  /\ DbInv' /\ Running(c) /\ job'[c].op = job[c].op /\ pool' = pool
             /\ \A d \in Tasks \ {c} : /\ job'[d] = job[d] /\ outcome'[d] = outcome[d]
                                       /\ wrote'[d] = wrote[d] /\ saved'[d] = saved[d]
             /\ outcome'[c] = "closed" => pool # "open"
  <2>1. /\ DbInv' /\ job'[c].op = job[c].op /\ pool' = pool /\ outcome'[c] = result
    BY <1>3, Concluding
  <2>2. \A d \in Tasks \ {c} : /\ job'[d] = job[d] /\ outcome'[d] = outcome[d]
                               /\ wrote'[d] = wrote[d] /\ saved'[d] = saved[d]
    BY <1>1, <1>3 DEF Conclude, DbShapes
  <2>3. QED BY <1>3, <2>1, <2>2
<1>4. CASE AcquireFails(c)
  <2>1. AtStatement(c)
    BY <1>4 DEF AcquireFails
  <2>2. Running(c) /\ saved[c] \cup {} = {}
    BY <2>1, NothingSaved
  <2>3. \/ pool # "open" /\ Conclude(c, "closed", {})
        \/ Conclude(c, "error", {})
    BY <1>4 DEF AcquireFails
  <2>4. QED BY <1>3, <2>2, <2>3
<1>5. CASE RunStatement(c)
  <2>1. AtStatement(c) /\ UNCHANGED <<outcome, pool>>
    BY <1>5 DEF RunStatement, Ready
  <2>2. DbInv' /\ Running(c) /\ outcome[c] = "none"
    BY <1>5, <2>1, RunningStatement DEF AtStatement, Running
  <2>3. /\ job'[c].op = job[c].op
        /\ \A d \in Tasks \ {c} : /\ job'[d] = job[d] /\ outcome'[d] = outcome[d]
                                  /\ wrote'[d] = wrote[d] /\ saved'[d] = saved[d]
    BY <1>5, RunningStatement
  <2>4. QED BY <2>1, <2>2, <2>3
<1>6. CASE StatementFails(c)
  <2>1. AtStatement(c) /\ Conclude(c, "error", {})
    BY <1>6 DEF StatementFails, Ready
  <2>2. Running(c) /\ saved[c] \cup {} = {}
    BY <2>1, NothingSaved
  <2>3. QED BY <1>3, <2>1, <2>2
<1>7. CASE FinishOperation(c)
  <2>1. Running(c) /\ job[c].at \notin DOMAIN Body(job[c].op)
    BY <1>7 DEF FinishOperation, AtStatement
  <2>2. Body(job[c].op) \in Seq(Statements)
    BY BodiesAreWellFormed DEF WellFormed
  <2>3. job[c].at \in 1 .. Len(Body(job[c].op)) + 1
    BY <1>1, <2>1 DEF KeptBy
  <2>4. job[c].at = Len(Body(job[c].op)) + 1
    BY ONLY <2>1, <2>2, <2>3
  <2>5. Done(job[c].op, job[c].at) = Writes(job[c].op)
    BY <2>4, AllDone
  <2>6. saved[c] \cup wrote[c] = Writes(job[c].op) /\ wrote[c] \in SUBSET Nat
    BY <1>1, <2>1, <2>5 DEF KeptBy, Jobs, DbShapes
  <2>7. job[c].tx = "open" => saved[c] \cup {} = {}
    BY <1>1, <2>1 DEF KeptBy
  <2>8. \/ Conclude(c, "ok", wrote[c])
        \/ job[c].tx = "open" /\ Conclude(c, "error", {})
    BY <1>7 DEF FinishOperation
  <2>9. QED BY <1>3, <2>1, <2>6, <2>7, <2>8
<1>8. QED BY <1>2, <1>4, <1>5, <1>6, <1>7 DEF DbStep

(* An operation begins with nothing written. *)
LEMMA Beginning ==
  ASSUME DbInv, NEW c \in Tasks, job[c] = NoJob, outcome[c] = "none",
         saved[c] = {}, wrote[c] = {},
         NEW op \in Operations \cup {Stream, "MagicLinkToken"}, Begin(c, op),
         UNCHANGED <<wrote, saved, outcome>>
  PROVE  /\ DbInv' /\ job'[c].op = op
         /\ \A d \in Tasks \ {c} : job'[d] = job[d]
<1>1. DbShapes /\ job' = [job EXCEPT ![c] = [NoJob EXCEPT !.op = op]]
  BY DEF DbInv, Begin
<1>2. NoJob \in Jobs /\ NoJob.at = 1 /\ NoJob.tx = "none" /\ NoJob.conn = FALSE
  BY DEF NoJob, Jobs
<1>3. /\ [NoJob EXCEPT !.op = op] \in Jobs /\ [NoJob EXCEPT !.op = op].op = op
      /\ [NoJob EXCEPT !.op = op].at = 1 /\ [NoJob EXCEPT !.op = op].tx = "none"
      /\ [NoJob EXCEPT !.op = op].conn = FALSE
  BY <1>2 DEF Jobs
<1>4. /\ job'[c].op = op /\ job'[c].at = 1 /\ job'[c].tx = "none" /\ ~job'[c].conn
      /\ \A d \in Tasks \ {c} : job'[d] = job[d]
  BY <1>1, <1>3 DEF DbShapes
<1>5. DbShapes'
  BY <1>1, <1>3 DEF DbShapes
<1>6. KeptBy(c)'
  <2>1. Body(op) \in Seq(Statements)
    BY BodiesAreWellFormed DEF WellFormed
  <2>2. 1 \in 1 .. Len(Body(op)) + 1 /\ \A i \in DOMAIN Body(op) : ~(i < 1)
    BY ONLY <2>1
  <2>3. NotBegun(op, 1)
    BY <2>2 DEF NotBegun
  <2>4. Done(op, 1) = {}
    <3>1. ASSUME NEW i \in Done(op, 1) PROVE FALSE
      BY <2>2, <3>1 DEF Done, Writes
    <3>2. QED BY <3>1
  <2>5. QED BY <1>4, <2>2, <2>3, <2>4 DEF KeptBy
<1>7. Reported(c)'
  BY DEF Reported
<1>8. HeldConns' <= MaxConns
  BY <1>4, Holding, Room
<1>9. QED BY <1>8, <1>4, <1>5, <1>6, <1>7, OneOperation
-----------------------------------------------------------------------------
PartNames ==
  {"config", "tracing", "logging", "metrics", "schema", "pool", "status check", "seed",
   "dbos", "gateway", "listeners"}

ProcessShapes ==
  /\ pool \in {"none", "open", "closed"}
  /\ phase \in {"starting", "serving", "stopping", "unwinding", "exited"}
  /\ deferred \in Seq(PartNames) /\ next \in 0 .. Len(Parts) /\ Len(deferred) <= next
  /\ http \in {"off", "serving", "draining"} /\ grpc \in {"off", "serving", "draining"}
  /\ budget \in {"unset", "running", "elapsed"} /\ failed \in BOOLEAN
  /\ via \in [Tasks -> {"none", "http", "grpc", "workflow"}]
  /\ place \in [Tasks -> {"client", "http", "grpc", "workflow", "answered", "cut"}]

(* A task is where the way it came leads, and runs only once it got there. *)
Placed(c) ==
  /\ place[c] = "client" => via[c] = "none"
  /\ place[c] = "http" => via[c] = "http"
  /\ place[c] = "grpc" => via[c] \in {"http", "grpc"}
  /\ place[c] = "workflow" => via[c] = "workflow"
  /\ place[c] \in {"client", "http"} =>
       job[c] = NoJob /\ outcome[c] = "none" /\ saved[c] = {} /\ wrote[c] = {}
  /\ Running(c) /\ via[c] \in {"http", "grpc"} /\ job[c].op # Stream =>
       place[c] \in {"grpc", "cut"}

Places == \A c \in Tasks : Placed(c)

Calm == ~failed /\ budget # "elapsed"

(* What a process still has for the calls it accepted, until it is out of  *)
(* time: gRPC as long as there is HTTP, and the pool and the gateway as    *)
(* long as there is either.                                                *)
Drains ==
  /\ phase \in {"starting", "serving"} => budget = "unset"
  /\ Calm =>
       /\ phase = "starting" => /\ next >= 6 => pool = "open"
                                /\ next >= 10 => Has("gateway")
       /\ phase \in {"serving", "stopping"} => pool = "open" /\ Has("gateway")
       /\ phase = "serving" => http = "serving" /\ grpc = "serving"
       /\ phase = "stopping" /\ http # "off" => grpc = "serving"
       /\ phase \notin {"serving", "stopping"} => http = "off" /\ grpc = "off"
       /\ http = "off" => InFlight("http") = {}
       /\ grpc = "off" => InFlight("grpc") = {}

SInv == DbInv /\ ProcessShapes /\ Places /\ Drains /\ AcceptedCallsAreAnswered
-----------------------------------------------------------------------------
LEMMA TheParts ==
  /\ Len(Parts) = 11 /\ Parts[6] = "pool" /\ Parts[10] = "gateway"
  /\ "gateway" \in Defers /\ Parts \in Seq(PartNames)
<1>1. Len(Parts) = 11
  BY DEF Parts
<1>2. Parts[6] = "pool" /\ Parts[10] = "gateway"
  BY DEF Parts
<1>3. "gateway" \in Defers
  BY DEF Defers
<1>4. Parts \in Seq(PartNames)
  BY DEF Parts, PartNames
<1>5. QED BY <1>1, <1>2, <1>3, <1>4

LEMMA ServerInitially == ServerInit => SInv
<1> SUFFICES ASSUME ServerInit PROVE SInv
  OBVIOUS
<1>1. NoJob \in Jobs /\ NoJob.conn = FALSE /\ NoJob.op = "none"
  BY DEF NoJob, Jobs
<1>2. /\ \A c \in Tasks : /\ job[c] = NoJob /\ outcome[c] = "none" /\ place[c] = "client"
                          /\ via[c] = "none" /\ wrote[c] = {} /\ saved[c] = {}
      /\ DbShapes
  BY <1>1 DEF ServerInit, DbInit, DbShapes
<1>3. DbInv
  <2>1. {c \in Tasks : job[c].tx = "open"} = {} /\ {c \in Tasks : job[c].conn} = {}
    BY <1>2 DEF NoJob
  <2>2. HeldConns = 0 + 0
    BY <2>1, FS_EmptySet DEF HeldConns
  <2>3. HeldConns <= MaxConns
    BY <2>2, ConnectionsAssumption
  <2>4. QED BY <1>1, <1>2, <2>3 DEF DbInv, Sharing, KeptBy, Reported, Running
<1>4. ProcessShapes
  <2>1. /\ next \in 0 .. Len(Parts) /\ deferred \in Seq(PartNames)
        /\ Len(deferred) <= next
    <3>1. next = 0 /\ deferred = << >>
      BY DEF ServerInit
    <3>2. 0 \in 0 .. Len(Parts)
      BY TheParts
    <3>3. << >> \in Seq(PartNames) /\ Len(<< >>) <= 0
      OBVIOUS
    <3>4. QED BY <3>1, <3>2, <3>3
  <2>2. QED BY <2>1 DEF ServerInit, DbInit, ProcessShapes
<1>5. Places
  BY <1>1, <1>2 DEF Places, Placed, Running
<1>6. Drains
  <2>1. InFlight("http") = {} /\ InFlight("grpc") = {}
    BY <1>2 DEF InFlight
  <2>2. /\ next = 0 /\ phase = "starting" /\ budget = "unset" /\ http = "off"
        /\ grpc = "off"
    BY DEF ServerInit
  <2>3. ~(next >= 6) /\ ~(next >= 10)
    BY ONLY <2>2
  <2>4. QED BY <2>1, <2>2, <2>3 DEF Drains
<1>7. AcceptedCallsAreAnswered
  BY <1>2 DEF AcceptedCallsAreAnswered
<1>8. QED BY <1>3, <1>4, <1>5, <1>6, <1>7 DEF SInv

LEMMA Untouching ==
  ASSUME DbInv, UNCHANGED <<job, wrote, saved, outcome>>
  PROVE  DbInv'
<1>1. \A c \in Tasks : (Running(c)' <=> Running(c))
  BY DEF Running
<1>2. HeldConns' = HeldConns
  BY DEF HeldConns
<1>3. QED BY <1>1, <1>2 DEF DbInv, DbShapes, Sharing, KeptBy, Reported

(* A step of the process that no task takes part in. *)
LEMMA Untouched ==
  ASSUME SInv, UNCHANGED <<job, wrote, saved, outcome, via, place>>
  PROVE  /\ DbInv' /\ Places'
         /\ InFlight("http")' = InFlight("http") /\ InFlight("grpc")' = InFlight("grpc")
         /\ (Calm' => Calm) => AcceptedCallsAreAnswered'
<1>1. \A c \in Tasks : (Running(c)' <=> Running(c)) /\ job'[c] = job[c]
  BY DEF Running
<1>2. DbInv'
  BY Untouching DEF SInv
<1>3. Places'
  BY <1>1 DEF SInv, Places, Placed
<1>4. InFlight("http")' = InFlight("http") /\ InFlight("grpc")' = InFlight("grpc")
  BY DEF InFlight
<1>5. (Calm' => Calm) => AcceptedCallsAreAnswered'
  BY DEF SInv, Calm, AcceptedCallsAreAnswered
<1>6. QED BY <1>2, <1>3, <1>4, <1>5

(* A part that is set up stays in the list. *)
LEMMA Deferring ==
  ASSUME NEW S, deferred \in Seq(S), NEW made \in S,
         deferred' = IF made \in Defers THEN Append(deferred, made) ELSE deferred
  PROVE  /\ deferred' \in Seq(S)
         /\ Has("gateway") => Has("gateway")'
         /\ made = "gateway" => Has("gateway")'
<1>1. CASE made \in Defers
  <2> DEFINE d == Append(deferred, made)
  <2>1. d \in Seq(S)
    OBVIOUS
  <2>2. Len(deferred) \in Nat /\ DOMAIN deferred = 1 .. Len(deferred)
    OBVIOUS
  <2>3. DOMAIN d = 1 .. Len(deferred) + 1
    OBVIOUS
  <2>4. d[Len(deferred) + 1] = made
    OBVIOUS
  <2>5. \A i \in DOMAIN deferred : d[i] = deferred[i]
    OBVIOUS
  <2>6. deferred' = d
    BY <1>1
  <2> HIDE DEF d
  <2>7. Len(deferred) + 1 \in DOMAIN d /\ DOMAIN deferred \subseteq DOMAIN d
    BY ONLY <2>2, <2>3
  <2>8. QED BY <2>1, <2>4, <2>5, <2>6, <2>7 DEF Has
<1>2. CASE made \notin Defers
  BY <1>2, TheParts DEF Has
<1>3. QED BY <1>1, <1>2

LEMMA SettingUp == ASSUME SInv, SetUp PROVE SInv'
<1> DEFINE made == Parts[next + 1]
<1>1. /\ phase = "starting" /\ next < Len(Parts) /\ next' = next + 1
      /\ deferred' = IF made \in Defers THEN Append(deferred, made) ELSE deferred
      /\ pool' = IF made = "pool" THEN "open" ELSE pool
      /\ UNCHANGED <<job, wrote, saved, outcome, phase, http, grpc, budget, failed, via,
                     place>>
  BY DEF SetUp
<1>2. ProcessShapes /\ Drains
  BY DEF SInv
<1>3. /\ next \in 0 .. Len(Parts) /\ Len(Parts) = 11 /\ Parts \in Seq(PartNames)
      /\ Parts[6] = "pool" /\ Parts[10] = "gateway" /\ "gateway" \in Defers
      /\ deferred \in Seq(PartNames)
  BY <1>2, TheParts DEF ProcessShapes
<1>4. next + 1 \in 1 .. Len(Parts) /\ next \in Nat
  <2>1. next < Len(Parts) /\ next \in 0 .. Len(Parts) /\ Len(Parts) = 11
    BY <1>1, <1>3
  <2>2. QED BY ONLY <2>1
<1>5. made \in PartNames
  <2>1. Parts \in Seq(PartNames)
    BY <1>3
  <2>2. QED BY ONLY <1>4, <2>1
<1> HIDE DEF made
<1>6. /\ deferred' \in Seq(PartNames) /\ (Has("gateway") => Has("gateway")')
      /\ made = "gateway" => Has("gateway")'
  <2>1. deferred' = IF made \in Defers THEN Append(deferred, made) ELSE deferred
    BY <1>1
  <2>2. deferred \in Seq(PartNames)
    BY <1>3
  <2>3. QED BY <1>5, <2>1, <2>2, Deferring
<1>7. next' \in 0 .. Len(Parts)
  BY ONLY <1>1, <1>4
<1>8. ProcessShapes'
  BY <1>1, <1>2, <1>6, <1>7 DEF ProcessShapes
<1>9. (Calm' <=> Calm) /\ DbInv' /\ Places' /\ AcceptedCallsAreAnswered'
      /\ InFlight("http")' = InFlight("http") /\ InFlight("grpc")' = InFlight("grpc")
  BY <1>1, Untouched DEF Calm
<1>10. ASSUME Calm PROVE (next' >= 6 => pool' = "open") /\ (next' >= 10 => Has("gateway")')
  <2>1. (next >= 6 => pool = "open") /\ (next >= 10 => Has("gateway"))
    BY <1>1, <1>2, <1>10 DEF Drains
  <2>2. next' >= 6 => next >= 6 \/ next + 1 = 6
    BY ONLY <1>1, <1>4
  <2>3. next' >= 10 => next >= 10 \/ next + 1 = 10
    BY ONLY <1>1, <1>4
  <2>4. next + 1 = 6 => made = "pool"
    BY <1>3 DEF made
  <2>5. next + 1 = 10 => made = "gateway"
    BY <1>3 DEF made
  <2>6. next' >= 6 => pool' = "open"
    BY <1>1, <2>1, <2>2, <2>4
  <2>7. next' >= 10 => Has("gateway")'
    BY <1>6, <2>1, <2>3, <2>5
  <2>8. QED BY <2>6, <2>7
<1>11. Drains'
  BY <1>1, <1>2, <1>9, <1>10 DEF Drains
<1>12. QED BY <1>8, <1>9, <1>11 DEF SInv

(* The steps that end in a process that failed, or is out of time. *)
LEMMA Failing ==
  ASSUME SInv, SetUpFails \/ ServeFails \/ BudgetElapses
  PROVE  SInv'
<1>1. UNCHANGED <<job, wrote, saved, outcome, pool, deferred, via, place>>
  BY DEF SetUpFails, ServeFails, BudgetElapses, dbVars
<1>2. ProcessShapes
  BY DEF SInv
<1>3. /\ phase' \in {"unwinding", "stopping"} /\ ~Calm'
      /\ http' \in {http, "off"} /\ grpc' \in {grpc, "off"}
      /\ failed' \in BOOLEAN /\ budget' \in {budget, "elapsed"}
  BY <1>2 DEF SetUpFails, ServeFails, BudgetElapses, Calm, ProcessShapes
<1>4. next' \in 0 .. Len(Parts) /\ Len(deferred) <= next'
  <2>1. /\ next \in 0 .. Len(Parts) /\ Len(Parts) = 11 /\ Len(deferred) <= next
        /\ next' = next \/ (next < Len(Parts) /\ next' = next + 1)
    BY <1>2, TheParts DEF ProcessShapes, SetUpFails, ServeFails, BudgetElapses
  <2>2. deferred \in Seq(PartNames)
    BY <1>2 DEF ProcessShapes
  <2>3. Len(deferred) \in Nat
    BY ONLY <2>2
  <2>4. QED BY ONLY <2>1, <2>3
<1>5. ProcessShapes'
  BY <1>1, <1>2, <1>3, <1>4 DEF ProcessShapes
<1>6. DbInv' /\ Places' /\ AcceptedCallsAreAnswered'
  BY <1>1, <1>3, Untouched
<1>7. Drains'
  BY <1>3 DEF Drains
<1>8. QED BY <1>5, <1>6, <1>7 DEF SInv

LEMMA Serving == ASSUME SInv, Serve \/ Signal \/ Stopped PROVE SInv'
<1>1. /\ UNCHANGED <<job, wrote, saved, outcome, pool, deferred, next, failed, via, place>>
  BY DEF Serve, Signal, Stopped, dbVars
<1>2. ProcessShapes /\ Drains
  BY DEF SInv
<1>3. ProcessShapes'
  BY <1>1, <1>2 DEF ProcessShapes, Serve, Signal, Stopped
<1>4. Calm' => Calm
  BY <1>1, <1>2 DEF Calm, Serve, Signal, Stopped, Drains
<1>5. /\ DbInv' /\ Places' /\ AcceptedCallsAreAnswered'
      /\ InFlight("http")' = InFlight("http") /\ InFlight("grpc")' = InFlight("grpc")
  BY <1>1, <1>4, Untouched
<1>6. Has("gateway")' <=> Has("gateway")
  BY <1>1 DEF Has
<1>7. CASE Serve
  <2>1. /\ phase = "starting" /\ next = 11
        /\ phase' = "serving" /\ http' = "serving" /\ grpc' = "serving"
        /\ budget' = budget
    BY <1>7, TheParts DEF Serve
  <2>2. next >= 6 /\ next >= 10
    BY ONLY <2>1
  <2>3. Drains'
    BY <1>1, <1>2, <1>4, <1>6, <2>1, <2>2 DEF Drains
  <2>4. QED BY <1>3, <1>5, <2>3 DEF SInv
<1>8. CASE Signal
  <2>1. /\ phase = "serving" /\ phase' = "stopping" /\ UNCHANGED <<http, grpc>>
    BY <1>8 DEF Signal
  <2>2. Drains'
    BY <1>1, <1>2, <1>4, <1>5, <1>6, <2>1 DEF Drains
  <2>3. QED BY <1>3, <1>5, <2>2 DEF SInv
<1>9. CASE Stopped
  <2>1. /\ phase = "stopping" /\ phase' = "unwinding" /\ UNCHANGED <<http, grpc>>
        /\ http = "off" /\ grpc = "off"
    BY <1>9 DEF Stopped
  <2>2. Drains'
    BY <1>1, <1>2, <1>4, <1>5, <1>6, <2>1 DEF Drains
  <2>3. QED BY <1>3, <1>5, <2>2 DEF SInv
<1>10. QED BY <1>7, <1>8, <1>9

(* gRPC is stopped only when HTTP is. *)
LEMMA InStopOrder == StopsNow("grpc") => http = "off"
<1>1. ASSUME NEW i \in DOMAIN StopOrder, StopOrder[i] = "grpc" PROVE i = 2
  BY <1>1 DEF StopOrder
<1>2. 1 \in 1 .. 2 - 1 /\ StopOrder[1] = "http"
  BY DEF StopOrder
<1>3. QED BY <1>1, <1>2 DEF StopsNow, Server

LEMMA Draining ==
  ASSUME SInv, NEW s \in {"http", "grpc"}, Drain(s) \/ Drained(s)
  PROVE  SInv'
<1>1. /\ UNCHANGED <<job, wrote, saved, outcome, pool, phase, deferred, next, budget,
                     failed, via, place>>
      /\ phase = "stopping" /\ StopsNow(s)
  BY DEF Drain, Drained, dbVars, StopsNow
<1>2. ProcessShapes /\ Drains
  BY DEF SInv
<1>3. ProcessShapes'
  BY <1>1, <1>2 DEF ProcessShapes, Drain, Drained, SetServer
<1>4. /\ DbInv' /\ Places' /\ AcceptedCallsAreAnswered' /\ (Calm' <=> Calm)
      /\ InFlight("http")' = InFlight("http") /\ InFlight("grpc")' = InFlight("grpc")
      /\ Has("gateway")' <=> Has("gateway")
  <2>1. Calm' <=> Calm
    BY <1>1 DEF Calm
  <2>2. Has("gateway")' <=> Has("gateway")
    BY <1>1 DEF Has
  <2>3. QED BY <1>1, <2>1, <2>2, Untouched
<1>5. CASE s = "http"
  <2>1. /\ http # "off" /\ grpc' = grpc
        /\ http' = "off" => InFlight("http") = {} \/ budget = "elapsed"
    BY <1>5 DEF Drain, Drained, SetServer, Server
  <2>2. Drains'
    BY <1>1, <1>2, <1>4, <2>1 DEF Drains, Calm
  <2>3. QED BY <1>3, <1>4, <2>2 DEF SInv
<1>6. CASE s = "grpc"
  <2>1. /\ http = "off" /\ http' = http
        /\ grpc' = "off" => InFlight("grpc") = {}
    BY <1>1, <1>6, InStopOrder DEF Drain, Drained, SetServer, Server
  <2>2. Drains'
    BY <1>1, <1>2, <1>4, <2>1 DEF Drains, Calm
  <2>3. QED BY <1>3, <1>4, <2>2 DEF SInv
<1>7. QED BY <1>5, <1>6

LEMMA Closing == ASSUME SInv, ClosePool \/ TearDown PROVE SInv'
<1>1. /\ UNCHANGED <<job, wrote, saved, outcome, phase, next, http, grpc, budget, failed,
                     via, place>>
      /\ phase = "unwinding" /\ pool' \in {pool, "closed"}
  BY DEF ClosePool, TearDown, dbVars, processVars
<1>2. ProcessShapes /\ Drains
  BY DEF SInv
<1>3. deferred' \in Seq(PartNames) /\ Len(deferred') <= next
  <2>1. deferred \in Seq(PartNames) /\ Len(deferred) <= next /\ next \in 0 .. Len(Parts)
    BY <1>2 DEF ProcessShapes
  <2>2. deferred # << >> => Front(deferred) \in Seq(PartNames) /\ Len(Front(deferred)) <= next
    <3>1. ASSUME NEW S, NEW s \in Seq(S), s # << >>
          PROVE  Front(s) \in Seq(S) /\ Len(Front(s)) <= Len(s) /\ Len(Front(s)) \in Nat
      BY <3>1 DEF Front
    <3>2. Len(deferred) \in Nat
      BY ONLY <2>1
    <3>3. next \in Nat
      BY <2>1, TheParts
    <3>4. QED BY <2>1, <3>1, <3>2, <3>3
  <2>3. deferred' = deferred \/ (deferred # << >> /\ deferred' = Front(deferred))
    BY DEF ClosePool, TearDown, processVars
  <2>4. QED BY <2>1, <2>2, <2>3
<1>4. ProcessShapes'
  BY <1>1, <1>2, <1>3 DEF ProcessShapes
<1>5. Calm' <=> Calm
  BY <1>1 DEF Calm
<1>6. /\ DbInv' /\ Places' /\ AcceptedCallsAreAnswered'
      /\ InFlight("http")' = InFlight("http") /\ InFlight("grpc")' = InFlight("grpc")
  BY <1>1, <1>5, Untouched
<1>7. Drains'
  BY <1>1, <1>2, <1>5, <1>6 DEF Drains
<1>8. QED BY <1>4, <1>6, <1>7 DEF SInv

(* Stop comes when the time is out; what it cuts off keeps its job.        *)
LEMMA Forcing == ASSUME SInv, ForceStop PROVE SInv'
<1>1. /\ UNCHANGED <<job, wrote, saved, outcome, pool, phase, deferred, next, http, budget,
                     failed, via>>
      /\ phase = "stopping" /\ budget = "elapsed" /\ grpc' = "off"
      /\ place' = [c \in Tasks |-> IF c \in InFlight("grpc") THEN "cut" ELSE place[c]]
  BY DEF ForceStop, StopsNow, OutOfTime, Cut
<1>2. DbInv /\ ProcessShapes /\ Places
  BY DEF SInv
<1>3. \A c \in Tasks : (Running(c)' <=> Running(c))
  BY <1>1 DEF Running
<1>4. DbInv'
  BY <1>1, <1>2, Untouching
<1>5. \A c \in Tasks : place'[c] = IF place[c] = "grpc" THEN "cut" ELSE place[c]
  BY <1>1 DEF InFlight
<1>6. place' \in [Tasks -> {"client", "http", "grpc", "workflow", "answered", "cut"}]
  BY <1>1, <1>2 DEF ProcessShapes
<1>7. ProcessShapes'
  BY <1>1, <1>2, <1>6 DEF ProcessShapes
<1>8. Places'
  BY <1>1, <1>2, <1>3, <1>5 DEF Places, Placed
<1>9. ~Calm'
  BY <1>1 DEF Calm
<1>10. Drains' /\ AcceptedCallsAreAnswered'
  BY <1>1, <1>9 DEF Drains, Calm, AcceptedCallsAreAnswered
<1>11. QED BY <1>4, <1>7, <1>8, <1>10 DEF SInv

(* What was running when the process exits has saved what it had saved,    *)
(* and does not go on.                                                     *)
LEMMA Exiting ==
  ASSUME SInv, Exit
  PROVE  /\ DbInv' /\ Places'
         /\ \A c \in Tasks : place'[c] =
              IF place[c] \in {"http", "grpc", "workflow"} THEN "cut" ELSE place[c]
<1>1. /\ UNCHANGED <<saved, outcome, via>>
      /\ place' = [c \in Tasks |-> IF c \in {t \in Tasks : place[t] \in
                                                {"http", "grpc", "workflow"}}
                                   THEN "cut" ELSE place[c]]
      /\ job' = [c \in Tasks |-> IF Running(c) THEN NoJob ELSE job[c]]
      /\ wrote' = [c \in Tasks |-> {}]
  BY DEF Exit, Cut
<1>2. DbInv /\ DbShapes /\ Places
  BY DEF SInv, DbInv
<1>3. NoJob \in Jobs /\ NoJob.op = "none" /\ NoJob.conn = FALSE
  BY DEF NoJob, Jobs
<1>4. \A c \in Tasks : /\ job'[c] = IF Running(c) THEN NoJob ELSE job[c]
                       /\ wrote'[c] = {}
  BY <1>1
<1>5. \A c \in Tasks : place'[c] =
        IF place[c] \in {"http", "grpc", "workflow"} THEN "cut" ELSE place[c]
  BY <1>1
<1>6. \A c \in Tasks : ~Running(c)' /\ (outcome[c] # "none" => ~Running(c))
  BY <1>1, <1>3, <1>4 DEF Running
<1>7. DbShapes'
  BY <1>1, <1>2, <1>3 DEF DbShapes
<1>8. Sharing'
  BY <1>2, <1>3, <1>4 DEF DbInv, Sharing
<1>9. \A c \in Tasks : KeptBy(c)' /\ Reported(c)'
  <2>1. ASSUME NEW c \in Tasks PROVE KeptBy(c)'
    BY <1>6 DEF KeptBy
  <2>2. ASSUME NEW c \in Tasks PROVE Reported(c)'
    <3>1. Reported(c) /\ saved'[c] = saved[c] /\ outcome'[c] = outcome[c]
      BY <1>1, <1>2 DEF DbInv
    <3>2. outcome[c] # "none" => job'[c] = job[c]
      BY <1>4, <1>6
    <3>3. QED BY <1>4, <3>1, <3>2 DEF Reported
  <2>3. QED BY <2>1, <2>2
<1>10. DbInv'
  <2> DEFINE tx == {c \in Tasks : job[c].tx = "open"}
             own == {c \in Tasks : job[c].conn}
  <2>1. tx' \subseteq tx /\ own' \subseteq own
    BY <1>3, <1>4 DEF NoJob
  <2>2. HeldConns = Cardinality(tx) + Cardinality(own)
    BY DEF HeldConns
  <2>3. HeldConns' = Cardinality(tx') + Cardinality(own')
    BY DEF HeldConns
  <2>4. /\ IsFiniteSet(tx) /\ IsFiniteSet(own) /\ IsFiniteSet(tx') /\ IsFiniteSet(own')
    BY ConnectionsAssumption, FS_Subset
  <2> HIDE DEF tx, own
  <2>5. Cardinality(tx') <= Cardinality(tx) /\ Cardinality(own') <= Cardinality(own)
    BY <2>1, <2>4, FS_Subset
  <2>6. /\ Cardinality(tx) \in Nat /\ Cardinality(own) \in Nat
        /\ Cardinality(tx') \in Nat /\ Cardinality(own') \in Nat
    BY <2>4, FS_CardinalityType
  <2>7. HeldConns \in Nat /\ HeldConns' \in Nat /\ HeldConns' <= HeldConns
    BY ONLY <2>2, <2>3, <2>5, <2>6
  <2>8. HeldConns' <= MaxConns
    BY <1>2, <2>7, Room
  <2>9. QED BY <1>7, <1>8, <1>9, <2>8 DEF DbInv
<1>11. Places'
  <2>1. ASSUME NEW c \in Tasks PROVE Placed(c)'
    <3>1. Placed(c) /\ via'[c] = via[c] /\ outcome'[c] = outcome[c] /\ saved'[c] = saved[c]
      BY <1>1, <1>2 DEF Places
    <3>2. place'[c] \notin {"http", "grpc", "workflow"} /\ ~Running(c)'
      BY <1>5, <1>6
    <3>3. place'[c] = "client" => place[c] = "client" /\ job[c] = NoJob
      BY <1>5, <3>1 DEF Placed
    <3>4. QED BY <1>4, <3>1, <3>2, <3>3 DEF Placed
  <2>2. QED BY <2>1 DEF Places
<1>12. QED BY <1>5, <1>10, <1>11

LEMMA Ending == ASSUME SInv, Return \/ Kill PROVE SInv'
<1>1. /\ Exit /\ phase' = "exited" /\ pool' = "none" /\ http' = "off" /\ grpc' = "off"
      /\ UNCHANGED <<outcome, next, budget, via>>
  BY DEF Return, Kill, Exit
<1>2. ProcessShapes /\ Drains /\ Places
  BY DEF SInv
<1>3. /\ DbInv' /\ Places'
      /\ \A c \in Tasks : place'[c] =
           IF place[c] \in {"http", "grpc", "workflow"} THEN "cut" ELSE place[c]
  BY <1>1, Exiting
<1>4. /\ place' \in [Tasks -> {"client", "http", "grpc", "workflow", "answered", "cut"}]
      /\ via' \in [Tasks -> {"none", "http", "grpc", "workflow"}]
  <2>1. place' = [c \in Tasks |-> place'[c]]
    BY <1>1 DEF Exit, Cut
  <2>2. QED BY <1>1, <1>2, <1>3, <2>1 DEF ProcessShapes
<1>5. deferred' \in Seq(PartNames) /\ Len(deferred') <= next /\ failed' \in BOOLEAN
  <2>1. << >> \in Seq(PartNames) /\ Len(<< >>) = 0
    OBVIOUS
  <2>2. next \in 0 .. Len(Parts) /\ Len(Parts) = 11
    BY <1>2, TheParts DEF ProcessShapes
  <2>3. 0 <= next
    BY ONLY <2>2
  <2>4. deferred' = << >> /\ failed' \in BOOLEAN
    BY <1>2 DEF Return, Kill, ProcessShapes
  <2>5. QED BY <2>1, <2>3, <2>4
<1>6. ProcessShapes'
  BY <1>1, <1>2, <1>4, <1>5 DEF ProcessShapes
<1>7. InFlight("http")' = {} /\ InFlight("grpc")' = {}
  <2>1. \A c \in Tasks : place'[c] \notin {"http", "grpc"}
    BY <1>3
  <2>2. QED BY <2>1 DEF InFlight
<1>8. Drains'
  BY <1>1, <1>7 DEF Drains
<1>9. AcceptedCallsAreAnswered'
  <2>1. SUFFICES ASSUME Calm', NEW c \in Tasks, via'[c] \in {"http", "grpc"}
                 PROVE  place'[c] # "cut" /\ outcome'[c] # "closed"
    BY DEF AcceptedCallsAreAnswered, Calm
  <2>2. Return /\ Calm /\ phase = "unwinding"
    BY <1>1, <2>1 DEF Return, Kill, Calm
  <2>3. InFlight("http") = {} /\ InFlight("grpc") = {}
    BY <1>2, <2>2 DEF Drains
  <2>4. place[c] \notin {"http", "grpc"}
    BY <1>2, <2>3 DEF InFlight, Places, Placed
  <2>5. place[c] # "workflow" /\ place[c] # "cut" /\ outcome[c] # "closed"
    BY <1>1, <1>2, <2>1, <2>2 DEF SInv, AcceptedCallsAreAnswered, Calm, Places, Placed
  <2>6. QED BY <1>1, <1>3, <2>4, <2>5
<1>10. QED BY <1>3, <1>6, <1>8, <1>9 DEF SInv
-----------------------------------------------------------------------------
(* A step of one task, and what it must not do while the process is not    *)
(* out of time: arrive at a server that is off, or be cut off.             *)
LEMMA OneTask ==
  ASSUME SInv, NEW c \in Tasks, DbInv',
         UNCHANGED <<pool, phase, deferred, next, http, grpc, budget, failed>>,
         via' \in [Tasks -> {"none", "http", "grpc", "workflow"}],
         place' \in [Tasks -> {"client", "http", "grpc", "workflow", "answered", "cut"}],
         \A d \in Tasks \ {c} : /\ job'[d] = job[d] /\ wrote'[d] = wrote[d]
                                /\ saved'[d] = saved[d] /\ outcome'[d] = outcome[d]
                                /\ via'[d] = via[d] /\ place'[d] = place[d],
         Placed(c)',
         Calm => /\ via'[c] = "http" /\ place'[c] \in {"http", "grpc"} => http # "off"
                 /\ place'[c] = "grpc" => grpc # "off"
                 /\ via'[c] \in {"http", "grpc"} =>
                      place'[c] # "cut" /\ outcome'[c] # "closed"
  PROVE  SInv'
<1>1. ProcessShapes /\ Places /\ Drains
  BY DEF SInv
<1>2. ProcessShapes'
  BY <1>1 DEF ProcessShapes
<1>3. ASSUME NEW d \in Tasks \ {c} PROVE Placed(d)'
  <2>1. Running(d)' <=> Running(d)
    BY DEF Running
  <2>2. QED BY <1>1, <2>1 DEF Places, Placed
<1>4. Places'
  BY <1>3 DEF Places
<1>5. (Calm' <=> Calm) /\ (Has("gateway")' <=> Has("gateway"))
  BY DEF Calm, Has
<1>6. ASSUME Calm
      PROVE  /\ http = "off" => InFlight("http")' = {}
             /\ grpc = "off" => InFlight("grpc")' = {}
  <2>1. /\ http = "off" => InFlight("http") = {}
        /\ grpc = "off" => InFlight("grpc") = {}
    BY <1>1, <1>6 DEF Drains
  <2>2. ASSUME http = "off", NEW d \in InFlight("http")' PROVE FALSE
    <3>1. d \in Tasks /\ via'[d] = "http" /\ place'[d] \in {"http", "grpc"}
      BY <2>2 DEF InFlight
    <3>2. d # c
      BY <1>6, <2>2, <3>1
    <3>3. via[d] = "http" /\ place[d] \in {"http", "grpc"}
      BY <3>1, <3>2
    <3>4. QED BY <2>1, <2>2, <3>1, <3>3 DEF InFlight
  <2>3. ASSUME grpc = "off", NEW d \in InFlight("grpc")' PROVE FALSE
    <3>1. d \in Tasks /\ place'[d] = "grpc"
      BY <2>3 DEF InFlight
    <3>2. d # c
      BY <1>6, <2>3, <3>1
    <3>3. QED BY <2>1, <2>3, <3>1, <3>2 DEF InFlight
  <2>4. QED BY <2>2, <2>3
<1>7. Drains'
  BY <1>1, <1>5, <1>6 DEF Drains
<1>8. AcceptedCallsAreAnswered'
  <2>1. AcceptedCallsAreAnswered
    BY DEF SInv
  <2>2. QED BY <1>5, <2>1 DEF AcceptedCallsAreAnswered, Calm
<1>9. QED BY <1>2, <1>4, <1>7, <1>8 DEF SInv

LEMMA Coming ==
  ASSUME SInv, NEW c \in Tasks,
         \/ HTTPRequest(c) \/ WorkflowRuns(c)
         \/ \E op \in Operations \cup {Stream} : GRPCCall(c, op)
  PROVE  SInv'
<1>1. PICK by \in {"http", "grpc", "workflow"} :
        /\ Come(c, by, by)
        /\ \/ by = "http" /\ http = "serving" /\ UNCHANGED job
           \/ /\ by = "grpc" /\ grpc = "serving"
              /\ \E op \in Operations \cup {Stream} : Begin(c, op)
           \/ by = "workflow" /\ Begin(c, "MagicLinkToken")
  BY DEF HTTPRequest, WorkflowRuns, GRPCCall
<1>2. DbInv /\ DbShapes /\ ProcessShapes /\ Placed(c)
  BY DEF SInv, DbInv, Places
<1>3. /\ place[c] = "client"
      /\ via' = [via EXCEPT ![c] = by] /\ place' = [place EXCEPT ![c] = by]
      /\ UNCHANGED <<wrote, saved, outcome, pool, phase, deferred, next, http, grpc,
                     budget, failed>>
  BY <1>1 DEF Come
<1>4. job[c] = NoJob /\ outcome[c] = "none" /\ saved[c] = {} /\ wrote[c] = {}
  BY <1>2, <1>3 DEF Placed
<1>5. /\ DbInv' /\ (\A d \in Tasks \ {c} : job'[d] = job[d])
      /\ by = "http" => job'[c] = NoJob
  <2>1. CASE UNCHANGED job
    BY <1>2, <1>3, <1>4, <2>1, Untouching
  <2>2. CASE \E op \in Operations \cup {Stream, "MagicLinkToken"} : Begin(c, op)
    BY <1>1, <1>2, <1>3, <1>4, <2>2, Beginning
  <2>3. QED BY <1>1, <2>1, <2>2
<1>6. /\ via' \in [Tasks -> {"none", "http", "grpc", "workflow"}]
      /\ place' \in [Tasks -> {"client", "http", "grpc", "workflow", "answered", "cut"}]
      /\ via'[c] = by /\ place'[c] = by
      /\ \A d \in Tasks \ {c} : via'[d] = via[d] /\ place'[d] = place[d]
  BY <1>2, <1>3 DEF ProcessShapes
<1>7. Placed(c)'
  BY <1>3, <1>4, <1>5, <1>6 DEF Placed, Running, NoJob
<1>8. /\ via'[c] = "http" /\ place'[c] \in {"http", "grpc"} => http # "off"
      /\ place'[c] = "grpc" => grpc # "off"
      /\ place'[c] # "cut" /\ outcome'[c] # "closed"
  BY <1>1, <1>3, <1>4, <1>6
<1>9. QED BY <1>3, <1>5, <1>6, <1>7, <1>8, OneTask

(* The gateway finds a gRPC server while the process is not out of time.   *)
LEMMA Forwarding ==
  ASSUME SInv, NEW c \in Tasks,
         ForwardFails(c) \/ \E op \in Operations : Forward(c, op)
  PROVE  SInv'
<1>1. /\ place[c] = "http" /\ phase # "exited"
      /\ UNCHANGED <<wrote, saved, outcome, pool, phase, deferred, next, http, grpc,
                     budget, failed, via>>
      /\ \/ /\ ~(Has("gateway") /\ grpc = "serving") /\ UNCHANGED job
            /\ place' = [place EXCEPT ![c] = "cut"]
         \/ /\ grpc = "serving" /\ \E op \in Operations : Begin(c, op)
            /\ place' = [place EXCEPT ![c] = "grpc"]
  BY DEF Forward, ForwardFails, Settle
<1>2. DbInv /\ DbShapes /\ ProcessShapes /\ Placed(c) /\ Drains
  BY DEF SInv, DbInv, Places
<1>3. /\ job[c] = NoJob /\ outcome[c] = "none" /\ saved[c] = {} /\ wrote[c] = {}
      /\ via[c] = "http"
  BY <1>1, <1>2 DEF Placed
<1>4. DbInv' /\ (\A d \in Tasks \ {c} : job'[d] = job[d])
  <2>1. CASE UNCHANGED job
    BY <1>1, <1>2, <2>1, Untouching
  <2>2. CASE \E op \in Operations \cup {Stream, "MagicLinkToken"} : Begin(c, op)
    BY <1>1, <1>2, <1>3, <2>2, Beginning
  <2>3. QED BY <1>1, <2>1, <2>2
<1>5. Calm => http # "off" /\ Has("gateway") /\ grpc = "serving"
  <2>1. c \in InFlight("http")
    BY <1>1, <1>3 DEF InFlight
  <2>2. QED BY <1>1, <1>2, <2>1 DEF Drains, ProcessShapes
<1>6. /\ place' \in [Tasks -> {"client", "http", "grpc", "workflow", "answered", "cut"}]
      /\ place'[c] \in {"cut", "grpc"} /\ (place'[c] = "cut" => ~Calm)
      /\ \A d \in Tasks \ {c} : place'[d] = place[d]
      /\ via'[c] = "http"
  BY <1>1, <1>2, <1>3, <1>5 DEF ProcessShapes
<1>7. Placed(c)'
  BY <1>6 DEF Placed
<1>8. via' \in [Tasks -> {"none", "http", "grpc", "workflow"}]
  BY <1>1, <1>2 DEF ProcessShapes
<1>9. Calm => /\ http # "off" /\ grpc # "off"
              /\ place'[c] # "cut" /\ outcome'[c] # "closed"
  BY <1>1, <1>3, <1>5, <1>6
<1>10. QED BY <1>1, <1>4, <1>6, <1>7, <1>8, <1>9, OneTask

LEMMA Answering ==
  ASSUME SInv, NEW c \in Tasks, Answer(c) \/ CloseStream(c)
  PROVE  SInv'
<1>1. /\ place' = [place EXCEPT ![c] = "answered"]
      /\ UNCHANGED <<job, wrote, saved, outcome, pool, phase, deferred, next, http, grpc,
                     budget, failed, via>>
      /\ place[c] \in {"grpc", "workflow"}
      /\ outcome[c] # "none" \/ job[c].op = Stream
  BY DEF Answer, CloseStream, Settle
<1>2. DbInv /\ ProcessShapes /\ Placed(c)
  BY DEF SInv, Places
<1>3. DbInv'
  BY <1>1, <1>2, Untouching
<1>4. /\ place' \in [Tasks -> {"client", "http", "grpc", "workflow", "answered", "cut"}]
      /\ via' \in [Tasks -> {"none", "http", "grpc", "workflow"}]
      /\ place'[c] = "answered" /\ \A d \in Tasks \ {c} : place'[d] = place[d]
  BY <1>1, <1>2 DEF ProcessShapes
<1>5. Placed(c)'
  BY <1>1, <1>4 DEF Placed, Running
<1>6. ASSUME Calm, via[c] \in {"http", "grpc"} PROVE outcome'[c] # "closed"
  BY <1>1, <1>6 DEF SInv, AcceptedCallsAreAnswered, Calm
<1>7. QED BY <1>1, <1>3, <1>4, <1>5, <1>6, OneTask

(* A call that is accepted finds the pool open. *)
LEMMA Accessing == ASSUME SInv, NEW c \in Tasks, Access(c, DbStep(c)) PROVE SInv'
<1>1. /\ DbStep(c) /\ job[c].op # Stream
      /\ UNCHANGED <<phase, deferred, next, http, grpc, budget, failed, via, place>>
  BY DEF Access, processVars
<1>2. DbInv /\ ProcessShapes /\ Placed(c) /\ Drains
  BY DEF SInv, Places
<1>3. /\ DbInv' /\ Running(c) /\ job'[c].op = job[c].op /\ pool' = pool
      /\ \A d \in Tasks \ {c} : /\ job'[d] = job[d] /\ outcome'[d] = outcome[d]
                                /\ wrote'[d] = wrote[d] /\ saved'[d] = saved[d]
      /\ outcome'[c] = "closed" => pool # "open"
  BY <1>1, <1>2, DbSteps
<1>4. place[c] \notin {"client", "http"}
  BY <1>2, <1>3 DEF Placed, Running, NoJob
<1>5. via[c] \in {"http", "grpc"} => place[c] \in {"grpc", "cut"}
  BY <1>1, <1>2, <1>3 DEF Placed
<1>6. Placed(c)'
  BY <1>1, <1>2, <1>3, <1>4, <1>5 DEF Placed
<1>7. ASSUME Calm, via[c] \in {"http", "grpc"}
      PROVE  place[c] # "cut" /\ outcome'[c] # "closed"
  <2>1. place[c] # "cut"
    BY <1>7 DEF SInv, AcceptedCallsAreAnswered, Calm
  <2>2. c \in InFlight("grpc")
    BY <1>5, <1>7, <2>1 DEF InFlight
  <2>3. grpc # "off"
    BY <1>2, <1>7, <2>2 DEF Drains
  <2>4. pool = "open"
    BY <1>2, <1>7, <2>3 DEF Drains
  <2>5. QED BY <1>3, <2>1, <2>4
<1>8. ASSUME Calm
      PROVE  /\ via[c] = "http" /\ place[c] \in {"http", "grpc"} => http # "off"
             /\ place[c] = "grpc" => grpc # "off"
  BY <1>2, <1>8 DEF Drains, InFlight
<1>9. QED BY <1>1, <1>2, <1>3, <1>6, <1>7, <1>8, OneTask DEF ProcessShapes
-----------------------------------------------------------------------------
LEMMA ServerSteps == SInv /\ [ServerNext]_serverVars => SInv'
<1> SUFFICES ASSUME SInv, [ServerNext]_serverVars PROVE SInv'
  OBVIOUS
<1>1. CASE ProcessStep
  BY <1>1, SettingUp, Failing, Serving, Draining, Forcing, Closing, Ending DEF ProcessStep
<1>2. CASE Environment
  <2>1. CASE Signal \/ ServeFails \/ Kill
    BY <2>1, Serving, Failing, Ending
  <2>2. CASE \E c \in RequestTasks :
               \/ HTTPRequest(c) \/ CloseStream(c)
               \/ \E op \in Operations \cup {Stream} : GRPCCall(c, op)
    BY <2>2, RequestTasksAssumption, Coming, Answering
  <2>3. CASE \E c \in Workflows : WorkflowRuns(c)
    BY <2>3, Coming DEF Workflows
  <2>4. QED BY <1>2, <2>1, <2>2, <2>3 DEF Environment
<1>3. ASSUME NEW c \in Tasks, TaskStep(c) PROVE SInv'
  BY <1>3, Forwarding, Accessing, Answering DEF TaskStep
<1>4. CASE UNCHANGED serverVars
  <2>1. UNCHANGED <<job, wrote, saved, outcome, pool, phase, deferred, next, http, grpc,
                    budget, failed, via, place>>
    BY <1>4 DEF serverVars, dbVars, processVars
  <2>2. /\ DbInv' /\ Places' /\ AcceptedCallsAreAnswered'
        /\ InFlight("http")' = InFlight("http") /\ InFlight("grpc")' = InFlight("grpc")
        /\ (Calm' <=> Calm) /\ (Has("gateway")' <=> Has("gateway"))
    <3>1. (Calm' <=> Calm) /\ (Has("gateway")' <=> Has("gateway"))
      BY <2>1 DEF Calm, Has
    <3>2. QED BY <2>1, <3>1, Untouched
  <2>3. ProcessShapes'
    BY <2>1 DEF SInv, ProcessShapes
  <2>4. Drains'
    BY <2>1, <2>2 DEF SInv, Drains
  <2>5. QED BY <2>2, <2>3, <2>4 DEF SInv
<1>5. QED BY <1>1, <1>2, <1>3, <1>4 DEF ServerNext

LEMMA ServerInvariance == ServerSpec => []SInv
BY ServerInitially, ServerSteps, PTL DEF ServerSpec

(* Whatever statements fail, contexts are cancelled and processes are      *)
(* killed: an operation of core that succeeds has committed all of its     *)
(* writes, and one that fails none, although RunBatchTx commits also the   *)
(* transaction of an outer RunTx.                                          *)
THEOREM OperationsAreWhole == ServerSpec => []AllOrNothing
<1>1. SInv => AllOrNothing
  BY DEF SInv, DbInv, DbShapes, Reported, AllOrNothing
<1>2. QED BY <1>1, ServerInvariance, PTL

(* A shutdown within its budget, of any number of calls over HTTP and      *)
(* gRPC, cuts none of them off and takes no connection from under one.     *)
THEOREM ShutdownsAreGraceful == ServerSpec => []AcceptedCallsAreAnswered
<1>1. SInv => AcceptedCallsAreAnswered
  BY DEF SInv
<1>2. QED BY <1>1, ServerInvariance, PTL

(* The rows, goroutines and links of the workflows, and the tasks of the   *)
(* process with its pool, are of their types, whichever is followed.  No   *)
(* task holds two connections: a statement of pgdb uses the one of the     *)
(* transaction in its context, so that no call waits for a connection      *)
(* while it holds one; and no more are held than the pool has.             *)
THEOREM TypesAreCorrect == MCSpec => []TypesOK
<1>1. MCInit => WInv /\ SInv
  BY WInit, ServerInitially DEF MCInit
<1>2. ASSUME WInv /\ SInv, [MCNext]_MCVars PROVE WInv' /\ SInv'
  <2>1. [Next]_vars
    BY <1>2 DEF MCNext, W, P, Next, Step, MCVars
  <2>2. [ServerNext]_serverVars
    BY <1>2 DEF MCNext, W, P, MCVars, ServerNext, ProcessStep, Environment, TaskStep,
                Access, DbStep
  <2>3. QED BY <1>2, <2>1, <2>2, WStep, ServerSteps
<1>3. ASSUME SInv PROVE ServerTypeOK
  <2>1. DbInv /\ ProcessShapes
    BY <1>3 DEF SInv
  <2>2. \A c \in Tasks : ~(job[c].tx = "open" /\ job[c].conn)
    BY <2>1 DEF DbInv, Sharing
  <2>3. ASSUME NEW c \in Tasks
        PROVE  wrote[c] \subseteq Writes(job[c].op) /\ saved[c] \cap wrote[c] = {}
    <3>1. KeptBy(c) /\ Reported(c) /\ job[c].tx \in {"none", "open", "closed"}
      BY <2>1 DEF DbInv, DbShapes, Jobs
    <3>2. wrote[c] = {} \/ (saved[c] = {} /\ wrote[c] = Done(job[c].op, job[c].at))
      BY <3>1 DEF KeptBy, Reported
    <3>3. QED BY <3>2 DEF Done
  <2>4. QED BY <2>1, <2>2, <2>3 DEF ServerTypeOK, DbInv, ProcessShapes
<1>4. WInv /\ SInv => TypesOK
  BY <1>3 DEF WInv, TypesOK
<1>5. QED BY <1>1, <1>2, <1>4, PTL DEF MCSpec
=============================================================================
