------------------------- MODULE OrganizationsProofs ------------------------
(***************************************************************************)
(* Proofs about Organizations, for any calls, texts, ids and requests.     *)
(* The unique indexes bind committed rows and those of open transactions   *)
(* alike (Distinct).  A transaction that inserts a project outside of      *)
(* Arrives has inserted the organization as well, under an id of its own   *)
(* (Housed, Apart), and Progress says what it has inserted so far.         *)
(***************************************************************************)
EXTENDS Organizations, WellFoundedInduction, TLAPS

Orgs(S) == Table(S, "organizations")
Projects(S) == Table(S, "projects")
Creating == {"organization", "projects", "member"}

(* No two rows, committed or not, share a unique key. *)
Distinct == \A r, s \in AllRows : Key(r) = Key(s) => r = s

(* The organization of a project is where the project is. *)
Housed ==
  /\ \A r \in Projects(rows) : \E o \in Orgs(rows) : o.id = r.org
  /\ \A c \in Calls : \A r \in Projects(written[c]) :
       \E o \in Orgs(written[c]) : o.id = r.org

(* No two open transactions create an organization under one id. *)
Apart ==
  \A c, d \in Calls : \A r \in Orgs(written[c]), s \in Orgs(written[d]) :
    r.id = s.id => c = d

HasProject(o, control, S) ==
  \E r \in Projects(S) : r.org = o.id /\ r.control = control

(* How far each transaction has come with the rows of its operation. *)
Progress(c) ==
  /\ pc[c] = "begun" => written[c] = {} /\ locked[c] = {}
  /\ pc[c] \in Creating => req[c].op = "create-org" /\ \E r \in Rows : Orgs(written[c]) = {r}
  /\ pc[c] \in {"projects", "member"} => req[c].creator \in UserIds
  /\ \A o \in Orgs(written[c]) : HasProject(o, TRUE, written[c])
  /\ pc[c] # "organization" => \A o \in Orgs(written[c]) : HasProject(o, FALSE, written[c])
  /\ \A r \in Table(written[c], "administrators") : Member(r.org, r.user) \in View(c)
  /\ pc[c] = "user" => /\ req[c].op = "create-org-user"
                       /\ \A u \in locked[c] : User(u, req[c].email) \in View(c)
  /\ pc[c] = "done" /\ req[c].op = "create-org-user" =>
       \E u \in locked[c] :
         /\ User(u, req[c].email) \in View(c)
         /\ Member(req[c].org, u) \in View(c)

Progresses == \A c \in Calls : Progress(c)

IInv ==
  /\ TypeOK /\ Distinct /\ Housed /\ Apart /\ Progresses
  /\ OrganizationsAreWhole /\ ServedUsersAreMembers
-----------------------------------------------------------------------------
(* A set of natural numbers has a least one. *)
LEMMA LeastElement ==
  ASSUME NEW S \in SUBSET Nat, S # {}
  PROVE  \E i \in S : \A j \in S : i <= j
<1> DEFINE Less == {p \in Nat \X Nat : p[1] < p[2]}
<1>1. IsWellFoundedOn(Less, Nat)
  BY ONLY NatLessThanWellFounded DEF OpToRel
<1>2. \A i, j \in S : <<j, i>> \in Less <=> j < i
  OBVIOUS
<1> HIDE DEF Less
<1>3. \E i \in S : \A j \in S : <<j, i>> \notin Less
  <2>1. S \subseteq Nat
    OBVIOUS
  <2>2. QED BY <1>1, <2>1, WFMin, Zenon
<1>4. PICK i \in S : \A j \in S : <<j, i>> \notin Less
  BY <1>3
<1>5. \A j \in S : ~(j < i) /\ i \in Nat /\ j \in Nat
  BY <1>2, <1>4
<1>6. QED BY <1>5

(* NextId is an id that no row of the table has. *)
LEMMA NextIdIsFresh ==
  ASSUME NEW ids \in SUBSET Nat, NEW table, HasNextId(ids, table)
  PROVE  /\ NextId(ids, table) \in ids
         /\ \A r \in Table(AllRows, table) : r.id # NextId(ids, table)
<1> DEFINE free == ids \ {r.id : r \in Table(AllRows, table)}
<1>1. \E i \in free : \A j \in free : i <= j
  <2>1. free # {} /\ free \in SUBSET Nat
    BY DEF HasNextId
  <2> HIDE DEF free
  <2>2. QED BY <2>1, LeastElement
<1>2. NextId(ids, table) \in free
  BY <1>1 DEF NextId
<1>3. QED BY <1>2

(* A row is committed or written by an open transaction. *)
LEMMA RowsOfAll ==
  \A r : r \in AllRows <=> r \in rows \/ \E c \in Calls : r \in written[c]
BY DEF AllRows

(* The rows of each table. *)
LEMMA Shapes ==
  /\ \A u \in UserIds, e \in Text : User(u, e) \in Rows
  /\ \A o \in OrgIds, n \in Text : Organization(o, n) \in Rows
  /\ \A o \in OrgIds, n \in Text, k \in BOOLEAN : Project(o, n, k) \in Rows
  /\ \A o \in OrgIds, u \in UserIds : Member(o, u) \in Rows /\ Administrator(o, u) \in Rows
<1>1. \A u \in UserIds, e \in Text : User(u, e) \in Rows
  BY DEF Rows
<1>2. \A o \in OrgIds, n \in Text : Organization(o, n) \in Rows
  BY DEF Rows
<1>3. \A o \in OrgIds, n \in Text, k \in BOOLEAN : Project(o, n, k) \in Rows
  BY DEF Rows
<1>4. \A o \in OrgIds, u \in UserIds : Member(o, u) \in Rows /\ Administrator(o, u) \in Rows
  BY DEF Rows
<1>5. QED BY <1>1, <1>2, <1>3, <1>4

(* Every row belongs to one table and has its shape. *)
LEMMA RowForms ==
  ASSUME NEW r \in Rows
  PROVE  \/ r.table = "users" /\ r = User(r.id, r.email) /\ r.id \in UserIds /\ r.email \in Text
         \/ /\ r.table = "organizations" /\ r = Organization(r.id, r.name)
            /\ r.id \in OrgIds /\ r.name \in Text
         \/ /\ r.table = "projects" /\ r = Project(r.org, r.name, r.control)
            /\ r.org \in OrgIds /\ r.name \in Text /\ r.control \in BOOLEAN
         \/ /\ r.table = "members" /\ r = Member(r.org, r.user)
            /\ r.org \in OrgIds /\ r.user \in UserIds
         \/ /\ r.table = "administrators" /\ r = Administrator(r.org, r.user)
            /\ r.org \in OrgIds /\ r.user \in UserIds
BY DEF Rows, User, Organization, Project, Member, Administrator

(* Keys of different tables differ; a key names its columns. *)
LEMMA Keys ==
  ASSUME NEW r \in Rows, NEW s \in Rows, Key(r) = Key(s)
  PROVE  /\ r.table = s.table
         /\ r.table = "users" => r.email = s.email
         /\ r.table = "organizations" => r.name = s.name
         /\ r.table = "projects" => r.org = s.org /\ Lower[r.name] = Lower[s.name]
         /\ r.table \in {"members", "administrators"} => r = s
<1>1. Key(r)[1] = r.table /\ Key(s)[1] = s.table
  BY RowForms DEF Key
<1>2. r.table = s.table
  BY <1>1
<1>3. r.table = "users" => r.email = s.email
  BY <1>2 DEF Key
<1>4. r.table = "organizations" => r.name = s.name
  BY <1>2 DEF Key
<1>5. r.table = "projects" => r.org = s.org /\ Lower[r.name] = Lower[s.name]
  BY <1>2 DEF Key
<1>6. r.table \in {"members", "administrators"} => r.org = s.org /\ r.user = s.user
  BY <1>2 DEF Key
<1>7. r.table \in {"members", "administrators"} => r = s
  BY <1>2, <1>6, RowForms
<1>8. QED BY <1>2, <1>3, <1>4, <1>5, <1>7
-----------------------------------------------------------------------------
(* What a request of each operation holds. *)
LEMMA Requested ==
  ASSUME TypeOK, NEW c \in Calls
  PROVE  /\ req[c].op = "create-user" => req[c].email \in Text
         /\ req[c].op = "create-org-user" => req[c].org \in OrgIds /\ req[c].email \in Text
         /\ req[c].op = "create-project" => req[c].org \in OrgIds /\ req[c].name \in Text
         /\ req[c].op = "create-org" =>
              /\ req[c].name \in Text /\ req[c].project \in Text
              /\ req[c].creator \in UserIds \cup {NoUser}
<1>1. req[c] \in Request \cup {NoRequest}
  BY RequestsAssumption DEF TypeOK
<1>2. QED BY <1>1 DEF Request, NoRequest

(* The inductive invariant holds for the first account alone. *)
LEMMA InitInv == Init => IInv
<1> SUFFICES ASSUME Init PROVE IInv
  OBVIOUS
<1>1. rows = {User(FirstUser, FirstEmail)} /\ rows \subseteq Rows
  BY IdsAssumption, TextAssumption, Shapes DEF Init
<1>2. TypeOK
  BY <1>1 DEF Init, TypeOK
<1>3. \A r \in AllRows : r = User(FirstUser, FirstEmail)
  BY <1>1, RowsOfAll DEF Init
<1>4. \A r \in rows : r.table = "users"
  BY <1>1 DEF User
<1>5. Distinct
  BY <1>3 DEF Distinct
<1>6. Housed /\ Apart /\ Progresses
  BY <1>4 DEF Init, Housed, Apart, Progresses, Progress, Orgs, Projects, Table, Creating
<1>7. OrganizationsAreWhole /\ ServedUsersAreMembers
  BY <1>4 DEF Init, OrganizationsAreWhole, ServedUsersAreMembers, Table
<1>8. QED BY <1>2, <1>5, <1>6, <1>7 DEF IInv
-----------------------------------------------------------------------------
(* What every step of c leaves to the others. *)
Moves(c) ==
  /\ rows \subseteq rows'
  /\ \A d \in Calls \ {c} :
       pc'[d] = pc[d] /\ req'[d] = req[d] /\ written'[d] = written[d] /\ locked'[d] = locked[d]

(* The transaction of c is over. *)
Ended(c) == Moves(c) /\ pc'[c] = "idle" /\ written'[c] = {} /\ locked'[c] = {}

(* The transaction of c has inserted the rows of N as well. *)
Grown(c, N) ==
  /\ Moves(c) /\ N \subseteq Rows
  /\ rows' = rows /\ served' = served /\ written'[c] = written[c] \cup N

(* Rows whose keys are new keep the keys distinct. *)
LEMMA DistinctRows ==
  ASSUME Distinct, NEW N,
         \A r \in AllRows' : r \in AllRows \/ r \in N,
         \A n \in N, s \in N \cup AllRows : Key(n) = Key(s) => n = s
  PROVE  Distinct'
BY DEF Distinct, Key

(* The others stay where they were. *)
LEMMA OthersProgress ==
  ASSUME Progresses, NEW c \in Calls, Moves(c), NEW d \in Calls, d # c
  PROVE  Progress(d)'
<1>1. Progress(d)
  BY DEF Progresses
<1>2. /\ pc'[d] = pc[d] /\ req'[d] = req[d] /\ written'[d] = written[d]
      /\ locked'[d] = locked[d] /\ \A r \in View(d) : r \in View(d)'
  BY DEF Moves, View
<1>3. QED BY <1>1, <1>2 DEF Progress, HasProject

(* A transaction that ends leaves nothing of its own behind. *)
LEMMA EndedStep ==
  ASSUME Housed, Apart, Progresses, NEW c \in Calls, Ended(c)
  PROVE  /\ Apart' /\ Progresses'
         /\ \A d \in Calls : \A r \in Projects(written'[d]) :
              \E o \in Orgs(written'[d]) : o.id = r.org
<1>1. \A d \in Calls : written'[d] = {} \/ (d # c /\ written'[d] = written[d])
  <2>1. written'[c] = {} /\ \A d \in Calls \ {c} : written'[d] = written[d]
    BY DEF Ended, Moves
  <2>2. QED BY <2>1
<1>2. Apart'
  BY <1>1 DEF Apart, Orgs, Table
<1>3. Progress(c)'
  BY DEF Ended, Progress, Creating, Orgs, Table
<1>4. \A d \in Calls : Progress(d)'
  BY <1>3, OthersProgress DEF Ended
<1>5. QED BY <1>1, <1>2, <1>4 DEF Housed, Progresses, Orgs, Projects, Table

(* A transaction goes on with rows whose keys are new, projects of         *)
(* organizations of its own and organizations under new ids.               *)
LEMMA GrownStep ==
  ASSUME IInv, NEW c \in Calls, NEW N, Grown(c, N), Progress(c)',
         \A n \in N, s \in N \cup AllRows : Key(n) = Key(s) => n = s,
         \A r \in Projects(N) : \E o \in Orgs(written'[c]) : o.id = r.org,
         \A o \in Orgs(N), s \in Orgs(AllRows) : o.id # s.id
  PROVE  /\ Distinct' /\ Housed' /\ Apart' /\ Progresses'
         /\ OrganizationsAreWhole' /\ ServedUsersAreMembers'
<1>1. /\ rows' = rows /\ written'[c] = written[c] \cup N
      /\ \A d \in Calls \ {c} : written'[d] = written[d]
  BY DEF Grown, Moves
<1>2. \A r \in AllRows' : r \in AllRows \/ r \in N
  BY <1>1 DEF AllRows
<1>3. Distinct'
  BY <1>2, DistinctRows DEF IInv
<1>4. Housed'
  <2>1. Housed
    BY DEF IInv
  <2>2. \A r \in Projects(rows') : \E o \in Orgs(rows') : o.id = r.org
    BY <1>1, <2>1 DEF Housed
  <2>3. \A r \in Projects(written'[c]) : \E o \in Orgs(written'[c]) : o.id = r.org
    BY <1>1, <2>1 DEF Housed, Orgs, Projects, Table
  <2>4. \A d \in Calls \ {c} : \A r \in Projects(written'[d]) :
          \E o \in Orgs(written'[d]) : o.id = r.org
    BY <1>1, <2>1 DEF Housed
  <2>5. \A d \in Calls : \A r \in Projects(written'[d]) :
          \E o \in Orgs(written'[d]) : o.id = r.org
    BY <2>3, <2>4
  <2>6. QED BY ONLY <2>2, <2>5 DEF Housed
<1>5. Apart'
  <2>1. \A d \in Calls : \A r \in Orgs(written[d]) : r \in Orgs(AllRows)
    BY DEF AllRows, Orgs, Table
  <2>2. \A r \in Orgs(written'[c]) : r \in Orgs(written[c]) \/ r \in Orgs(N)
    BY <1>1 DEF Orgs, Table
  <2>3. SUFFICES ASSUME NEW d \in Calls, NEW e \in Calls, NEW r \in Orgs(written'[d]),
                        NEW s \in Orgs(written'[e]), r.id = s.id
                 PROVE  d = e
    BY DEF Apart
  <2>4. CASE r \in Orgs(written[d]) /\ s \in Orgs(written[e])
    BY <2>3, <2>4 DEF IInv, Apart
  <2>5. CASE r \notin Orgs(written[d])
    <3>1. d = c /\ r \in Orgs(N)
      BY <1>1, <2>2, <2>5
    <3>2. e # c => s \in Orgs(AllRows)
      BY <1>1, <2>1
    <3>3. QED BY <2>3, <3>1, <3>2
  <2>6. CASE s \notin Orgs(written[e])
    <3>1. e = c /\ s \in Orgs(N)
      BY <1>1, <2>2, <2>6
    <3>2. d # c => r \in Orgs(AllRows)
      BY <1>1, <2>1
    <3>3. QED BY <2>3, <3>1, <3>2
  <2>7. QED BY <2>4, <2>5, <2>6
<1>6. Progresses'
  BY OthersProgress DEF Grown, IInv, Progresses
<1>7. OrganizationsAreWhole' /\ ServedUsersAreMembers'
  BY <1>1 DEF Grown, IInv, OrganizationsAreWhole, ServedUsersAreMembers, UsersWith, Table
<1>8. QED BY <1>3, <1>4, <1>5, <1>6, <1>7
-----------------------------------------------------------------------------
(* Types: the end of a transaction, and one that goes on. *)
LEMMA EndType ==
  ASSUME TypeOK, NEW c \in Calls, End(c), rows' \subseteq Rows, served' \subseteq OrgIds \X Text
  PROVE  TypeOK'
BY DEF TypeOK, End

LEMMA ContinueType ==
  ASSUME TypeOK, NEW c \in Calls, NEW to \in Creating \cup {"user", "done"}, NEW N \in SUBSET Rows,
         Continue(c, to, N), locked' \in [Calls -> SUBSET UserIds],
         \A d \in Calls \ {c} : locked'[d] = locked[d]
  PROVE  TypeOK'
<1>1. /\ pc' \in [Calls -> {"idle", "begun", "organization", "projects", "member", "user", "done"}]
      /\ pc'[c] # "idle"
      /\ written' \in [Calls -> SUBSET Rows]
  BY DEF TypeOK, Continue, Creating
<1>2. \A d \in Calls \ {c} : pc'[d] = pc[d] /\ written'[d] = written[d]
  BY DEF TypeOK, Continue
<1>3. rows' = rows /\ req' = req /\ served' = served
  BY DEF Continue
<1>4. \A d \in Calls : pc'[d] = "idle" => written'[d] = {} /\ locked'[d] = {}
  BY <1>1, <1>2 DEF TypeOK
<1>5. QED BY <1>1, <1>3, <1>4 DEF TypeOK

(* What End and Continue do to the transaction of c and to no other. *)
LEMMA EndEnds ==
  ASSUME TypeOK, NEW c \in Calls, End(c), rows \subseteq rows'
  PROVE  Ended(c)
BY DEF TypeOK, End, Ended, Moves

LEMMA ContinueGrows ==
  ASSUME TypeOK, NEW c \in Calls, NEW to, NEW N \in SUBSET Rows, Continue(c, to, N),
         \A d \in Calls \ {c} : locked'[d] = locked[d]
  PROVE  Grown(c, N) /\ pc'[c] = to /\ req'[c] = req[c]
BY DEF TypeOK, Continue, Grown, Moves

(* A row that Arrives and does not conflict has a new key. *)
LEMMA NewKey ==
  ASSUME NEW c \in Calls, NEW r, Arrives(c, r), ~Conflicts(c, r)
  PROVE  \A s \in AllRows : Key(s) # Key(r)
BY DEF Arrives, Conflicts, Touched, View, AllRows
-----------------------------------------------------------------------------
LEMMA BeginStep ==
  ASSUME IInv, NEW c \in Calls, NEW q \in Requests, Begin(c, q)
  PROVE  IInv'
<1>1. TypeOK'
  BY DEF IInv, TypeOK, Begin
<1>2. rows' = rows /\ written' = written /\ locked' = locked /\ served' = served
  BY DEF Begin
<1>3. \A r \in AllRows' : r \in AllRows
  BY <1>2 DEF AllRows
<1>4. Distinct'
  BY <1>3 DEF IInv, Distinct, Key
<1>5. Housed' /\ Apart' /\ OrganizationsAreWhole' /\ ServedUsersAreMembers'
  BY <1>2 DEF IInv, Housed, Apart, OrganizationsAreWhole, ServedUsersAreMembers, UsersWith,
     Orgs, Projects, Table
<1>6. Progress(c)'
  <2>1. written[c] = {} /\ locked[c] = {} /\ pc'[c] = "begun"
    BY DEF IInv, TypeOK, Begin
  <2>2. QED BY <1>2, <2>1 DEF Progress, Creating, Orgs, Table
<1>7. Moves(c)
  BY <1>2 DEF IInv, TypeOK, Begin, Moves
<1>8. Progresses'
  BY <1>6, <1>7, OthersProgress DEF IInv, Progresses
<1>9. QED BY <1>1, <1>4, <1>5, <1>8 DEF IInv

LEMMA RollbackStep ==
  ASSUME IInv, NEW c \in Calls, Rollback(c)
  PROVE  IInv'
<1>1. rows' = rows /\ served' = served /\ End(c)
  BY DEF Rollback
<1>2. TypeOK'
  BY <1>1, EndType DEF IInv, TypeOK
<1>3. Ended(c)
  BY <1>1, EndEnds DEF IInv
<1>4. \A r \in AllRows' : r \in AllRows
  BY <1>1, <1>3 DEF AllRows, Ended, Moves
<1>5. Distinct'
  BY <1>4 DEF IInv, Distinct, Key
<1>6. Housed' /\ Apart' /\ Progresses'
  BY <1>1, <1>3, EndedStep DEF IInv, Housed
<1>7. OrganizationsAreWhole' /\ ServedUsersAreMembers'
  BY <1>1 DEF IInv, OrganizationsAreWhole, ServedUsersAreMembers, UsersWith, Table
<1>8. QED BY <1>2, <1>5, <1>6, <1>7 DEF IInv

(* A statement outside any transaction inserts an account or a project. *)
LEMMA InsertStep ==
  ASSUME IInv, NEW c \in Calls, NEW r \in Rows, Insert(c, r),
         r.table = "users" \/ (r.table = "projects" /\ \E o \in Orgs(rows) : o.id = r.org)
  PROVE  IInv'
<1>1. CASE Fail(c)
  BY <1>1, RollbackStep DEF Fail
<1>2. CASE ~Fail(c)
  <2>1. ~Conflicts(c, r) /\ Arrives(c, r) /\ rows' = rows \cup {r} /\ End(c) /\ served' = served
    BY <1>2 DEF Insert
  <2>2. TypeOK'
    BY <2>1, EndType DEF IInv, TypeOK
  <2>3. Ended(c)
    BY <2>1, EndEnds DEF IInv
  <2>4. \A s \in AllRows' : s \in AllRows \/ s \in {r}
    BY <2>1, <2>3 DEF AllRows, Ended, Moves
  <2>5. Distinct'
    BY <2>1, <2>4, NewKey, DistinctRows DEF IInv
  <2>6. Housed' /\ Apart' /\ Progresses'
    <3>1. \A s \in Projects(rows') : \E o \in Orgs(rows') : o.id = s.org
      BY <2>1 DEF IInv, Housed, Orgs, Projects, Table
    <3>2. QED BY <2>3, <3>1, EndedStep DEF IInv, Housed
  <2>7. OrganizationsAreWhole' /\ ServedUsersAreMembers'
    BY <2>1 DEF IInv, OrganizationsAreWhole, ServedUsersAreMembers, UsersWith, Table
  <2>8. QED BY <2>2, <2>5, <2>6, <2>7 DEF IInv
<1>3. QED BY <1>1, <1>2

(* A commit adds an organization with all that belongs to it. *)
LEMMA CommitStep ==
  ASSUME IInv, NEW c \in Calls, Commit(c)
  PROVE  IInv'
<1>1. pc[c] = "done" /\ rows' = rows \cup written[c] /\ End(c)
  BY DEF Commit
<1>2. TypeOK'
  <2>1. rows' \subseteq Rows
    BY <1>1 DEF IInv, TypeOK
  <2>2. served' \subseteq OrgIds \X Text
    BY Requested DEF IInv, TypeOK, Commit
  <2>3. QED BY <1>1, <2>1, <2>2, EndType DEF IInv
<1>3. Ended(c)
  BY <1>1, EndEnds DEF IInv
<1>4. \A r \in AllRows' : r \in AllRows
  BY <1>1, <1>3 DEF AllRows, Ended, Moves
<1>5. Distinct'
  BY <1>4 DEF IInv, Distinct, Key
<1>6. Housed' /\ Apart' /\ Progresses'
  <2>1. \A s \in Projects(rows') : \E o \in Orgs(rows') : o.id = s.org
    BY <1>1 DEF IInv, Housed, Orgs, Projects, Table
  <2>2. QED BY <1>3, <2>1, EndedStep DEF IInv, Housed
<1>7. Progress(c)
  BY DEF IInv, Progresses
<1>8. OrganizationsAreWhole'
  <2>1. \A o \in Orgs(written[c]) :
         HasProject(o, TRUE, written[c]) /\ HasProject(o, FALSE, written[c])
    BY <1>1, <1>7 DEF Progress
  <2>2. ASSUME NEW o \in Table(rows', "organizations"), NEW control \in BOOLEAN
        PROVE  \E r \in Table(rows', "projects") : r.org = o.id /\ r.control = control
    <3>1. CASE o \in rows
      BY <1>1, <2>2, <3>1 DEF IInv, OrganizationsAreWhole, Table
    <3>2. CASE o \in written[c]
      <4>1. HasProject(o, control, written[c])
        BY <2>1, <2>2, <3>2 DEF Orgs, Table
      <4>2. QED BY <1>1, <4>1 DEF HasProject, Projects, Table
    <3>3. QED BY <1>1, <2>2, <3>1, <3>2 DEF Table
  <2>3. \A r \in Table(rows', "administrators") : Member(r.org, r.user) \in rows'
    BY <1>1, <1>7 DEF IInv, OrganizationsAreWhole, Progress, View, Table
  <2>4. QED BY <2>2, <2>3 DEF OrganizationsAreWhole
<1>9. ServedUsersAreMembers'
  <2>1. SUFFICES ASSUME NEW p \in served'
                 PROVE  \E r \in UsersWith(rows', p[2]) : Member(p[1], r.id) \in rows'
    BY DEF ServedUsersAreMembers, UsersWith
  <2>2. CASE p \in served
    BY <1>1, <2>2 DEF IInv, ServedUsersAreMembers, UsersWith, Table
  <2>3. CASE p \notin served
    <3>1. req[c].op = "create-org-user" /\ p = <<req[c].org, req[c].email>>
      BY <2>1, <2>3 DEF Commit
    <3>2. PICK u \in locked[c] :
            User(u, req[c].email) \in rows' /\ Member(req[c].org, u) \in rows'
      BY <1>1, <1>7, <3>1 DEF Progress, View
    <3>3. User(u, req[c].email) \in UsersWith(rows', p[2]) /\ User(u, req[c].email).id = u
      BY <3>1, <3>2 DEF UsersWith, Table, User
    <3>4. QED BY <3>1, <3>2, <3>3
  <2>4. QED BY <2>2, <2>3
<1>10. QED BY <1>2, <1>5, <1>6, <1>8, <1>9 DEF IInv
-----------------------------------------------------------------------------
LEMMA CreateOrganizationStep ==
  ASSUME IInv, NEW c \in Calls, CreateOrganization(c)
  PROVE  IInv'
<1> DEFINE o == NextId(OrgIds, "organizations")
           row == Organization(o, req[c].name)
           project == Project(o, ControlName, TRUE)
<1>1. o \in OrgIds /\ \A s \in Orgs(AllRows) : s.id # o
  BY NextIdIsFresh, IdsAssumption DEF CreateOrganization, Orgs
<1>2. req[c].op = "create-org" /\ pc[c] = "begun" /\ req[c].name \in Text
  BY Requested DEF IInv, CreateOrganization, Begun
<1> HIDE DEF o
<1>3. CASE Fail(c)
  BY <1>3, RollbackStep DEF Fail
<1>4. CASE ~Fail(c)
  <2>1. /\ Arrives(c, row) /\ ~Conflicts(c, row) /\ locked' = locked
        /\ Continue(c, "organization", {row, project})
    BY <1>4 DEF CreateOrganization, o
  <2>2. /\ row \in Rows /\ row.table = "organizations" /\ row.id = o
        /\ project \in Rows /\ project.table = "projects"
        /\ project.org = o /\ project.control = TRUE
    BY <1>1, <1>2, Shapes, TextAssumption DEF Organization, Project
  <2> HIDE DEF row, project
  <2>3. TypeOK'
    BY <2>1, <2>2, ContinueType DEF IInv, TypeOK, Creating
  <2>4. Grown(c, {row, project}) /\ pc'[c] = "organization" /\ req'[c] = req[c]
    BY <2>1, <2>2, ContinueGrows DEF IInv
  <2>5. written[c] = {} /\ locked'[c] = {}
    BY <1>2, <2>1 DEF IInv, Progresses, Progress
  <2>6. written'[c] = {row, project}
    BY <2>4, <2>5 DEF Grown
  <2>7. Progress(c)'
    <3>1. Orgs(written'[c]) = {row}
      BY <2>2, <2>6 DEF Orgs, Table
    <3>2. Table(written'[c], "administrators") = {}
      BY <2>2, <2>6 DEF Table
    <3>3. HasProject(row, TRUE, written'[c])
      BY <2>2, <2>6 DEF HasProject, Projects, Table
    <3>4. QED BY <1>2, <2>2, <2>4, <3>1, <3>2, <3>3 DEF Progress, Creating
  <2>8. \A s \in AllRows : Key(row) # Key(s) /\ Key(project) # Key(s)
    <3>1. \A s \in AllRows : Key(row) # Key(s)
      BY <2>1, NewKey
    <3>2. ASSUME NEW s \in AllRows, Key(project) = Key(s)
          PROVE  FALSE
      <4>1. s \in Rows
        BY RowsOfAll DEF IInv, TypeOK
      <4>2. s.table = "projects" /\ s.org = o
        BY <2>2, <3>2, <4>1, Keys
      <4>3. \E t \in Orgs(AllRows) : t.id = o
        BY <4>2, RowsOfAll DEF IInv, Housed, Orgs, Projects, Table
      <4>4. QED BY <1>1, <4>3
    <3>3. QED BY <3>1, <3>2
  <2>9. Key(row) # Key(project)
    BY <2>2, Keys
  <2>10. /\ \A r \in Projects({row, project}) : \E p \in Orgs(written'[c]) : p.id = r.org
         /\ \A p \in Orgs({row, project}), s \in Orgs(AllRows) : p.id # s.id
    BY <1>1, <2>2, <2>6 DEF Orgs, Projects, Table
  <2>11. QED BY <2>3, <2>4, <2>7, <2>8, <2>9, <2>10, GrownStep DEF IInv
<1>5. QED BY <1>3, <1>4

(* The organization that a transaction under way has created. *)
LEMMA NewOrgFacts ==
  ASSUME IInv, NEW c \in Calls, pc[c] \in Creating
  PROVE  /\ NewOrg(c) \in OrgIds
         /\ \E o \in Orgs(written[c]) : o.id = NewOrg(c) /\ Orgs(written[c]) = {o}
         /\ \A d \in Calls \ {c} : \A r \in Projects(written[d]) : r.org # NewOrg(c)
         /\ req[c].op = "create-org"
<1>1. PICK o \in Rows : Orgs(written[c]) = {o} /\ req[c].op = "create-org"
  BY DEF IInv, Progresses, Progress
<1>2. NewOrg(c) = o.id
  BY <1>1 DEF NewOrg, Orgs
<1>3. o \in Orgs(written[c]) /\ o.table = "organizations"
  BY <1>1 DEF Orgs, Table
<1>4. o.id \in OrgIds
  BY <1>3, RowForms
<1>5. \A d \in Calls \ {c} : \A r \in Projects(written[d]) : r.org # o.id
  BY <1>3 DEF IInv, Housed, Apart
<1>6. QED BY <1>1, <1>2, <1>3, <1>4, <1>5

LEMMA CreateDefaultProjectStep ==
  ASSUME IInv, NEW c \in Calls, CreateDefaultProject(c)
  PROVE  IInv'
<1> DEFINE row == Project(NewOrg(c), req[c].project, FALSE)
           next == IF req[c].creator = NoUser THEN "done" ELSE "projects"
<1>1. pc[c] = "organization"
  BY DEF CreateDefaultProject
<1>2. PICK o \in Orgs(written[c]) : o.id = NewOrg(c) /\ Orgs(written[c]) = {o}
  BY <1>1, NewOrgFacts DEF Creating
<1>3. /\ NewOrg(c) \in OrgIds /\ req[c].op = "create-org" /\ req[c].project \in Text
      /\ req[c].creator \in UserIds \cup {NoUser}
  BY <1>1, NewOrgFacts, Requested DEF IInv, Creating
<1>4. CASE Fail(c)
  BY <1>4, RollbackStep DEF Fail
<1>5. CASE ~Fail(c)
  <2>1. ~Conflicts(c, row) /\ locked' = locked /\ Continue(c, next, {row})
    BY <1>5 DEF CreateDefaultProject
  <2>2. /\ row \in Rows /\ row.table = "projects" /\ row.org = o.id /\ row.control = FALSE
    BY <1>2, <1>3, Shapes DEF Project
  <2> HIDE DEF row
  <2>3. TypeOK'
    BY <2>1, <2>2, ContinueType DEF IInv, TypeOK, Creating
  <2>4. Grown(c, {row}) /\ pc'[c] = next /\ req'[c] = req[c]
    BY <2>1, <2>2, ContinueGrows DEF IInv
  <2>5. written'[c] = written[c] \cup {row} /\ rows' = rows
    BY <2>4 DEF Grown
  <2>6. Orgs(written'[c]) = {o}
    BY <1>2, <2>2, <2>5 DEF Orgs, Table
  <2>7. Progress(c)'
    <3>1. Progress(c)
      BY DEF IInv, Progresses
    <3>2. \A r \in Table(written'[c], "administrators") : Member(r.org, r.user) \in View(c)'
      BY <2>2, <2>5, <3>1 DEF Progress, View, Table
    <3>3. HasProject(o, TRUE, written'[c]) /\ HasProject(o, FALSE, written'[c])
      BY <1>2, <2>2, <2>5, <3>1 DEF Progress, HasProject, Projects, Table
    <3>4. o \in Rows
      BY DEF IInv, TypeOK, Orgs, Table
    <3>5. QED BY <1>3, <2>4, <2>6, <3>2, <3>3, <3>4 DEF Progress, Creating
  <2>8. \A s \in AllRows : Key(row) # Key(s)
    <3>1. SUFFICES ASSUME NEW s \in AllRows, Key(row) = Key(s) PROVE FALSE
      OBVIOUS
    <3>2. PICK d \in Calls : d # c /\ s \in written[d]
      BY <2>1, <3>1, RowsOfAll DEF Conflicts, View
    <3>3. s \in Rows /\ s.table = "projects" /\ s.org = NewOrg(c)
      BY <1>2, <2>2, <3>1, <3>2, Keys DEF IInv, TypeOK
    <3>4. QED BY <1>1, <3>2, <3>3, NewOrgFacts DEF Creating, Projects, Table
  <2>9. /\ \A r \in Projects({row}) : \E p \in Orgs(written'[c]) : p.id = r.org
        /\ Orgs({row}) = {}
    BY <2>2, <2>6 DEF Orgs, Projects, Table
  <2>10. QED BY <2>3, <2>4, <2>7, <2>8, <2>9, GrownStep DEF IInv
<1>6. QED BY <1>4, <1>5

(* Members and administrators: rows that are their own keys. *)
LEMMA LinkStep ==
  ASSUME IInv, NEW c \in Calls, NEW N \in SUBSET Rows, Grown(c, N), Progress(c)',
         \A r \in N : r.table \in {"members", "administrators"}
  PROVE  /\ Distinct' /\ Housed' /\ Apart' /\ Progresses'
         /\ OrganizationsAreWhole' /\ ServedUsersAreMembers'
<1>1. \A s \in AllRows : s \in Rows
  BY RowsOfAll DEF IInv, TypeOK
<1>2. \A n \in N, s \in N \cup AllRows : Key(n) = Key(s) => n = s
  BY <1>1, Keys
<1>3. Projects(N) = {} /\ Orgs(N) = {}
  BY DEF Projects, Orgs, Table
<1>4. QED BY <1>2, <1>3, GrownStep

LEMMA AddOrganizationMemberStep ==
  ASSUME IInv, NEW c \in Calls, AddOrganizationMember(c)
  PROVE  IInv'
<1> DEFINE row == Member(NewOrg(c), req[c].creator)
<1>1. /\ pc[c] = "projects" /\ locked' = locked /\ Continue(c, "member", {row})
      /\ Progress(c)
  BY DEF AddOrganizationMember, IInv, Progresses
<1>2. row \in Rows /\ row.table = "members"
  BY <1>1, NewOrgFacts, Shapes DEF Progress, Creating, Member
<1> HIDE DEF row
<1>3. TypeOK'
  BY <1>1, <1>2, ContinueType DEF IInv, TypeOK, Creating
<1>4. Grown(c, {row}) /\ pc'[c] = "member" /\ req'[c] = req[c]
  BY <1>1, <1>2, ContinueGrows DEF IInv
<1>5. written'[c] = written[c] \cup {row} /\ rows' = rows
  BY <1>4 DEF Grown
<1>6. Progress(c)'
  <2>1. Orgs(written'[c]) = Orgs(written[c])
    BY <1>2, <1>5 DEF Orgs, Table
  <2>2. \A o, k : HasProject(o, k, written[c]) => HasProject(o, k, written'[c])
    BY <1>5 DEF HasProject, Projects, Table
  <2>3. \A r \in Table(written'[c], "administrators") : Member(r.org, r.user) \in View(c)'
    BY <1>1, <1>2, <1>5 DEF Progress, View, Table
  <2>4. QED BY <1>1, <1>4, <2>1, <2>2, <2>3 DEF Progress, Creating
<1>7. QED BY <1>2, <1>3, <1>4, <1>6, LinkStep DEF IInv

LEMMA AssignAdminRoleStep ==
  ASSUME IInv, NEW c \in Calls, AssignAdminRole(c)
  PROVE  IInv'
<1> DEFINE row == Administrator(NewOrg(c), req[c].creator)
<1>1. /\ pc[c] = "member" /\ locked' = locked /\ Continue(c, "done", {row})
      /\ Member(NewOrg(c), req[c].creator) \in View(c)
      /\ Progress(c)
  BY DEF AssignAdminRole, IInv, Progresses
<1>2. /\ row \in Rows /\ row.table = "administrators"
      /\ row.org = NewOrg(c) /\ row.user = req[c].creator
  BY <1>1, NewOrgFacts, Shapes DEF Progress, Creating, Administrator
<1> HIDE DEF row
<1>3. TypeOK'
  BY <1>1, <1>2, ContinueType DEF IInv, TypeOK, Creating
<1>4. Grown(c, {row}) /\ pc'[c] = "done" /\ req'[c] = req[c]
  BY <1>1, <1>2, ContinueGrows DEF IInv
<1>5. written'[c] = written[c] \cup {row} /\ rows' = rows
  BY <1>4 DEF Grown
<1>6. Progress(c)'
  <2>1. Orgs(written'[c]) = Orgs(written[c])
    BY <1>2, <1>5 DEF Orgs, Table
  <2>2. \A o, k : HasProject(o, k, written[c]) => HasProject(o, k, written'[c])
    BY <1>5 DEF HasProject, Projects, Table
  <2>3. \A r \in Table(written'[c], "administrators") : Member(r.org, r.user) \in View(c)'
    BY <1>1, <1>2, <1>5 DEF Progress, View, Table
  <2>4. QED BY <1>1, <1>4, <2>1, <2>2, <2>3 DEF Progress, Creating
<1>7. QED BY <1>2, <1>3, <1>4, <1>6, LinkStep DEF IInv
-----------------------------------------------------------------------------
LEMMA GetOrCreateStep ==
  ASSUME IInv, NEW c \in Calls, GetOrCreateUserByEmail(c)
  PROVE  IInv'
<1> DEFINE e == req[c].email
           found == UsersWith(rows, e)
           u == NextId(UserIds, "users")
<1>1. /\ pc[c] = "begun" /\ req[c].op = "create-org-user" /\ e \in Text
      /\ Arrives(c, User(FirstUser, e))
  BY Requested DEF IInv, GetOrCreateUserByEmail, Begun
<1>2. written[c] = {} /\ Orgs(written[c]) = {} /\ Table(written[c], "administrators") = {}
  BY <1>1 DEF IInv, Progresses, Progress, Orgs, Table
<1>3. CASE /\ found # {} /\ Continue(c, "user", {})
           /\ locked' = [locked EXCEPT ![c] = {r.id : r \in found}]
  <2>1. \A r \in found : r \in rows /\ r.id \in UserIds /\ r = User(r.id, e)
    <3>1. \A r \in found : r \in rows /\ r \in Rows /\ r.table = "users" /\ r.email = e
      BY DEF UsersWith, Table, IInv, TypeOK
    <3>2. QED BY <3>1, RowForms
  <2> HIDE DEF found
  <2>2. /\ locked' \in [Calls -> SUBSET UserIds]
        /\ \A d \in Calls \ {c} : locked'[d] = locked[d]
        /\ locked'[c] = {r.id : r \in found}
    BY <1>3, <2>1 DEF IInv, TypeOK
  <2>3. TypeOK'
    BY <1>3, <2>2, ContinueType DEF IInv
  <2>4. Grown(c, {}) /\ pc'[c] = "user" /\ req'[c] = req[c]
    BY <1>3, <2>2, ContinueGrows DEF IInv
  <2>5. written'[c] = {} /\ rows' = rows
    BY <1>2, <2>4 DEF Grown
  <2>6. \A v \in locked'[c] : User(v, e) \in View(c)'
    BY <2>1, <2>2, <2>5 DEF View
  <2>7. Progress(c)'
    BY <1>1, <1>2, <2>4, <2>5, <2>6 DEF Progress, Creating
  <2>8. QED BY <2>3, <2>4, <2>7, LinkStep DEF IInv
<1>4. CASE /\ found = {} /\ HasNextId(UserIds, "users")
           /\ Continue(c, "user", {User(u, e)})
           /\ locked' = [locked EXCEPT ![c] = {u}]
  <2>1. u \in UserIds
    BY <1>4, NextIdIsFresh, IdsAssumption
  <2> HIDE DEF u
  <2>2. User(u, e) \in Rows /\ User(u, e).table = "users"
    BY <1>1, <2>1, Shapes DEF User
  <2>3. /\ locked' \in [Calls -> SUBSET UserIds]
        /\ \A d \in Calls \ {c} : locked'[d] = locked[d]
        /\ locked'[c] = {u}
    BY <1>4, <2>1 DEF IInv, TypeOK
  <2>4. TypeOK'
    BY <1>4, <2>2, <2>3, ContinueType DEF IInv
  <2>5. Grown(c, {User(u, e)}) /\ pc'[c] = "user" /\ req'[c] = req[c]
    BY <1>4, <2>2, <2>3, ContinueGrows DEF IInv
  <2>6. written'[c] = {User(u, e)} /\ rows' = rows
    BY <1>2, <2>5 DEF Grown
  <2>7. /\ Orgs({User(u, e)}) = {} /\ Projects({User(u, e)}) = {}
        /\ Table({User(u, e)}, "administrators") = {}
    BY <2>2 DEF Orgs, Projects, Table
  <2>8. \A v \in locked'[c] : User(v, e) \in View(c)'
    BY <2>3, <2>6 DEF View
  <2>9. Progress(c)'
    BY <1>1, <2>5, <2>6, <2>7, <2>8 DEF Progress, Creating
  <2>10. \A s \in AllRows : Key(s) # Key(User(u, e))
    <3>1. Key(User(FirstUser, e)) = Key(User(u, e))
      BY DEF Key, User
    <3>2. \A s \in AllRows : Key(s) = Key(User(u, e)) => s \in rows
      BY <1>1, <1>2, <3>1, RowsOfAll DEF Arrives, Touched
    <3>3. \A s \in rows : Key(s) # Key(User(u, e))
      <4>1. SUFFICES ASSUME NEW s \in rows, Key(s) = Key(User(u, e)) PROVE FALSE
        OBVIOUS
      <4>2. s \in Rows /\ s.table = "users" /\ s.email = User(u, e).email
        BY <2>2, <4>1, Keys DEF IInv, TypeOK
      <4>3. s \in found
        BY <4>2 DEF UsersWith, Table, User
      <4>4. QED BY <1>4, <4>3
    <3>4. QED BY <3>2, <3>3
  <2>11. QED BY <2>4, <2>5, <2>7, <2>9, <2>10, GrownStep DEF IInv
<1>5. QED BY <1>3, <1>4 DEF GetOrCreateUserByEmail

LEMMA EnsureOrganizationMemberStep ==
  ASSUME IInv, NEW c \in Calls, EnsureOrganizationMember(c)
  PROVE  IInv'
<1>1. pc[c] = "user" /\ locked' = locked /\ Progress(c)
  BY DEF EnsureOrganizationMember, IInv, Progresses
<1>2. req[c].op = "create-org-user" /\ req[c].org \in OrgIds
  BY <1>1, Requested DEF IInv, Progress
<1>3. PICK u \in locked[c] :
        LET row == Member(req[c].org, u)
        IN  Continue(c, "done", IF Conflicts(c, row) THEN {} ELSE {row})
  BY DEF EnsureOrganizationMember
<1> DEFINE row == Member(req[c].org, u)
           N == IF Conflicts(c, row) THEN {} ELSE {row}
<1>4. row \in Rows /\ row.table = "members"
  BY <1>2, <1>3, Shapes DEF IInv, TypeOK, Member
<1>5. row \in View(c) \cup N
  <2>1. SUFFICES ASSUME Conflicts(c, row) PROVE row \in View(c)
    OBVIOUS
  <2>2. PICK s \in View(c) : Key(s) = Key(row)
    BY <2>1 DEF Conflicts
  <2>3. s \in Rows
    BY <2>2 DEF View, IInv, TypeOK
  <2>4. QED BY <1>4, <2>2, <2>3, Keys
<1>6. N \in SUBSET Rows /\ \A r \in N : r.table = "members"
  BY <1>4
<1>7. Continue(c, "done", N)
  BY <1>3
<1> HIDE DEF row, N
<1>8. TypeOK'
  BY <1>1, <1>6, <1>7, ContinueType DEF IInv, TypeOK
<1>9. Grown(c, N) /\ pc'[c] = "done" /\ req'[c] = req[c]
  BY <1>1, <1>6, <1>7, ContinueGrows DEF IInv
<1>10. written'[c] = written[c] \cup N /\ rows' = rows /\ \A r \in View(c) \cup N : r \in View(c)'
  BY <1>9 DEF Grown, View
<1>11. Progress(c)'
  <2>1. Orgs(written'[c]) = Orgs(written[c])
    BY <1>6, <1>10 DEF Orgs, Table
  <2>2. \A o, k : HasProject(o, k, written[c]) => HasProject(o, k, written'[c])
    BY <1>10 DEF HasProject, Projects, Table
  <2>3. \A r \in Table(written'[c], "administrators") : Member(r.org, r.user) \in View(c)'
    BY <1>1, <1>6, <1>10 DEF Progress, Table
  <2>4. User(u, req[c].email) \in View(c)' /\ Member(req[c].org, u) \in View(c)'
    BY <1>1, <1>5, <1>10 DEF Progress, row
  <2>5. QED BY <1>1, <1>9, <2>1, <2>2, <2>3, <2>4 DEF Progress, Creating
<1>12. QED BY <1>6, <1>8, <1>9, <1>11, LinkStep DEF IInv

LEMMA InsertsStep ==
  ASSUME IInv, NEW c \in Calls, CreateUser(c) \/ CreateProject(c)
  PROVE  IInv'
<1>1. CASE CreateUser(c)
  <2> DEFINE u == NextId(UserIds, "users")
  <2>1. u \in UserIds
    BY <1>1, NextIdIsFresh, IdsAssumption DEF CreateUser
  <2>2. Lower[req[c].email] \in Text /\ Insert(c, User(u, Lower[req[c].email]))
    BY <1>1, Requested, TextAssumption DEF CreateUser, Begun, IInv
  <2> HIDE DEF u
  <2>3. QED BY <2>1, <2>2, Shapes, InsertStep DEF User
<1>2. CASE CreateProject(c)
  <2> DEFINE row == Project(req[c].org, req[c].name, FALSE)
  <2>1. row \in Rows /\ row.table = "projects" /\ row.org = req[c].org
    BY <1>2, Requested, Shapes DEF CreateProject, Begun, IInv, Project
  <2> HIDE DEF row
  <2>2. CASE \E r \in Table(rows, "organizations") : r.id = req[c].org
    BY <1>2, <2>1, <2>2, InsertStep DEF CreateProject, Orgs, row
  <2>3. CASE ~\E r \in Table(rows, "organizations") : r.id = req[c].org
    BY <1>2, <2>3, RollbackStep DEF CreateProject, Fail
  <2>4. QED BY <2>2, <2>3
<1>3. QED BY <1>1, <1>2
-----------------------------------------------------------------------------
LEMMA StepInv == IInv /\ [Next]_vars => IInv'
<1> SUFFICES ASSUME IInv, [Next]_vars PROVE IInv'
  OBVIOUS
<1>1. CASE UNCHANGED vars
  <2>1. TypeOK' /\ Housed' /\ Apart' /\ OrganizationsAreWhole' /\ ServedUsersAreMembers'
    BY <1>1 DEF vars, IInv, TypeOK, Housed, Apart, OrganizationsAreWhole,
       ServedUsersAreMembers, UsersWith, Orgs, Projects, Table
  <2>2. AllRows' = AllRows
    BY <1>1 DEF vars, AllRows
  <2>3. Distinct'
    BY <2>2 DEF IInv, Distinct, Key
  <2>4. Progresses'
    BY <1>1 DEF vars, IInv, Progresses, Progress, HasProject, View, Orgs, Projects, Table
  <2>5. QED BY <2>1, <2>3, <2>4 DEF IInv
<1>2. CASE Next
  <2>1. PICK c \in Calls :
          \/ \E q \in Requests : Begin(c, q)
          \/ CreateUser(c) \/ CreateProject(c)
          \/ CreateOrganization(c) \/ CreateDefaultProject(c)
          \/ AddOrganizationMember(c) \/ AssignAdminRole(c)
          \/ GetOrCreateUserByEmail(c) \/ EnsureOrganizationMember(c)
          \/ Commit(c) \/ Abort(c)
    BY <1>2 DEF Next
  <2>2. Abort(c) => IInv'
    BY RollbackStep DEF Abort
  <2>3. QED BY <2>1, <2>2, BeginStep, InsertsStep, CreateOrganizationStep,
              CreateDefaultProjectStep, AddOrganizationMemberStep, AssignAdminRoleStep,
              GetOrCreateStep, EnsureOrganizationMemberStep, CommitStep
<1>3. QED BY <1>1, <1>2

LEMMA Invariance == Spec => []IInv
BY InitInv, StepInv, PTL DEF Spec
-----------------------------------------------------------------------------
(* Every variable keeps its type, and an idle call holds nothing. *)
THEOREM TypeCorrect == Spec => []TypeOK
<1>1. IInv => TypeOK
  BY DEF IInv
<1>2. QED BY <1>1, Invariance, PTL

(* However creations race, no two accounts share a stored address, no two  *)
(* organizations a name, no two projects of one organization a name in any *)
(* case: the waits of the inserts that use a unique index are enough, and  *)
(* the inserts that skip them meet no other transaction.                   *)
THEOREM NamesStayUnique == Spec => []NamesAreUnique
<1>1. IInv => NamesAreUnique
  <2>1. SUFFICES ASSUME IInv PROVE NamesAreUnique
    OBVIOUS
  <2>2. \A r, s \in rows : Key(r) = Key(s) => r = s
    BY <2>1, RowsOfAll DEF IInv, Distinct
  <2>3. QED BY <2>2 DEF NamesAreUnique, Table, Key
<1>2. QED BY <1>1, Invariance, PTL

(* No statement's failure and no interleaving leaves an organization       *)
(* without its two projects, or an administrator who is not a member.      *)
THEOREM OrganizationsStayWhole == Spec => []OrganizationsAreWhole
<1>1. IInv => OrganizationsAreWhole
  BY DEF IInv
<1>2. QED BY <1>1, Invariance, PTL

(* What CreateOrganizationUser reported stays true, whatever raced with it. *)
THEOREM ServedUsersStayMembers == Spec => []ServedUsersAreMembers
<1>1. IInv => ServedUsersAreMembers
  BY DEF IInv
<1>2. QED BY <1>1, Invariance, PTL
=============================================================================
