-------------------------- MODULE DashboardProofs --------------------------
(***************************************************************************)
(* Proofs about what the dashboard's handlers write.                       *)
(*                                                                         *)
(* First Tenants, for every set of requests, app_ids and secrets, any      *)
(* number of rows, starts of the gateway and failing queries.  No step     *)
(* changes the app_id of a row, so whoever has read a row, the registry    *)
(* and the tokens agree with it for ever.  Two rows of one app_id have a   *)
(* doubtful one among them, since the insert of the younger one is         *)
(* doubtful unless nothing was inserted after its check.  A row whose      *)
(* deletion was answered stays deleted unless an update that read it       *)
(* before was under way.                                                   *)
(*                                                                         *)
(* Then ServiceAdmin, for every finite set of handlers, any names, ports   *)
(* and size of the pool.  What a handler has still to do tells what it     *)
(* has done: a part of a new service is saved or still to be saved, so     *)
(* that it commits all of them; a check that is over holds until another   *)
(* add commits; a row it has read is the one of the table, but for the     *)
(* port that an update may have moved and for a deletion it was late for.  *)
(***************************************************************************)
EXTENDS Tenants, ServiceAdmin, FiniteSetTheorems, WellFoundedInduction, TLAPS

\* What a request holds is a row it may insert, or one it has read.
JobOK(j) ==
    /\ j.op # "none" => j.row \in Row
    /\ j.op = "add" =>
         /\ ~ j.row.deleted
         /\ j.id = MaxRows \/ j.id <= Len(rows)
         /\ j.id = Len(rows) /\ Len(rows) < MaxRows => ~ Taken(j.row.app)
    /\ j.op \in {"update", "delete"} =>
         /\ j.id \in Ids
         /\ rows[j.id].app = j.row.app
         /\ j.row.deleted => j.id \in gone
    /\ j.op = "update" /\ j.id \in gone \ revived => j.row.deleted

JobInv == \A r \in Requests : JobOK(job[r])

\* One app_id, one tenant, but for the doubtful ones.
UniqueInv ==
    \A i, j \in Ids :
        i # j /\ rows[i].app = rows[j].app => doubtful \cap {i, j} # {}

\* is_delete is set by an answered deletion only, and unset by updates that
\* overlapped one.
DeletionInv ==
    /\ \A i \in Ids : rows[i].deleted => i \in gone
    /\ \A i \in gone \ revived : rows[i].deleted
    /\ goneBefore \subseteq gone

\* The registry and the tokens are of rows; a registry that was loaded has
\* every tenant with a token but the deleted ones.
GatewayInv ==
    /\ \A a \in AppSlice : rows[a.id].app = a.app /\ a.id \notin goneBefore \ revived
    /\ \A token \in tokens : rows[token.id].app = token.issuer
    /\ up /\ loaded =>
         \A token \in tokens :
             token.id \notin gone => \E a \in AppSlice : a.app = token.issuer

\* The inductive invariant.
IInv == TypeOK /\ JobInv /\ UniqueInv /\ DeletionInv /\ GatewayInv

\* Of tenants there is a first one: their ids are bounded.
LEMMA FirstExists ==
    ASSUME NEW n \in Nat, NEW apps, apps # {}, \A a \in apps : a.id \in 1 .. n
    PROVE  First(apps) # {}
<1> DEFINE T == {n - a.id : a \in apps}
<1>1. T \subseteq Nat /\ T # {}
  OBVIOUS
<1>2. PICK R : R = {ss \in Nat \X Nat : ss[1] < ss[2]}
  OBVIOUS
<1>3. IsWellFoundedOn(R, Nat)
  BY <1>2, NatLessThanWellFounded DEF OpToRel
<1>. HIDE DEF T
<1>4. PICK x \in T : \A y \in T : ~ (<<y, x>> \in R)
  BY <1>1, <1>3, WFMin
<1>5. \A y \in T : x <= y
  <2> SUFFICES ASSUME NEW y \in T PROVE x <= y
    OBVIOUS
  <2>1. x \in Nat /\ y \in Nat
    BY <1>1
  <2>2. ~ (y < x)
    BY <1>2, <1>4, <2>1
  <2>3. QED
    BY <2>1, <2>2
<1>. USE DEF T
<1>6. PICK a \in apps : x = n - a.id
  OBVIOUS
<1>7. \A b \in apps : n - a.id <= n - b.id
  BY <1>5, <1>6
<1>8. a \in First(apps)
  BY <1>7 DEF First
<1>9. QED
  BY <1>8

LEMMA InitIInv == Init => IInv
<1> SUFFICES ASSUME Init PROVE IInv
  OBVIOUS
<1>1. TypeOK
  <2>1. NoJob \in Job
    BY TenantsAssumption DEF NoJob, Job
  <2>2. rows \in Seq(Row) /\ Len(rows) = 0 /\ Len(rows) <= MaxRows
    BY TenantsAssumption DEF Init
  <2>3. job \in [Requests -> Job]
    BY <2>1 DEF Init
  <2>4. loads \in 0 .. MaxLoads /\ faults \in 0 .. MaxFaults
    BY TenantsAssumption DEF Init
  <2>5. /\ AppSlice = {} /\ tokens = {} /\ gone = {} /\ goneBefore = {}
        /\ revived = {} /\ doubtful = {} /\ up \in BOOLEAN /\ loaded \in BOOLEAN
    BY DEF Init
  <2>6. QED
    BY <2>2, <2>3, <2>4, <2>5, Zenon DEF TypeOK
<1>2. JobInv
  BY DEF Init, JobInv, JobOK, NoJob
<1>3. UniqueInv /\ DeletionInv /\ GatewayInv
  BY DEF Init, UniqueInv, DeletionInv, GatewayInv, Ids
<1>4. QED
  BY <1>1, <1>2, <1>3 DEF IInv

-----------------------------------------------------------------------------
(* The dashboard's steps.                                                  *)

LEMMA SetJob ==
    ASSUME TypeOK, NEW r \in Requests, NEW new \in Job, Set(r, new)
    PROVE  /\ job' \in [Requests -> Job]
           /\ job'[r] = new
           /\ \A q \in Requests \ {r} : job'[q] = job[q]
BY DEF TypeOK, Set, Job

LEMMA NoJobIsJob == NoJob \in Job /\ JobOK(NoJob) /\ JobOK(NoJob)'
<1>1. NoJob.op = "none" /\ NoJob \in Job
  BY TenantsAssumption DEF NoJob, Job
<1>2. QED
  BY <1>1 DEF JobOK

\* AppAdd's check: the request now holds a new row, and no row there is has
\* its app_id unless the check had failed.
LEMMA AddFindStep ==
    ASSUME IInv, NEW r \in Requests, AppAddFind(r)
    PROVE  IInv'
<1>0. TypeOK /\ JobInv /\ UniqueInv /\ DeletionInv /\ GatewayInv
  BY DEF IInv
<1>1. PICK entry \in Row, n \in {Len(rows), MaxRows} :
        /\ Set(r, [op |-> "add", id |-> n, row |-> entry])
        /\ ~ entry.deleted
        /\ n = MaxRows \/ ~ Taken(entry.app)
        /\ faults' = faults \/ (faults < MaxFaults /\ faults' = faults + 1)
  <2>1. PICK app \in AppIDs, secret \in Secrets, n \in {Len(rows), MaxRows} :
          LET entry == [app |-> app, secret |-> secret, deleted |-> FALSE]
          IN  /\ Set(r, [op |-> "add", id |-> n, row |-> entry])
              /\ n = MaxRows \/ ~ Taken(app)
              /\ faults' = faults \/ (faults < MaxFaults /\ faults' = faults + 1)
    BY DEF AppAddFind, Fault, Works
  <2>2. [app |-> app, secret |-> secret, deleted |-> FALSE] \in Row
    BY DEF Row
  <2>3. QED
    BY <2>1, <2>2
<1>2. UNCHANGED <<rows, AppSlice, up, tokens, loads, goneBefore, loaded, gone, revived, doubtful>>
  BY DEF AppAddFind, gateway
<1>3. Len(rows) \in Nat /\ Len(rows) < MaxRows
  BY <1>0 DEF TypeOK, AppAddFind
<1>. DEFINE new == [op |-> "add", id |-> n, row |-> entry]
<1>4. new \in Job
  BY <1>3, TenantsAssumption DEF Job
<1>5. new.op = "add" /\ new.row = entry /\ new.id = n
  OBVIOUS
<1>6. JobOK(new)
  <2>. HIDE DEF new
  <2>1. QED
    BY <1>1, <1>3, <1>5, TenantsAssumption DEF JobOK
<1>7. Set(r, new)
  BY <1>1
<1>. HIDE DEF new
<1>8. job' \in [Requests -> Job] /\ job'[r] = new /\ \A q \in Requests \ {r} : job'[q] = job[q]
  BY <1>0, <1>4, <1>7, SetJob
<1>9. TypeOK'
  <2>1. faults' \in 0 .. MaxFaults
    BY <1>0, <1>1, TenantsAssumption DEF TypeOK
  <2>2. QED
    BY <1>0, <1>2, <1>8, <2>1 DEF TypeOK, Ids
<1>10. JobInv'
  <2> SUFFICES ASSUME NEW q \in Requests PROVE JobOK(job[q])'
    BY DEF JobInv
  <2>1. JobOK(job'[q])
    <3>1. CASE q = r
      BY <1>6, <1>8, <3>1
    <3>2. CASE q # r
      BY <1>0, <1>8, <3>2 DEF JobInv
    <3>3. QED
      BY <3>1, <3>2
  <2>2. QED
    BY <1>2, <2>1 DEF JobOK, Taken, Ids
<1>11. UniqueInv' /\ DeletionInv' /\ GatewayInv'
  BY <1>0, <1>2 DEF UniqueInv, DeletionInv, GatewayInv, Ids
<1>12. QED
  BY <1>9, <1>10, <1>11 DEF IInv

\* AppAdd's insert: an undeleted row of a free app_id, or a doubtful one.
LEMMA AddSaveStep ==
    ASSUME IInv, NEW r \in Requests, AppAddSave(r)
    PROVE  IInv'
<1>0. TypeOK /\ JobInv /\ UniqueInv /\ DeletionInv /\ GatewayInv
  BY DEF IInv
<1>1. /\ UNCHANGED <<AppSlice, up, tokens, loads, goneBefore, loaded, gone, revived>>
      /\ job[r].op = "add" /\ JobOK(job[r])
      /\ Set(r, NoJob)
  BY <1>0 DEF AppAddSave, gateway, JobInv
<1>2. job' \in [Requests -> Job] /\ job'[r] = NoJob /\ \A q \in Requests \ {r} : job'[q] = job[q]
  BY <1>0, <1>1, NoJobIsJob, SetJob
<1>3. faults' \in 0 .. MaxFaults
  BY <1>0, TenantsAssumption DEF AppAddSave, TypeOK, Fault, Works
<1>. DEFINE entry == job[r].row
            n   == Len(rows)
<1>4. n \in Nat /\ Ids = 1 .. n /\ entry \in Row /\ ~ entry.deleted
  BY <1>0, <1>1 DEF TypeOK, Ids, JobOK
<1>5. CASE UNCHANGED <<rows, doubtful>>
  <2>1. TypeOK'
    BY <1>0, <1>1, <1>2, <1>3, <1>5 DEF TypeOK, Ids
  <2>2. \A q \in Requests : JobOK(job'[q])
    BY <1>0, <1>2, NoJobIsJob DEF JobInv
  <2>3. JobInv'
    BY <1>1, <1>5, <2>2 DEF JobInv, JobOK, Taken, Ids
  <2>4. UniqueInv' /\ DeletionInv' /\ GatewayInv'
    BY <1>0, <1>1, <1>5 DEF UniqueInv, DeletionInv, GatewayInv, Ids
  <2>5. QED
    BY <2>1, <2>3, <2>4 DEF IInv
<1>6. CASE /\ n < MaxRows
           /\ rows' = Append(rows, entry)
           /\ doubtful' = IF job[r].id = n THEN doubtful ELSE doubtful \cup {n + 1}
  <2>1. /\ rows' \in Seq(Row) /\ Len(rows') = n + 1
        /\ rows'[n + 1] = entry /\ \A i \in Ids : rows'[i] = rows[i]
    BY <1>0, <1>4, <1>6 DEF TypeOK
  <2>2. Ids' = Ids \cup {n + 1} /\ n + 1 \notin Ids
    BY <1>4, <2>1 DEF Ids
  <2>. HIDE DEF entry, n
  <2>3. TypeOK'
    <3>1. doubtful' \subseteq Ids'
      BY <1>0, <1>6, <2>2 DEF TypeOK
    <3>2. Len(rows') <= MaxRows
      BY <1>4, <1>6, <2>1, TenantsAssumption
    <3>3. /\ AppSlice' \subseteq [id : Ids', app : AppIDs, secret : Secrets]
          /\ tokens' \subseteq [issuer : AppIDs, id : Ids']
      BY <1>0, <1>1, <2>2 DEF TypeOK
    <3>4. QED
      BY <1>0, <1>1, <1>2, <1>3, <2>1, <2>2, <3>1, <3>2, <3>3 DEF TypeOK
  <2>4. ASSUME NEW q \in Requests PROVE JobOK(job[q])'
    <3>1. CASE q = r
      BY <1>2, <3>1, NoJobIsJob
    <3>2. CASE q # r
      <4>. DEFINE j == job[q]
      <4>1. j = job'[q] /\ JobOK(j) /\ j.id \in Nat
        BY <1>0, <1>2, <3>2, TenantsAssumption DEF JobInv, TypeOK, Job
      <4>. HIDE DEF j
      <4>2. j.op = "add" => /\ ~ j.row.deleted
                            /\ j.id = MaxRows \/ j.id <= Len(rows')
                            /\ ~ (j.id = Len(rows') /\ Len(rows') < MaxRows)
        BY <1>4, <1>6, <2>1, <4>1, TenantsAssumption DEF JobOK, n
      <4>3. j.op \in {"update", "delete"} =>
              /\ j.id \in Ids'
              /\ rows'[j.id].app = j.row.app
              /\ j.row.deleted => j.id \in gone'
        BY <1>1, <2>1, <2>2, <4>1 DEF JobOK
      <4>4. JobOK(j)'
        BY <1>1, <4>1, <4>2, <4>3 DEF JobOK, j
      <4>5. QED
        BY <4>4 DEF j
    <3>3. QED
      BY <3>1, <3>2
  <2>5. UniqueInv'
    <3>1. \A i \in Ids : rows[i].app = entry.app => doubtful' \cap {i, n + 1} # {}
      <4>1. CASE job[r].id = n
        BY <1>1, <1>4, <1>6, <4>1 DEF JobOK, Taken, entry, n
      <4>2. CASE job[r].id # n
        BY <1>6, <4>2
      <4>3. QED
        BY <4>1, <4>2
    <3>2. SUFFICES ASSUME NEW i \in Ids', NEW k \in Ids', i # k, rows'[i].app = rows'[k].app
                   PROVE  doubtful' \cap {i, k} # {}
      BY DEF UniqueInv
    <3>3. CASE i \in Ids /\ k \in Ids
      <4>1. doubtful \cap {i, k} # {}
        BY <1>0, <2>1, <3>2, <3>3 DEF UniqueInv
      <4>2. QED
        BY <1>6, <4>1
    <3>4. CASE i = n + 1 /\ k \in Ids
      BY <2>1, <3>1, <3>2, <3>4
    <3>5. CASE k = n + 1 /\ i \in Ids
      BY <2>1, <3>1, <3>2, <3>5
    <3>6. QED
      BY <2>2, <3>2, <3>3, <3>4, <3>5
  <2>6. DeletionInv'
    BY <1>0, <1>1, <1>4, <2>1, <2>2 DEF DeletionInv, TypeOK
  <2>7. GatewayInv'
    BY <1>0, <1>1, <2>1, <2>2 DEF GatewayInv, TypeOK
  <2>8. QED
    BY <2>3, <2>4, <2>5, <2>6, <2>7 DEF IInv, JobInv
<1>7. QED
  BY <1>5, <1>6 DEF AppAddSave

\* AppUpdate's and APPDelete's Find: the request now holds a row as it is.
LEMMA FindStep ==
    ASSUME IInv, NEW r \in Requests, NEW op \in {"update", "delete"}, FindById(r, op)
    PROVE  IInv'
<1>0. TypeOK /\ JobInv /\ UniqueInv /\ DeletionInv /\ GatewayInv
  BY DEF IInv
<1>1. UNCHANGED <<rows, AppSlice, up, tokens, loads, faults, goneBefore, loaded, gone, revived,
                  doubtful>>
  BY DEF FindById, gateway
<1>2. PICK i \in Ids : Set(r, [op |-> op, id |-> i, row |-> rows[i]])
  BY DEF FindById
<1>. DEFINE new == [op |-> op, id |-> i, row |-> rows[i]]
<1>3. rows[i] \in Row /\ i \in 0 .. MaxRows
  BY <1>0, TenantsAssumption DEF TypeOK, Ids
<1>4. new \in Job
  BY <1>3 DEF Job
<1>5. new.op = op /\ new.id = i /\ new.row = rows[i]
  OBVIOUS
<1>6. Set(r, new)
  BY <1>2
<1>. HIDE DEF new
<1>7. job' \in [Requests -> Job] /\ job'[r] = new /\ \A q \in Requests \ {r} : job'[q] = job[q]
  BY <1>0, <1>4, <1>6, SetJob
<1>8. JobOK(new)
  BY <1>0, <1>3, <1>5 DEF JobOK, DeletionInv
<1>9. JobInv'
  <2>1. \A q \in Requests : JobOK(job'[q])
    BY <1>0, <1>7, <1>8 DEF JobInv
  <2>2. QED
    BY <1>1, <2>1 DEF JobInv, JobOK, Taken, Ids
<1>10. TypeOK'
  BY <1>0, <1>1, <1>7 DEF TypeOK, Ids
<1>11. UniqueInv' /\ DeletionInv' /\ GatewayInv'
  BY <1>0, <1>1 DEF UniqueInv, DeletionInv, GatewayInv, Ids
<1>12. QED
  BY <1>9, <1>10, <1>11 DEF IInv

\* A save of a whole row over the row it was read from: the row's app_id is
\* what it was.
LEMMA Overwrite ==
    ASSUME IInv, NEW i \in Ids, NEW entry \in Row, entry.app = rows[i].app,
           rows' = [rows EXCEPT ![i] = entry]
    PROVE  /\ rows' \in Seq(Row) /\ Len(rows') = Len(rows) /\ Ids' = Ids
           /\ rows'[i] = entry
           /\ \A k \in Ids : k # i => rows'[k] = rows[k]
           /\ \A k \in Ids : rows'[k].app = rows[k].app
           /\ \A app : Taken(app)' <=> Taken(app)
<1>1. rows \in Seq(Row)
  BY DEF IInv, TypeOK
<1>2. /\ rows' \in Seq(Row) /\ Len(rows') = Len(rows) /\ Ids' = Ids
      /\ rows'[i] = entry
      /\ \A k \in Ids : k # i => rows'[k] = rows[k]
  BY <1>1 DEF Ids
<1>3. \A k \in Ids : rows'[k].app = rows[k].app
  BY <1>2
<1>4. \A app : Taken(app)' <=> Taken(app)
  BY <1>2, <1>3 DEF Taken
<1>5. QED
  BY <1>2, <1>3, <1>4

\* AppUpdate's save: the row is as deleted as it was when it was read.
LEMMA UpdateSaveStep ==
    ASSUME IInv, NEW r \in Requests, AppUpdateSave(r)
    PROVE  IInv'
<1>0. TypeOK /\ JobInv /\ UniqueInv /\ DeletionInv /\ GatewayInv
  BY DEF IInv
<1>1. /\ UNCHANGED <<AppSlice, up, tokens, loads, goneBefore, loaded, gone, revived, doubtful>>
      /\ job[r].op = "update" /\ JobOK(job[r])
      /\ Set(r, NoJob)
  BY <1>0 DEF AppUpdateSave, gateway, JobInv
<1>2. job' \in [Requests -> Job] /\ job'[r] = NoJob /\ \A q \in Requests \ {r} : job'[q] = job[q]
  BY <1>0, <1>1, NoJobIsJob, SetJob
<1>3. faults' \in 0 .. MaxFaults
  BY <1>0, TenantsAssumption DEF AppUpdateSave, TypeOK, Fault, Works
<1>. DEFINE i == job[r].id
<1>4. /\ i \in Ids /\ job[r].row \in Row
      /\ rows[i].app = job[r].row.app
      /\ job[r].row.deleted => i \in gone
      /\ i \in gone \ revived => job[r].row.deleted
  BY <1>1 DEF JobOK
<1>5. /\ Len(rows') = Len(rows) /\ rows' \in Seq(Row) /\ Ids' = Ids
      /\ \A k \in Ids : rows'[k].app = rows[k].app
      /\ \A k \in Ids : rows'[k].deleted => k \in gone
      /\ \A k \in gone \ revived : rows'[k].deleted
      /\ \A app : Taken(app)' <=> Taken(app)
  <2>1. CASE UNCHANGED rows
    BY <1>0, <2>1 DEF TypeOK, DeletionInv, Ids, Taken
  <2>2. CASE \E app \in AppIDs, secret \in Secrets :
                rows' = [rows EXCEPT ![i] = Updated(job[r].row, app, secret)]
    <3>1. PICK app \in AppIDs, secret \in Secrets :
                rows' = [rows EXCEPT ![i] = Updated(job[r].row, app, secret)]
      BY <2>2
    <3>. DEFINE entry == Updated(job[r].row, app, secret)
    <3>2. entry \in Row /\ entry.app = rows[i].app /\ entry.deleted = job[r].row.deleted
      BY <1>4 DEF Updated, Row
    <3>3. rows' = [rows EXCEPT ![i] = entry]
      BY <3>1
    <3>. HIDE DEF entry, i
    <3>4. /\ rows' \in Seq(Row) /\ Len(rows') = Len(rows) /\ Ids' = Ids
          /\ rows'[i] = entry
          /\ \A k \in Ids : k # i => rows'[k] = rows[k]
          /\ \A k \in Ids : rows'[k].app = rows[k].app
          /\ \A app_1 : Taken(app_1)' <=> Taken(app_1)
      BY <1>4, <3>2, <3>3, Overwrite
    <3>5. \A k \in Ids : rows'[k].deleted => k \in gone
      BY <1>0, <1>4, <3>2, <3>4 DEF DeletionInv, i
    <3>6. \A k \in gone \ revived : rows'[k].deleted
      BY <1>0, <1>4, <3>2, <3>4 DEF DeletionInv, TypeOK, i
    <3>7. QED
      BY <3>4, <3>5, <3>6
  <2>3. QED
    BY <2>1, <2>2 DEF AppUpdateSave
<1>6. TypeOK'
  BY <1>0, <1>1, <1>2, <1>3, <1>5 DEF TypeOK
<1>7. JobInv'
  <2>1. ASSUME NEW q \in Requests PROVE JobOK(job'[q])
    BY <1>0, <1>2, NoJobIsJob DEF JobInv
  <2>2. QED
    BY <1>1, <1>5, <2>1 DEF JobInv, JobOK
<1>8. UniqueInv' /\ DeletionInv' /\ GatewayInv'
  BY <1>0, <1>1, <1>5 DEF UniqueInv, DeletionInv, GatewayInv, TypeOK
<1>9. QED
  BY <1>6, <1>7, <1>8 DEF IInv

\* APPDelete's save: the row is deleted from now on, but for an update that
\* has read it already.
LEMMA DeleteSaveStep ==
    ASSUME IInv, NEW r \in Requests, APPDeleteSave(r)
    PROVE  IInv'
<1>0. TypeOK /\ JobInv /\ UniqueInv /\ DeletionInv /\ GatewayInv
  BY DEF IInv
<1>1. /\ UNCHANGED <<AppSlice, up, tokens, loads, goneBefore, loaded, doubtful>>
      /\ job[r].op = "delete" /\ JobOK(job[r])
      /\ Set(r, NoJob)
  BY <1>0 DEF APPDeleteSave, gateway, JobInv
<1>2. job' \in [Requests -> Job] /\ job'[r] = NoJob /\ \A q \in Requests \ {r} : job'[q] = job[q]
  BY <1>0, <1>1, NoJobIsJob, SetJob
<1>3. faults' \in 0 .. MaxFaults
  BY <1>0, TenantsAssumption DEF APPDeleteSave, TypeOK, Fault, Works
<1>. DEFINE i == job[r].id
<1>4. i \in Ids /\ job[r].row \in Row /\ rows[i].app = job[r].row.app
  BY <1>1 DEF JobOK
<1>5. /\ Len(rows') = Len(rows) /\ rows' \in Seq(Row) /\ Ids' = Ids
      /\ gone \subseteq gone' /\ revived \subseteq revived'
      /\ gone' \subseteq Ids /\ revived' \subseteq Ids
      /\ \A k \in Ids : rows'[k].app = rows[k].app
      /\ \A k \in Ids : rows'[k].deleted => k \in gone'
      /\ \A k \in gone' \ revived' : rows'[k].deleted
      /\ \A k \in gone' \ revived' :
            k \in gone \/ ~ \E q \in Requests : job[q].op = "update" /\ job[q].id = k
      /\ \A app : Taken(app)' <=> Taken(app)
  <2>1. CASE UNCHANGED <<rows, gone, revived>>
    BY <1>0, <2>1 DEF TypeOK, DeletionInv, Ids, Taken
  <2>2. CASE /\ rows' = [rows EXCEPT ![i] = [job[r].row EXCEPT !.deleted = TRUE]]
             /\ gone' = gone \cup {i}
             /\ revived' = IF \E q \in Requests : job[q].op = "update" /\ job[q].id = i
                           THEN revived \cup {i} ELSE revived
    <3>. DEFINE entry == [job[r].row EXCEPT !.deleted = TRUE]
    <3>1. entry \in Row /\ entry.app = rows[i].app /\ entry.deleted
      BY <1>4 DEF Row
    <3>2. rows' = [rows EXCEPT ![i] = entry]
      BY <2>2
    <3>. HIDE DEF entry, i
    <3>3. /\ rows' \in Seq(Row) /\ Len(rows') = Len(rows) /\ Ids' = Ids
          /\ rows'[i] = entry
          /\ \A k \in Ids : k # i => rows'[k] = rows[k]
          /\ \A k \in Ids : rows'[k].app = rows[k].app
          /\ \A app : Taken(app)' <=> Taken(app)
      BY <1>4, <3>1, <3>2, Overwrite
    <3>4. /\ gone \subseteq gone' /\ revived \subseteq revived' /\ i \in gone'
          /\ gone' \subseteq Ids /\ revived' \subseteq Ids
      BY <1>0, <1>4, <2>2 DEF TypeOK
    <3>5. \A k \in Ids : rows'[k].deleted => k \in gone'
      BY <1>0, <3>3, <3>4 DEF DeletionInv
    <3>6. \A k \in gone' \ revived' : rows'[k].deleted
      <4> SUFFICES ASSUME NEW k \in gone' \ revived' PROVE rows'[k].deleted
        OBVIOUS
      <4>1. CASE k = i
        BY <3>1, <3>3, <4>1
      <4>2. CASE k # i
        BY <1>0, <2>2, <3>3, <3>4, <4>2 DEF DeletionInv, TypeOK
      <4>3. QED
        BY <4>1, <4>2
    <3>7. \A k \in gone' \ revived' :
            k \in gone \/ ~ \E q \in Requests : job[q].op = "update" /\ job[q].id = k
      BY <2>2
    <3>8. QED
      BY <3>3, <3>4, <3>5, <3>6, <3>7
  <2>3. QED
    BY <2>1, <2>2 DEF APPDeleteSave
<1>6. TypeOK'
  BY <1>0, <1>1, <1>2, <1>3, <1>5 DEF TypeOK
<1>7. JobInv'
  <2> SUFFICES ASSUME NEW q \in Requests PROVE JobOK(job[q])'
    BY DEF JobInv
  <2>1. CASE q = r
    BY <1>2, <2>1, NoJobIsJob
  <2>2. CASE q # r
    <3>1. job'[q] = job[q] /\ JobOK(job[q])
      BY <1>0, <1>2, <2>2 DEF JobInv
    <3>2. job[q].op = "update" /\ job[q].id \in gone' \ revived' => job[q].row.deleted
      BY <1>5, <3>1 DEF JobOK
    <3>3. QED
      BY <1>5, <3>1, <3>2 DEF JobOK
  <2>3. QED
    BY <2>1, <2>2
<1>8. UniqueInv' /\ DeletionInv' /\ GatewayInv'
  BY <1>0, <1>1, <1>5 DEF UniqueInv, DeletionInv, GatewayInv, TypeOK
<1>9. QED
  BY <1>6, <1>7, <1>8 DEF IInv

-----------------------------------------------------------------------------
(* The gateway's steps: they read the rows and write none of them.         *)

\* What every step of the gateway leaves as it was.
LEMMA GatewayFrame ==
    ASSUME IInv, UNCHANGED <<rows, job, gone, revived, doubtful>>
    PROVE  JobInv' /\ UniqueInv' /\ (goneBefore' \subseteq gone => DeletionInv')
BY DEF IInv, JobInv, JobOK, Taken, UniqueInv, DeletionInv, Ids

\* The load: every live row, and no other one, is a tenant of the registry.
LEMMA LoadStep == IInv /\ LoadOnce => IInv'
<1> SUFFICES ASSUME IInv, LoadOnce PROVE IInv'
  OBVIOUS
<1>0. TypeOK /\ DeletionInv /\ GatewayInv
  BY DEF IInv
<1>1. /\ UNCHANGED <<rows, job, tokens, gone, revived, doubtful>>
      /\ up' = TRUE /\ loads' \in 0 .. MaxLoads /\ goneBefore' = gone
      /\ \/ AppSlice' = Listed /\ loaded' = TRUE
         \/ AppSlice' = {} /\ loaded' = FALSE
  <2>1. loads' \in 0 .. MaxLoads
    BY <1>0, TenantsAssumption DEF LoadOnce, TypeOK
  <2>2. QED
    BY <2>1 DEF LoadOnce
<1>2. faults' \in 0 .. MaxFaults
  BY <1>0, TenantsAssumption DEF LoadOnce, TypeOK, Fault, Works
<1>3. Listed \subseteq [id : Ids, app : AppIDs, secret : Secrets]
  <2>1. \A i \in Ids : rows[i] \in Row
    BY <1>0 DEF TypeOK, Ids
  <2>2. \A i \in Ids : rows[i].app \in AppIDs /\ rows[i].secret \in Secrets
    BY <2>1 DEF Row
  <2>3. QED
    BY <2>2 DEF Listed
<1>4. TypeOK'
  BY <1>0, <1>1, <1>2, <1>3 DEF TypeOK, Ids
<1>5. JobInv' /\ UniqueInv' /\ DeletionInv'
  BY <1>1, GatewayFrame
<1>6. \A a \in Listed : rows[a.id].app = a.app /\ a.id \notin gone \ revived
  BY <1>0 DEF Listed, DeletionInv
<1>7. \A token \in tokens : token.id \notin gone => \E a \in Listed : a.app = token.issuer
  <2> SUFFICES ASSUME NEW token \in tokens, token.id \notin gone
               PROVE  \E a \in Listed : a.app = token.issuer
    OBVIOUS
  <2>1. token.id \in Ids /\ ~ rows[token.id].deleted
    BY <1>0 DEF TypeOK, DeletionInv
  <2>. DEFINE a == [id |-> token.id, app |-> rows[token.id].app, secret |-> rows[token.id].secret]
  <2>2. a \in Listed
    BY <2>1 DEF Listed
  <2>3. a.app = token.issuer
    BY <1>0 DEF GatewayInv
  <2>4. QED
    BY <2>2, <2>3
<1>8. GatewayInv'
  <2>1. \A token \in tokens' : rows'[token.id].app = token.issuer
    BY <1>0, <1>1 DEF GatewayInv
  <2>2. CASE AppSlice' = Listed /\ loaded' = TRUE
    BY <1>1, <1>6, <1>7, <2>1, <2>2 DEF GatewayInv
  <2>3. CASE AppSlice' = {} /\ loaded' = FALSE
    BY <1>1, <2>1, <2>3 DEF GatewayInv
  <2>4. QED
    BY <1>1, <2>2, <2>3
<1>9. QED
  BY <1>4, <1>5, <1>8 DEF IInv

\* A token is issued for a tenant of the registry.
LEMMA TokensStep == IInv /\ Tokens => IInv'
<1> SUFFICES ASSUME IInv, Tokens PROVE IInv'
  OBVIOUS
<1>0. TypeOK /\ DeletionInv /\ GatewayInv
  BY DEF IInv
<1>1. UNCHANGED <<rows, job, AppSlice, up, loads, faults, gone, goneBefore, revived, doubtful,
                  loaded>>
  BY DEF Tokens
<1>2. PICK a \in AppSlice : tokens' = tokens \cup {[issuer |-> a.app, id |-> a.id]}
  BY DEF Tokens, First
<1>3. a.app \in AppIDs /\ a.id \in Ids
  BY <1>0 DEF TypeOK
<1>4. TypeOK'
  BY <1>0, <1>1, <1>2, <1>3 DEF TypeOK, Ids
<1>5. JobInv' /\ UniqueInv' /\ DeletionInv'
  BY <1>0, <1>1, GatewayFrame DEF DeletionInv
<1>6. GatewayInv'
  <2>1. \A token \in tokens' \ tokens : token.issuer = a.app /\ token.id = a.id
    BY <1>2
  <2>2. \A token \in tokens' : rows[token.id].app = token.issuer
    BY <1>0, <2>1 DEF GatewayInv
  <2>3. up /\ loaded => \A token \in tokens' :
             token.id \notin gone => \E b \in AppSlice : b.app = token.issuer
    BY <1>0, <2>1 DEF GatewayInv
  <2>4. QED
    BY <1>0, <1>1, <2>2, <2>3 DEF GatewayInv
<1>7. QED
  BY <1>4, <1>5, <1>6 DEF IInv

LEMMA ExpiresStep == IInv /\ Expires => IInv'
<1> SUFFICES ASSUME IInv, Expires PROVE IInv'
  OBVIOUS
<1>0. TypeOK /\ DeletionInv /\ GatewayInv
  BY DEF IInv
<1>1. /\ UNCHANGED <<rows, job, AppSlice, up, loads, faults, gone, goneBefore, revived, doubtful,
                     loaded>>
      /\ tokens' \subseteq tokens
  BY DEF Expires
<1>2. JobInv' /\ UniqueInv' /\ DeletionInv'
  BY <1>0, <1>1, GatewayFrame DEF DeletionInv
<1>3. TypeOK' /\ GatewayInv'
  BY <1>0, <1>1 DEF TypeOK, Ids, GatewayInv
<1>4. QED
  BY <1>2, <1>3 DEF IInv

LEMMA StopsStep == IInv /\ Stops => IInv'
<1> SUFFICES ASSUME IInv, Stops PROVE IInv'
  OBVIOUS
<1>0. TypeOK /\ DeletionInv /\ GatewayInv
  BY DEF IInv
<1>1. /\ UNCHANGED <<rows, job, tokens, loads, faults, gone, goneBefore, revived, doubtful,
                     loaded>>
      /\ up' = FALSE /\ AppSlice' = {}
  BY DEF Stops
<1>2. JobInv' /\ UniqueInv' /\ DeletionInv'
  BY <1>0, <1>1, GatewayFrame DEF DeletionInv
<1>3. TypeOK'
  BY <1>0, <1>1 DEF TypeOK, Ids
<1>4. GatewayInv'
  BY <1>0, <1>1 DEF GatewayInv
<1>5. QED
  BY <1>2, <1>3, <1>4 DEF IInv

LEMMA NextIInv == IInv /\ [Next]_vars => IInv'
<1> SUFFICES ASSUME IInv, [Next]_vars PROVE IInv'
  OBVIOUS
<1>1. ASSUME NEW r \in Requests, AppAddFind(r) PROVE IInv'
  BY <1>1, AddFindStep
<1>2. ASSUME NEW r \in Requests, AppAddSave(r) PROVE IInv'
  BY <1>2, AddSaveStep
<1>3. ASSUME NEW r \in Requests, FindById(r, "update") \/ FindById(r, "delete") PROVE IInv'
  BY <1>3, FindStep
<1>4. ASSUME NEW r \in Requests, AppUpdateSave(r) PROVE IInv'
  BY <1>4, UpdateSaveStep
<1>5. ASSUME NEW r \in Requests, APPDeleteSave(r) PROVE IInv'
  BY <1>5, DeleteSaveStep
<1>6. CASE LoadOnce \/ Tokens \/ Expires \/ Stops
  BY <1>6, LoadStep, TokensStep, ExpiresStep, StopsStep
<1>7. CASE UNCHANGED vars
  <2>1. JobInv' /\ UniqueInv' /\ DeletionInv'
    BY <1>7, GatewayFrame DEF vars, IInv, DeletionInv
  <2>2. TypeOK'
    BY <1>7 DEF vars, IInv, TypeOK, Ids
  <2>3. GatewayInv'
    BY <1>7 DEF vars, IInv, GatewayInv
  <2>4. QED
    BY <2>1, <2>2, <2>3 DEF IInv
<1>8. QED
  BY <1>1, <1>2, <1>3, <1>4, <1>5, <1>6, <1>7 DEF Next

LEMMA Inductive == Spec => []IInv
<1>1. QED
  BY InitIInv, NextIInv, PTL DEF Spec

-----------------------------------------------------------------------------
(* The theorems.                                                           *)

\* The rows, the requests, the registry and the tokens are always of their
\* types: no token and no tenant of a registry is of a row there never was.
THEOREM TypesCorrect == Spec => []TypeOK
<1>1. IInv => TypeOK
  BY DEF IInv
<1>2. QED
  BY <1>1, Inductive, PTL

\* However many dashboards check, save, update and delete tenants side by
\* side, HTTPJwtAuthTokenMiddleware counts a request with a token as the
\* tenant the token was issued to, unless one of the two rows was inserted
\* after a failed or an outrun check of AppAdd.
THEOREM TokensMeanTenants == Spec => []TokenMeansTenant
<1>1. IInv => TokenMeansTenant
  <2> SUFFICES ASSUME IInv, NEW token \in tokens, NEW a \in AppOf(token), a.id # token.id
               PROVE  doubtful \cap {a.id, token.id} # {}
    BY DEF TokenMeansTenant
  <2>1. a \in AppSlice /\ a.app = token.issuer
    BY DEF AppOf, First
  <2>2. a.id \in Ids /\ token.id \in Ids /\ rows[a.id].app = rows[token.id].app
    BY <2>1 DEF IInv, TypeOK, GatewayInv
  <2>3. QED
    BY <2>2 DEF IInv, UniqueInv
<1>2. QED
  BY <1>1, Inductive, PTL

\* APPDelete is final for every gateway that starts after it was answered:
\* LoadOnce never loads the tenant again, unless an AppUpdate that had read
\* the row wrote it back.
THEOREM DeletedStayOut == Spec => []DeletedStaysOut
<1>1. IInv => DeletedStaysOut
  BY DEF IInv, GatewayInv, DeletedStaysOut
<1>2. QED
  BY <1>1, Inductive, PTL

\* The middleware finds a tenant for every token that has not expired, in
\* every gateway whose LoadOnce met no failing query, until the tenant is
\* deleted: AppUpdate never takes a token away.
THEOREM TokensHonoured == Spec => []TokenHonoured
<1>1. IInv => TokenHonoured
  <2> SUFFICES ASSUME IInv, up, loaded, NEW token \in tokens, token.id \notin gone
               PROVE  AppOf(token) # {}
    BY DEF TokenHonoured
  <2>. DEFINE apps == {a \in AppSlice : a.app = token.issuer}
  <2>1. apps # {}
    BY DEF IInv, GatewayInv
  <2>2. Len(rows) \in Nat /\ \A a \in apps : a.id \in 1 .. Len(rows)
    BY DEF IInv, TypeOK, Ids
  <2>. HIDE DEF apps
  <2>3. First(apps) # {}
    BY <2>1, <2>2, FirstExists
  <2>4. QED
    BY <2>3 DEF AppOf, apps
<1>2. QED
  BY <1>1, Inductive, PTL

-----------------------------------------------------------------------------
(* The handlers that write services.                                       *)

Updates == {"updateHttp", "updateTcp", "updateGrpc"}
Reads == {"detail", "find", "read"}
Ends == {"commit", "setDeleted"}

\* What request h has still to do, as a set.
Elements(q) == {q[i] : i \in 1 .. Len(q)}
Left(h) == Elements(todo[h])

\* A program reads its row before it saves anything, in its transaction if it
\* has one, and ends with its commit or its one save.
OrderOK(q) ==
    /\ q # <<>> => q[Len(q)] \in Ends
    /\ \A i \in 1 .. Len(q) : q[i] \in Ends => i = Len(q)
    /\ \A i, j \in 1 .. Len(q) :
          i < j => /\ q[j] \in Reads => q[i] = "begin"
                   /\ q[j] = "begin" => q[i] \in DOMAIN ChecksAt

\* Which steps a request has left, and what it has done when it has them left.
OpOK(h) ==
    /\ todo[h] = <<>> <=> req[h].op = "none"
    /\ req[h].op = "none" => row[h] = NoRow /\ ~conn[h]
    /\ req[h].op \in Adds =>
         /\ Left(h) \cap (Reads \cup {"setDeleted"}) = {}
         /\ \A part \in Parts : part \in Left(h) \/ (row[h] # NoRow /\ part \in row[h].parts)
    /\ req[h].op \in Updates => Left(h) \cap (DOMAIN ChecksAt \cup {"read", "setDeleted"}) = {}
    /\ req[h].op = "updateHttp" => "detail" \notin Left(h)
    /\ req[h].op = "delete" => Left(h) \subseteq {"read", "setDeleted"}
    /\ req[h].op \in Updates \cup {"delete"} => (row[h] = NoRow <=> Left(h) \cap Reads # {})
    /\ req[h].op \in Adds \cup Updates => "begin" \in Left(h) \/ conn[h]

\* The row an add builds is new; the one that another request holds is the one
\* in the table, or was at one time.
RowOK(h) ==
    row[h] # NoRow =>
        IF req[h].op \in Adds
        THEN /\ row[h].id < nextId
             /\ row[h].name = req[h].name /\ row[h].addr = req[h].addr
             /\ row[h].kind = KindOf[req[h].op]
             /\ \A r \in table : r.id # row[h].id
             /\ \A g \in Handlers : g # h => row[g].id # row[h].id
        ELSE /\ row[h].parts = Parts
             /\ \E r \in table : /\ r.id = row[h].id /\ r.name = row[h].name
                                 /\ r.kind = row[h].kind
                                 /\ \/ r.addr = row[h].addr \/ req[h].op = "updateTcp"
                                    \/ r.id \in moved
                                 /\ r.deleted /\ ~ row[h].deleted => late[h]

\* What the checks of an add have found stays true as long as no other add
\* commits, but for ports that updates move.
FreeOK(h) ==
    req[h].op \in Adds /\ ~ raced[h] =>
        /\ Left(h) \cap {"name", "lookup"} = {} => \A r \in table : r.name # req[h].name
        /\ \A check \in {"tcp", "grpc"} :
              req[h].op # "addHttp" /\ check \notin Left(h) =>
                 \A r \in table : r.kind = check /\ r.addr = req[h].addr => r.id \in moved
        /\ req[h].op = "addHttp" /\ "lookup" \notin Left(h) =>
              \A r \in table : r.kind = "http" /\ r.addr = req[h].addr => r.id \in moved

\* Of two services that share a name or an address, deleted ones included, one
\* was added in a race or moved.
OwnersInv ==
    \A r, t \in table :
        r.id # t.id =>
            /\ r.name = t.name => r.id \in racedAdds \/ t.id \in racedAdds
            /\ SameListener(r, t) => \/ r.id \in racedAdds \cup moved
                                     \/ t.id \in racedAdds \cup moved

TableInv ==
    /\ \A r \in table : r.parts = Parts
    /\ \A r, t \in table : r.id = t.id => r = t
    /\ OwnersInv

\* No more connections than the pool has; what is lost, updates left behind.
PoolInv ==
    /\ lost + Cardinality({h \in Handlers : conn[h]}) <= MaxOpen
    /\ gaveUp = lost

RequestOK(h) == OrderOK(todo[h]) /\ OpOK(h) /\ RowOK(h) /\ FreeOK(h)

RequestsInv == \A h \in Handlers : RequestOK(h)

SIInv == STypeOK /\ TableInv /\ PoolInv /\ RequestsInv

-----------------------------------------------------------------------------
(* Programs.                                                               *)

LEMMA ChecksAtDomain == DOMAIN ChecksAt = {"name", "tcp", "grpc", "lookup"}
BY DEF ChecksAt

LEMMA EmptyProgram ==
    ASSUME NEW q \in Seq(Steps)
    PROVE  q = <<>> <=> Len(q) = 0
OBVIOUS

\* What the rest of a program has when its first step is done.
LEMMA TailOfProgram ==
    ASSUME NEW q \in Seq(Steps), q # <<>>
    PROVE  /\ Tail(q) \in Seq(Steps)
           /\ Head(q) \in Elements(q) /\ Head(q) \in Steps
           /\ Elements(Tail(q)) \subseteq Elements(q)
           /\ Elements(q) \subseteq Elements(Tail(q)) \cup {Head(q)}
           /\ OrderOK(q) => OrderOK(Tail(q))
           /\ OrderOK(q) /\ Head(q) \notin Ends => Tail(q) # <<>>
<1>1. /\ Len(q) \in Nat \ {0} /\ Head(q) = q[1] /\ q[1] \in Steps
      /\ Tail(q) \in Seq(Steps) /\ Len(Tail(q)) = Len(q) - 1
      /\ \A i \in 1 .. Len(q) - 1 : Tail(q)[i] = q[i + 1]
  OBVIOUS
<1>2. Head(q) \in Elements(q)
  BY <1>1 DEF Elements
<1>3. Elements(Tail(q)) \subseteq Elements(q)
  <2>1. ASSUME NEW i \in 1 .. Len(Tail(q)) PROVE Tail(q)[i] \in Elements(q)
    <3>1. i + 1 \in 1 .. Len(q) /\ Tail(q)[i] = q[i + 1]
      BY <1>1
    <3>2. QED
      BY <3>1 DEF Elements
  <2>2. QED
    BY <2>1 DEF Elements
<1>4. Elements(q) \subseteq Elements(Tail(q)) \cup {Head(q)}
  <2>1. ASSUME NEW i \in 1 .. Len(q), i # 1 PROVE q[i] \in Elements(Tail(q))
    <3>1. i - 1 \in 1 .. Len(Tail(q)) /\ Tail(q)[i - 1] = q[(i - 1) + 1] /\ (i - 1) + 1 = i
      BY <1>1, <2>1
    <3>2. QED
      BY <3>1 DEF Elements
  <2>2. QED
    BY <1>1, <2>1 DEF Elements
<1>5. ASSUME OrderOK(q) PROVE OrderOK(Tail(q))
  <2>1. ASSUME NEW i \in 1 .. Len(Tail(q)), Tail(q)[i] \in Ends
        PROVE  i = Len(Tail(q))
    <3>1. i + 1 \in 1 .. Len(q) /\ Tail(q)[i] = q[i + 1]
      BY <1>1
    <3>2. i + 1 = Len(q)
      BY <1>5, <2>1, <3>1 DEF OrderOK
    <3>3. i \in Int /\ Len(q) \in Int /\ Len(Tail(q)) = Len(q) - 1
      BY <1>1
    <3>4. QED
      BY <3>2, <3>3
  <2>2. ASSUME NEW i \in 1 .. Len(Tail(q)), NEW j \in 1 .. Len(Tail(q)), i < j
        PROVE  /\ Tail(q)[j] \in Reads => Tail(q)[i] = "begin"
               /\ Tail(q)[j] = "begin" => Tail(q)[i] \in DOMAIN ChecksAt
    <3>1. /\ i + 1 \in 1 .. Len(q) /\ Tail(q)[i] = q[i + 1]
          /\ j + 1 \in 1 .. Len(q) /\ Tail(q)[j] = q[j + 1]
          /\ i + 1 < j + 1
      BY <1>1, <2>2
    <3>2. QED
      BY <1>5, <3>1 DEF OrderOK
  <2>3. ASSUME Tail(q) # <<>> PROVE Tail(q)[Len(Tail(q))] \in Ends
    <3>1. Len(Tail(q)) # 0
      BY <1>1, <2>3, EmptyProgram
    <3>2. Len(Tail(q)) \in 1 .. Len(q) - 1 /\ Len(Tail(q)) + 1 = Len(q)
      BY <1>1, <3>1
    <3>3. QED
      BY <1>1, <1>5, <3>2 DEF OrderOK
  <2>4. QED
    BY <2>1, <2>2, <2>3 DEF OrderOK
<1>6. ASSUME OrderOK(q), Head(q) \notin Ends PROVE Tail(q) # <<>>
  <2>1. q[Len(q)] \in Ends
    BY <1>6 DEF OrderOK
  <2>2. Len(q) # 1
    BY <1>1, <1>6, <2>1
  <2>3. Len(Tail(q)) # 0
    BY <1>1, <2>2
  <2>4. QED
    BY <1>1, <2>3, EmptyProgram
<1>7. QED
  BY <1>1, <1>2, <1>3, <1>4, <1>5, <1>6

\* What the order says of the step a program is at.
LEMMA OrderAtHead ==
    ASSUME NEW q \in Seq(Steps), q # <<>>, OrderOK(q)
    PROVE  /\ Head(q) \in Ends => Tail(q) = <<>> /\ Elements(q) = {Head(q)}
           /\ Head(q) \in Reads => /\ "begin" \notin Elements(q)
                                   /\ Elements(Tail(q)) \cap Reads = {}
           /\ Head(q) \in Parts \cup Ends \cup DOMAIN ChecksAt =>
                 Elements(q) \cap Reads \subseteq {Head(q)}
<1>1. /\ Len(q) \in Nat \ {0} /\ Head(q) = q[1]
      /\ Tail(q) \in Seq(Steps) /\ Len(Tail(q)) = Len(q) - 1
      /\ \A i \in 1 .. Len(q) - 1 : Tail(q)[i] = q[i + 1]
      /\ 1 \in 1 .. Len(q)
  OBVIOUS
<1>2. ASSUME Head(q) \in Ends PROVE Tail(q) = <<>> /\ Elements(q) = {Head(q)}
  <2>1. Len(q) = 1
    BY <1>1, <1>2 DEF OrderOK
  <2>2. Len(Tail(q)) = 0
    BY <1>1, <2>1
  <2>3. Tail(q) = <<>>
    BY <1>1, <2>2, EmptyProgram
  <2>4. Elements(q) = {Head(q)}
    BY <1>1, <2>1 DEF Elements
  <2>5. QED
    BY <2>3, <2>4
<1>3. ASSUME Head(q) \in Reads
      PROVE  "begin" \notin Elements(q) /\ Elements(Tail(q)) \cap Reads = {}
  <2>1. Head(q) # "begin" /\ Head(q) \notin DOMAIN ChecksAt
    BY <1>3, ChecksAtDomain DEF Reads
  <2>2. ASSUME NEW j \in 1 .. Len(q) PROVE q[j] # "begin"
    <3>1. CASE j = 1
      BY <1>1, <2>1, <3>1
    <3>2. CASE 1 < j
      BY <1>1, <2>1, <3>2 DEF OrderOK
    <3>3. QED
      BY <3>1, <3>2
  <2>3. ASSUME NEW j \in 1 .. Len(Tail(q)) PROVE Tail(q)[j] \notin Reads
    <3>1. j + 1 \in 1 .. Len(q) /\ Tail(q)[j] = q[j + 1] /\ 1 < j + 1
      BY <1>1
    <3>2. QED
      BY <1>1, <2>1, <3>1 DEF OrderOK
  <2>4. QED
    BY <2>2, <2>3 DEF Elements
<1>4. ASSUME Head(q) \in Parts \cup Ends \cup DOMAIN ChecksAt
      PROVE  Elements(q) \cap Reads \subseteq {Head(q)}
  <2>1. Head(q) # "begin"
    BY <1>4, ChecksAtDomain DEF Parts, Ends
  <2>2. ASSUME NEW j \in 1 .. Len(q), j # 1 PROVE q[j] \notin Reads
    <3>1. 1 < j
      BY <1>1, <2>2
    <3>2. QED
      BY <1>1, <2>1, <3>1 DEF OrderOK
  <2>3. QED
    BY <1>1, <2>2 DEF Elements
<1>5. QED
  BY <1>2, <1>3, <1>4

Operations == Adds \cup Updates \cup {"delete"}

\* The programs of the handlers have this order, and these steps.
LEMMA Programs ==
    ASSUME NEW op \in Operations
    PROVE  /\ Program[op] \in Seq(Steps) /\ Program[op] # <<>> /\ OrderOK(Program[op])
           /\ op \in Adds => /\ Elements(Program[op]) \cap (Reads \cup {"setDeleted"}) = {}
                             /\ Parts \cup {"begin"} \subseteq Elements(Program[op])
           /\ op \in Adds \ {"addHttp"} => {"name", "tcp", "grpc"} \subseteq Elements(Program[op])
           /\ op = "addHttp" => "lookup" \in Elements(Program[op])
           /\ op \in Updates =>
                 /\ Elements(Program[op]) \cap (DOMAIN ChecksAt \cup {"read", "setDeleted"}) = {}
                 /\ "begin" \in Elements(Program[op])
           /\ op = "updateHttp" => "detail" \notin Elements(Program[op])
           /\ op = "delete" => Elements(Program[op]) \subseteq {"read", "setDeleted"}
           /\ op \in Updates \cup {"delete"} => Elements(Program[op]) \cap Reads # {}
<1>1. CASE op \in {"addTcp", "addGrpc"}
  <2> DEFINE q == <<"name", "tcp", "grpc", "begin", "info", "lb", "rule", "access", "commit">>
  <2>1. Program[op] = q
    BY <1>1 DEF Program, ServiceAddTcp, ServiceAddGrpc
  <2>2. /\ q \in Seq(Steps) /\ Len(q) = 9
        /\ q[1] = "name" /\ q[2] = "tcp" /\ q[3] = "grpc" /\ q[4] = "begin"
        /\ q[5] = "info" /\ q[6] = "lb" /\ q[7] = "rule" /\ q[8] = "access"
        /\ q[9] = "commit"
    BY ChecksAtDomain DEF Steps, Parts
  <2>3. QED
    <3> HIDE DEF q
    <3>1. \A i \in 1 .. 9 : i = 1 \/ i = 2 \/ i = 3 \/ i = 4 \/ i = 5 \/ i = 6 \/ i = 7
                            \/ i = 8 \/ i = 9
      OBVIOUS
    <3>2. Elements(q) = {"name", "tcp", "grpc", "begin", "info", "lb", "rule", "access",
                         "commit"}
      BY <2>2, <3>1 DEF Elements
    <3>3. q # <<>>
      <4>1. q \in Seq(Steps) /\ Len(q) # 0
        BY <2>2
      <4>2. QED
        BY <4>1, EmptyProgram
    <3>4. OrderOK(q)
      <4>1. q[9] \in Ends /\ \A j \in 1 .. 9 : q[j] \in Ends => j = 9
        BY <2>2, <3>1 DEF Ends
      <4>2. \A j \in 1 .. 9 : q[j] \in Reads => FALSE
        BY <2>2, <3>1 DEF Reads
      <4>3. \A j \in 1 .. 9 : q[j] = "begin" => j = 4
        BY <2>2, <3>1
      <4>4. \A j \in 1 .. 9 : j < 4 => q[j] \in DOMAIN ChecksAt
        BY <2>2, <3>1, ChecksAtDomain
      <4>5. QED
        BY <2>2, <4>1, <4>2, <4>3, <4>4 DEF OrderOK
    <3>5. QED
      BY <1>1, <2>1, <2>2, <3>2, <3>3, <3>4, ChecksAtDomain
         DEF Adds, Updates, Reads, Parts
<1>2. CASE op = "addHttp"
  <2> DEFINE q == <<"begin", "lookup", "info", "rule", "access", "lb", "commit">>
  <2>1. Program[op] = q
    BY <1>2 DEF Program, ServiceAddHTTP
  <2>2. /\ q \in Seq(Steps) /\ Len(q) = 7
        /\ q[1] = "begin" /\ q[2] = "lookup" /\ q[3] = "info" /\ q[4] = "rule"
        /\ q[5] = "access" /\ q[6] = "lb" /\ q[7] = "commit"
    BY ChecksAtDomain DEF Steps, Parts
  <2>3. QED
    <3> HIDE DEF q
    <3>1. \A i \in 1 .. 7 : i = 1 \/ i = 2 \/ i = 3 \/ i = 4 \/ i = 5 \/ i = 6 \/ i = 7
      OBVIOUS
    <3>2. Elements(q) = {"begin", "lookup", "info", "rule", "access", "lb", "commit"}
      BY <2>2, <3>1 DEF Elements
    <3>3. q # <<>>
      <4>1. q \in Seq(Steps) /\ Len(q) # 0
        BY <2>2
      <4>2. QED
        BY <4>1, EmptyProgram
    <3>4. OrderOK(q)
      <4>1. q[7] \in Ends /\ \A j \in 1 .. 7 : q[j] \in Ends => j = 7
        BY <2>2, <3>1 DEF Ends
      <4>2. \A j \in 1 .. 7 : q[j] \in Reads => FALSE
        BY <2>2, <3>1 DEF Reads
      <4>3. \A j \in 1 .. 7 : q[j] = "begin" => j = 1
        BY <2>2, <3>1
      <4>4. QED
        BY <2>2, <4>1, <4>2, <4>3 DEF OrderOK
    <3>5. QED
      BY <1>2, <2>1, <2>2, <3>2, <3>3, <3>4, ChecksAtDomain
         DEF Adds, Updates, Reads, Parts
<1>3. CASE op = "updateHttp"
  <2> DEFINE q == <<"begin", "find", "info", "rule", "access", "lb", "commit">>
  <2>1. Program[op] = q
    BY <1>3 DEF Program, ServiceUpdateHTTP
  <2>2. /\ q \in Seq(Steps) /\ Len(q) = 7
        /\ q[1] = "begin" /\ q[2] = "find" /\ q[3] = "info" /\ q[4] = "rule"
        /\ q[5] = "access" /\ q[6] = "lb" /\ q[7] = "commit"
    BY ChecksAtDomain DEF Steps, Parts
  <2>3. QED
    <3> HIDE DEF q
    <3>1. \A i \in 1 .. 7 : i = 1 \/ i = 2 \/ i = 3 \/ i = 4 \/ i = 5 \/ i = 6 \/ i = 7
      OBVIOUS
    <3>2. Elements(q) = {"begin", "find", "info", "rule", "access", "lb", "commit"}
      BY <2>2, <3>1 DEF Elements
    <3>3. q # <<>>
      <4>1. q \in Seq(Steps) /\ Len(q) # 0
        BY <2>2
      <4>2. QED
        BY <4>1, EmptyProgram
    <3>4. OrderOK(q)
      <4>1. q[7] \in Ends /\ \A j \in 1 .. 7 : q[j] \in Ends => j = 7
        BY <2>2, <3>1 DEF Ends
      <4>2. \A j \in 1 .. 7 : q[j] \in Reads => j = 2
        BY <2>2, <3>1 DEF Reads
      <4>3. \A j \in 1 .. 7 : q[j] = "begin" => j = 1
        BY <2>2, <3>1
      <4>4. \A j \in 1 .. 7 : j < 2 => q[j] = "begin"
        BY <2>2, <3>1
      <4>5. QED
        BY <2>2, <4>1, <4>2, <4>3, <4>4 DEF OrderOK
    <3>5. QED
      BY <1>3, <2>1, <2>2, <3>2, <3>3, <3>4, ChecksAtDomain
         DEF Adds, Updates, Reads, Parts
<1>4. CASE op \in {"updateTcp", "updateGrpc"}
  <2> DEFINE q == <<"begin", "detail", "info", "lb", "rule", "access", "commit">>
  <2>1. Program[op] = q
    BY <1>4 DEF Program, ServiceUpdateTcp, ServiceUpdateGrpc
  <2>2. /\ q \in Seq(Steps) /\ Len(q) = 7
        /\ q[1] = "begin" /\ q[2] = "detail" /\ q[3] = "info" /\ q[4] = "lb"
        /\ q[5] = "rule" /\ q[6] = "access" /\ q[7] = "commit"
    BY ChecksAtDomain DEF Steps, Parts
  <2>3. QED
    <3> HIDE DEF q
    <3>1. \A i \in 1 .. 7 : i = 1 \/ i = 2 \/ i = 3 \/ i = 4 \/ i = 5 \/ i = 6 \/ i = 7
      OBVIOUS
    <3>2. Elements(q) = {"begin", "detail", "info", "lb", "rule", "access", "commit"}
      BY <2>2, <3>1 DEF Elements
    <3>3. q # <<>>
      <4>1. q \in Seq(Steps) /\ Len(q) # 0
        BY <2>2
      <4>2. QED
        BY <4>1, EmptyProgram
    <3>4. OrderOK(q)
      <4>1. q[7] \in Ends /\ \A j \in 1 .. 7 : q[j] \in Ends => j = 7
        BY <2>2, <3>1 DEF Ends
      <4>2. \A j \in 1 .. 7 : q[j] \in Reads => j = 2
        BY <2>2, <3>1 DEF Reads
      <4>3. \A j \in 1 .. 7 : q[j] = "begin" => j = 1
        BY <2>2, <3>1
      <4>4. \A j \in 1 .. 7 : j < 2 => q[j] = "begin"
        BY <2>2, <3>1
      <4>5. QED
        BY <2>2, <4>1, <4>2, <4>3, <4>4 DEF OrderOK
    <3>5. QED
      BY <1>4, <2>1, <2>2, <3>2, <3>3, <3>4, ChecksAtDomain
         DEF Adds, Updates, Reads, Parts
<1>5. CASE op = "delete"
  <2> DEFINE q == <<"read", "setDeleted">>
  <2>1. Program[op] = q
    BY <1>5 DEF Program, ServiceDelete
  <2>2. q \in Seq(Steps) /\ Len(q) = 2 /\ q[1] = "read" /\ q[2] = "setDeleted"
    BY DEF Steps
  <2>3. QED
    <3> HIDE DEF q
    <3>1. \A i \in 1 .. 2 : i = 1 \/ i = 2
      OBVIOUS
    <3>2. Elements(q) = {"read", "setDeleted"}
      BY <2>2, <3>1 DEF Elements
    <3>3. q # <<>>
      <4>1. q \in Seq(Steps) /\ Len(q) # 0
        BY <2>2
      <4>2. QED
        BY <4>1, EmptyProgram
    <3>4. OrderOK(q)
      <4>1. q[2] \in Ends /\ \A j \in 1 .. 2 : q[j] \in Ends => j = 2
        BY <2>2, <3>1 DEF Ends
      <4>2. \A j \in 1 .. 2 : q[j] \in Reads => j = 1
        BY <2>2, <3>1 DEF Reads
      <4>3. \A j \in 1 .. 2 : q[j] = "begin" => FALSE
        BY <2>2, <3>1
      <4>4. QED
        BY <2>2, <4>1, <4>2, <4>3 DEF OrderOK
    <3>5. QED
      BY <1>5, <2>1, <2>2, <3>2, <3>3, <3>4 DEF Adds, Updates, Reads
<1>6. QED
  BY <1>1, <1>2, <1>3, <1>4, <1>5 DEF Operations, Adds, Updates

-----------------------------------------------------------------------------
(* What the types say of one request.                                      *)

Ordinary(h) == req[h].op \in Operations \cup {"none"}

LEMMA InputTypes ==
    ASSUME STypeOK, NEW h \in Handlers
    PROVE  /\ Ordinary(h)
           /\ req[h].op \in Adds => req[h].name \in Names /\ req[h].addr \in Addrs
           /\ req[h].op = "updateTcp" => req[h].addr \in Addrs
<1>1. req[h] \in Inputs \cup {NoRequest}
  BY DEF STypeOK
<1>2. QED
  BY <1>1 DEF Inputs, NoRequest, Ordinary, Operations, Adds, Updates

LEMMA RowTypes ==
    ASSUME STypeOK, NEW h \in Handlers
    PROVE  /\ row[h] # NoRow => row[h] \in Services /\ row[h].id \in Nat \ {0}
           /\ row[h].id \in Nat /\ (row[h].id = 0 <=> row[h] = NoRow)
<1>1. row[h] \in Services \cup {NoRow}
  BY DEF STypeOK
<1>2. QED
  BY <1>1 DEF Services, NoRow

LEMMA TableTypes ==
    ASSUME STypeOK, NEW r \in table
    PROVE  r \in Services /\ r.id \in Nat \ {0} /\ r.id < nextId /\ r # NoRow
BY DEF STypeOK, Services, NoRow

\* A request that has something to do is at the first step of what it has left.
LEMMA AtStep ==
    ASSUME STypeOK, NEW h \in Handlers, NEW step, At(h, step)
    PROVE  /\ todo[h] \in Seq(Steps) /\ todo[h] # <<>> /\ Head(todo[h]) = step
           /\ step \in Left(h) /\ step \in Steps
<1>1. todo[h] \in Seq(Steps) /\ todo[h] # <<>> /\ Head(todo[h]) = step
  BY DEF STypeOK, At, Busy
<1>2. QED
  BY <1>1, TailOfProgram DEF Left

LEMMA ProceedLeft ==
    ASSUME STypeOK, NEW h \in Handlers, NEW step, At(h, step), Proceed(h), OrderOK(todo[h])
    PROVE  /\ todo' \in [Handlers -> Seq(Steps)]
           /\ \A g \in Handlers : g # h => todo'[g] = todo[g]
           /\ Left(h)' \subseteq Left(h) /\ Left(h) \subseteq Left(h)' \cup {step}
           /\ OrderOK(todo'[h]) /\ (step \notin Ends => todo'[h] # <<>>)
           /\ step \in Reads => "begin" \notin Left(h) /\ Left(h)' \cap Reads = {}
           /\ step \in Parts \cup DOMAIN ChecksAt => Left(h) \cap Reads = {}
<1>1. /\ todo[h] \in Seq(Steps) /\ todo[h] # <<>> /\ Head(todo[h]) = step
  BY AtStep
<1>2. todo' = [todo EXCEPT ![h] = Tail(todo[h])] /\ todo \in [Handlers -> Seq(Steps)]
  BY DEF Proceed, STypeOK
<1>3. todo'[h] = Tail(todo[h]) /\ Tail(todo[h]) \in Seq(Steps)
  BY <1>1, <1>2, TailOfProgram
<1>4. todo' \in [Handlers -> Seq(Steps)] /\ \A g \in Handlers : g # h => todo'[g] = todo[g]
  BY <1>2, <1>3
<1>5. Left(h)' = Elements(Tail(todo[h]))
  BY <1>3 DEF Left, Elements
<1>6. /\ Left(h)' \subseteq Left(h) /\ Left(h) \subseteq Left(h)' \cup {step}
      /\ OrderOK(Tail(todo[h])) /\ (step \notin Ends => Tail(todo[h]) # <<>>)
  BY <1>1, <1>5, TailOfProgram DEF Left
<1>7. /\ step \in Reads => "begin" \notin Left(h) /\ Left(h)' \cap Reads = {}
      /\ step \in Parts \cup DOMAIN ChecksAt => Left(h) \cap Reads \subseteq {step}
  BY <1>1, <1>5, OrderAtHead DEF Left
<1>8. step \in Parts \cup DOMAIN ChecksAt => step \notin Reads
  BY ChecksAtDomain DEF Parts, Reads
<1>9. QED
  BY <1>3, <1>4, <1>6, <1>7, <1>8

Same(g) == /\ todo'[g] = todo[g] /\ req'[g] = req[g]
           /\ row'[g] = row[g] /\ conn'[g] = conn[g]

\* A request that has been answered has nothing left that could be wrong.
LEMMA AnswerOK ==
    ASSUME STypeOK, NEW h \in Handlers, Answer(h)
    PROVE  /\ RequestOK(h)'
           /\ todo' \in [Handlers -> Seq(Steps)]
           /\ req' \in [Handlers -> Inputs \cup {NoRequest}]
           /\ row' \in [Handlers -> Services \cup {NoRow}] /\ row'[h] = NoRow
           /\ conn' \in [Handlers -> BOOLEAN] /\ ~ conn'[h]
           /\ \A g \in Handlers : g # h => Same(g)
<1>1. /\ todo'[h] = <<>> /\ req'[h] = NoRequest /\ row'[h] = NoRow /\ ~ conn'[h]
      /\ \A g \in Handlers : g # h => Same(g)
  BY DEF STypeOK, Answer, Same
<1>2. /\ todo' \in [Handlers -> Seq(Steps)]
      /\ req' \in [Handlers -> Inputs \cup {NoRequest}]
      /\ row' \in [Handlers -> Services \cup {NoRow}]
      /\ conn' \in [Handlers -> BOOLEAN]
  BY DEF STypeOK, Answer
<1>3. req'[h].op = "none"
  BY <1>1 DEF NoRequest
<1>4. OrderOK(todo'[h])
  BY <1>1 DEF OrderOK
<1>5. OpOK(h)'
  BY <1>1, <1>3 DEF OpOK, Adds, Updates
<1>6. RowOK(h)' /\ FreeOK(h)'
  BY <1>1, <1>3 DEF RowOK, FreeOK, Adds
<1>7. QED
  BY <1>1, <1>2, <1>4, <1>5, <1>6 DEF RequestOK

\* The others, while the table stays as it is.
LEMMA OthersKeep ==
    ASSUME STypeOK, NEW g \in Handlers, RequestOK(g), Same(g),
           UNCHANGED <<table, moved>>, nextId' \in Nat, nextId <= nextId',
           late[g] => late'[g], raced[g] => raced'[g],
           \A x \in Handlers : \/ row'[x].id = row[x].id \/ row'[x].id \in {0, nextId}
                               \/ \E r \in table : row'[x].id = r.id
    PROVE  RequestOK(g)'
<1>1. OrderOK(todo[g]) /\ OpOK(g) /\ RowOK(g) /\ FreeOK(g)
  BY DEF RequestOK
<1>2. /\ todo'[g] = todo[g] /\ req'[g] = req[g] /\ row'[g] = row[g] /\ conn'[g] = conn[g]
      /\ Left(g)' = Left(g)
  BY DEF Same, Left, Elements
<1>3. OrderOK(todo'[g]) /\ OpOK(g)'
  BY <1>1, <1>2 DEF OpOK
<1>4. RowOK(g)'
  <2>1. CASE row[g] = NoRow
    BY <1>2, <2>1 DEF RowOK
  <2>2. CASE row[g] # NoRow /\ req[g].op \in Adds
    <3>1. row[g].id \in Nat \ {0} /\ row[g].id < nextId /\ nextId \in Nat
      BY <1>1, <2>2, RowTypes DEF RowOK, STypeOK
    <3>2. \A x \in Handlers : x # g => row'[x].id # row[g].id
      BY <1>1, <2>2, <3>1 DEF RowOK
    <3>3. row[g].id < nextId'
      BY <3>1
    <3>4. QED
      BY <1>1, <1>2, <2>2, <3>2, <3>3 DEF RowOK
  <2>3. CASE row[g] # NoRow /\ req[g].op \notin Adds
    BY <1>1, <1>2, <2>3 DEF RowOK
  <2>4. QED
    BY <2>1, <2>2, <2>3
<1>5. FreeOK(g)'
  BY <1>1, <1>2 DEF FreeOK
<1>6. QED
  BY <1>3, <1>4, <1>5 DEF RequestOK

-----------------------------------------------------------------------------
(* The pool.                                                               *)

Held == {h \in Handlers : conn[h]}

\* How a request changes the number of connections in transactions.
LEMMA HeldCount ==
    ASSUME STypeOK, NEW h \in Handlers, NEW b \in BOOLEAN,
           conn' = [conn EXCEPT ![h] = b]
    PROVE  /\ Cardinality(Held) \in Nat /\ Cardinality(Held') \in Nat
           /\ Cardinality(Held') =
                Cardinality(Held) + (IF b THEN 1 ELSE 0) - (IF conn[h] THEN 1 ELSE 0)
<1>1. IsFiniteSet(Held) /\ IsFiniteSet(Held \ {h}) /\ IsFiniteSet(Held \cup {h})
  <2>1. IsFiniteSet(Handlers) /\ Held \subseteq Handlers
        /\ Held \ {h} \subseteq Handlers /\ Held \cup {h} \subseteq Handlers
    BY ServiceAdminAssumption DEF Held
  <2>2. QED
    BY <2>1, FS_Subset
<1>2. /\ Cardinality(Held) \in Nat
      /\ Cardinality(Held \ {h}) = IF h \in Held THEN Cardinality(Held) - 1
                                   ELSE Cardinality(Held)
      /\ Cardinality(Held \cup {h}) = IF h \in Held THEN Cardinality(Held)
                                      ELSE Cardinality(Held) + 1
      /\ Cardinality(Held \ {h}) \in Nat /\ Cardinality(Held \cup {h}) \in Nat
  BY <1>1, FS_CardinalityType, FS_AddElement, FS_RemoveElement
<1>3. Held' = IF b THEN Held \cup {h} ELSE Held \ {h}
  BY DEF Held, STypeOK
<1>4. h \in Held <=> conn[h]
  BY DEF Held
<1>5. conn[h] \in BOOLEAN
  BY DEF STypeOK
<1>6. CASE b
  BY <1>2, <1>3, <1>4, <1>5, <1>6
<1>7. CASE ~ b
  BY <1>2, <1>3, <1>4, <1>5, <1>7
<1>8. QED
  BY <1>6, <1>7

\* A request that ends gives a connection back or has none.
LEMMA PoolAfterAnswer ==
    ASSUME STypeOK, PoolInv, NEW h \in Handlers, Answer(h), UNCHANGED <<lost, gaveUp>>
    PROVE  PoolInv'
<1>1. conn' = [conn EXCEPT ![h] = FALSE]
  BY DEF Answer
<1>2. /\ Cardinality(Held) \in Nat /\ Cardinality(Held') \in Nat
      /\ Cardinality(Held') = Cardinality(Held) + 0 - (IF conn[h] THEN 1 ELSE 0)
  BY <1>1, HeldCount
<1>3. lost \in Int /\ MaxOpen \in Int /\ lost + Cardinality(Held) <= MaxOpen
  BY ServiceAdminAssumption DEF PoolInv, Held, STypeOK
<1>4. Cardinality(Held') <= Cardinality(Held)
  BY <1>2
<1>5. lost + Cardinality(Held') <= MaxOpen
  BY <1>2, <1>3, <1>4
<1>6. QED
  BY <1>5 DEF PoolInv, Held

LEMMA PoolKept ==
    ASSUME PoolInv, UNCHANGED <<conn, lost, gaveUp>>
    PROVE  PoolInv'
BY DEF PoolInv

-----------------------------------------------------------------------------
(* One lemma per action.                                                   *)

\* The ids of the rows that requests hold are in use.
LEMMA RowIds ==
    ASSUME SIInv, NEW g \in Handlers
    PROVE  /\ row[g].id < nextId
           /\ row[g] # NoRow /\ req[g].op \notin Adds =>
                 \E r \in table : r.id = row[g].id
<1>1. STypeOK /\ RowOK(g)
  BY DEF SIInv, RequestsInv, RequestOK
<1>2. nextId \in Nat \ {0} /\ (row[g] = NoRow => row[g].id = 0)
  BY <1>1, RowTypes DEF STypeOK
<1>3. row[g] # NoRow /\ req[g].op \notin Adds => \E r \in table : r.id = row[g].id
  BY <1>1 DEF RowOK
<1>4. CASE row[g] = NoRow
  BY <1>2, <1>4
<1>5. CASE row[g] # NoRow /\ req[g].op \in Adds
  BY <1>1, <1>5 DEF RowOK
<1>6. CASE row[g] # NoRow /\ req[g].op \notin Adds
  BY <1>1, <1>3, <1>6, TableTypes
<1>7. QED
  BY <1>3, <1>4, <1>5, <1>6

LEMMA StartKeeps ==
    ASSUME SIInv, NEW h \in Handlers, Start(h)
    PROVE  SIInv'
<1>1. STypeOK /\ TableInv /\ PoolInv /\ RequestsInv
  BY DEF SIInv
<1>2. /\ todo[h] = <<>> /\ ops < MaxOps /\ ops' = ops + 1
      /\ todo' = [todo EXCEPT ![h] = Program[req'[h].op]]
      /\ raced' = [raced EXCEPT ![h] = FALSE] /\ late' = [late EXCEPT ![h] = FALSE]
      /\ UNCHANGED <<table, strays, nextId, row, conn, lost, failures, racedAdds, moved, gaveUp>>
  BY DEF Start, Busy
<1>3. req[h].op = "none" /\ row[h] = NoRow /\ ~ conn[h]
  BY <1>1, <1>2 DEF RequestsInv, RequestOK, OpOK
<1>4. PICK in \in Inputs :
         /\ req' = [req EXCEPT ![h] = in]
         /\ in.op \in Operations
  <2>0. ServiceIds \subseteq Nat
    BY <1>1, TableTypes DEF ServiceIds, STypeOK
  <2>1. CASE \E op \in Adds, n \in Names, a \in Addrs :
               req' = [req EXCEPT ![h] = [op |-> op, name |-> n, addr |-> a]]
    <3>1. PICK op \in Adds, n \in Names, a \in Addrs :
             req' = [req EXCEPT ![h] = [op |-> op, name |-> n, addr |-> a]]
      BY <2>1
    <3>2. [op |-> op, name |-> n, addr |-> a] \in Inputs
      BY DEF Inputs
    <3>3. QED
      BY <3>1, <3>2 DEF Adds, Operations
  <2>2. CASE \E n \in Names : req' = [req EXCEPT ![h] = [op |-> "updateHttp", name |-> n]]
    <3>1. PICK n \in Names : req' = [req EXCEPT ![h] = [op |-> "updateHttp", name |-> n]]
      BY <2>2
    <3>2. [op |-> "updateHttp", name |-> n] \in Inputs
      BY DEF Inputs
    <3>3. QED
      BY <3>1, <3>2 DEF Updates, Operations
  <2>3. CASE \E i \in ServiceIds, a \in Addrs :
                req' = [req EXCEPT ![h] = [op |-> "updateTcp", id |-> i, addr |-> a]]
    <3>1. PICK i \in ServiceIds, a \in Addrs :
             req' = [req EXCEPT ![h] = [op |-> "updateTcp", id |-> i, addr |-> a]]
      BY <2>3
    <3>2. [op |-> "updateTcp", id |-> i, addr |-> a] \in Inputs
      BY <2>0 DEF Inputs
    <3>3. QED
      BY <3>1, <3>2 DEF Updates, Operations
  <2>4. CASE \E i \in ServiceIds, op \in {"updateGrpc", "delete"} :
                req' = [req EXCEPT ![h] = [op |-> op, id |-> i]]
    <3>1. PICK i \in ServiceIds, op \in {"updateGrpc", "delete"} :
             req' = [req EXCEPT ![h] = [op |-> op, id |-> i]]
      BY <2>4
    <3>2. [op |-> op, id |-> i] \in Inputs
      BY <2>0 DEF Inputs
    <3>3. QED
      BY <3>1, <3>2 DEF Updates, Operations
  <2>5. QED
    BY <2>1, <2>2, <2>3, <2>4 DEF Start
<1> DEFINE op == in.op
<1>5. req'[h] = in /\ \A g \in Handlers : g # h => req'[g] = req[g]
  BY <1>1, <1>4 DEF STypeOK
<1>6. todo' = [todo EXCEPT ![h] = Program[op]]
  BY <1>2, <1>5
<1>7. /\ todo'[h] = Program[op] /\ Left(h)' = Elements(Program[op])
      /\ Program[op] \in Seq(Steps) /\ Program[op] # <<>> /\ OrderOK(Program[op])
      /\ \A g \in Handlers : g # h => todo'[g] = todo[g]
  <2>1. op \in Operations
    BY <1>4
  <2> HIDE DEF op
  <2>2. /\ Program[op] \in Seq(Steps) /\ Program[op] # <<>> /\ OrderOK(Program[op])
    BY <2>1, Programs
  <2>3. todo'[h] = Program[op] /\ \A g \in Handlers : g # h => todo'[g] = todo[g]
    BY <1>1, <1>6 DEF STypeOK
  <2>4. QED
    BY <2>2, <2>3 DEF Left, Elements
<1>8. STypeOK'
  <2>1. todo' \in [Handlers -> Seq(Steps)]
    BY <1>1, <1>6, <1>7 DEF STypeOK
  <2>2. req' \in [Handlers -> Inputs \cup {NoRequest}]
    BY <1>1, <1>4 DEF STypeOK
  <2>3. ops' \in 0 .. MaxOps
    BY <1>1, <1>2, ServiceAdminAssumption DEF STypeOK
  <2>4. raced' \in [Handlers -> BOOLEAN] /\ late' \in [Handlers -> BOOLEAN]
    BY <1>1, <1>2 DEF STypeOK
  <2>5. QED
    BY <1>1, <1>2, <2>1, <2>2, <2>3, <2>4 DEF STypeOK
<1>9. RequestOK(h)'
  <2>1. OpOK(h)'
    <3>0. op \in Operations
      BY <1>4
    <3>1. todo'[h] # <<>> /\ req'[h].op # "none" /\ req'[h].op = op
      BY <1>4, <1>5, <1>7 DEF Operations, Adds, Updates
    <3> HIDE DEF op
    <3>2. row'[h] = NoRow
      BY <1>2, <1>3
    <3>3. op \in Adds =>
             /\ Left(h)' \cap (Reads \cup {"setDeleted"}) = {}
             /\ Parts \cup {"begin"} \subseteq Left(h)'
      <4>1. SUFFICES ASSUME op \in Adds
                     PROVE  /\ Left(h)' \cap (Reads \cup {"setDeleted"}) = {}
                            /\ Parts \cup {"begin"} \subseteq Left(h)'
        OBVIOUS
      <4>2. /\ Elements(Program[op]) \cap (Reads \cup {"setDeleted"}) = {}
            /\ Parts \cup {"begin"} \subseteq Elements(Program[op])
        BY <3>0, <4>1, Programs
      <4>3. QED
        BY <1>7, <4>2, Zenon
    <3>4. op \in Updates =>
             /\ Left(h)' \cap (DOMAIN ChecksAt \cup {"read", "setDeleted"}) = {}
             /\ "begin" \in Left(h)'
      <4>1. SUFFICES ASSUME op \in Updates
                     PROVE  /\ Left(h)' \cap (DOMAIN ChecksAt \cup {"read", "setDeleted"}) = {}
                            /\ "begin" \in Left(h)'
        OBVIOUS
      <4>2. /\ Elements(Program[op]) \cap (DOMAIN ChecksAt \cup {"read", "setDeleted"}) = {}
            /\ "begin" \in Elements(Program[op])
        BY <3>0, <4>1, Programs
      <4>3. QED
        BY <1>7, <4>2, Zenon
    <3>5. /\ op = "updateHttp" => "detail" \notin Left(h)'
          /\ op = "delete" => Left(h)' \subseteq {"read", "setDeleted"}
          /\ op \in Updates \cup {"delete"} => Left(h)' \cap Reads # {}
      BY <1>7, <3>0, Programs
    <3>6. QED
      BY <1>5, <3>1, <3>2, <3>3, <3>4, <3>5 DEF OpOK
  <2>3. RowOK(h)'
    BY <1>2, <1>3 DEF RowOK
  <2>4. FreeOK(h)'
    <3>1. op \in Adds \ {"addHttp"} => {"name", "tcp", "grpc"} \subseteq Left(h)'
      BY <1>4, <1>7, Programs
    <3>2. op = "addHttp" => "lookup" \in Left(h)'
      BY <1>4, <1>7, Programs
    <3>3. QED
      BY <1>5, <3>1, <3>2 DEF FreeOK
  <2>5. QED
    BY <1>7, <2>1, <2>3, <2>4 DEF RequestOK
<1>10. ASSUME NEW g \in Handlers, g # h PROVE RequestOK(g)'
  <2>1. RequestOK(g)
    BY <1>1 DEF RequestsInv
  <2>2. Same(g)
    BY <1>2, <1>5, <1>7, <1>10 DEF Same
  <2>3. (late[g] => late'[g]) /\ (raced[g] => raced'[g])
    BY <1>1, <1>2, <1>10 DEF STypeOK
  <2>4. nextId' \in Nat /\ nextId <= nextId'
    BY <1>1, <1>2 DEF STypeOK
  <2>5. QED
    BY <1>1, <1>2, <2>1, <2>2, <2>3, <2>4, OthersKeep
<1>11. TableInv' /\ PoolInv'
  BY <1>1, <1>2, PoolKept DEF TableInv, OwnersInv, SameListener
<1>12. QED
  BY <1>8, <1>9, <1>10, <1>11 DEF SIInv, RequestsInv

\* A request that is answered, and no service written.
LEMMA AnswerKeeps ==
    ASSUME SIInv, NEW h \in Handlers, Answer(h),
           UNCHANGED <<table, strays, nextId, ops, raced, late, racedAdds, moved>>,
           failures' \in 0 .. MaxFailures, lost' \in 0 .. MaxOpen,
           gaveUp' \in 0 .. MaxOpen, PoolInv'
    PROVE  SIInv'
<1>1. STypeOK /\ TableInv /\ RequestsInv
  BY DEF SIInv
<1>2. /\ RequestOK(h)'
      /\ todo' \in [Handlers -> Seq(Steps)]
      /\ req' \in [Handlers -> Inputs \cup {NoRequest}]
      /\ row' \in [Handlers -> Services \cup {NoRow}] /\ row'[h] = NoRow
      /\ conn' \in [Handlers -> BOOLEAN]
      /\ \A g \in Handlers : g # h => Same(g)
  BY <1>1, AnswerOK
<1>3. STypeOK'
  BY <1>1, <1>2 DEF STypeOK
<1>4. ASSUME NEW g \in Handlers, g # h PROVE RequestOK(g)'
  <2>1. RequestOK(g) /\ Same(g)
    BY <1>1, <1>2, <1>4 DEF RequestsInv
  <2>2. nextId' \in Nat /\ nextId <= nextId'
    BY <1>1 DEF STypeOK
  <2>3. ASSUME NEW x \in Handlers PROVE row'[x].id = row[x].id \/ row'[x].id = 0
    <3>1. CASE x = h
      <4>1. NoRow.id = 0
        BY DEF NoRow
      <4>2. QED
        BY <1>2, <3>1, <4>1
    <3>2. CASE x # h
      BY <1>2, <3>2 DEF Same
    <3>3. QED
      BY <3>1, <3>2
  <2>4. QED
    BY <1>1, <2>1, <2>2, <2>3, OthersKeep
<1>5. TableInv'
  BY <1>1 DEF TableInv, OwnersInv, SameListener
<1>6. QED
  BY <1>2, <1>3, <1>4, <1>5 DEF SIInv, RequestsInv

\* A request that goes on, and no service written.
LEMMA ProceedKeeps ==
    ASSUME SIInv, NEW h \in Handlers, NEW step, At(h, step), Proceed(h), step \notin Ends,
           UNCHANGED <<table, strays, req, lost, ops, late, racedAdds, moved, gaveUp>>,
           nextId' \in Nat \ {0}, nextId <= nextId',
           failures' \in 0 .. MaxFailures,
           row' \in [Handlers -> Services \cup {NoRow}],
           conn' \in [Handlers -> BOOLEAN],
           raced' \in [Handlers -> BOOLEAN],
           \A g \in Handlers : g # h => /\ row'[g] = row[g] /\ conn'[g] = conn[g]
                                        /\ raced'[g] = raced[g],
           \/ row'[h].id = row[h].id \/ row'[h].id = nextId
           \/ \E r \in table : row'[h].id = r.id,
           OpOK(h)', RowOK(h)', FreeOK(h)', PoolInv'
    PROVE  SIInv'
<1>1. STypeOK /\ TableInv /\ RequestsInv
  BY DEF SIInv
<1>2. OrderOK(todo[h])
  BY <1>1 DEF RequestsInv, RequestOK
<1>3. /\ todo' \in [Handlers -> Seq(Steps)] /\ OrderOK(todo'[h])
      /\ \A g \in Handlers : g # h => todo'[g] = todo[g]
  BY <1>1, <1>2, ProceedLeft
<1>4. STypeOK'
  <2>1. ASSUME NEW r \in table PROVE r.id < nextId'
    <3>1. r.id < nextId /\ r.id \in Nat /\ nextId \in Nat
      BY <1>1, TableTypes DEF STypeOK
    <3>2. QED
      BY <3>1
  <2>2. QED
    BY <1>1, <1>3, <2>1 DEF STypeOK
<1>5. RequestOK(h)'
  BY <1>2, <1>3 DEF RequestOK
<1>6. ASSUME NEW g \in Handlers, g # h PROVE RequestOK(g)'
  <2>1. RequestOK(g) /\ Same(g)
    BY <1>1, <1>3, <1>6 DEF RequestsInv, Same
  <2>2. \A x \in Handlers : \/ row'[x].id = row[x].id \/ row'[x].id \in {0, nextId}
                            \/ \E r \in table : row'[x].id = r.id
    OBVIOUS
  <2>3. (late[g] => late'[g]) /\ (raced[g] => raced'[g]) /\ nextId' \in Nat
    BY <1>6
  <2>4. QED
    BY <1>1, <2>1, <2>2, <2>3, OthersKeep
<1>7. TableInv'
  BY <1>1 DEF TableInv, OwnersInv, SameListener
<1>8. QED
  BY <1>4, <1>5, <1>6, <1>7 DEF SIInv, RequestsInv

\* What a request has left tells what it is.
LEMMA StepMeansOp ==
    ASSUME SIInv, NEW h \in Handlers, NEW step, At(h, step)
    PROVE  /\ step \in Left(h) /\ step \in Steps
           /\ req[h].op \in Operations
           /\ step \in DOMAIN ChecksAt => req[h].op \in Adds
           /\ step = "find" => req[h].op \in Updates
           /\ step = "detail" => req[h].op \in {"updateTcp", "updateGrpc"}
           /\ step = "read" => req[h].op = "delete"
           /\ step \in Parts \cup {"begin", "commit"} => req[h].op \in Adds \cup Updates
           /\ step = "setDeleted" => req[h].op = "delete"
<1>1. STypeOK /\ OpOK(h)
  BY DEF SIInv, RequestsInv, RequestOK
<1>2. /\ todo[h] # <<>> /\ step \in Left(h) /\ step \in Steps
  BY <1>1, AtStep
<1>3. req[h].op \in Operations
  BY <1>1, <1>2, InputTypes DEF OpOK, Ordinary
<1>4. \/ req[h].op \in Adds \/ req[h].op = "updateHttp"
      \/ req[h].op \in {"updateTcp", "updateGrpc"} \/ req[h].op = "delete"
  BY <1>3 DEF Operations, Updates
<1>5. CASE req[h].op \in Adds
  <2>1. step \notin Reads \cup {"setDeleted"}
    BY <1>1, <1>2, <1>5 DEF OpOK
  <2>2. QED
    BY <1>2, <1>3, <1>5, <2>1 DEF Reads
<1>6. CASE req[h].op \in Updates
  <2>1. step \notin DOMAIN ChecksAt \cup {"read", "setDeleted"}
    BY <1>1, <1>2, <1>6 DEF OpOK
  <2>2. req[h].op = "updateHttp" => step # "detail"
    BY <1>1, <1>2 DEF OpOK
  <2>3. QED
    BY <1>2, <1>3, <1>6, <2>1, <2>2 DEF Updates
<1>7. CASE req[h].op = "delete"
  <2>1. step \in {"read", "setDeleted"}
    BY <1>1, <1>2, <1>7 DEF OpOK
  <2>2. QED
    BY <1>2, <1>3, <1>7, <2>1, ChecksAtDomain DEF Parts
<1>8. QED
  BY <1>4, <1>5, <1>6, <1>7 DEF Updates

\* OpOK of a request that goes on with the row it has.
LEMMA OpKeeps ==
    ASSUME SIInv, NEW h \in Handlers, NEW step, At(h, step), Proceed(h),
           step \notin Ends \cup Reads \cup Parts, req'[h] = req[h], row'[h] = row[h],
           conn'[h] = (conn[h] \/ step = "begin")
    PROVE  OpOK(h)'
<1>1. STypeOK /\ OpOK(h) /\ OrderOK(todo[h])
  BY DEF SIInv, RequestsInv, RequestOK
<1>2. /\ Left(h)' \subseteq Left(h) /\ Left(h) \subseteq Left(h)' \cup {step}
      /\ todo'[h] # <<>>
  BY <1>1, ProceedLeft
<1>3. req'[h].op = req[h].op /\ req[h].op \in Operations /\ req[h].op # "none"
  BY StepMeansOp DEF Operations, Adds, Updates
<1>4. req[h].op \in Adds =>
         /\ Left(h)' \cap (Reads \cup {"setDeleted"}) = {}
         /\ \A part \in Parts :
               part \in Left(h)' \/ (row'[h] # NoRow /\ part \in row'[h].parts)
  BY <1>1, <1>2 DEF OpOK
<1>5. /\ req[h].op \in Updates =>
            Left(h)' \cap (DOMAIN ChecksAt \cup {"read", "setDeleted"}) = {}
      /\ req[h].op = "updateHttp" => "detail" \notin Left(h)'
      /\ req[h].op = "delete" => Left(h)' \subseteq {"read", "setDeleted"}
  BY <1>1, <1>2 DEF OpOK
<1>6. req[h].op \in Updates \cup {"delete"} => (row'[h] = NoRow <=> Left(h)' \cap Reads # {})
  <2>1. Left(h)' \cap Reads = Left(h) \cap Reads
    BY <1>2
  <2>2. QED
    BY <1>1, <2>1 DEF OpOK
<1>7. req[h].op \in Adds \cup Updates => "begin" \in Left(h)' \/ conn'[h]
  BY <1>1, <1>2 DEF OpOK
<1>8. QED
  BY <1>2, <1>3, <1>4, <1>5, <1>6, <1>7 DEF OpOK

LEMMA CheckKeeps ==
    ASSUME SIInv, NEW h \in Handlers, Check(h)
    PROVE  SIInv'
<1>1. STypeOK /\ PoolInv /\ RowOK(h) /\ FreeOK(h) /\ OrderOK(todo[h])
  BY DEF SIInv, RequestsInv, RequestOK
<1>0. PICK step \in DOMAIN ChecksAt : \E bad \in SUBSET ChecksAt[step] :
         /\ At(h, step)
         /\ failures + Cardinality(bad) <= MaxFailures
         /\ failures' = failures + Cardinality(bad)
         /\ IF \E check \in ChecksAt[step] \ bad : InUse(check, req[h])
            THEN Answer(h) /\ UNCHANGED raced
            ELSE /\ Proceed(h)
                 /\ raced' = [raced EXCEPT ![h] = @ \/ bad # {}]
                 /\ UNCHANGED <<req, row, conn>>
  BY DEF Check
<1>2. PICK bad \in SUBSET ChecksAt[step] :
         /\ At(h, step)
         /\ failures + Cardinality(bad) <= MaxFailures
         /\ failures' = failures + Cardinality(bad)
         /\ IF \E check \in ChecksAt[step] \ bad : InUse(check, req[h])
            THEN Answer(h) /\ UNCHANGED raced
            ELSE /\ Proceed(h)
                 /\ raced' = [raced EXCEPT ![h] = @ \/ bad # {}]
                 /\ UNCHANGED <<req, row, conn>>
  BY <1>0
<1>3. UNCHANGED <<table, strays, nextId, lost, ops, late, racedAdds, moved, gaveUp>>
  BY DEF Check
<1>4. Cardinality(bad) \in Nat
  <2>1. ChecksAt[step] \subseteq {"name", "http", "tcp", "grpc"}
    BY DEF ChecksAt
  <2>2. IsFiniteSet({"name"}) /\ IsFiniteSet({"http"}) /\ IsFiniteSet({"tcp"})
        /\ IsFiniteSet({"grpc"})
    BY FS_Singleton
  <2>3. IsFiniteSet({"name"} \cup {"http"}) /\ IsFiniteSet({"tcp"} \cup {"grpc"})
    BY <2>2, FS_Union
  <2>4. IsFiniteSet(({"name"} \cup {"http"}) \cup ({"tcp"} \cup {"grpc"}))
    BY <2>3, FS_Union
  <2>5. bad \subseteq ({"name"} \cup {"http"}) \cup ({"tcp"} \cup {"grpc"})
    BY <1>2, <2>1
  <2>6. IsFiniteSet(bad)
    BY <2>4, <2>5, FS_Subset
  <2>7. QED
    BY <2>6, FS_CardinalityType
<1>5. failures' \in 0 .. MaxFailures
  BY <1>1, <1>2, <1>4, ServiceAdminAssumption DEF STypeOK
<1>6. CASE Answer(h) /\ UNCHANGED raced
  <2>1. lost' \in 0 .. MaxOpen /\ gaveUp' \in 0 .. MaxOpen
    BY <1>1, <1>3 DEF STypeOK
  <2>2. PoolInv'
    BY <1>1, <1>3, <1>6, PoolAfterAnswer
  <2>3. QED
    BY <1>3, <1>5, <1>6, <2>1, <2>2, AnswerKeeps
<1>7. CASE /\ \A check \in ChecksAt[step] \ bad : ~ InUse(check, req[h])
           /\ Proceed(h)
           /\ raced' = [raced EXCEPT ![h] = @ \/ bad # {}]
           /\ UNCHANGED <<req, row, conn>>
  <2>1. /\ Left(h)' \subseteq Left(h) /\ Left(h) \subseteq Left(h)' \cup {step}
    BY <1>1, <1>2, <1>7, ProceedLeft
  <2>2. step \notin Ends \cup Reads \cup Parts /\ step # "begin" /\ step \notin Ends
    BY <1>0, ChecksAtDomain DEF Ends, Reads, Parts
  <2>3. OpOK(h)'
    <3>1. conn'[h] = (conn[h] \/ step = "begin")
      <4>1. conn[h] \in BOOLEAN /\ conn'[h] = conn[h]
        BY <1>1, <1>7 DEF STypeOK
      <4>2. QED
        BY <2>2, <4>1
    <3>2. QED
      BY <1>2, <1>7, <2>2, <3>1, OpKeeps
  <2>4. RowOK(h)'
    <3>1. CASE row[h] = NoRow
      BY <1>7, <3>1 DEF RowOK
    <3>2. CASE row[h] # NoRow /\ req[h].op \in Adds
      BY <1>1, <1>3, <1>7, <3>2 DEF RowOK
    <3>3. CASE row[h] # NoRow /\ req[h].op \notin Adds
      BY <1>1, <1>3, <1>7, <3>3 DEF RowOK
    <3>4. QED
      BY <3>1, <3>2, <3>3
  <2>5. raced' \in [Handlers -> BOOLEAN] /\ \A g \in Handlers : g # h => raced'[g] = raced[g]
    BY <1>1, <1>7 DEF STypeOK
  <2>6. FreeOK(h)'
    <3>1. SUFFICES ASSUME req[h].op \in Adds, ~ raced'[h] PROVE FreeOK(h)'
      BY <1>7 DEF FreeOK
    <3>2. bad = {} /\ ~ raced[h]
      BY <1>1, <1>7, <3>1 DEF STypeOK
    <3>3. \A check \in ChecksAt[step] : \A r \in table :
             IF check = "name" THEN r.name # req[h].name
             ELSE r.kind = check => r.addr # req[h].addr
      BY <1>7, <3>2 DEF InUse
    <3>4. Left(h)' \cap {"name", "lookup"} = {} => \A r \in table : r.name # req[h].name
      <4>1. CASE step \in {"name", "lookup"}
        <5>1. "name" \in ChecksAt[step]
          BY <4>1 DEF ChecksAt
        <5>2. QED
          BY <3>3, <5>1
      <4>2. CASE step \notin {"name", "lookup"}
        BY <1>1, <2>1, <3>1, <3>2, <4>2 DEF FreeOK
      <4>3. QED
        BY <4>1, <4>2
    <3>5. ASSUME NEW check \in {"tcp", "grpc"}, req[h].op # "addHttp", check \notin Left(h)'
          PROVE  \A r \in table : r.kind = check /\ r.addr = req[h].addr => r.id \in moved
      <4>1. CASE step = check
        <5>1. check \in ChecksAt[step] /\ check # "name"
          BY <4>1 DEF ChecksAt
        <5>2. QED
          BY <3>3, <5>1
      <4>2. CASE step # check
        BY <1>1, <2>1, <3>1, <3>2, <3>5, <4>2 DEF FreeOK
      <4>3. QED
        BY <4>1, <4>2
    <3>6. ASSUME req[h].op = "addHttp", "lookup" \notin Left(h)'
          PROVE  \A r \in table : r.kind = "http" /\ r.addr = req[h].addr => r.id \in moved
      <4>1. CASE step = "lookup"
        <5>1. "http" \in ChecksAt[step]
          BY <4>1 DEF ChecksAt
        <5>2. QED
          BY <3>3, <5>1
      <4>2. CASE step # "lookup"
        BY <1>1, <2>1, <3>1, <3>2, <3>6, <4>2 DEF FreeOK
      <4>3. QED
        BY <4>1, <4>2
    <3>7. QED
      BY <1>3, <1>7, <3>4, <3>5, <3>6 DEF FreeOK
  <2>7. nextId' \in Nat \ {0} /\ nextId <= nextId'
    BY <1>1, <1>3 DEF STypeOK
  <2>8. row' \in [Handlers -> Services \cup {NoRow}] /\ conn' \in [Handlers -> BOOLEAN]
    BY <1>1, <1>7 DEF STypeOK
  <2>9. PoolInv'
    BY <1>1, <1>3, <1>7, PoolKept
  <2>10. QED
    BY <1>2, <1>3, <1>5, <1>7, <2>2, <2>3, <2>4, <2>5, <2>6, <2>7, <2>8, <2>9, ProceedKeeps
<1>8. QED
  BY <1>2, <1>6, <1>7

LEMMA BeginKeeps ==
    ASSUME SIInv, NEW h \in Handlers, Begin(h)
    PROVE  SIInv'
<1>1. /\ STypeOK /\ PoolInv /\ RowOK(h) /\ FreeOK(h) /\ OpOK(h) /\ OrderOK(todo[h])
  BY DEF SIInv, RequestsInv, RequestOK
<1>2. /\ At(h, "begin") /\ Free /\ Proceed(h) /\ conn' = [conn EXCEPT ![h] = TRUE]
      /\ UNCHANGED <<table, strays, nextId, req, row, lost, ops, failures,
                     raced, late, racedAdds, moved, gaveUp>>
  BY DEF Begin, histories
<1>3. Left(h)' \subseteq Left(h) /\ Left(h) \subseteq Left(h)' \cup {"begin"}
  BY <1>1, <1>2, ProceedLeft
<1>4. "begin" \notin Ends \cup Reads \cup Parts
  BY DEF Ends, Reads, Parts
<1>5. /\ conn' \in [Handlers -> BOOLEAN] /\ conn'[h]
      /\ \A g \in Handlers : g # h => conn'[g] = conn[g]
  BY <1>1, <1>2 DEF STypeOK
<1>6. OpOK(h)'
  <2>1. conn'[h] = (conn[h] \/ "begin" = "begin")
    BY <1>1, <1>2 DEF STypeOK
  <2>2. QED
    BY <1>2, <1>4, <2>1, OpKeeps
<1>7. RowOK(h)'
  <2>1. CASE row[h] = NoRow
    BY <1>2, <2>1 DEF RowOK
  <2>2. CASE row[h] # NoRow /\ req[h].op \in Adds
    BY <1>1, <1>2, <2>2 DEF RowOK
  <2>3. CASE row[h] # NoRow /\ req[h].op \notin Adds
    BY <1>1, <1>2, <2>3 DEF RowOK
  <2>4. QED
    BY <2>1, <2>2, <2>3
<1>8. FreeOK(h)'
  <2>1. \A check \in {"name", "lookup", "tcp", "grpc"} :
           check \in Left(h) <=> check \in Left(h)'
    BY <1>3
  <2>2. QED
    BY <1>1, <1>2, <2>1 DEF FreeOK
<1>9. PoolInv'
  <2>1. /\ Cardinality(Held) \in Nat /\ Cardinality(Held') \in Nat
        /\ Cardinality(Held') = Cardinality(Held) + 1 - (IF conn[h] THEN 1 ELSE 0)
    BY <1>1, <1>2, HeldCount
  <2>2. lost + Cardinality(Held) < MaxOpen /\ lost \in Int /\ MaxOpen \in Int
    BY <1>1, <1>2, ServiceAdminAssumption DEF Free, Held, STypeOK
  <2>3. Cardinality(Held') <= Cardinality(Held) + 1
    BY <2>1
  <2>4. lost + Cardinality(Held') <= MaxOpen
    BY <2>1, <2>2, <2>3
  <2>5. QED
    BY <1>1, <1>2, <2>4 DEF PoolInv, Held
<1>10. /\ nextId' \in Nat \ {0} /\ nextId <= nextId' /\ failures' \in 0 .. MaxFailures
       /\ row' \in [Handlers -> Services \cup {NoRow}] /\ raced' \in [Handlers -> BOOLEAN]
  BY <1>1, <1>2 DEF STypeOK
<1>11. QED
  BY <1>2, <1>4, <1>5, <1>6, <1>7, <1>8, <1>9, <1>10, ProceedKeeps

\* A request that has read row r of the table goes on with it.
LEMMA ReadKeeps ==
    ASSUME SIInv, NEW h \in Handlers, NEW step \in Reads, At(h, step), Proceed(h),
           NEW r \in table, row' = [row EXCEPT ![h] = r],
           failures' \in 0 .. MaxFailures,
           UNCHANGED <<table, strays, nextId, req, conn, lost, ops, raced, late, racedAdds, moved,
                       gaveUp>>
    PROVE  SIInv'
<1>1. /\ STypeOK /\ TableInv /\ PoolInv /\ OpOK(h) /\ FreeOK(h) /\ OrderOK(todo[h])
  BY DEF SIInv, RequestsInv, RequestOK
<1>2. /\ Left(h)' \subseteq Left(h) /\ Left(h) \subseteq Left(h)' \cup {step}
      /\ "begin" \notin Left(h) /\ Left(h)' \cap Reads = {}
      /\ step \notin Ends => todo'[h] # <<>>
  BY <1>1, ProceedLeft
<1>3. step \notin Ends
  BY DEF Reads, Ends
<1>4. r \in Services /\ r # NoRow /\ r.parts = Parts
  BY <1>1, TableTypes DEF TableInv
<1>5. /\ row' \in [Handlers -> Services \cup {NoRow}] /\ row'[h] = r
      /\ \A g \in Handlers : g # h => row'[g] = row[g]
  BY <1>1, <1>4 DEF STypeOK
<1>6. req[h].op \in Updates \cup {"delete"} /\ req[h].op \notin Adds /\ req[h].op # "none"
  BY StepMeansOp DEF Updates, Adds, Reads
<1>7. OpOK(h)'
  <2>1. req[h].op \in Updates =>
           Left(h)' \cap (DOMAIN ChecksAt \cup {"read", "setDeleted"}) = {}
    BY <1>1, <1>2 DEF OpOK
  <2>2. /\ req[h].op = "updateHttp" => "detail" \notin Left(h)'
        /\ req[h].op = "delete" => Left(h)' \subseteq {"read", "setDeleted"}
    BY <1>1, <1>2 DEF OpOK
  <2>3. req[h].op \in Adds \cup Updates => conn[h]
    BY <1>1, <1>2 DEF OpOK
  <2>4. row'[h] # NoRow
    BY <1>4, <1>5
  <2>5. QED
    BY <1>2, <1>3, <1>6, <2>1, <2>2, <2>3, <2>4 DEF OpOK
<1>8. RowOK(h)'
  BY <1>4, <1>5, <1>6 DEF RowOK
<1>9. FreeOK(h)'
  BY <1>6 DEF FreeOK
<1>10. /\ nextId' \in Nat \ {0} /\ nextId <= nextId'
       /\ conn' \in [Handlers -> BOOLEAN] /\ raced' \in [Handlers -> BOOLEAN]
  BY <1>1 DEF STypeOK
<1>11. PoolInv'
  BY <1>1, PoolKept
<1>12. \E t \in table : row'[h].id = t.id
  BY <1>5
<1>13. QED
  BY <1>3, <1>5, <1>7, <1>8, <1>9, <1>10, <1>11, <1>12, ProceedKeeps

LEMMA FindKeeps ==
    ASSUME SIInv, NEW h \in Handlers, Find(h)
    PROVE  SIInv'
<1>1. STypeOK /\ PoolInv
  BY DEF SIInv
<1>2. /\ At(h, "find")
      /\ UNCHANGED <<table, strays, nextId, lost, ops, raced, late, racedAdds, moved, gaveUp>>
  BY DEF Find, histories
<1>3. CASE /\ \E r \in table : r.name = req[h].name /\ row' = [row EXCEPT ![h] = Copy(r)]
           /\ Proceed(h)
           /\ UNCHANGED <<req, conn, failures>>
  <2>1. PICK r \in table : row' = [row EXCEPT ![h] = r]
    BY <1>3 DEF Copy
  <2>2. "find" \in Reads /\ failures' \in 0 .. MaxFailures
    BY <1>1, <1>3 DEF Reads, STypeOK
  <2>3. QED
    BY <1>2, <1>3, <2>1, <2>2, ReadKeeps
<1>4. CASE /\ (\E r \in table : r.name = req[h].name) => Fails
           /\ (\A r \in table : r.name # req[h].name) => UNCHANGED failures
           /\ Answer(h)
  <2>1. Fails \/ UNCHANGED failures
    BY <1>4
  <2>2. failures' \in 0 .. MaxFailures /\ lost' \in 0 .. MaxOpen /\ gaveUp' \in 0 .. MaxOpen
    BY <1>1, <1>2, <2>1, ServiceAdminAssumption DEF STypeOK, Fails
  <2>3. PoolInv'
    BY <1>1, <1>2, <1>4, PoolAfterAnswer
  <2>4. QED
    BY <1>2, <1>4, <2>2, <2>3, AnswerKeeps
<1>5. QED
  BY <1>3, <1>4 DEF Find

LEMMA DetailKeeps ==
    ASSUME SIInv, NEW h \in Handlers, Detail(h)
    PROVE  SIInv'
<1>1. STypeOK /\ PoolInv /\ OpOK(h) /\ OrderOK(todo[h])
  BY DEF SIInv, RequestsInv, RequestOK
<1>2. /\ At(h, "detail") /\ Free
      /\ UNCHANGED <<table, strays, nextId, ops, raced, late, racedAdds, moved>>
  BY DEF Detail
<1>3. req[h].op \in {"updateTcp", "updateGrpc"}
  BY <1>2, StepMeansOp
<1>4. CASE ReadRow(h)
  <2>2. PICK r \in table : row' = [row EXCEPT ![h] = r]
    BY <1>4 DEF ReadRow, Copy
  <2>3. Proceed(h) /\ UNCHANGED <<req, conn, lost, failures, gaveUp>>
    BY <1>4 DEF ReadRow
  <2>4. "detail" \in Reads /\ failures' \in 0 .. MaxFailures
    BY <1>1, <2>3 DEF Reads, STypeOK
  <2>5. QED
    BY <1>2, <2>2, <2>3, <2>4, ReadKeeps
<1>5. CASE ReadError(h) /\ lost' = lost + 1 /\ gaveUp' = gaveUp + 1
  <2>0. Answer(h) /\ (Fails \/ UNCHANGED failures)
    BY <1>5 DEF ReadError
  <2>1. "begin" \notin Left(h)
    <3>1. todo[h] \in Seq(Steps) /\ todo[h] # <<>> /\ Head(todo[h]) = "detail"
      BY <1>1, <1>2, AtStep
    <3>2. QED
      BY <1>1, <3>1, OrderAtHead DEF Left, Reads
  <2>2. conn[h] /\ conn' = [conn EXCEPT ![h] = FALSE]
    BY <1>1, <1>3, <2>0, <2>1 DEF OpOK, Updates, Answer
  <2>3. /\ Cardinality(Held) \in Nat /\ Cardinality(Held') \in Nat
        /\ Cardinality(Held') = Cardinality(Held) + 0 - 1
    BY <1>1, <2>2, HeldCount
  <2>4. lost + Cardinality(Held) < MaxOpen /\ lost \in Nat /\ MaxOpen \in Nat /\ gaveUp = lost
    BY <1>1, <1>2, ServiceAdminAssumption DEF Free, Held, STypeOK, PoolInv
  <2>5. lost' + Cardinality(Held') <= MaxOpen /\ gaveUp' = lost'
    BY <1>5, <2>3, <2>4
  <2>6. PoolInv'
    BY <2>5 DEF PoolInv, Held
  <2>7. lost' \in 0 .. MaxOpen /\ gaveUp' \in 0 .. MaxOpen
    BY <1>5, <2>3, <2>4
  <2>8. failures' \in 0 .. MaxFailures
    BY <1>1, <2>0, ServiceAdminAssumption DEF STypeOK, Fails
  <2>9. QED
    BY <1>2, <2>0, <2>6, <2>7, <2>8, AnswerKeeps
<1>6. QED
  BY <1>4, <1>5 DEF Detail

LEMMA ReadStepKeeps ==
    ASSUME SIInv, NEW h \in Handlers, Read(h)
    PROVE  SIInv'
<1>1. STypeOK /\ PoolInv
  BY DEF SIInv, RequestsInv, RequestOK
<1>2. /\ At(h, "read")
      /\ UNCHANGED <<table, strays, nextId, ops, raced, late, racedAdds, moved>>
  BY DEF Read
<1>3. req[h].op = "delete"
  BY <1>2, StepMeansOp
<1>4. CASE ReadRow(h)
  <2>2. PICK r \in table : row' = [row EXCEPT ![h] = r]
    BY <1>4 DEF ReadRow, Copy
  <2>3. Proceed(h) /\ UNCHANGED <<req, conn, lost, failures, gaveUp>>
    BY <1>4 DEF ReadRow
  <2>4. "read" \in Reads /\ failures' \in 0 .. MaxFailures
    BY <1>1, <2>3 DEF Reads, STypeOK
  <2>5. QED
    BY <1>2, <2>2, <2>3, <2>4, ReadKeeps
<1>5. CASE ReadError(h) /\ UNCHANGED <<lost, gaveUp>>
  <2>0. Answer(h) /\ (Fails \/ UNCHANGED failures)
    BY <1>5 DEF ReadError
  <2>1. failures' \in 0 .. MaxFailures /\ lost' \in 0 .. MaxOpen /\ gaveUp' \in 0 .. MaxOpen
    BY <1>1, <1>5, <2>0, ServiceAdminAssumption DEF STypeOK, Fails
  <2>2. PoolInv'
    BY <1>1, <1>5, <2>0, PoolAfterAnswer
  <2>3. QED
    BY <1>2, <1>5, <2>0, <2>1, <2>2, AnswerKeeps
<1>6. QED
  BY <1>4, <1>5 DEF Read

\* A row that is saved has its id, and its other tables one row more.
LEMMA SaveKeeps ==
    ASSUME SIInv, NEW h \in Handlers, Save(h)
    PROVE  SIInv'
<1>1. /\ STypeOK /\ PoolInv /\ OpOK(h) /\ RowOK(h) /\ FreeOK(h) /\ OrderOK(todo[h])
  BY DEF SIInv, RequestsInv, RequestOK
<1>2. UNCHANGED <<table, strays, ops, raced, late, racedAdds, moved, gaveUp>>
  BY DEF Save, histories
<1>3. PICK part \in Parts :
         /\ At(h, part)
         /\ \/ /\ IF row[h] = NoRow
                  THEN /\ row' = [row EXCEPT ![h] =
                             [id |-> nextId, name |-> req[h].name,
                              addr |-> req[h].addr, kind |-> KindOf[req[h].op],
                              deleted |-> FALSE, parts |-> {part}]]
                       /\ nextId' = nextId + 1
                  ELSE /\ row' = [row EXCEPT
                             ![h].parts = @ \cup {part},
                             ![h].addr = IF part = "rule" /\ MovesPort(h)
                                         THEN req[h].addr ELSE @]
                       /\ UNCHANGED nextId
               /\ Proceed(h)
               /\ UNCHANGED <<req, conn, lost, failures>>
            \/ Fails /\ Answer(h) /\ lost' = lost + Leak /\ UNCHANGED nextId
  BY DEF Save, IdAfter
<1>4. part \notin Ends \cup Reads /\ part # "begin"
      /\ part \notin {"name", "lookup", "tcp", "grpc"}
  BY DEF Ends, Reads, Parts
<1>5. req[h].op \in Adds \cup Updates
  BY <1>3, StepMeansOp
<1>6. CASE Fails /\ Answer(h) /\ lost' = lost + Leak /\ UNCHANGED nextId
  <2>1. lost' = lost
    BY <1>1, <1>6 DEF STypeOK, Leak
  <2>2. failures' \in 0 .. MaxFailures /\ lost' \in 0 .. MaxOpen /\ gaveUp' \in 0 .. MaxOpen
    BY <1>1, <1>2, <1>6, <2>1, ServiceAdminAssumption DEF STypeOK, Fails
  <2>3. PoolInv'
    BY <1>1, <1>2, <1>6, <2>1, PoolAfterAnswer
  <2>4. QED
    BY <1>2, <1>6, <2>2, <2>3, AnswerKeeps
<1>7. ASSUME Proceed(h), UNCHANGED <<req, conn, lost, failures>>
      PROVE  /\ Left(h)' \subseteq Left(h) /\ Left(h) \subseteq Left(h)' \cup {part}
             /\ todo'[h] # <<>> /\ Left(h) \cap Reads = {} /\ FreeOK(h)'
             /\ failures' \in 0 .. MaxFailures /\ PoolInv'
             /\ conn' \in [Handlers -> BOOLEAN] /\ raced' \in [Handlers -> BOOLEAN]
  <2>1. /\ Left(h)' \subseteq Left(h) /\ Left(h) \subseteq Left(h)' \cup {part}
        /\ todo'[h] # <<>> /\ Left(h) \cap Reads = {}
    BY <1>1, <1>3, <1>4, <1>7, ProceedLeft
  <2>2. \A check \in {"name", "lookup", "tcp", "grpc"} :
           check \in Left(h) <=> check \in Left(h)'
    BY <1>4, <2>1
  <2>3. FreeOK(h)'
    BY <1>1, <1>2, <1>7, <2>2 DEF FreeOK
  <2>4. QED
    BY <1>1, <1>2, <1>7, <2>1, <2>3, PoolKept DEF STypeOK
<1>8. CASE /\ row[h] = NoRow
           /\ row' = [row EXCEPT ![h] =
                 [id |-> nextId, name |-> req[h].name, addr |-> req[h].addr,
                  kind |-> KindOf[req[h].op], deleted |-> FALSE, parts |-> {part}]]
           /\ nextId' = nextId + 1
           /\ Proceed(h) /\ UNCHANGED <<req, conn, lost, failures>>
  <2> DEFINE new == [id |-> nextId, name |-> req[h].name, addr |-> req[h].addr,
                     kind |-> KindOf[req[h].op], deleted |-> FALSE, parts |-> {part}]
  <2>1. req[h].op \in Adds
    <3>1. req[h].op \in Updates => FALSE
      BY <1>1, <1>7, <1>8 DEF OpOK
    <3>2. QED
      BY <1>5, <3>1
  <2>2. new \in Services /\ nextId \in Nat \ {0} /\ new # NoRow
    <3>1. req[h].name \in Names /\ req[h].addr \in Addrs /\ nextId \in Nat \ {0}
      BY <1>1, <2>1, InputTypes DEF STypeOK
    <3>2. KindOf[req[h].op] \in {"http", "tcp", "grpc"}
      BY <2>1 DEF KindOf, Adds
    <3>3. {part} \subseteq Parts
      OBVIOUS
    <3>4. new \in Services
      BY <3>1, <3>2, <3>3 DEF Services
    <3>5. new.id # NoRow.id
      BY <3>1 DEF NoRow
    <3>6. QED
      BY <3>1, <3>4, <3>5
  <2>3. /\ row' \in [Handlers -> Services \cup {NoRow}] /\ row'[h] = new
        /\ \A g \in Handlers : g # h => row'[g] = row[g]
    BY <1>1, <1>8, <2>2 DEF STypeOK
  <2>4. OpOK(h)'
    <3>1. Left(h)' \cap (Reads \cup {"setDeleted"}) = {}
      BY <1>1, <1>7, <1>8, <2>1 DEF OpOK
    <3>2. \A p \in Parts : p \in Left(h)' \/ p \in new.parts
      BY <1>1, <1>7, <1>8, <2>1 DEF OpOK
    <3>3. "begin" \in Left(h)' \/ conn'[h]
      BY <1>1, <1>4, <1>7, <1>8, <2>1 DEF OpOK
    <3>4. req'[h].op \in Adds /\ req'[h].op \notin Updates \cup {"delete", "none"}
      BY <1>8, <2>1 DEF Adds, Updates
    <3>5. QED
      BY <1>7, <1>8, <2>2, <2>3, <3>1, <3>2, <3>3, <3>4 DEF OpOK, Updates
  <2>5. RowOK(h)'
    <3>1. nextId < nextId'
      BY <1>8, <2>2
    <3>2. \A r \in table : r.id # nextId
      <4>1. ASSUME NEW r \in table PROVE r.id # nextId
        <5>1. r.id \in Nat /\ r.id < nextId /\ nextId \in Nat
          BY <1>1, <2>2, TableTypes
        <5>2. QED
          BY <5>1
      <4>2. QED
        BY <4>1
    <3>3. ASSUME NEW g \in Handlers, g # h PROVE row'[g].id # nextId
      <4>1. row[g].id < nextId /\ row[g].id \in Nat /\ nextId \in Nat
        BY <1>1, <2>2, RowIds, RowTypes
      <4>2. QED
        BY <2>3, <3>3, <4>1
    <3>4. QED
      BY <1>2, <1>8, <2>1, <2>2, <2>3, <3>1, <3>2, <3>3 DEF RowOK
  <2>6. nextId' \in Nat \ {0} /\ nextId <= nextId'
    BY <1>8, <2>2
  <2>7. row'[h].id = nextId
    BY <2>3
  <2>8. \A g \in Handlers : g # h => /\ row'[g] = row[g] /\ conn'[g] = conn[g]
                                     /\ raced'[g] = raced[g]
    BY <1>2, <1>8, <2>3
  <2>9. part \notin Ends
    BY <1>4
  <2>10. QED
    BY <1>2, <1>3, <1>7, <1>8, <2>3, <2>4, <2>5, <2>6, <2>7, <2>8, <2>9, ProceedKeeps
<1>9. CASE /\ row[h] # NoRow
           /\ row' = [row EXCEPT
                 ![h].parts = @ \cup {part},
                 ![h].addr = IF part = "rule" /\ MovesPort(h)
                             THEN req[h].addr ELSE @]
           /\ UNCHANGED nextId
           /\ Proceed(h) /\ UNCHANGED <<req, conn, lost, failures>>
  <2> DEFINE new == row'[h]
  <2>1. row[h] \in Services /\ row[h].id \in Nat \ {0}
    BY <1>1, <1>9, RowTypes
  <2>2. /\ new \in Services /\ new.id = row[h].id /\ new.name = row[h].name
        /\ new.kind = row[h].kind /\ new.deleted = row[h].deleted
        /\ new.parts = row[h].parts \cup {part}
        /\ new.addr = row[h].addr \/ req[h].op = "updateTcp"
        /\ \A g \in Handlers : g # h => row'[g] = row[g]
        /\ row' \in [Handlers -> Services \cup {NoRow}]
    <3> DEFINE a == IF part = "rule" /\ MovesPort(h) THEN req[h].addr
                    ELSE row[h].addr
    <3>1. row' = [row EXCEPT ![h] = [row[h] EXCEPT !.parts = @ \cup {part}, !.addr = a]]
      BY <1>1, <1>9, <2>1 DEF STypeOK, Services
    <3>2. a \in Addrs /\ (a = row[h].addr \/ req[h].op = "updateTcp")
      BY <1>1, <2>1, InputTypes DEF Services, MovesPort
    <3> HIDE DEF a
    <3>3. new = [row[h] EXCEPT !.parts = @ \cup {part}, !.addr = a]
      BY <1>1, <3>1 DEF STypeOK
    <3>4. /\ new \in Services /\ new.id = row[h].id /\ new.name = row[h].name
          /\ new.kind = row[h].kind /\ new.deleted = row[h].deleted
          /\ new.parts = row[h].parts \cup {part} /\ new.addr = a
      <4>1. PICK i \in Nat \ {0}, n \in Names, d \in Addrs, k \in {"http", "tcp", "grpc"},
                 b \in BOOLEAN, q \in SUBSET Parts :
               row[h] = [id |-> i, name |-> n, addr |-> d, kind |-> k,
                         deleted |-> b, parts |-> q]
        BY <2>1 DEF Services
      <4> HIDE DEF new
      <4>2. new = [id |-> i, name |-> n, addr |-> a, kind |-> k, deleted |-> b,
                   parts |-> q \cup {part}]
        <5> DEFINE old == [id |-> i, name |-> n, addr |-> d, kind |-> k,
                           deleted |-> b, parts |-> q]
        <5>1. new = [old EXCEPT !.parts = old.parts \cup {part}, !.addr = a]
          BY <3>3, <4>1
        <5>2. QED
          BY <5>1
      <4>3. q \cup {part} \in SUBSET Parts
        OBVIOUS
      <4>4. new \in Services
        BY <3>2, <4>2, <4>3 DEF Services
      <4>5. QED
        BY <4>1, <4>2, <4>4
    <3>5. /\ row' \in [Handlers -> Services \cup {NoRow}]
          /\ \A g \in Handlers : g # h => row'[g] = row[g]
      BY <1>1, <3>1, <3>3, <3>4 DEF STypeOK
    <3>6. QED
      BY <3>2, <3>4, <3>5
  <2>3. new # NoRow
    <3>1. new.id # NoRow.id
      BY <2>1, <2>2 DEF NoRow
    <3>2. QED
      BY <3>1
  <2>4. OpOK(h)'
    <3>1. req'[h].op = req[h].op /\ req[h].op \notin {"none", "delete"}
      BY <1>5, <1>9 DEF Adds, Updates
    <3>2. req[h].op \in Adds =>
             /\ Left(h)' \cap (Reads \cup {"setDeleted"}) = {}
             /\ \A p \in Parts : p \in Left(h)' \/ p \in new.parts
      BY <1>1, <1>7, <1>9, <2>2 DEF OpOK
    <3>3. req[h].op \in Updates =>
             Left(h)' \cap (DOMAIN ChecksAt \cup {"read", "setDeleted"}) = {}
      BY <1>1, <1>7, <1>9 DEF OpOK
    <3>4. req[h].op = "updateHttp" => "detail" \notin Left(h)'
      BY <1>1, <1>7, <1>9 DEF OpOK
    <3>5. "begin" \in Left(h)' \/ conn'[h]
      BY <1>1, <1>4, <1>5, <1>7, <1>9 DEF OpOK
    <3>6. Left(h)' \cap Reads = {} /\ todo'[h] # <<>>
      BY <1>7, <1>9
    <3>7. QED
      BY <2>3, <3>1, <3>2, <3>3, <3>4, <3>5, <3>6 DEF OpOK
  <2>5. RowOK(h)'
    <3>1. CASE req[h].op \in Adds
      <4>1. req[h].op # "updateTcp"
        BY <3>1 DEF Adds
      <4>2. new.addr = row[h].addr
        BY <2>2, <4>1
      <4>3. QED
        BY <1>1, <1>2, <1>9, <2>2, <2>3, <3>1, <4>2 DEF RowOK
    <3>2. CASE req[h].op \notin Adds
      <4>1. new.parts = Parts
        BY <1>1, <1>9, <2>2, <3>2 DEF RowOK
      <4>2. PICK r \in table : /\ r.id = row[h].id /\ r.name = row[h].name
                               /\ r.kind = row[h].kind
                               /\ \/ r.addr = row[h].addr \/ req[h].op = "updateTcp"
                                  \/ r.id \in moved
                               /\ r.deleted /\ ~ row[h].deleted => late[h]
        BY <1>1, <1>9, <3>2 DEF RowOK
      <4>3. /\ r.id = new.id /\ r.name = new.name /\ r.kind = new.kind
            /\ \/ r.addr = new.addr \/ req[h].op = "updateTcp" \/ r.id \in moved
            /\ r.deleted /\ ~ new.deleted => late[h]
        BY <2>2, <4>2
      <4>4. QED
        BY <1>2, <1>9, <3>2, <4>1, <4>3 DEF RowOK
    <3>3. QED
      BY <3>1, <3>2
  <2>6. nextId' \in Nat \ {0} /\ nextId <= nextId'
    BY <1>1, <1>9 DEF STypeOK
  <2>7. row'[h].id = row[h].id
    BY <2>2
  <2>8. \A g \in Handlers : g # h => /\ row'[g] = row[g] /\ conn'[g] = conn[g]
                                     /\ raced'[g] = raced[g]
    BY <1>2, <1>9, <2>2
  <2>9. part \notin Ends /\ row' \in [Handlers -> Services \cup {NoRow}]
    BY <1>4, <2>2
  <2>10. QED
    BY <1>2, <1>3, <1>7, <1>9, <2>4, <2>5, <2>6, <2>7, <2>8, <2>9, ProceedKeeps
<1>10. QED
  BY <1>3, <1>6, <1>8, <1>9

\* What request g relies on when h writes the row of a service that is there.
LEMMA OthersKeepRewritten ==
    ASSUME STypeOK, STypeOK', NEW h \in Handlers, NEW g \in Handlers, g # h,
           RequestOK(g), Same(g),
           nextId' = nextId, moved \subseteq moved', late[g] => late'[g],
           raced[g] => raced'[g],
           \A x \in Handlers : row'[x].id = row[x].id \/ row'[x].id = 0,
           \A t \in table' : \E r \in table :
              /\ r.id = t.id /\ r.name = t.name /\ r.kind = t.kind
              /\ r.addr = t.addr \/ t.id \in moved',
           \A r \in table : \E t \in table' :
              /\ t.id = r.id /\ t.name = r.name /\ t.kind = r.kind
              /\ t.addr = r.addr \/ r.id \in moved'
              /\ t.deleted /\ ~ r.deleted /\ row[g].id = r.id => late'[g]
    PROVE  RequestOK(g)'
<1>1. OrderOK(todo[g]) /\ OpOK(g) /\ RowOK(g) /\ FreeOK(g)
  BY DEF RequestOK
<1>2. /\ todo'[g] = todo[g] /\ req'[g] = req[g] /\ row'[g] = row[g] /\ conn'[g] = conn[g]
      /\ Left(g)' = Left(g)
  BY DEF Same, Left, Elements
<1>3. OrderOK(todo'[g]) /\ OpOK(g)'
  BY <1>1, <1>2 DEF OpOK
<1>5. RowOK(g)'
  <2>1. CASE row[g] = NoRow
    BY <1>2, <2>1 DEF RowOK
  <2>2. CASE row[g] # NoRow /\ req[g].op \in Adds
    <3>1. \A r \in table : r.id # row[g].id
      BY <1>1, <2>2 DEF RowOK
    <3>2. \A t \in table' : t.id # row[g].id
      BY <3>1
    <3>3. row[g].id # 0
      BY <2>2, RowTypes
    <3>4. \A x \in Handlers : x # g => row'[x].id # row[g].id
      BY <1>1, <2>2, <3>3 DEF RowOK
    <3>5. QED
      BY <1>1, <1>2, <2>2, <3>2, <3>4 DEF RowOK
  <2>3. CASE row[g] # NoRow /\ req[g].op \notin Adds
    <3>1. PICK r \in table : /\ r.id = row[g].id /\ r.name = row[g].name
                             /\ r.kind = row[g].kind
                             /\ \/ r.addr = row[g].addr \/ req[g].op = "updateTcp"
                                \/ r.id \in moved
                             /\ r.deleted /\ ~ row[g].deleted => late[g]
      BY <1>1, <2>3 DEF RowOK
    <3>2. PICK t \in table' :
             /\ t.id = r.id /\ t.name = r.name /\ t.kind = r.kind
             /\ t.addr = r.addr \/ r.id \in moved'
             /\ t.deleted /\ ~ r.deleted /\ row[g].id = r.id => late'[g]
      OBVIOUS
    <3>3. t.addr = row[g].addr \/ req[g].op = "updateTcp" \/ t.id \in moved'
      BY <3>1, <3>2
    <3>4. t.deleted /\ ~ row[g].deleted => late'[g]
      <4>1. r.deleted \in BOOLEAN
        BY TableTypes DEF Services
      <4>2. QED
        BY <3>1, <3>2, <4>1
    <3>5. QED
      BY <1>1, <1>2, <2>3, <3>1, <3>2, <3>3, <3>4 DEF RowOK
  <2>4. QED
    BY <2>1, <2>2, <2>3
<1>6. FreeOK(g)'
  <2>1. SUFFICES ASSUME req[g].op \in Adds, ~ raced[g] PROVE FreeOK(g)'
    BY <1>2 DEF FreeOK
  <2>2. Left(g) \cap {"name", "lookup"} = {} => \A t \in table' : t.name # req[g].name
    BY <1>1, <2>1 DEF FreeOK
  <2>3. ASSUME NEW check \in {"tcp", "grpc"}, req[g].op # "addHttp", check \notin Left(g)
        PROVE  \A t \in table' : t.kind = check /\ t.addr = req[g].addr => t.id \in moved'
    BY <1>1, <2>1, <2>3 DEF FreeOK
  <2>4. ASSUME req[g].op = "addHttp", "lookup" \notin Left(g)
        PROVE  \A t \in table' : t.kind = "http" /\ t.addr = req[g].addr => t.id \in moved'
    BY <1>1, <2>1, <2>4 DEF FreeOK
  <2>5. QED
    BY <1>2, <2>2, <2>3, <2>4 DEF FreeOK
<1>7. QED
  BY <1>3, <1>5, <1>6 DEF RequestOK

\* The table after such a write: the names and ids as before, the addresses too
\* unless moved.
LEMMA TableKeepsRewritten ==
    ASSUME STypeOK, TableInv, racedAdds \subseteq racedAdds', moved \subseteq moved',
           \A t \in table' : t.parts = Parts,
           \A t, u \in table' : t.id = u.id => t = u,
           \A t \in table' : \E r \in table :
              /\ r.id = t.id /\ r.name = t.name /\ r.kind = t.kind
              /\ r.addr = t.addr \/ t.id \in moved'
    PROVE  TableInv'
<1>1. ASSUME NEW t \in table', NEW u \in table', t.id # u.id
      PROVE  /\ t.name = u.name => t.id \in racedAdds' \/ u.id \in racedAdds'
             /\ SameListener(t, u) => \/ t.id \in racedAdds' \cup moved'
                                      \/ u.id \in racedAdds' \cup moved'
  <2>1. PICK r \in table : /\ r.id = t.id /\ r.name = t.name /\ r.kind = t.kind
                           /\ r.addr = t.addr \/ t.id \in moved'
    OBVIOUS
  <2>2. PICK s \in table : /\ s.id = u.id /\ s.name = u.name /\ s.kind = u.kind
                           /\ s.addr = u.addr \/ u.id \in moved'
    OBVIOUS
  <2>3. /\ r.name = s.name => r.id \in racedAdds \/ s.id \in racedAdds
        /\ SameListener(r, s) => \/ r.id \in racedAdds \cup moved
                                 \/ s.id \in racedAdds \cup moved
    BY <1>1, <2>1, <2>2 DEF TableInv, OwnersInv
  <2>4. t.id \in moved' \/ u.id \in moved' \/ (SameListener(t, u) => SameListener(r, s))
    BY <2>1, <2>2 DEF SameListener
  <2>5. QED
    BY <2>1, <2>2, <2>3, <2>4
<1>2. OwnersInv'
  BY <1>1 DEF OwnersInv, SameListener
<1>3. QED
  BY <1>2 DEF TableInv

\* A commit that fails writes nothing; one that does not either adds a service
\* or writes one that is there.
LEMMA CommitsRow ==
    ASSUME SIInv, NEW h \in Handlers, At(h, "commit")
    PROVE  /\ row[h] # NoRow /\ row[h] \in Services /\ row[h].parts = Parts
           /\ Left(h) = {"commit"}
           /\ req[h].op \in Adds \cup Updates
           /\ req[h].op \in Adds => \A r \in table : r.id # row[h].id
           /\ req[h].op \in Updates => req[h].op \notin Adds
<1>1. STypeOK /\ OpOK(h) /\ RowOK(h) /\ OrderOK(todo[h])
  BY DEF SIInv, RequestsInv, RequestOK
<1>2. todo[h] \in Seq(Steps) /\ todo[h] # <<>> /\ Head(todo[h]) = "commit"
  BY <1>1, AtStep
<1>3. Left(h) = {"commit"}
  BY <1>1, <1>2, OrderAtHead DEF Left, Ends
<1>4. req[h].op \in Adds \cup Updates
  BY StepMeansOp
<1>5. req[h].op \in Updates => req[h].op \notin Adds
  BY DEF Updates, Adds
<1>6. \A part \in Parts : part \notin Left(h)
  BY <1>3 DEF Parts
<1>7. "info" \in Parts
  BY DEF Parts
<1>8. CASE req[h].op \in Adds
  <2>1. row[h] # NoRow /\ Parts \subseteq row[h].parts
    BY <1>1, <1>6, <1>7, <1>8 DEF OpOK
  <2>2. row[h] \in Services /\ row[h].parts \subseteq Parts
    BY <1>1, <2>1, RowTypes DEF Services
  <2>3. QED
    BY <1>1, <1>3, <1>4, <1>5, <1>8, <2>1, <2>2 DEF RowOK
<1>9. CASE req[h].op \in Updates
  <2>1. row[h] # NoRow
    BY <1>1, <1>3, <1>9 DEF OpOK, Reads
  <2>2. row[h] \in Services /\ row[h].parts = Parts
    BY <1>1, <1>5, <1>9, <2>1, RowTypes DEF RowOK
  <2>3. QED
    BY <1>3, <1>4, <1>5, <1>9, <2>1, <2>2
<1>10. QED
  BY <1>4, <1>8, <1>9

\* What a commit writes is the row held, with the address of the table unless the
\* request has saved one.
LEMMA WrittenRow ==
    ASSUME STypeOK, TableInv, NEW h \in Handlers, row[h] \in Services, row[h].parts = Parts,
           req[h].op \in Adds \cup Updates, req[h].op \in Updates => req[h].op \notin Adds,
           RowOK(h), row[h] # NoRow
    PROVE  LET w == Written(h) IN
           /\ w \in Services /\ w.id = row[h].id /\ w.name = row[h].name
           /\ w.kind = row[h].kind /\ w.deleted = row[h].deleted /\ w.parts = Parts
           /\ req[h].op \in Adds \/ MovesPort(h) => w = row[h]
           /\ req[h].op \in Updates /\ ~ MovesPort(h) =>
                 \A r \in table : r.id = row[h].id => w.addr = r.addr
<1>1. CASE req[h].op \in Adds \/ MovesPort(h)
  BY <1>1 DEF Written
<1>2. CASE req[h].op \notin Adds /\ ~ MovesPort(h)
  <2> DEFINE there == CHOOSE r \in table : r.id = row[h].id
             w == [row[h] EXCEPT !.addr = there.addr]
  <2>1. \E r \in table : r.id = row[h].id
    BY <1>2 DEF RowOK
  <2>2. there \in table /\ there.id = row[h].id
    BY <2>1
  <2>3. there \in Services /\ \A r \in table : r.id = row[h].id => r = there
    BY <2>2 DEF TableInv, STypeOK
  <2> HIDE DEF there
  <2>4. there.addr \in Addrs
    BY <2>3 DEF Services
  <2>5. /\ w \in Services /\ w.id = row[h].id /\ w.name = row[h].name
        /\ w.kind = row[h].kind /\ w.deleted = row[h].deleted /\ w.parts = row[h].parts
        /\ w.addr = there.addr
    BY <2>4 DEF Services
  <2>6. Written(h) = w
    BY <1>2 DEF Written, there
  <2>7. QED
    BY <1>2, <2>3, <2>5, <2>6
<1>3. QED
  BY <1>1, <1>2

LEMMA StrayTypes ==
    ASSUME STypeOK, NEW h \in Handlers, Stray(h), row[h].id \in Nat \ {0}
    PROVE  strays' \subseteq Strays
<1>1. CASE req[h].op # "updateTcp" \/ MovesPort(h)
  BY <1>1 DEF Stray, STypeOK
<1>2. CASE req[h].op = "updateTcp" /\ ~ MovesPort(h)
  <2>1. PICK old \in SUBSET {s \in strays : s.id = row[h].id} :
           strays' = (strays \ old) \cup {[id |-> row[h].id, addr |-> req[h].addr]}
    BY <1>2 DEF Stray
  <2>2. req[h].addr \in Addrs
    BY <1>2, InputTypes
  <2>3. QED
    BY <2>1, <2>2 DEF Strays, STypeOK
<1>3. QED
  BY <1>1, <1>2

LEMMA CommitKeeps ==
    ASSUME SIInv, NEW h \in Handlers, Commit(h)
    PROVE  SIInv'
<1>1. STypeOK /\ TableInv /\ PoolInv /\ RowOK(h) /\ FreeOK(h) /\ RequestsInv
  BY DEF SIInv, RequestsInv, RequestOK
<1>2. At(h, "commit") /\ Answer(h) /\ UNCHANGED <<nextId, lost, ops, gaveUp>>
  BY DEF Commit
<1>3. PoolInv'
  BY <1>1, <1>2, PoolAfterAnswer
<1>4. /\ RequestOK(h)'
      /\ todo' \in [Handlers -> Seq(Steps)]
      /\ req' \in [Handlers -> Inputs \cup {NoRequest}]
      /\ row' \in [Handlers -> Services \cup {NoRow}] /\ row'[h] = NoRow
      /\ conn' \in [Handlers -> BOOLEAN]
      /\ \A g \in Handlers : g # h => Same(g)
  BY <1>1, <1>2, AnswerOK
<1>5. CASE Fails /\ UNCHANGED <<table, strays, raced, late, racedAdds, moved>>
  <2>1. failures' \in 0 .. MaxFailures /\ lost' \in 0 .. MaxOpen /\ gaveUp' \in 0 .. MaxOpen
    BY <1>1, <1>2, <1>5, ServiceAdminAssumption DEF STypeOK, Fails
  <2>2. QED
    BY <1>2, <1>3, <1>5, <2>1, AnswerKeeps
<1>6. CASE /\ table' = {r \in table : r.id # row[h].id} \cup {Written(h)}
           /\ Stray(h)
           /\ IF req[h].op \in Adds
              THEN /\ raced' = [g \in Handlers |-> raced[g] \/ (g # h /\ Busy(g))]
                   /\ racedAdds' = IF raced[h] THEN racedAdds \cup {row[h].id} ELSE racedAdds
              ELSE UNCHANGED <<raced, racedAdds>>
           /\ moved' = IF MovesPort(h) THEN moved \cup {row[h].id} ELSE moved
           /\ IF row[h].deleted THEN DeletedFor(h, row[h]) ELSE UNCHANGED late
           /\ UNCHANGED failures
  <2>1. /\ row[h] # NoRow /\ row[h] \in Services /\ row[h].parts = Parts
        /\ Left(h) = {"commit"} /\ req[h].op \in Adds \cup Updates
        /\ req[h].op \in Adds => \A r \in table : r.id # row[h].id
        /\ req[h].op \in Updates => req[h].op \notin Adds
    BY <1>2, CommitsRow
  <2>2. row[h].id \in Nat \ {0} /\ row[h].id < nextId
    BY <1>1, <2>1, RowTypes, RowIds
  <2> DEFINE w == Written(h)
  <2>15. /\ w \in Services /\ w.id = row[h].id /\ w.name = row[h].name
         /\ w.kind = row[h].kind /\ w.deleted = row[h].deleted /\ w.parts = Parts
         /\ req[h].op \in Adds \/ MovesPort(h) => w = row[h]
         /\ req[h].op \in Updates /\ ~ MovesPort(h) =>
               \A r \in table : r.id = row[h].id => w.addr = r.addr
    BY <1>1, <2>1, WrittenRow
  <2> HIDE DEF w
  <2>16. strays' \subseteq Strays
    BY <1>1, <1>6, <2>2, StrayTypes
  <2>3. /\ late' \in [Handlers -> BOOLEAN] /\ \A g \in Handlers : late[g] => late'[g]
        /\ row[h].deleted => \A g \in Handlers : g # h /\ row[g].id = row[h].id => late'[g]
    <3>1. CASE row[h].deleted
      BY <1>1, <1>6, <3>1 DEF DeletedFor, STypeOK
    <3>2. CASE ~ row[h].deleted
      BY <1>1, <1>6, <3>2 DEF STypeOK
    <3>3. QED
      BY <3>1, <3>2
  <2>4. raced' \in [Handlers -> BOOLEAN] /\ \A g \in Handlers : raced[g] => raced'[g]
    <3>1. CASE req[h].op \in Adds
      BY <1>1, <1>6, <3>1 DEF STypeOK
    <3>2. CASE req[h].op \notin Adds
      BY <1>1, <1>6, <3>2 DEF STypeOK
    <3>3. QED
      BY <3>1, <3>2
  <2>5. racedAdds \subseteq racedAdds' /\ racedAdds' \subseteq Nat
    BY <1>1, <1>6, <2>2 DEF STypeOK
  <2>6. moved \subseteq moved' /\ moved' \subseteq Nat
    BY <1>1, <1>6, <2>2 DEF STypeOK
  <2>7. \A t \in table' : t = w \/ (t \in table /\ t.id # row[h].id)
    BY <1>6 DEF w
  <2>8. STypeOK'
    <3>1. table' \subseteq Services
      BY <1>1, <2>7, <2>15 DEF STypeOK
    <3>2. \A t \in table' : t.id < nextId'
      BY <1>1, <1>2, <2>2, <2>7, <2>15 DEF STypeOK
    <3>3. /\ nextId' \in Nat \ {0} /\ lost' \in 0 .. MaxOpen /\ ops' \in 0 .. MaxOps
          /\ failures' \in 0 .. MaxFailures /\ gaveUp' \in 0 .. MaxOpen
      BY <1>1, <1>2, <1>6 DEF STypeOK
    <3>4. QED
      BY <1>4, <2>3, <2>4, <2>5, <2>6, <2>16, <3>1, <3>2, <3>3 DEF STypeOK
  <2>9. \A t, u \in table' : t.id = u.id => t = u
    BY <1>1, <2>7, <2>15 DEF TableInv
  <2>10. \A t \in table' : t.parts = Parts
    BY <1>1, <2>7, <2>15 DEF TableInv
  <2>11. ASSUME NEW x \in Handlers PROVE row'[x].id = row[x].id \/ row'[x].id = 0
    <3>1. CASE x = h
      <4>1. NoRow.id = 0
        BY DEF NoRow
      <4>2. QED
        BY <1>4, <3>1, <4>1
    <3>2. CASE x # h
      BY <1>4, <3>2 DEF Same
    <3>3. QED
      BY <3>1, <3>2
  <2>12. CASE req[h].op \in Adds
    <3>1. table' = table \cup {row[h]} /\ moved' = moved
      <4>1. ~ MovesPort(h) /\ w = row[h]
        BY <2>12, <2>15 DEF Adds, MovesPort
      <4>2. QED
        BY <1>6, <2>1, <2>12, <4>1 DEF w
    <3>2. raced[h] => row[h].id \in racedAdds'
      BY <1>6, <2>12
    <3>3. row[h].name = req[h].name /\ row[h].addr = req[h].addr
          /\ row[h].kind = KindOf[req[h].op]
      BY <1>1, <2>1, <2>12 DEF RowOK
    <3>4. ASSUME NEW r \in table, ~ raced[h]
          PROVE  r.name # row[h].name /\ (SameListener(r, row[h]) => r.id \in moved)
      <4>1. /\ Left(h) \cap {"name", "lookup"} = {} /\ "lookup" \notin Left(h)
            /\ "tcp" \notin Left(h) /\ "grpc" \notin Left(h)
        BY <2>1
      <4>2. r.name # row[h].name
        BY <1>1, <2>12, <3>3, <3>4, <4>1 DEF FreeOK
      <4>3. CASE req[h].op = "addHttp"
        <5>1. row[h].kind = "http"
          BY <3>3, <4>3 DEF KindOf
        <5>2. r.kind = "http" /\ r.addr = req[h].addr => r.id \in moved
          BY <1>1, <2>12, <3>4, <4>1, <4>3 DEF FreeOK
        <5>3. QED
          BY <3>3, <4>2, <5>1, <5>2 DEF SameListener
      <4>4. CASE req[h].op # "addHttp"
        <5>1. row[h].kind \in {"tcp", "grpc"}
          BY <2>12, <3>3, <4>4 DEF KindOf, Adds
        <5>2. r.kind \in {"http", "tcp", "grpc"}
          BY <1>1, TableTypes DEF Services
        <5>3. SameListener(r, row[h]) => r.kind \in {"tcp", "grpc"} /\ r.addr = req[h].addr
          BY <3>3, <5>1, <5>2 DEF SameListener
        <5>4. \A check \in {"tcp", "grpc"} :
                 r.kind = check /\ r.addr = req[h].addr => r.id \in moved
          BY <1>1, <2>12, <3>4, <4>1, <4>4 DEF FreeOK
        <5>5. QED
          BY <4>2, <5>3, <5>4
      <4>5. QED
        BY <4>3, <4>4
    <3>5. ASSUME NEW r \in table
          PROVE  /\ r.name = row[h].name => row[h].id \in racedAdds'
                 /\ SameListener(r, row[h]) \/ SameListener(row[h], r) =>
                       r.id \in moved' \/ row[h].id \in racedAdds'
      <4>1. SameListener(row[h], r) => SameListener(r, row[h])
        BY DEF SameListener
      <4>2. raced[h] \in BOOLEAN
        BY <1>1 DEF STypeOK
      <4>3. QED
        BY <3>1, <3>2, <3>4, <4>1, <4>2
    <3>6. TableInv'
      <4>1. ASSUME NEW t \in table', NEW u \in table', t.id # u.id
            PROVE  /\ t.name = u.name => t.id \in racedAdds' \/ u.id \in racedAdds'
                   /\ SameListener(t, u) => \/ t.id \in racedAdds' \cup moved'
                                            \/ u.id \in racedAdds' \cup moved'
        <5>1. CASE t \in table /\ u \in table
          BY <1>1, <2>5, <2>6, <4>1, <5>1 DEF TableInv, OwnersInv
        <5>2. CASE t = row[h] /\ u \in table
          BY <3>5, <5>2
        <5>3. CASE t \in table /\ u = row[h]
          BY <3>5, <5>3
        <5>4. QED
          BY <2>7, <2>12, <2>15, <4>1, <5>1, <5>2, <5>3
      <4>2. OwnersInv'
        BY <4>1 DEF OwnersInv, SameListener
      <4>3. QED
        BY <2>9, <2>10, <4>2 DEF TableInv
    <3>7. ASSUME NEW g \in Handlers, g # h PROVE RequestOK(g)'
      <4>1. OrderOK(todo[g]) /\ OpOK(g) /\ RowOK(g) /\ FreeOK(g) /\ Same(g)
        BY <1>1, <1>4, <3>7 DEF RequestsInv, RequestOK
      <4>2. /\ todo'[g] = todo[g] /\ req'[g] = req[g] /\ row'[g] = row[g]
            /\ conn'[g] = conn[g] /\ Left(g)' = Left(g)
        BY <4>1 DEF Same, Left, Elements
      <4>3. OrderOK(todo'[g]) /\ OpOK(g)'
        BY <3>1, <4>1, <4>2 DEF OpOK
      <4>4. RowOK(g)'
        <5>1. CASE row[g] = NoRow
          BY <4>2, <5>1 DEF RowOK
        <5>2. CASE row[g] # NoRow /\ req[g].op \in Adds
          <6>1. \A r \in table : r.id # row[g].id
            BY <4>1, <5>2 DEF RowOK
          <6>2. row[h].id # row[g].id /\ row[g].id # 0
            BY <1>1, <3>7, <4>1, <5>2, RowTypes DEF RowOK
          <6>3. \A t \in table' : t.id # row[g].id
            BY <3>1, <6>1, <6>2
          <6>4. \A x \in Handlers : x # g => row'[x].id # row[g].id
            BY <2>11, <4>1, <5>2, <6>2 DEF RowOK
          <6>5. QED
            BY <1>2, <4>1, <4>2, <5>2, <6>3, <6>4 DEF RowOK
        <5>3. CASE row[g] # NoRow /\ req[g].op \notin Adds
          <6>1. PICK r \in table : /\ r.id = row[g].id /\ r.name = row[g].name
                                   /\ r.kind = row[g].kind
                                   /\ \/ r.addr = row[g].addr \/ req[g].op = "updateTcp"
                                      \/ r.id \in moved
                                   /\ r.deleted /\ ~ row[g].deleted => late[g]
            BY <4>1, <5>3 DEF RowOK
          <6>2. r \in table' /\ (late[g] => late'[g]) /\ moved' = moved
            BY <2>3, <3>1
          <6>3. QED
            BY <4>1, <4>2, <5>3, <6>1, <6>2 DEF RowOK
        <5>4. QED
          BY <5>1, <5>2, <5>3
      <4>5. FreeOK(g)'
        <5>1. SUFFICES ASSUME req[g].op \in Adds PROVE raced'[g]
          BY <4>2 DEF FreeOK
        <5>2. todo[g] # <<>>
          BY <4>1, <5>1 DEF OpOK, Adds
        <5>3. QED
          BY <1>6, <2>12, <3>7, <5>2 DEF Busy
      <4>6. QED
        BY <4>3, <4>4, <4>5 DEF RequestOK
    <3>8. QED
      BY <1>3, <1>4, <2>8, <3>6, <3>7 DEF SIInv, RequestsInv
  <2>13. CASE req[h].op \in Updates
    <3>1. PICK r0 \in table : /\ r0.id = row[h].id /\ r0.name = row[h].name
                              /\ r0.kind = row[h].kind
                              /\ \/ r0.addr = row[h].addr \/ req[h].op = "updateTcp"
                                 \/ r0.id \in moved
      BY <1>1, <2>1, <2>13 DEF RowOK
    <3>2. r0.addr = w.addr \/ row[h].id \in moved'
      BY <1>6, <2>13, <2>15, <3>1
    <3>3. \A t \in table' : \E r \in table :
             /\ r.id = t.id /\ r.name = t.name /\ r.kind = t.kind
             /\ r.addr = t.addr \/ t.id \in moved'
      BY <2>7, <2>15, <3>1, <3>2
    <3>4. w \in table' /\ \A r \in table : r.id # row[h].id => r \in table'
      BY <1>6 DEF w
    <3>5. TableInv'
      BY <1>1, <2>5, <2>6, <2>9, <2>10, <3>3, TableKeepsRewritten
    <3>6. ASSUME NEW g \in Handlers, g # h PROVE RequestOK(g)'
      <4>1. ASSUME NEW r \in table
            PROVE  \E t \in table' :
                      /\ t.id = r.id /\ t.name = r.name /\ t.kind = r.kind
                      /\ t.addr = r.addr \/ r.id \in moved'
                      /\ t.deleted /\ ~ r.deleted /\ row[g].id = r.id => late'[g]
        <5>1. CASE r.id # row[h].id
          BY <3>4, <5>1
        <5>2. CASE r.id = row[h].id
          <6>1. r = r0
            BY <1>1, <3>1, <5>2 DEF TableInv
          <6>2. row[h].deleted /\ row[g].id = r.id => late'[g]
            BY <2>3, <3>6, <5>2
          <6>3. QED
            BY <2>15, <3>1, <3>2, <3>4, <5>2, <6>1, <6>2
        <5>3. QED
          BY <5>1, <5>2
      <4>2. RequestOK(g) /\ Same(g) /\ nextId' = nextId
        BY <1>1, <1>2, <1>4, <3>6 DEF RequestsInv
      <4>3. (late[g] => late'[g]) /\ (raced[g] => raced'[g])
        BY <2>3, <2>4
      <4>4. QED
        BY <1>1, <2>6, <2>8, <2>11, <3>3, <3>6, <4>1, <4>2, <4>3, OthersKeepRewritten
    <3>7. QED
      BY <1>3, <1>4, <2>8, <3>5, <3>6 DEF SIInv, RequestsInv
  <2>14. QED
    BY <2>1, <2>12, <2>13
<1>7. QED
  BY <1>5, <1>6 DEF Commit

LEMMA SetDeletedKeeps ==
    ASSUME SIInv, NEW h \in Handlers, SetDeleted(h)
    PROVE  SIInv'
<1>1. STypeOK /\ TableInv /\ PoolInv /\ RequestsInv
  BY DEF SIInv
<1>2. At(h, "setDeleted") /\ Answer(h)
      /\ UNCHANGED <<strays, nextId, lost, ops, raced, racedAdds, moved, gaveUp>>
  BY DEF SetDeleted
<1>3. PoolInv'
  BY <1>1, <1>2, PoolAfterAnswer
<1>4. /\ RequestOK(h)'
      /\ todo' \in [Handlers -> Seq(Steps)]
      /\ req' \in [Handlers -> Inputs \cup {NoRequest}]
      /\ row' \in [Handlers -> Services \cup {NoRow}] /\ row'[h] = NoRow
      /\ conn' \in [Handlers -> BOOLEAN]
      /\ \A g \in Handlers : g # h => Same(g)
  BY <1>1, <1>2, AnswerOK
<1>5. CASE Fails /\ UNCHANGED <<table, late>>
  <2>1. failures' \in 0 .. MaxFailures /\ lost' \in 0 .. MaxOpen /\ gaveUp' \in 0 .. MaxOpen
    BY <1>1, <1>2, <1>5, ServiceAdminAssumption DEF STypeOK, Fails
  <2>2. QED
    BY <1>2, <1>3, <1>5, <2>1, AnswerKeeps
<1>6. CASE /\ table' = {IF r.id = row[h].id THEN [r EXCEPT !.deleted = TRUE] ELSE r :
                        r \in table}
           /\ DeletedFor(h, row[h])
           /\ UNCHANGED failures
  <2> DEFINE new(r) == IF r.id = row[h].id THEN [r EXCEPT !.deleted = TRUE] ELSE r
  <2>1. ASSUME NEW r \in table
        PROVE  /\ new(r) \in table' /\ new(r) \in Services
               /\ new(r).id = r.id /\ new(r).name = r.name /\ new(r).kind = r.kind
               /\ new(r).addr = r.addr /\ new(r).parts = r.parts
               /\ r.id # row[h].id => new(r) = r
    <3>1. r \in Services
      BY <1>1 DEF STypeOK
    <3>2. new(r) \in table'
      BY <1>6
    <3>3. /\ new(r) \in Services
          /\ new(r).id = r.id /\ new(r).name = r.name /\ new(r).kind = r.kind
          /\ new(r).addr = r.addr /\ new(r).parts = r.parts
      BY <3>1 DEF Services
    <3>4. QED
      BY <3>2, <3>3
  <2>2. \A t \in table' : \E r \in table : t = new(r)
    BY <1>6
  <2> HIDE DEF new
  <2>3. /\ late' \in [Handlers -> BOOLEAN] /\ \A g \in Handlers : late[g] => late'[g]
        /\ \A g \in Handlers : g # h /\ row[g].id = row[h].id => late'[g]
    BY <1>1, <1>6 DEF DeletedFor, STypeOK
  <2>4. STypeOK'
    <3>1. table' \subseteq Services /\ \A t \in table' : t.id < nextId'
      BY <1>1, <1>2, <2>1, <2>2 DEF STypeOK
    <3>2. /\ nextId' \in Nat \ {0} /\ lost' \in 0 .. MaxOpen /\ ops' \in 0 .. MaxOps
          /\ failures' \in 0 .. MaxFailures /\ gaveUp' \in 0 .. MaxOpen
          /\ raced' \in [Handlers -> BOOLEAN] /\ racedAdds' \subseteq Nat /\ moved' \subseteq Nat
          /\ strays' \subseteq Strays
      BY <1>1, <1>2, <1>6 DEF STypeOK
    <3>3. QED
      BY <1>4, <2>3, <3>1, <3>2 DEF STypeOK
  <2>5. ASSUME NEW t \in table', NEW u \in table', t.id = u.id PROVE t = u
    <3>1. PICK r \in table : t = new(r)
      BY <2>2
    <3>2. PICK s \in table : u = new(s)
      BY <2>2
    <3>3. r.id = s.id
      BY <2>1, <2>5, <3>1, <3>2
    <3>4. QED
      BY <1>1, <3>1, <3>2, <3>3 DEF TableInv
  <2>6. \A t \in table' : t.parts = Parts
    BY <1>1, <2>1, <2>2 DEF TableInv
  <2>7. \A t \in table' : \E r \in table :
           /\ r.id = t.id /\ r.name = t.name /\ r.kind = t.kind
           /\ r.addr = t.addr \/ t.id \in moved'
    BY <2>1, <2>2
  <2>8. TableInv'
    BY <1>1, <1>2, <2>5, <2>6, <2>7, TableKeepsRewritten
  <2>9. ASSUME NEW x \in Handlers PROVE row'[x].id = row[x].id \/ row'[x].id = 0
    <3>1. CASE x = h
      <4>1. NoRow.id = 0
        BY DEF NoRow
      <4>2. QED
        BY <1>4, <3>1, <4>1
    <3>2. CASE x # h
      BY <1>4, <3>2 DEF Same
    <3>3. QED
      BY <3>1, <3>2
  <2>10. ASSUME NEW g \in Handlers, g # h PROVE RequestOK(g)'
    <3>1. ASSUME NEW r \in table
          PROVE  \E t \in table' :
                    /\ t.id = r.id /\ t.name = r.name /\ t.kind = r.kind
                    /\ t.addr = r.addr \/ r.id \in moved'
                    /\ t.deleted /\ ~ r.deleted /\ row[g].id = r.id => late'[g]
      <4>1. new(r).deleted /\ ~ r.deleted /\ row[g].id = r.id => late'[g]
        <5>1. CASE r.id # row[h].id
          BY <2>1, <5>1
        <5>2. CASE r.id = row[h].id
          BY <2>3, <2>10, <5>2
        <5>3. QED
          BY <5>1, <5>2
      <4>2. QED
        BY <2>1, <4>1
    <3>2. RequestOK(g) /\ Same(g) /\ nextId' = nextId
      BY <1>1, <1>2, <1>4, <2>10 DEF RequestsInv
    <3>3. (late[g] => late'[g]) /\ (raced[g] => raced'[g]) /\ moved \subseteq moved'
      BY <1>2, <2>3
    <3>4. QED
      BY <1>1, <2>4, <2>7, <2>9, <2>10, <3>1, <3>2, <3>3, OthersKeepRewritten
  <2>11. QED
    BY <1>3, <1>4, <2>4, <2>8, <2>10 DEF SIInv, RequestsInv
<1>7. QED
  BY <1>5, <1>6 DEF SetDeleted

-----------------------------------------------------------------------------
(* The invariant, and what follows from it.                                *)

LEMMA ServiceAdminStarts == SInit => SIInv
<1> SUFFICES ASSUME SInit PROVE SIInv
  OBVIOUS
<1> DEFINE first == [id |-> 1, name |-> FirstName, addr |-> FirstAddr, kind |-> "tcp",
                     deleted |-> FALSE, parts |-> Parts]
<1>1. /\ table = {first} /\ strays = {} /\ nextId = 2
      /\ todo = [h \in Handlers |-> <<>>] /\ req = [h \in Handlers |-> NoRequest]
      /\ row = [h \in Handlers |-> NoRow] /\ conn = [h \in Handlers |-> FALSE]
      /\ lost = 0 /\ ops = 0 /\ failures = 0
      /\ raced = [h \in Handlers |-> FALSE] /\ late = [h \in Handlers |-> FALSE]
      /\ racedAdds = {} /\ moved = {} /\ gaveUp = 0
  BY DEF SInit
<1>2. first \in Services /\ first.id = 1 /\ first.parts = Parts
  BY ServiceAdminAssumption DEF Services
<1> HIDE DEF first
<1>3. STypeOK
  <2>1. todo \in [Handlers -> Seq(Steps)]
    <3>1. <<>> \in Seq(Steps)
      OBVIOUS
    <3>2. QED
      BY <1>1, <3>1
  <2>2. /\ table \subseteq Services /\ nextId \in Nat \ {0}
        /\ \A r \in table : r.id < nextId
    BY <1>1, <1>2
  <2>3. lost \in 0 .. MaxOpen /\ ops \in 0 .. MaxOps /\ failures \in 0 .. MaxFailures
        /\ gaveUp \in 0 .. MaxOpen
    BY <1>1, ServiceAdminAssumption
  <2>4. QED
    BY <1>1, <2>1, <2>2, <2>3 DEF STypeOK
<1>4. TableInv
  BY <1>1, <1>2 DEF TableInv, OwnersInv
<1>5. PoolInv
  <2>1. Held = {}
    BY <1>1 DEF Held
  <2>2. Cardinality(Held) = 0
    BY <2>1, FS_EmptySet
  <2>3. QED
    BY <1>1, <2>2, ServiceAdminAssumption DEF PoolInv, Held
<1>6. ASSUME NEW h \in Handlers PROVE RequestOK(h)
  <2>1. /\ todo[h] = <<>> /\ req[h].op = "none" /\ row[h] = NoRow /\ ~ conn[h]
    BY <1>1 DEF NoRequest
  <2>2. OrderOK(todo[h])
    BY <2>1 DEF OrderOK
  <2>3. QED
    BY <2>1, <2>2 DEF RequestOK, OpOK, RowOK, FreeOK, Adds, Updates
<1>7. QED
  BY <1>3, <1>4, <1>5, <1>6 DEF SIInv, RequestsInv

LEMMA ServiceAdminSteps == SIInv /\ [SNext]_svars => SIInv'
<1> SUFFICES ASSUME SIInv, [SNext]_svars PROVE SIInv'
  OBVIOUS
<1>1. CASE UNCHANGED svars
  <2>1. UNCHANGED <<table, strays, nextId, todo, req, row, conn, lost, ops, failures,
                    raced, late, racedAdds, moved, gaveUp>>
    BY <1>1 DEF svars, histories
  <2>2. STypeOK' /\ TableInv' /\ PoolInv'
    BY <2>1 DEF SIInv, STypeOK, TableInv, OwnersInv, SameListener, PoolInv
  <2>3. ASSUME NEW h \in Handlers PROVE RequestOK(h)'
    <3>1. RequestOK(h) /\ STypeOK
      BY DEF SIInv, RequestsInv
    <3>2. Same(h) /\ nextId' \in Nat /\ nextId <= nextId'
      BY <2>1, <3>1 DEF Same, STypeOK
    <3>3. QED
      BY <2>1, <3>1, <3>2, OthersKeep
  <2>4. QED
    BY <2>2, <2>3 DEF SIInv, RequestsInv
<1>2. ASSUME NEW h \in Handlers, Start(h) \/ Step(h) PROVE SIInv'
  <2>1. CASE Start(h)
    BY <2>1, StartKeeps
  <2>2. CASE Check(h)
    BY <2>2, CheckKeeps
  <2>3. CASE Begin(h)
    BY <2>3, BeginKeeps
  <2>4. CASE Find(h)
    BY <2>4, FindKeeps
  <2>5. CASE Detail(h)
    BY <2>5, DetailKeeps
  <2>6. CASE Read(h)
    BY <2>6, ReadStepKeeps
  <2>7. CASE Save(h)
    BY <2>7, SaveKeeps
  <2>8. CASE Commit(h)
    BY <2>8, CommitKeeps
  <2>9. CASE SetDeleted(h)
    BY <2>9, SetDeletedKeeps
  <2>10. QED
    BY <1>2, <2>1, <2>2, <2>3, <2>4, <2>5, <2>6, <2>7, <2>8, <2>9 DEF Step
<1>3. QED
  BY <1>1, <1>2 DEF SNext

LEMMA ServiceAdminInvariant == SSpec => []SIInv
BY ServiceAdminStarts, ServiceAdminSteps, PTL DEF SSpec

\* The state of the service handlers has its types, and the pool lends no more
\* connections than it has: those that are lost are lost to updates that left on
\* an error of ServiceDetail, and no other handler keeps one.
THEOREM ServiceTypesCorrect == SSpec => [](STypeOK /\ PoolAccounted)
<1>1. SIInv => STypeOK /\ PoolAccounted
  BY DEF SIInv, PoolInv, PoolAccounted
<1>2. QED
  BY <1>1, ServiceAdminInvariant, PTL

\* For any number of requests and failures, a service is in the tables with all
\* its parts or not at all.
THEOREM NoHalfServices == SSpec => []ServicesComplete
<1>1. SIInv => ServicesComplete
  BY DEF SIInv, TableInv, ServicesComplete
<1>2. QED
  BY <1>1, ServiceAdminInvariant, PTL

\* For any number of requests and failures, two services that are loaded share a
\* name or a port only after a raced add or an update that moved a port.
THEOREM ServicesUnique == SSpec => []UniqueUnlessRaced
<1>1. SIInv => UniqueUnlessRaced
  <2>1. SUFFICES ASSUME SIInv, NEW r \in table, NEW s \in table, r.id # s.id
                 PROVE  /\ r.name = s.name => {r.id, s.id} \cap racedAdds # {}
                        /\ SameListener(r, s) =>
                              {r.id, s.id} \cap (racedAdds \cup moved) # {}
    BY DEF UniqueUnlessRaced
  <2>2. QED
    BY <2>1 DEF SIInv, TableInv, OwnersInv
<1>2. QED
  BY <1>1, ServiceAdminInvariant, PTL

\* A deleted service comes back only by an update that had read it before it
\* was deleted, whichever handlers run beside it.
THEOREM RevivalsOverlap == SSpec => RevivedByOverlapOnly
<1> DEFINE A == \A r \in table, s \in table' :
                   r.id = s.id /\ r.deleted /\ ~ s.deleted =>
                      \E h \in Handlers : late[h] /\ row[h].id = r.id
<1>1. SIInv /\ [SNext]_svars => [A]_svars
  <2>1. SUFFICES ASSUME SIInv, SNext, NEW r \in table, NEW s \in table',
                        r.id = s.id, r.deleted, ~ s.deleted
                 PROVE  \E h \in Handlers : late[h] /\ row[h].id = r.id
    BY DEF svars
  <2>2. /\ STypeOK /\ \A t, u \in table : t.id = u.id => t = u
    BY <2>1 DEF SIInv, TableInv
  <2>3. s \notin table
    BY <2>1, <2>2
  <2>4. PICK h \in Handlers : Start(h) \/ Step(h)
    BY <2>1 DEF SNext
  <2>5. Commit(h) \/ SetDeleted(h)
    BY <2>1, <2>3, <2>4 DEF Step, Start, Check, Begin, Find, Detail, Read, Save, ReadRow
  <2>6. CASE Commit(h)
    <3>0. s = Written(h) /\ At(h, "commit")
      BY <2>1, <2>3, <2>6 DEF Commit
    <3>2. RowOK(h) /\ row[h] # NoRow
      BY <2>1, <3>0, CommitsRow DEF SIInv, RequestsInv, RequestOK
    <3>1. s.id = row[h].id /\ s.deleted = row[h].deleted
      BY <2>1, <2>2, <3>0, <3>2, CommitsRow, WrittenRow DEF SIInv
    <3>3. CASE req[h].op \in Adds
      BY <2>1, <3>1, <3>2, <3>3 DEF RowOK
    <3>4. CASE req[h].op \notin Adds
      <4>1. PICK t \in table : t.id = row[h].id /\ (t.deleted /\ ~ row[h].deleted => late[h])
        BY <3>2, <3>4 DEF RowOK
      <4>2. t = r
        BY <2>1, <2>2, <3>1, <4>1
      <4>3. QED
        BY <2>1, <3>1, <4>1, <4>2
    <3>5. QED
      BY <3>3, <3>4
  <2>7. CASE SetDeleted(h)
    <3>1. PICK t \in table :
             s = IF t.id = row[h].id THEN [t EXCEPT !.deleted = TRUE] ELSE t
      BY <2>1, <2>3, <2>7 DEF SetDeleted
    <3>2. t \in Services
      BY <2>2 DEF STypeOK
    <3>3. s.deleted
      BY <2>3, <3>1, <3>2 DEF Services
    <3>4. QED
      BY <2>1, <3>3
  <2>8. QED
    BY <2>5, <2>6, <2>7
<1>2. QED
  BY <1>1, ServiceAdminInvariant, PTL DEF SSpec, RevivedByOverlapOnly

=============================================================================
