------------------------------ MODULE Tenants ------------------------------
(***************************************************************************)
(* A tenant's row from the dashboard to the token that is honoured for it: *)
(* AppAdd, AppUpdate and APPDelete (controller/app.go) write gateway_app,  *)
(* LoadOnce (dao/app.go) reads it once per gateway process, Tokens         *)
(* (controller/oauth.go) issues a token to whoever knows the tenant's      *)
(* secret, and HTTPJwtAuthTokenMiddleware finds the tenant of a token.     *)
(*                                                                         *)
(* The dashboard's requests check and save in two calls, without a         *)
(* transaction or a unique key, and save the whole row they read.  A token *)
(* carries the tenant's app_id and nothing else of the row; it is kept by  *)
(* no one but its holder, so that it outlives the gateway.                 *)
(***************************************************************************)
EXTENDS Naturals, Sequences

CONSTANTS Requests,   \* requests of the dashboard in flight
          AppIDs, Secrets,
          MaxRows,    \* bound: rows ever inserted
          MaxLoads,   \* bound: starts of the gateway
          MaxFaults   \* bound: database calls that fail

ASSUME TenantsAssumption == {MaxRows, MaxLoads, MaxFaults} \subseteq Nat

VARIABLES
    rows,       \* gateway_app; the id of a row is its place
    job,        \* what a dashboard request has read, or NoJob
    AppSlice,   \* AppManager.AppSlice, which is sorted by id
    up,         \* the gateway runs
    tokens,     \* the tokens that have not expired
    loads, faults,
    gone,       \* history: rows whose deletion was answered with success
    goneBefore, \* history: gone when the gateway loaded
    revived,    \* history: rows deleted while an update of them was under way
    doubtful,   \* history: rows whose app_id was not checked, or checked
                \* before another row was inserted
    loaded      \* history: the load met no failing query

vars == <<rows, job, AppSlice, up, tokens, loads, faults, gone, goneBefore, revived, doubtful,
          loaded>>

NoJob == [op |-> "none", id |-> 0, row |-> <<>>]
Ids   == DOMAIN rows

Row   == [app : AppIDs, secret : Secrets, deleted : BOOLEAN]

Job   == [op : {"none", "add", "update", "delete"}, id : 0 .. MaxRows, row : Row \cup {<<>>}]

TypeOK ==
    /\ rows \in Seq(Row) /\ Len(rows) <= MaxRows
    /\ job \in [Requests -> Job]
    /\ AppSlice \subseteq [id : Ids, app : AppIDs, secret : Secrets]
    /\ up \in BOOLEAN /\ loaded \in BOOLEAN
    /\ tokens \subseteq [issuer : AppIDs, id : Ids]
    /\ gone \subseteq Ids /\ goneBefore \subseteq Ids /\ revived \subseteq Ids
    /\ doubtful \subseteq Ids
    /\ loads \in 0 .. MaxLoads /\ faults \in 0 .. MaxFaults

Init ==
    /\ rows = <<>> /\ job = [r \in Requests |-> NoJob]
    /\ AppSlice = {} /\ up = FALSE /\ tokens = {}
    /\ loads = 0 /\ faults = 0
    /\ gone = {} /\ goneBefore = {} /\ revived = {} /\ doubtful = {} /\ loaded = TRUE

Fault == faults < MaxFaults /\ faults' = faults + 1
Works == UNCHANGED faults

Set(r, j) == job' = [job EXCEPT ![r] = j]

gateway == <<AppSlice, up, tokens, loads, goneBefore, loaded>>

-----------------------------------------------------------------------------
(* The dashboard.                                                          *)

\* App.Find by app_id: any row is found, deleted or not.
\* Faulty variant: only the live rows are looked at.
TakenIfLive(app) == \E i \in Ids : rows[i].app = app /\ ~ rows[i].deleted
Taken(app) == \E i \in Ids : rows[i].app = app

\* AppAdd goes on when Find answers an error, whichever it is.
AppAddFind(r) ==
    /\ job[r] = NoJob /\ Len(rows) < MaxRows
    /\ \E app \in AppIDs, secret \in Secrets :
          LET row == [app |-> app, secret |-> secret, deleted |-> FALSE]
          IN \/ ~ Taken(app) /\ Works /\ Set(r, [op |-> "add", id |-> Len(rows), row |-> row])
             \/ Fault /\ Set(r, [op |-> "add", id |-> MaxRows, row |-> row])
    /\ UNCHANGED <<rows, gateway, gone, revived, doubtful>>

\* The insert.  For the history the job has, as its id, how many rows there
\* were at the check, or MaxRows if the check had failed.
AppAddSave(r) ==
    /\ job[r].op = "add"
    /\ \/ /\ Works /\ Len(rows) < MaxRows
          /\ rows' = Append(rows, job[r].row)
          /\ doubtful' = IF job[r].id = Len(rows) THEN doubtful
                         ELSE doubtful \cup {Len(rows) + 1}
       \/ (Fault \/ (Works /\ Len(rows) = MaxRows)) /\ UNCHANGED <<rows, doubtful>>
    /\ Set(r, NoJob)
    /\ UNCHANGED <<gateway, gone, revived>>

\* AppUpdate and APPDelete read the row by its id ...
FindById(r, op) ==
    /\ job[r] = NoJob
    /\ \E i \in Ids : Set(r, [op |-> op, id |-> i, row |-> rows[i]])
    /\ UNCHANGED <<rows, gateway, gone, revived, doubtful, faults>>

\* ... set some of its columns, never app_id and is_delete ...
\* Faulty variants: the row is made anew from the request; it takes its
\* app_id too.
MadeAnew(row, app, secret) == [row EXCEPT !.secret = secret, !.deleted = FALSE]
AllColumns(row, app, secret) == [row EXCEPT !.secret = secret, !.app = app]
Updated(row, app, secret) == [row EXCEPT !.secret = secret]

\* ... and write all of them.
AppUpdateSave(r) ==
    /\ job[r].op = "update"
    /\ \/ /\ Works
          /\ \E app \in AppIDs, secret \in Secrets :
                rows' = [rows EXCEPT ![job[r].id] = Updated(job[r].row, app, secret)]
       \/ Fault /\ UNCHANGED rows
    /\ Set(r, NoJob)
    /\ UNCHANGED <<gateway, gone, revived, doubtful>>

APPDeleteSave(r) ==
    /\ job[r].op = "delete"
    /\ \/ /\ Works
          /\ rows' = [rows EXCEPT ![job[r].id] = [job[r].row EXCEPT !.deleted = TRUE]]
          /\ gone' = gone \cup {job[r].id}
          /\ revived' = IF \E q \in Requests : job[q].op = "update" /\ job[q].id = job[r].id
                        THEN revived \cup {job[r].id} ELSE revived
       \/ Fault /\ UNCHANGED <<rows, gone, revived>>
    /\ Set(r, NoJob)
    /\ UNCHANGED <<gateway, doubtful>>

-----------------------------------------------------------------------------
(* The gateway.                                                            *)

\* APPList: the live rows, the youngest first.
Listed == {[id |-> i, app |-> rows[i].app, secret |-> rows[i].secret] :
              i \in {j \in Ids : ~ rows[j].deleted}}

\* The one a loop over the list that ends at a match stops at, in a singleton.
First(apps) == {a \in apps : \A b \in apps : b.id <= a.id}

\* LoadOnce at the start of the gateway.  A failing list leaves an error that
\* main drops; a failing count answers no tenants and, as line 64 answers
\* the list's error, no error at all.
LoadOnce ==
    /\ ~ up /\ loads < MaxLoads
    /\ up' = TRUE /\ loads' = loads + 1 /\ goneBefore' = gone
    /\ \/ Works /\ AppSlice' = Listed /\ loaded' = TRUE
       \/ Fault /\ AppSlice' = {} /\ loaded' = FALSE
    /\ UNCHANGED <<rows, job, tokens, gone, revived, doubtful>>

\* The first tenant with the app_id and the secret gets a token.
Tokens ==
    /\ up
    /\ \E app \in AppIDs, secret \in Secrets :
          \E a \in First({b \in AppSlice : b.app = app /\ b.secret = secret}) :
              tokens' = tokens \cup {[issuer |-> app, id |-> a.id]}
    /\ UNCHANGED <<rows, job, AppSlice, up, loads, faults, gone, goneBefore, revived, doubtful,
                   loaded>>

\* The tenant a request with the token counts for, if there is one: the
\* first one with the token's app_id.
AppOf(token) == First({a \in AppSlice : a.app = token.issuer})

Expires ==
    /\ \E token \in tokens : tokens' = tokens \ {token}
    /\ UNCHANGED <<rows, job, AppSlice, up, loads, faults, gone, goneBefore, revived, doubtful,
                   loaded>>

Stops ==
    /\ up /\ up' = FALSE /\ AppSlice' = {}
    /\ UNCHANGED <<rows, job, tokens, loads, faults, gone, goneBefore, revived, doubtful, loaded>>

Next ==
    \/ \E r \in Requests :
          \/ AppAddFind(r) \/ AppAddSave(r)
          \/ FindById(r, "update") \/ AppUpdateSave(r)
          \/ FindById(r, "delete") \/ APPDeleteSave(r)
    \/ LoadOnce \/ Tokens \/ Expires \/ Stops

Spec == Init /\ [][Next]_vars

-----------------------------------------------------------------------------
\* A token stands for the tenant it was issued to: a request with it is never
\* counted, limited or admitted as another tenant's, unless one of the two
\* was added on a failed check or while another one was added.  It takes the
\* check of AppAdd to see deleted rows, for tokens outlive a deletion and a
\* restart of the gateway.
TokenMeansTenant ==
    \A token \in tokens : \A a \in AppOf(token) :
        a.id # token.id => doubtful \cap {a.id, token.id} # {}

\* A tenant whose deletion was answered with success before the gateway
\* started is unknown to it, unless an update of it was under way then.
DeletedStaysOut ==
    \A a \in AppSlice : a.id \notin goneBefore \ revived

\* Until it expires, the token of a tenant that nobody deletes is honoured,
\* by every gateway that could load the tenants: no update takes it away.
TokenHonoured ==
    up /\ loaded =>
        \A token \in tokens :
            AppOf(token) = {} => token.id \in gone
=============================================================================
