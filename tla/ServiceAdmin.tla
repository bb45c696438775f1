---------------------------- MODULE ServiceAdmin ----------------------------
(***************************************************************************)
(* The dashboard's handlers that write services (controller/service.go):   *)
(* add and update of HTTP, TCP and gRPC services, and delete, run          *)
(* concurrently on one pool of MySQL connections.                          *)
(*                                                                         *)
(* A request is a program of database calls.  A service is one record      *)
(* here: its row of gateway_service_info, the addr of its rule (the port   *)
(* of a TCP or gRPC rule, the prefix or domain of an HTTP rule) and, in    *)
(* parts, the tables that have a row of it.  What a transaction writes     *)
(* shows at Commit, its reads are of one snapshot, the info row it updated *)
(* stays locked.  No table has a unique key beside its id.                 *)
(* Updates and delete take any id: nothing checks that there is a service  *)
(* of it, and of the kind the update is for.  ServiceUpdateTcp gives a     *)
(* service of another kind a TCP rule (strays), which nobody listens on,   *)
(* but which keeps its port.                                               *)
(*                                                                         *)
(* Left out: the lists and limits of a service, the validation of inputs,  *)
(* the http_rule row without a service that ServiceUpdateHTTP inserts when *)
(* the service of that name is not an HTTP service.                        *)
(*                                                                         *)
(* AddTcpCommitsEarly, InUseIfLive, CopyUndeleted and LeakWithoutRollback  *)
(* are faulty variants.                                                    *)
(***************************************************************************)
EXTENDS Naturals, Sequences, FiniteSets

CONSTANTS Handlers,     \* requests the dashboard serves at the same time
          MaxOpen,      \* MaxOpenConn of the pool
          Names, Addrs,
          FirstName, FirstAddr,  \* of the TCP service there is at first
          \* The rest bounds the model.
          MaxOps,       \* requests
          MaxFailures   \* database calls that fail

ASSUME ServiceAdminAssumption ==
    /\ IsFiniteSet(Handlers) /\ MaxOpen \in Nat \ {0}
    /\ FirstName \in Names /\ FirstAddr \in Addrs
    /\ MaxOps \in Nat /\ MaxFailures \in Nat

VARIABLES
    table,     \* the committed services
    strays,    \* the TCP rules of services that are no TCP services
    nextId,    \* the id the next inserted service gets
    todo,      \* todo[h]: what request h has still to do; <<>> is idle
    req,       \* req[h]: the input of request h
    row,       \* row[h]: the service as h read or built it
    conn,      \* conn[h]: h holds a connection in a transaction
    lost,      \* connections nobody will give back
    ops, failures,
    raced,     \* history: during add h another add committed or a check failed
    late,      \* history: the service was deleted since request h read it
    racedAdds, \* history: ids of services whose add was raced
    moved,     \* history: ids of services whose port an update changed
    gaveUp     \* history: updates that left on an error of ServiceDetail

histories == <<raced, late, racedAdds, moved, gaveUp>>
svars == <<table, strays, nextId, todo, req, row, conn, lost, ops, failures, histories>>

Adds == {"addHttp", "addTcp", "addGrpc"}
Parts == {"info", "rule", "access", "lb"}
KindOf == [addHttp |-> "http", addTcp |-> "tcp", addGrpc |-> "grpc"]

ServiceAddHTTP == <<"begin", "lookup", "info", "rule", "access", "lb", "commit">>
ServiceUpdateHTTP == <<"begin", "find", "info", "rule", "access", "lb", "commit">>

\* The checks of these two run outside the transaction.
AddTcpCommitsEarly ==
    <<"name", "tcp", "grpc", "begin", "info", "lb", "rule", "commit", "access">>
ServiceAddTcp ==
    <<"name", "tcp", "grpc", "begin", "info", "lb", "rule", "access", "commit">>
ServiceAddGrpc ==
    <<"name", "tcp", "grpc", "begin", "info", "lb", "rule", "access", "commit">>

\* "detail" of these two reads on the pool while the transaction already holds
\* a connection.
ServiceUpdateTcp == <<"begin", "detail", "info", "lb", "rule", "access", "commit">>
ServiceUpdateGrpc == <<"begin", "detail", "info", "lb", "rule", "access", "commit">>

ServiceDelete == <<"read", "setDeleted">>

Program == [addHttp |-> ServiceAddHTTP, updateHttp |-> ServiceUpdateHTTP,
            addTcp |-> ServiceAddTcp, updateTcp |-> ServiceUpdateTcp,
            addGrpc |-> ServiceAddGrpc, updateGrpc |-> ServiceUpdateGrpc,
            delete |-> ServiceDelete]

Inputs ==
    [op : Adds, name : Names, addr : Addrs]
    \cup [op : {"updateHttp"}, name : Names]
    \cup [op : {"updateTcp"}, id : Nat, addr : Addrs]
    \cup [op : {"updateGrpc", "delete"}, id : Nat]

Services == [id : Nat \ {0}, name : Names, addr : Addrs, kind : {"http", "tcp", "grpc"},
             deleted : BOOLEAN, parts : SUBSET Parts]
Strays == [id : Nat \ {0}, addr : Addrs]

NoRequest == [op |-> "none"]
NoRow == [id |-> 0]

SInit ==
    /\ table = {[id |-> 1, name |-> FirstName, addr |-> FirstAddr, kind |-> "tcp",
                 deleted |-> FALSE, parts |-> Parts]}
    /\ strays = {} /\ nextId = 2
    /\ todo = [h \in Handlers |-> <<>>] /\ req = [h \in Handlers |-> NoRequest]
    /\ row = [h \in Handlers |-> NoRow] /\ conn = [h \in Handlers |-> FALSE]
    /\ lost = 0 /\ ops = 0 /\ failures = 0
    /\ raced = [h \in Handlers |-> FALSE] /\ late = [h \in Handlers |-> FALSE]
    /\ racedAdds = {} /\ moved = {} /\ gaveUp = 0
-----------------------------------------------------------------------------
Busy(h) == todo[h] # <<>>
At(h, step) == Busy(h) /\ Head(todo[h]) = step
Proceed(h) == todo' = [todo EXCEPT ![h] = Tail(@)]

\* A connection to be had from the pool.
Free == lost + Cardinality({h \in Handlers : conn[h]}) < MaxOpen

Fails == failures < MaxFailures /\ failures' = failures + 1

\* The request is answered and its transaction, if there is one, ended.
Answer(h) ==
    /\ todo' = [todo EXCEPT ![h] = <<>>]
    /\ req' = [req EXCEPT ![h] = NoRequest]
    /\ row' = [row EXCEPT ![h] = NoRow]
    /\ conn' = [conn EXCEPT ![h] = FALSE]

Other(h) == Handlers \ {h}

\* The ids a request may give: one of a service, or one that is not taken yet.
ServiceIds == {r.id : r \in table} \cup {nextId}

Start(h) ==
    /\ ~Busy(h) /\ ops < MaxOps /\ ops' = ops + 1
    /\ \/ \E op \in Adds, n \in Names, a \in Addrs :
             req' = [req EXCEPT ![h] = [op |-> op, name |-> n, addr |-> a]]
       \/ \E n \in Names : req' = [req EXCEPT ![h] = [op |-> "updateHttp", name |-> n]]
       \/ \E i \in ServiceIds, a \in Addrs :
             req' = [req EXCEPT ![h] = [op |-> "updateTcp", id |-> i, addr |-> a]]
       \/ \E i \in ServiceIds, op \in {"updateGrpc", "delete"} :
             req' = [req EXCEPT ![h] = [op |-> op, id |-> i]]
    /\ todo' = [todo EXCEPT ![h] = Program[req'[h].op]]
    /\ raced' = [raced EXCEPT ![h] = FALSE] /\ late' = [late EXCEPT ![h] = FALSE]
    /\ UNCHANGED <<table, strays, nextId, row, conn, lost, failures, racedAdds, moved, gaveUp>>

\* A check: gorm leaves is_delete = 0 out of the condition, so a deleted
\* service still holds its name, as its rule holds its port.
TcpRuleOf(check, q) == check = "tcp" /\ \E s \in strays : s.addr = q.addr

InUseIfLive(check, q) ==
    \/ \E r \in table : ~r.deleted /\ IF check = "name" THEN r.name = q.name
                                      ELSE r.kind = check /\ r.addr = q.addr
    \/ TcpRuleOf(check, q)
InUse(check, q) ==
    \/ \E r \in table : IF check = "name" THEN r.name = q.name
                        ELSE r.kind = check /\ r.addr = q.addr
    \/ TcpRuleOf(check, q)

\* The checks made at one step; "lookup" reads both from its snapshot.
ChecksAt == [name |-> {"name"}, tcp |-> {"tcp"}, grpc |-> {"grpc"},
             lookup |-> {"name", "http"}]

\* Every error of a check counts as "not found".
Check(h) ==
    \E step \in DOMAIN ChecksAt :
       /\ At(h, step) /\ (conn[h] \/ Free)
       /\ \E bad \in SUBSET ChecksAt[step] :
             /\ failures + Cardinality(bad) <= MaxFailures
             /\ failures' = failures + Cardinality(bad)
             /\ IF \E check \in ChecksAt[step] \ bad : InUse(check, req[h])
                THEN Answer(h) /\ UNCHANGED raced
                ELSE /\ Proceed(h)
                     /\ raced' = [raced EXCEPT ![h] = @ \/ bad # {}]
                     /\ UNCHANGED <<req, row, conn>>
       /\ UNCHANGED <<table, strays, nextId, lost, ops, late, racedAdds, moved, gaveUp>>

Begin(h) ==
    /\ At(h, "begin") /\ Free
    /\ Proceed(h)
    /\ conn' = [conn EXCEPT ![h] = TRUE]
    /\ UNCHANGED <<table, strays, nextId, req, row, lost, ops, failures, histories>>

\* What an update or delete goes on with: the row as it is, is_delete included.
CopyUndeleted(r) == [r EXCEPT !.deleted = FALSE]
Copy(r) == r

\* ServiceUpdateHTTP reads by name in its transaction; where several rows have
\* the name, any of them may be the one.
Find(h) ==
    /\ At(h, "find")
    /\ \/ /\ \E r \in table : r.name = req[h].name /\ row' = [row EXCEPT ![h] = Copy(r)]
          /\ Proceed(h)
          /\ UNCHANGED <<req, conn, failures>>
       \/ /\ (\E r \in table : r.name = req[h].name) => Fails
          /\ (\A r \in table : r.name # req[h].name) => UNCHANGED failures
          /\ Answer(h)
    /\ UNCHANGED <<table, strays, nextId, lost, ops, histories>>

\* Reads by id on the pool.  That there is no such row is an error as well.
\* ServiceDelete answers an error; ServiceUpdateTcp and ServiceUpdateGrpc answer
\* it too, but their transaction stays open.
ReadRow(h) ==
    /\ \E r \in table : r.id = req[h].id /\ row' = [row EXCEPT ![h] = Copy(r)]
    /\ Proceed(h)
    /\ UNCHANGED <<req, conn, lost, failures, gaveUp>>

ReadError(h) ==
    /\ IF \E r \in table : r.id = req[h].id THEN Fails ELSE UNCHANGED failures
    /\ Answer(h)

Detail(h) ==
    /\ At(h, "detail") /\ Free
    /\ \/ ReadRow(h)
       \/ ReadError(h) /\ lost' = lost + 1 /\ gaveUp' = gaveUp + 1
    /\ UNCHANGED <<table, strays, nextId, ops, raced, late, racedAdds, moved>>

Read(h) ==
    /\ At(h, "read") /\ Free
    /\ \/ ReadRow(h)
       \/ ReadError(h) /\ UNCHANGED <<lost, gaveUp>>
    /\ UNCHANGED <<table, strays, nextId, ops, raced, late, racedAdds, moved>>

\* A transaction that has updated the info row of a service keeps it locked.
Locked(id) ==
    \E h \in Handlers : /\ conn[h] /\ row[h].id = id
                        /\ \A i \in 1 .. Len(todo[h]) : todo[h][i] # "info"

\* What a failed Save leaves behind: the handlers roll back.
LeakWithoutRollback == 1
Leak == 0

IdAfter(id) == id + 1

\* ServiceUpdateTcp of a TCP service saves its rule with the new port, which
\* nobody has checked.
MovesPort(h) == req[h].op = "updateTcp" /\ row[h].kind = "tcp"

\* The four Saves of a transaction.  Saving a new info inserts it.
Save(h) ==
    /\ \E part \in Parts :
          /\ At(h, part)
          /\ \/ /\ IF row[h] = NoRow
                   THEN /\ row' = [row EXCEPT ![h] =
                              [id |-> nextId, name |-> req[h].name,
                               addr |-> req[h].addr, kind |-> KindOf[req[h].op],
                               deleted |-> FALSE, parts |-> {part}]]
                        /\ nextId' = IdAfter(nextId)
                   ELSE /\ part = "info" => ~Locked(row[h].id)
                        /\ row' = [row EXCEPT
                              ![h].parts = @ \cup {part},
                              ![h].addr = IF part = "rule" /\ MovesPort(h)
                                          THEN req[h].addr ELSE @]
                        /\ UNCHANGED nextId
                /\ Proceed(h)
                /\ UNCHANGED <<req, conn, lost, failures>>
             \/ Fails /\ Answer(h) /\ lost' = lost + Leak /\ UNCHANGED nextId
    /\ UNCHANGED <<table, strays, ops, histories>>

\* History: a write of r, which is deleted, is known to those who read it before.
DeletedFor(h, r) == late' = [g \in Handlers |-> late[g] \/ (g # h /\ row[g].id = r.id)]

\* The service as a commit leaves it: an update that saved no port lets that of
\* the table be.
Written(h) ==
    IF req[h].op \in Adds \/ MovesPort(h) THEN row[h]
    ELSE [row[h] EXCEPT !.addr = (CHOOSE r \in table : r.id = row[h].id).addr]

\* The TCP rule that ServiceUpdateTcp leaves with a service of another kind: in
\* place of the one it found, or, where two updates found none, as one more.
Stray(h) ==
    IF req[h].op # "updateTcp" \/ MovesPort(h) THEN UNCHANGED strays
    ELSE \E old \in SUBSET {s \in strays : s.id = row[h].id} :
            strays' = (strays \ old) \cup {[id |-> row[h].id, addr |-> req[h].addr]}

\* tx.Commit(), whose error is dropped.
Commit(h) ==
    /\ At(h, "commit")
    /\ Answer(h)
    /\ \/ /\ table' = {r \in table : r.id # row[h].id} \cup {Written(h)}
          /\ Stray(h)
          /\ IF req[h].op \in Adds
             THEN /\ raced' = [g \in Handlers |-> raced[g] \/ (g # h /\ Busy(g))]
                  /\ racedAdds' = IF raced[h] THEN racedAdds \cup {row[h].id} ELSE racedAdds
             ELSE UNCHANGED <<raced, racedAdds>>
          /\ moved' = IF MovesPort(h) THEN moved \cup {row[h].id} ELSE moved
          /\ IF row[h].deleted THEN DeletedFor(h, row[h]) ELSE UNCHANGED late
          /\ UNCHANGED failures
       \/ Fails /\ UNCHANGED <<table, strays, raced, late, racedAdds, moved>>
    /\ UNCHANGED <<nextId, lost, ops, gaveUp>>

\* ServiceDelete saves the row it read, with is_delete set.
SetDeleted(h) ==
    /\ At(h, "setDeleted") /\ Free
    /\ Answer(h)
    /\ \/ /\ ~Locked(row[h].id)
          /\ table' = {IF r.id = row[h].id THEN [r EXCEPT !.deleted = TRUE] ELSE r :
                       r \in table}
          /\ DeletedFor(h, row[h])
          /\ UNCHANGED failures
       \/ Fails /\ UNCHANGED <<table, late>>
    /\ UNCHANGED <<strays, nextId, lost, ops, raced, racedAdds, moved, gaveUp>>

Step(h) ==
    \/ Check(h) \/ Begin(h) \/ Find(h) \/ Detail(h) \/ Read(h) \/ Save(h)
    \/ Commit(h) \/ SetDeleted(h)

SNext == \E h \in Handlers : Start(h) \/ Step(h)

SSpec == SInit /\ [][SNext]_svars

\* The goroutine of a request keeps running, and gets a connection or a lock
\* when there is one.
FairSpec == SSpec /\ \A h \in Handlers : WF_svars(Step(h))
-----------------------------------------------------------------------------
Steps == Parts \cup DOMAIN ChecksAt \cup
         {"begin", "detail", "find", "read", "setDeleted", "commit"}

STypeOK ==
    /\ table \subseteq Services /\ strays \subseteq Strays /\ nextId \in Nat \ {0}
    /\ \A r \in table : r.id < nextId
    /\ todo \in [Handlers -> Seq(Steps)]
    /\ req \in [Handlers -> Inputs \cup {NoRequest}]
    /\ row \in [Handlers -> Services \cup {NoRow}]
    /\ conn \in [Handlers -> BOOLEAN]
    /\ lost \in 0 .. MaxOpen
    /\ ops \in 0 .. MaxOps /\ failures \in 0 .. MaxFailures
    /\ raced \in [Handlers -> BOOLEAN] /\ late \in [Handlers -> BOOLEAN]
    /\ racedAdds \subseteq Nat /\ moved \subseteq Nat /\ gaveUp \in 0 .. MaxOpen

\* The pool lends no more connections than it has, and none is lost but with an
\* update that left on an error of ServiceDetail: every other handler gives its
\* connection back, whatever fails.
PoolAccounted ==
    /\ lost + Cardinality({h \in Handlers : conn[h]}) <= MaxOpen
    /\ lost = gaveUp

\* Whatever fails, a service is in the tables with its rule, its access control
\* and its load balancing, or not at all.  ServiceDetail reads a row that is
\* missing as an empty one, so the proxy would serve half a service as if it had
\* no port, no addresses and no access control.
ServicesComplete == \A r \in table : r.parts = Parts

\* The proxy opens one listener per TCP and gRPC port, and HTTP routes by rule.
SameListener(r, s) ==
    r.addr = s.addr /\ (r.kind = s.kind \/ "http" \notin {r.kind, s.kind})

\* Two services the proxy loads share a name or an address only if one of the two
\* was added while another add committed, a check of that add failed, or an
\* update moved the port of one.  A deletion undone later makes no difference: a deleted
\* service keeps its name and its port.
UniqueUnlessRaced ==
    \A r, s \in table :
        r.id # s.id /\ ~r.deleted /\ ~s.deleted =>
            /\ r.name = s.name => {r.id, s.id} \cap racedAdds # {}
            /\ SameListener(r, s) => {r.id, s.id} \cap (racedAdds \cup moved) # {}

\* A deleted service comes back only by an update that had read it before it
\* was deleted and commits afterwards.
RevivedByOverlapOnly ==
    [][\A r \in table, s \in table' :
          r.id = s.id /\ r.deleted /\ ~s.deleted =>
              \E h \in Handlers : late[h] /\ row[h].id = r.id]_svars

\* Every connection is gone with an update that gave up, or held by one that
\* waits for a second.
Starved ==
    gaveUp + Cardinality({h \in Handlers : conn[h] /\ At(h, "detail")}) >= MaxOpen

\* Every request is answered, also after failures and with others in its way,
\* unless updates have starved the pool.
AnsweredUnlessStarved ==
    \A h \in Handlers : Busy(h) ~> ~Busy(h) \/ Starved
=============================================================================
