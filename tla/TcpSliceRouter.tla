--------------------------- MODULE TcpSliceRouter ---------------------------
(***************************************************************************)
(* The middleware chain of the TCP proxy:                                  *)
(* tcp_proxy_middleware/tcp_slice_router.go.                               *)
(*                                                                         *)
(* Every connection gets a context whose int8 field "index" says which     *)
(* handler runs.  A middleware either calls c.Next() as its last act or    *)
(* calls c.Abort() and returns; the core handler, appended per connection  *)
(* behind the middlewares, proxies the connection.  Next() both descends   *)
(* (a nested call) and advances (its own loop), so index keeps growing     *)
(* while the calls unwind, and has to stay inside an int8.                 *)
(*                                                                         *)
(* AbortIndexTooHigh, ResetIndexZero, IndexKeptByAbort and                 *)
(* AppendCapDoubled are faulty variants of the definitions after them; the *)
(* README says which property each one breaks.                             *)
(***************************************************************************)
EXTENDS Integers, Sequences, FiniteSets

CONSTANTS Conns,        \* the connections served concurrently
          NMiddleware,  \* number of handlers registered with Use
          IndexMax      \* largest value of the index type; 127 for int8

\* Line 10 allows as many middlewares as abortIndex (63 for int8); nothing in
\* Use enforces it, so it is an assumption here.
ASSUME RouterAssumption ==
    /\ NMiddleware \in Nat
    /\ IndexMax \in Nat
    /\ IndexMax % 2 = 1
    /\ NMiddleware <= IndexMax \div 2

VARIABLES
    pc,        \* pc[c]: "new", "loop", "handler" or "done"
    index,     \* index[c]: c.index
    depth,     \* depth[c]: calls of Next() that are inside a handler
    core,      \* core[c]: where c.handlers keeps its last element:
               \* "shared" array or an array of its "own"
    slot,      \* the connection whose core closure is in the shared array
    ran,       \* ran[c]: history, the handlers run for c, as index values
    aborted,   \* aborted[c]: history, Abort() was called
    servedBy   \* servedBy[c]: history, the connections whose closure ran for c

vars == <<pc, index, depth, core, slot, ran, aborted, servedBy>>

AbortIndexTooHigh == IndexMax
AbortIndex == IndexMax \div 2

\* c.index++ in the width of the index type.
Inc(i) == IF i = IndexMax THEN -(IndexMax + 1) ELSE i + 1

\* Reset
ResetIndexZero == 0
ResetIndex == -1

\* The middlewares and the core handler; Next's loop ends below this index.
NHandlers == NMiddleware + 1

\* Abort
IndexKeptByAbort(i) == i
IndexAfterAbort(i) == AbortIndex

-----------------------------------------------------------------------------
\* The bytes the Go allocator hands out for small objects.
SizeClasses == {8, 16, 24, 32, 48, 64, 80, 96, 112, 128, 144, 160, 176, 192,
                208, 224, 240, 256, 288, 320, 352, 384, 416, 448, 480, 512}

\* Capacity of the handler slice after one Use of n handlers: append to a nil
\* slice rounds 8 * n bytes up to a size class.
AppendCapDoubled(n) == 2 * n
AppendCap(n) ==
    IF n = 0 THEN 0
    ELSE (CHOOSE s \in SizeClasses :
             /\ s >= 8 * n
             /\ \A t \in SizeClasses : t >= 8 * n => s <= t) \div 8

\* Appending the core handler writes into the array all connections share
\* exactly when that array has room behind the middlewares.
HasSpare == AppendCap(NMiddleware) > NMiddleware
-----------------------------------------------------------------------------
Init ==
    /\ pc = [c \in Conns |-> "new"]
    /\ index = [c \in Conns |-> 0]
    /\ depth = [c \in Conns |-> 0]
    /\ core = [c \in Conns |-> "own"]
    /\ slot = {}
    /\ ran = [c \in Conns |-> <<>>]
    /\ aborted = [c \in Conns |-> FALSE]
    /\ servedBy = [c \in Conns |-> {}]

\* ServeTCP: copy the group (the slice header, not the array), append the core
\* handler, Reset to -1 and enter Next, which steps to handler 0.
ServeTCP(c) ==
    /\ pc[c] = "new"
    /\ IF HasSpare
       THEN core' = [core EXCEPT ![c] = "shared"] /\ slot' = {c}
       ELSE core' = [core EXCEPT ![c] = "own"] /\ UNCHANGED slot
    /\ index' = [index EXCEPT ![c] = Inc(ResetIndex)]
    /\ pc' = [pc EXCEPT ![c] = "loop"]
    /\ UNCHANGED <<depth, ran, aborted, servedBy>>

\* The loop of Next calls the handler at index.
CallHandler(c) ==
    /\ pc[c] = "loop"
    /\ index[c] < NHandlers
    /\ index[c] >= 0           \* a negative index panics: no step
    /\ pc' = [pc EXCEPT ![c] = "handler"]
    /\ depth' = [depth EXCEPT ![c] = @ + 1]
    /\ ran' = [ran EXCEPT ![c] = Append(@, index[c])]
    /\ servedBy' = IF index[c] = NMiddleware
                   THEN [servedBy EXCEPT ![c] =
                           IF core[c] = "own" THEN {c} ELSE slot]
                   ELSE servedBy
    /\ UNCHANGED <<index, core, slot, aborted>>

\* The loop of Next ends.  The handler that called this Next returns at once,
\* and the Next around it increments index; the outermost Next ends ServeTCP.
ReturnNext(c) ==
    /\ pc[c] = "loop"
    /\ index[c] >= NHandlers
    /\ IF depth[c] = 0
       THEN pc' = [pc EXCEPT ![c] = "done"] /\ UNCHANGED <<index, depth>>
       ELSE /\ depth' = [depth EXCEPT ![c] = @ - 1]
            /\ index' = [index EXCEPT ![c] = Inc(@)]
            /\ UNCHANGED pc
    /\ UNCHANGED <<core, slot, ran, aborted, servedBy>>

\* A middleware lets the connection through: c.Next().
Pass(c) ==
    /\ pc[c] = "handler"
    /\ index[c] < NMiddleware
    /\ index' = [index EXCEPT ![c] = Inc(@)]
    /\ pc' = [pc EXCEPT ![c] = "loop"]
    /\ UNCHANGED <<depth, core, slot, ran, aborted, servedBy>>

\* A middleware rejects it: c.Abort(), then return and the increment of the
\* enclosing loop.
Reject(c) ==
    /\ pc[c] = "handler"
    /\ index[c] < NMiddleware
    /\ index' = [index EXCEPT ![c] = Inc(IndexAfterAbort(@))]
    /\ depth' = [depth EXCEPT ![c] = @ - 1]
    /\ pc' = [pc EXCEPT ![c] = "loop"]
    /\ aborted' = [aborted EXCEPT ![c] = TRUE]
    /\ UNCHANGED <<core, slot, ran, servedBy>>

\* The core handler returns: the TCP proxy of this connection has ended.
CoreReturns(c) ==
    /\ pc[c] = "handler"
    /\ index[c] = NMiddleware
    /\ index' = [index EXCEPT ![c] = Inc(@)]
    /\ depth' = [depth EXCEPT ![c] = @ - 1]
    /\ pc' = [pc EXCEPT ![c] = "loop"]
    /\ UNCHANGED <<core, slot, ran, aborted, servedBy>>

\* All connections were served; more would repeat the above.
Finished ==
    /\ \A c \in Conns : pc[c] = "done"
    /\ UNCHANGED vars

Router(c) == ServeTCP(c) \/ CallHandler(c) \/ ReturnNext(c)

Next ==
    \/ \E c \in Conns : \/ Router(c)
                        \/ Pass(c)
                        \/ Reject(c)
                        \/ CoreReturns(c)
    \/ Finished

Spec == Init /\ [][Next]_vars

\* The goroutine of a connection keeps running; a middleware does not block.
\* Nothing makes the core handler return: a proxied stream may stay open.
FairSpec ==
    /\ Spec
    /\ \A c \in Conns : WF_vars(Router(c)) /\ WF_vars(Pass(c) \/ Reject(c))
-----------------------------------------------------------------------------
\* Types of the variables; index fits the index type.
TypeOK ==
    /\ pc \in [Conns -> {"new", "loop", "handler", "done"}]
    /\ index \in [Conns -> -(IndexMax + 1) .. IndexMax]
    /\ depth \in [Conns -> 0 .. NHandlers]
    /\ core \in [Conns -> {"own", "shared"}]
    /\ slot \subseteq Conns
    /\ ran \in [Conns -> Seq(0 .. NMiddleware)]
    /\ aborted \in [Conns -> BOOLEAN]
    /\ servedBy \in [Conns -> SUBSET Conns]

\* The int8 index never wraps to a negative value, at which handlers[index]
\* would panic, however deep the calls of Next() are nested when a middleware
\* aborts or the core handler returns.  This is what line 10 ("at most 63
\* middlewares") is about.
IndexNeverWraps == \A c \in Conns : index[c] >= 0

\* The handlers of a connection run once each, in the order of Use, the core
\* handler last, although every Next() runs a loop over all of them.
RunsInOrderOnce ==
    \A c \in Conns : \A i \in 1 .. Len(ran[c]) : ran[c][i] = i - 1

\* A connection one middleware rejected never reaches the core handler, also
\* not from one of the Next() loops still open around the rejecting handler.
RejectedNotProxied ==
    \A c \in Conns : aborted[c] => servedBy[c] = {}

\* The core handler that runs for a connection is the closure made for it: no
\* connection is answered on another one's socket.
OwnCoreHandler == \A c \in Conns : servedBy[c] \subseteq {c}

\* A rejected connection is released: all the open Next() calls return.
RejectedIsReleased == \A c \in Conns : aborted[c] ~> pc[c] = "done"
=============================================================================
