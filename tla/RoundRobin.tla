----------------------------- MODULE RoundRobin -----------------------------
(***************************************************************************)
(* RoundRobinBalance (reverse_proxy/load_balance/round_robin.go) under     *)
(* concurrent requests and a concurrent Update.                            *)
(*                                                                         *)
(* Every request calls Next() on the one balancer of its service; the      *)
(* health checker calls Update() on it.  Nothing locks curIndex or rss, so *)
(* every read and write of them is a step.  Addresses are the numbers of   *)
(* their places: an Update puts in the places 1 .. n of a new list.        *)
(*                                                                         *)
(* WrapTooLate and AdvanceTwo are faulty variants.                         *)
(***************************************************************************)
EXTENDS Naturals, Sequences

CONSTANTS Threads,   \* requests in flight at the same time
          MaxLen,    \* longest address list
          Updates    \* how many times Update may run; bounds the model

ASSUME RoundRobinAssumption == MaxLen \in Nat \ {0} /\ Updates \in Nat

VARIABLES
    curIndex,   \* r.curIndex
    rss,        \* r.rss
    pc,         \* pc[t]: where request t is inside Next, or "idle"
    lens,       \* lens[t]: the local lens
    tmp,        \* tmp[t]: curIndex as line 34 read it
    picked,     \* history: the place last taken, or 0
    pending,    \* addresses the Update in progress has still to add
    updating,   \* an Update is in progress
    updates,    \* Updates so far
    calm,       \* history: no request was in flight at some time after the
                \* last Update, and none has started since
    steady      \* history: the last pick was made in the calm, and no two
                \* requests have been in Next together since

vars == <<curIndex, rss, pc, lens, tmp, picked, pending, updating, updates,
          calm, steady>>

InNext == {"lens", "wrap", "zero", "pick", "read", "store"}

Places(n) == [i \in 1 .. n |-> i]

Init ==
    /\ curIndex = 0
    /\ \E n \in 0 .. MaxLen : rss = Places(n)
    /\ pc = [t \in Threads |-> "idle"]
    /\ lens = [t \in Threads |-> 0]
    /\ tmp = [t \in Threads |-> 0]
    /\ picked = 0
    /\ pending = <<>> /\ updating = FALSE /\ updates = 0
    /\ calm = TRUE /\ steady = FALSE

\* The step of request t from one point of Next to another.
Go(t, from, to) == pc[t] = from /\ pc' = [pc EXCEPT ![t] = to]

\* Line 26: an empty list is answered with "" at once.
Enter(t) ==
    /\ Go(t, "idle", IF Len(rss) = 0 THEN "idle" ELSE "lens")
    /\ UNCHANGED <<curIndex, rss, lens, tmp, picked, pending, updating, updates>>

\* Line 29: the length is read again.
ReadLens(t) ==
    /\ Go(t, "lens", "wrap")
    /\ lens' = [lens EXCEPT ![t] = Len(rss)]
    /\ UNCHANGED <<curIndex, rss, tmp, picked, pending, updating, updates>>

\* Lines 30 to 32: an index behind the end goes back to the front.
WrapTooLate(i, n) == i > n
Wrap(i, n) == i >= n

CheckWrap(t) ==
    /\ Go(t, "wrap", IF Wrap(curIndex, lens[t]) THEN "zero" ELSE "pick")
    /\ UNCHANGED <<curIndex, rss, lens, tmp, picked, pending, updating, updates>>

ZeroIndex(t) ==
    /\ Go(t, "zero", "pick")
    /\ curIndex' = 0
    /\ UNCHANGED <<rss, lens, tmp, picked, pending, updating, updates>>

\* Line 33: r.rss[r.curIndex], which panics outside the list.
Pick(t) ==
    /\ Go(t, "pick", IF curIndex < Len(rss) THEN "read" ELSE "panic")
    /\ picked' = IF curIndex < Len(rss) THEN rss[curIndex + 1] ELSE picked
    /\ UNCHANGED <<curIndex, rss, lens, tmp, pending, updating, updates>>

\* Line 34, the read of curIndex and the division, which panics for lens 0 ...
ReadIndex(t) ==
    /\ Go(t, "read", IF lens[t] = 0 THEN "panic" ELSE "store")
    /\ tmp' = [tmp EXCEPT ![t] = curIndex]
    /\ UNCHANGED <<curIndex, rss, lens, picked, pending, updating, updates>>

\* ... and the write.
AdvanceTwo(i, n) == (i + 2) % n
Advance(i, n) == (i + 1) % n

StoreIndex(t) ==
    /\ Go(t, "store", "idle")
    /\ curIndex' = Advance(tmp[t], lens[t])
    /\ UNCHANGED <<rss, lens, tmp, picked, pending, updating, updates>>

\* The recover of the middleware or of the connection ends the request.
Recover(t) ==
    /\ Go(t, "panic", "idle")
    /\ UNCHANGED <<curIndex, rss, lens, tmp, picked, pending, updating, updates>>

\* Update, called by the health checker with a new list of active addresses:
\* r.rss = nil, one Add after the other, return.  curIndex is left alone.
UpdateStarts ==
    /\ ~updating /\ updates < Updates
    /\ updating' = TRUE /\ updates' = updates + 1
    /\ rss' = <<>>
    /\ \E n \in 0 .. MaxLen : pending' = Places(n)
    /\ UNCHANGED <<curIndex, pc, lens, tmp, picked>>

Add ==
    /\ updating /\ pending # <<>>
    /\ rss' = Append(rss, Head(pending))
    /\ pending' = Tail(pending)
    /\ UNCHANGED <<curIndex, pc, lens, tmp, picked, updating, updates>>

UpdateReturns ==
    /\ updating /\ pending = <<>>
    /\ updating' = FALSE
    /\ UNCHANGED <<curIndex, rss, pc, lens, tmp, picked, pending, updates>>

Request(t) ==
    \/ Enter(t) \/ ReadLens(t) \/ CheckWrap(t) \/ ZeroIndex(t) \/ Pick(t)
    \/ ReadIndex(t) \/ StoreIndex(t) \/ Recover(t)

Update == UpdateStarts \/ Add \/ UpdateReturns

Quiet == ~updating /\ \A t \in Threads : pc[t] = "idle"

OneAtATime == \A t, u \in Threads : pc[t] # "idle" /\ pc[u] # "idle" => t = u

SomeonePicks == \E t \in Threads : pc[t] = "pick" /\ pc'[t] = "read"

Next ==
    /\ (\E t \in Threads : Request(t)) \/ Update
    /\ calm' = (~updating' /\ (calm \/ Quiet'))
    /\ steady' = (calm' /\ OneAtATime' /\ (steady \/ SomeonePicks))

Spec == Init /\ [][Next]_vars

\* Requests keep coming and their goroutines keep running; an Update that has
\* begun is finished.
FairSpec ==
    /\ Spec
    /\ \A t \in Threads : WF_vars(Next /\ Request(t))
    /\ WF_vars(Next /\ (Add \/ UpdateReturns))
-----------------------------------------------------------------------------
TypeOK ==
    /\ curIndex \in 0 .. MaxLen - 1
    /\ rss \in Seq(1 .. MaxLen) /\ Len(rss) <= MaxLen
    /\ pc \in [Threads -> InNext \cup {"idle", "panic"}]
    /\ lens \in [Threads -> 0 .. MaxLen]
    /\ tmp \in [Threads -> 0 .. MaxLen - 1]
    /\ picked \in 0 .. MaxLen
    /\ pending \in Seq(1 .. MaxLen)
    /\ updating \in BOOLEAN /\ calm \in BOOLEAN /\ steady \in BOOLEAN
    /\ updates \in 0 .. Updates

\* Next panics (index out of range, division by zero) only in the wake of an
\* Update: requests racing each other never drive curIndex out of the list.
\* "In the wake" has to include requests that began after the Update returned,
\* next to one that began before it: calm is the weakest excuse that works.
PanicOnlyAroundUpdate == (\E t \in Threads : pc[t] = "panic") => ~calm

\* As long as requests do not meet inside Next, each takes the address after
\* the one taken last, cyclically; an Update may start the rotation anywhere.
InTurn ==
    [][SomeonePicks /\ steady => picked' = (picked % Len(rss)) + 1]_vars

\* "Round robin: requests are assigned to the servers one after the other"
\* (Go_Gateway technical analysis, line 738).  If requests stop meeting inside
\* Next, an address that stays in the list is taken again and again, whatever
\* the races before did to curIndex; while they keep meeting, it may never be.
ServedOneAtATime ==
    \A i \in 1 .. MaxLen :
        <>[](i <= Len(rss)) /\ <>[]OneAtATime => []<>(picked = i)
=============================================================================
