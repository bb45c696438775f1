-------------------------- MODULE WeightRoundRobin --------------------------
(***************************************************************************)
(* WeightRoundRobinBalance (reverse_proxy/load_balance/                    *)
(* weight_round_robin.go): the smooth weighted round robin, with           *)
(* concurrent requests in Next and the health checker in Update.           *)
(*                                                                         *)
(* Nothing is locked: every read and write of r.rss and of a               *)
(* currentWeight is a step (a comparison of two weights is one).  Update   *)
(* makes new nodes, so a node is an address and the Update that made it,   *)
(* and a request may go on with nodes that left the list.  effectiveWeight *)
(* starts as weight and nothing lowers it: step 3 of Next never acts, and  *)
(* the two are one here.                                                   *)
(*                                                                         *)
(* LoopOnePast and RaisedAfresh are faulty variants.                       *)
(***************************************************************************)
EXTENDS Integers, Sequences, SequencesExt

CONSTANTS Threads,  \* requests in flight at the same time
          Weights,  \* the weight list: Weights[a] is the weight of address a
          Updates,  \* how many times Update may run; bounds the model
          MaxDrift  \* no request starts beyond this weight; bounds the model

ASSUME WeightRoundRobinAssumption ==
    Weights \in Seq(Nat) /\ Updates \in Nat /\ MaxDrift \in Nat

Addrs == DOMAIN Weights
Nodes == (0 .. Updates) \X Addrs
None == <<-1, 0>>
Weight(w) == Weights[w[2]]

VARIABLES
    rss,       \* r.rss
    current,   \* current[w]: currentWeight of node w
    pc,        \* pc[t]: where request t is inside Next, or "idle"
    local,     \* local[t]: the local of request t in Next, see Fresh
    pending,   \* addresses the Update in progress has still to add
    updating,  \* an Update is in progress
    updates,   \* Updates so far
    hit,       \* history: hit[t]: r.rss changed while request t was in Next
    clean,     \* history: no two calls overlapped on the nodes there are
    served,    \* history: served[a]: picks of address a in the current round
    picks      \* history: picks in the current round

updateVars == <<pending, updating, updates>>
history == <<clean, served, picks>>
vars == <<rss, current, pc, local, updateVars, hit, history>>

InNext == {"loop", "index", "read", "write", "compare", "readBest", "writeBest"}
NothingServed == [a \in Addrs |-> 0]

\* i counts from 1 here; tmp is the currentWeight read last.
Fresh == [i |-> 1, w |-> None, tmp |-> 0, total |-> 0, best |-> None]

Init ==
    /\ rss = [a \in Addrs |-> <<0, a>>]
    /\ current = [w \in Nodes |-> 0]
    /\ pc = [t \in Threads |-> "idle"]
    /\ local = [t \in Threads |-> Fresh]
    /\ pending = <<>> /\ updating = FALSE /\ updates = 0
    /\ hit = [t \in Threads |-> FALSE]
    /\ clean = TRUE /\ served = NothingServed /\ picks = 0

\* The step of request t from one point of Next to another.
Go(t, from, to) == pc[t] = from /\ pc' = [pc EXCEPT ![t] = to]

NoCallOverlaps(t) == ~updating /\ \A u \in Threads \ {t} : pc[u] = "idle"

\* History: a round of picks starts over.
StartOver == served' = NothingServed /\ picks' = 0

Enter(t) ==
    /\ \A w \in Nodes : current[w] \in -MaxDrift .. MaxDrift
    /\ Go(t, "idle", "loop")
    /\ hit' = [hit EXCEPT ![t] = FALSE]
    /\ clean' = (clean /\ NoCallOverlaps(t))
    /\ IF clean' THEN UNCHANGED <<served, picks>> ELSE StartOver
    /\ UNCHANGED <<rss, current, local, updateVars>>

\* Line 42, and after the loop lines 60 to 62: an empty list gives "".
LoopOnePast(i) == i <= Len(rss) + 1
InLoop(i) == i <= Len(rss)
NothingFound(b) == b = None

LoopTest(t) ==
    /\ Go(t, "loop", IF InLoop(local[t].i) THEN "index"
                     ELSE IF NothingFound(local[t].best) THEN "idle" ELSE "readBest")
    /\ UNCHANGED <<rss, current, local, updateVars, hit, history>>

\* Line 43, which reads r.rss again and panics outside it.
Index(t) ==
    /\ IF local[t].i <= Len(rss)
       THEN /\ Go(t, "index", "read")
            /\ local' = [local EXCEPT ![t].w = rss[local[t].i]]
       ELSE /\ Go(t, "index", "panic")
            /\ local' = [local EXCEPT ![t] = Fresh]
    /\ UNCHANGED <<rss, current, updateVars, hit, history>>

\* Lines 45 and 48.
AddedToTotal(t) == Weight(local[t].w)

ReadWeight(t) ==
    /\ Go(t, "read", "write")
    /\ local' = [local EXCEPT ![t].total = @ + AddedToTotal(t),
                              ![t].tmp = current[local[t].w]]
    /\ UNCHANGED <<rss, current, updateVars, hit, history>>

RaisedAfresh(t) == Weight(local[t].w)
Raised(t) == local[t].tmp + Weight(local[t].w)

WriteWeight(t) ==
    /\ Go(t, "write", "compare")
    /\ current' = [current EXCEPT ![local[t].w] = Raised(t)]
    /\ local' = [local EXCEPT ![t].tmp = 0]
    /\ UNCHANGED <<rss, updateVars, hit, history>>

\* Lines 55 to 57.
Better(w, b) == b = None \/ current[w] > current[b]

Compare(t) ==
    /\ Go(t, "compare", "loop")
    /\ local' = [local EXCEPT ![t].i = @ + 1,
                              ![t].w = None,
                              ![t].best = IF Better(local[t].w, @)
                                          THEN local[t].w ELSE @]
    /\ UNCHANGED <<rss, current, updateVars, hit, history>>

\* Lines 63 and 64.
ReadBest(t) ==
    /\ Go(t, "readBest", "writeBest")
    /\ local' = [local EXCEPT ![t].tmp = current[local[t].best]]
    /\ UNCHANGED <<rss, current, updateVars, hit, history>>

\* f[1] + ... + f[n]
SumUpTo(f, n) ==
    LET sum[k \in 0 .. n] == IF k = 0 THEN 0 ELSE sum[k - 1] + f[k] IN sum[n]

Shares == [i \in 1 .. Len(rss) |-> Weight(rss[i])]
SumOfWeights == SumUpTo(Shares, Len(rss))

CountPick(a) ==
    IF picks >= SumOfWeights
    THEN served' = [NothingServed EXCEPT ![a] = 1] /\ picks' = 1
    ELSE served' = [served EXCEPT ![a] = @ + 1] /\ picks' = picks + 1

WriteBest(t) ==
    /\ Go(t, "writeBest", "idle")
    /\ current' = [current EXCEPT ![local[t].best] = local[t].tmp - local[t].total]
    /\ local' = [local EXCEPT ![t] = Fresh]
    /\ IF clean THEN CountPick(local[t].best[2]) ELSE UNCHANGED <<served, picks>>
    /\ UNCHANGED <<rss, updateVars, hit, clean>>

\* The recover of the middleware or of the connection ends the request.
Recover(t) ==
    /\ Go(t, "panic", "idle")
    /\ UNCHANGED <<rss, current, local, updateVars, hit, history>>

EverybodyHit == [t \in Threads |-> pc[t] # "idle" \/ hit[t]]

\* Lines 83 to 88: r.rss = nil, then one Add for every active address, in
\* the order the health checker's list has them.
UpdateStarts ==
    /\ ~updating /\ updates < Updates
    /\ updating' = TRUE /\ updates' = updates + 1
    /\ rss' = <<>>
    /\ pending' \in SetToAllKPermutations(Addrs)
    /\ hit' = EverybodyHit
    /\ clean' = FALSE /\ StartOver
    /\ UNCHANGED <<current, pc, local>>

Add ==
    /\ updating /\ pending # <<>>
    /\ rss' = Append(rss, <<updates, Head(pending)>>)
    /\ pending' = Tail(pending)
    /\ hit' = EverybodyHit
    /\ UNCHANGED <<current, pc, local, updating, updates, history>>

UpdateReturns ==
    /\ updating /\ pending = <<>>
    /\ updating' = FALSE
    /\ clean' = /\ \A t \in Threads : pc[t] = "idle"
                /\ \A a \in Addrs : current[<<updates, a>>] = 0
    /\ UNCHANGED <<rss, current, pc, local, pending, updates, hit, served, picks>>

Request(t) ==
    \/ Enter(t) \/ LoopTest(t) \/ Index(t) \/ ReadWeight(t) \/ WriteWeight(t)
    \/ Compare(t) \/ ReadBest(t) \/ WriteBest(t) \/ Recover(t)

Update == UpdateStarts \/ Add \/ UpdateReturns

Next == (\E t \in Threads : Request(t)) \/ Update

Spec == Init /\ [][Next]_vars
-----------------------------------------------------------------------------
TypeOK ==
    /\ rss \in Seq(Nodes)
    /\ current \in [Nodes -> Int]
    /\ pc \in [Threads -> InNext \cup {"idle", "panic"}]
    /\ local \in [Threads -> [i : Nat \ {0}, w : Nodes \cup {None}, tmp : Int,
                             total : Nat, best : Nodes \cup {None}]]
    /\ \A t \in Threads :
          /\ pc[t] \in {"read", "write", "compare"} => local[t].w \in Nodes
          /\ pc[t] \in {"readBest", "writeBest"} => local[t].best \in Nodes
    /\ pending \in Seq(Addrs)
    /\ updating \in BOOLEAN /\ updates \in 0 .. Updates
    /\ hit \in [Threads -> BOOLEAN] /\ clean \in BOOLEAN
    /\ served \in [Addrs -> Nat] /\ picks \in Nat

\* Next panics only if an Update changed the list under this very call: line 42
\* read a length that line 43 no longer finds.
PanicOnlyUnderUpdate == \A t \in Threads : pc[t] = "panic" => hit[t]

Undisturbed == clean /\ \A t \in Threads : pc[t] = "idle"

Listed == {rss[i] : i \in 1 .. Len(rss)}

\* "Weighted round robin: requests are assigned by the servers' weights"
\* (Go_Gateway technical analysis, line 739): of as many picks in a row as the
\* weights add up to, every address gets exactly its weight.
Proportional ==
    Undisturbed /\ SumOfWeights > 0 /\ picks = SumOfWeights =>
        \A w \in Listed : served[w[2]] = Weight(w)
=============================================================================
