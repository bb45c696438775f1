----------------------- MODULE WeightRoundRobinProofs -----------------------
(***************************************************************************)
(* Proofs about WeightRoundRobin for any number of concurrent requests,    *)
(* any weight list and any number of Updates: the types, the panic, and    *)
(* that a round of picks gives every address its weight.                   *)
(*                                                                         *)
(* The last needs sums over the list.  A recursive function unfolds once   *)
(* it is known to exist, which LeastNumber and UpTo show: an induction     *)
(* over the natural numbers for a set of them.                             *)
(***************************************************************************)
EXTENDS WeightRoundRobin, FiniteSetTheorems, NaturalsInduction,
        WellFoundedInduction, TLAPS

\* A request that passed the test of line 42 finds its node on line 43 unless
\* the list changed in between: without a change the list only stays as it is.
IndexInv ==
    \A t \in Threads :
        /\ pc[t] = "index" /\ ~hit[t] => local[t].i <= Len(rss)
        /\ pc[t] = "panic" => hit[t]

IInv == TypeOK /\ IndexInv

Locals == [i : Nat \ {0}, w : Nodes \cup {None}, tmp : Int,
           total : Nat, best : Nodes \cup {None}]

LEMMA WeightType ==
    ASSUME NEW w \in Nodes
    PROVE  Weight(w) \in Nat
BY WeightRoundRobinAssumption DEF Weight, Nodes, Addrs

LEMMA OrderType ==
    ASSUME NEW order \in SetToAllKPermutations(Addrs)
    PROVE  order \in Seq(Addrs)
<1>1. PICK S \in SUBSET Addrs : order \in SetToSeqs(S)
  BY DEF SetToAllKPermutations
<1>2. order \in [1 .. Cardinality(S) -> S]
  BY <1>1 DEF SetToSeqs
<1>3. IsFiniteSet(Addrs)
  <2>1. Len(Weights) \in Nat /\ Addrs = 1 .. Len(Weights)
    BY WeightRoundRobinAssumption DEF Addrs
  <2>2. QED
    BY <2>1, FS_Interval
<1>4. Cardinality(S) \in Nat
  BY <1>1, <1>3, FS_Subset, FS_CardinalityType
<1>5. QED
  BY <1>2, <1>4

LEMMA InitIInv == Init => IInv
<1> SUFFICES ASSUME Init PROVE IInv
  OBVIOUS
<1>1. rss \in Seq(Nodes)
  <2>1. /\ Len(Weights) \in Nat /\ Addrs = 1 .. Len(Weights)
        /\ \A a \in Addrs : <<0, a>> \in Nodes
    BY WeightRoundRobinAssumption DEF Addrs, Nodes
  <2>2. QED
    BY <2>1 DEF Init
<1>2. pending \in Seq(Addrs)
  BY DEF Init
<1>3. Fresh \in Locals
  BY DEF Fresh, Locals
<1>4. local \in [Threads -> Locals]
  BY <1>3 DEF Init
<1>5. /\ current \in [Nodes -> Int]
      /\ pc \in [Threads -> InNext \cup {"idle", "panic"}]
      /\ \A t \in Threads : pc[t] = "idle"
      /\ hit \in [Threads -> BOOLEAN]
      /\ served \in [Addrs -> Nat]
      /\ updates \in 0 .. Updates
  BY WeightRoundRobinAssumption DEF Init, NothingServed
<1>6. TypeOK
  BY <1>1, <1>2, <1>4, <1>5 DEF Init, TypeOK, Locals
<1>7. IndexInv
  BY <1>5 DEF IndexInv
<1>8. QED
  BY <1>6, <1>7 DEF IInv

\* What one request does to the locals, weights and history, type by type.
LEMMA RequestType ==
    ASSUME TypeOK, NEW t \in Threads, Request(t)
    PROVE  TypeOK'
<1> USE DEF Locals
<1>0. /\ local \in [Threads -> Locals] /\ local[t] \in Locals
      /\ pc \in [Threads -> InNext \cup {"idle", "panic"}]
  BY DEF TypeOK
<1>1. /\ UNCHANGED <<rss, pending, updating, updates>>
      /\ pc' \in [Threads -> InNext \cup {"idle", "panic"}]
      /\ \A u \in Threads : u # t => pc'[u] = pc[u]
  BY <1>0 DEF Request, Enter, LoopTest, Index, ReadWeight, WriteWeight, Compare,
         ReadBest, WriteBest, Recover, Go, updateVars, InNext
<1>2. Fresh \in Locals
  BY DEF Fresh
<1>3. /\ local' \in [Threads -> Locals]
      /\ \A u \in Threads : u # t => local'[u] = local[u]
  <2>1. CASE Index(t)
    <3>1. local[t].i <= Len(rss) => rss[local[t].i] \in Nodes
      BY <1>0 DEF TypeOK
    <3>2. CASE local[t].i <= Len(rss)
      <4>1. DEFINE new == [local[t] EXCEPT !.w = rss[local[t].i]]
      <4>2. new \in Locals
        BY <1>0, <3>1, <3>2
      <4>3. local' = [local EXCEPT ![t] = new]
        BY <1>0, <2>1, <3>2 DEF Index
      <4>4. QED
        BY <1>0, <4>2, <4>3
    <3>3. CASE ~(local[t].i <= Len(rss))
      BY <1>0, <1>2, <2>1, <3>3 DEF Index
    <3>4. QED
      BY <3>2, <3>3
  <2>2. CASE ReadWeight(t)
    <3>1. local[t].w \in Nodes
      BY <2>2 DEF TypeOK, ReadWeight, Go
    <3>2. local[t].total + AddedToTotal(t) \in Nat /\ current[local[t].w] \in Int
      BY <1>0, <3>1, WeightType DEF AddedToTotal, TypeOK
    <3>3. DEFINE new == [local[t] EXCEPT !.total = @ + AddedToTotal(t),
                                         !.tmp = current[local[t].w]]
    <3>4. new \in Locals
      BY <1>0, <3>2
    <3>5. local' = [local EXCEPT ![t] = new]
      BY <1>0, <2>2 DEF ReadWeight
    <3>6. QED
      BY <1>0, <3>4, <3>5
  <2>3. CASE WriteWeight(t)
    BY <1>0, <2>3 DEF WriteWeight, Raised
  <2>4. CASE Compare(t)
    <3>1. local[t].w \in Nodes
      BY <2>4 DEF TypeOK, Compare, Go
    <3>2. DEFINE new(b) == [local[t] EXCEPT !.i = @ + 1, !.w = None, !.best = b]
    <3>3. ASSUME NEW b \in Nodes \cup {None}
          PROVE  new(b) \in Locals
      <4>1. local[t].i + 1 \in Nat \ {0}
        BY <1>0
      <4>2. QED
        BY <1>0, <3>3, <4>1
    <3>4. PICK b \in {local[t].w, local[t].best} :
            local' = [local EXCEPT ![t] = new(b)]
      <4>1. CASE Better(local[t].w, local[t].best)
        BY <1>0, <2>4, <4>1 DEF Compare
      <4>2. CASE ~Better(local[t].w, local[t].best)
        BY <1>0, <2>4, <4>2 DEF Compare
      <4>3. QED
        BY <4>1, <4>2
    <3>5. b \in Nodes \cup {None}
      BY <1>0, <3>1
    <3>6. new(b) \in Locals
      BY <3>3, <3>5
    <3> HIDE DEF new
    <3>7. QED
      BY <1>0, <3>4, <3>6
  <2>5. CASE ReadBest(t)
    <3>1. current[local[t].best] \in Int
      BY <2>5 DEF TypeOK, ReadBest, Go
    <3>2. QED
      BY <1>0, <2>5, <3>1 DEF ReadBest
  <2>6. CASE WriteBest(t)
    BY <1>0, <1>2, <2>6 DEF WriteBest
  <2>7. CASE Enter(t) \/ LoopTest(t) \/ Recover(t)
    BY <1>0, <2>7 DEF Enter, LoopTest, Recover
  <2>8. QED
    BY <2>1, <2>2, <2>3, <2>4, <2>5, <2>6, <2>7 DEF Request
<1>4. \A u \in Threads :
          /\ pc'[u] \in {"read", "write", "compare"} => local'[u].w \in Nodes
          /\ pc'[u] \in {"readBest", "writeBest"} => local'[u].best \in Nodes
  <2>1. ASSUME NEW u \in Threads, u # t
        PROVE  /\ pc'[u] \in {"read", "write", "compare"} => local'[u].w \in Nodes
               /\ pc'[u] \in {"readBest", "writeBest"} => local'[u].best \in Nodes
    BY <1>1, <1>3, <2>1 DEF TypeOK
  <2>2. /\ pc'[t] \in {"read", "write", "compare"} => local'[t].w \in Nodes
        /\ pc'[t] \in {"readBest", "writeBest"} => local'[t].best \in Nodes
    <3>1. CASE Enter(t)
      BY <1>0, <3>1 DEF Enter, Go
    <3>2. CASE LoopTest(t)
      BY <1>0, <3>2 DEF LoopTest, Go, NothingFound
    <3>3. CASE Index(t)
      <4>1. local[t].i <= Len(rss) => rss[local[t].i] \in Nodes
        BY <1>0 DEF TypeOK
      <4>2. QED
        BY <1>0, <3>3, <4>1 DEF Index, Go
    <3>4. CASE ReadWeight(t)
      BY <1>0, <3>4 DEF ReadWeight, Go, TypeOK
    <3>5. CASE WriteWeight(t)
      BY <1>0, <3>5 DEF WriteWeight, Raised, Go, TypeOK
    <3>6. CASE Compare(t)
      BY <1>0, <3>6 DEF Compare, Go
    <3>7. CASE ReadBest(t)
      BY <1>0, <3>7 DEF ReadBest, Go, TypeOK
    <3>8. CASE WriteBest(t)
      BY <1>0, <3>8 DEF WriteBest, Go
    <3>9. CASE Recover(t)
      BY <1>0, <3>9 DEF Recover, Go
    <3>10. QED
      BY <3>1, <3>2, <3>3, <3>4, <3>5, <3>6, <3>7, <3>8, <3>9 DEF Request
  <2>3. QED
    BY <2>1, <2>2
<1>5. current' \in [Nodes -> Int]
  <2>1. CASE WriteWeight(t)
    <3>1. local[t].w \in Nodes
      BY <2>1 DEF TypeOK, WriteWeight, Raised, Go
    <3>2. local[t].tmp + Weight(local[t].w) \in Int
      BY <1>0, <3>1, WeightType
    <3>3. QED
      BY <2>1, <3>2 DEF WriteWeight, Raised, TypeOK
  <2>2. CASE WriteBest(t)
    <3>1. local[t].tmp - local[t].total \in Int
      BY <1>0
    <3>2. QED
      BY <2>2, <3>1 DEF WriteBest, TypeOK
  <2>3. CASE current' = current
    BY <2>3 DEF TypeOK
  <2>4. QED
    BY <2>1, <2>2, <2>3 DEF Request, Enter, LoopTest, Index, ReadWeight,
       Compare, ReadBest, Recover
<1>6. hit' \in [Threads -> BOOLEAN] /\ clean' \in BOOLEAN
  BY DEF TypeOK, Request, Enter, LoopTest, Index, ReadWeight, WriteWeight,
         Compare, ReadBest, WriteBest, Recover, history
<1>7. served' \in [Addrs -> Nat] /\ picks' \in Nat
  <2>1. CASE WriteBest(t)
    <3>1. local[t].best \in Nodes
      BY <2>1 DEF TypeOK, WriteBest, Go
    <3>2. local[t].best[2] \in Addrs
      BY <3>1 DEF Nodes
    <3>3. \/ UNCHANGED <<served, picks>>
          \/ served' = [NothingServed EXCEPT ![local[t].best[2]] = 1] /\ picks' = 1
          \/ served' = [served EXCEPT ![local[t].best[2]] = @ + 1]
             /\ picks' = picks + 1
      BY <2>1 DEF WriteBest, CountPick
    <3>4. NothingServed \in [Addrs -> Nat] /\ served \in [Addrs -> Nat]
          /\ picks \in Nat
      BY DEF TypeOK, NothingServed
    <3>5. served[local[t].best[2]] + 1 \in Nat /\ picks + 1 \in Nat
      BY <3>2, <3>4
    <3>6. QED
      BY <3>2, <3>3, <3>4, <3>5
  <2>2. CASE Enter(t)
    <3>1. UNCHANGED <<served, picks>> \/ StartOver
      BY <2>2 DEF Enter
    <3>2. QED
      BY <3>1 DEF TypeOK, StartOver, NothingServed
  <2>3. CASE UNCHANGED <<served, picks>>
    BY <2>3 DEF TypeOK
  <2>4. QED
    BY <2>1, <2>2, <2>3 DEF Request, LoopTest, Index, ReadWeight, WriteWeight,
       Compare, ReadBest, Recover, history
<1>8. /\ rss' \in Seq(Nodes) /\ pending' \in Seq(Addrs)
      /\ updating' \in BOOLEAN /\ updates' \in 0 .. Updates
  BY <1>1 DEF TypeOK
<1>9. QED
  BY <1>1, <1>3, <1>4, <1>5, <1>6, <1>7, <1>8 DEF TypeOK

LEMMA UpdateType ==
    ASSUME TypeOK, Update
    PROVE  TypeOK'
<1>1. UNCHANGED <<current, pc, local>>
  BY DEF Update, UpdateStarts, Add, UpdateReturns
<1>2. hit' \in [Threads -> BOOLEAN]
  BY DEF Update, UpdateStarts, Add, UpdateReturns, EverybodyHit, TypeOK
<1>3. /\ rss' \in Seq(Nodes) /\ pending' \in Seq(Addrs)
      /\ updating' \in BOOLEAN /\ updates' \in 0 .. Updates
  <2>1. CASE UpdateStarts
    <3>1. pending' \in Seq(Addrs)
      BY <2>1, OrderType DEF UpdateStarts
    <3>2. QED
      BY <2>1, <3>1, WeightRoundRobinAssumption DEF UpdateStarts, TypeOK
  <2>2. CASE Add
    <3>1. Head(pending) \in Addrs /\ Tail(pending) \in Seq(Addrs)
      BY <2>2 DEF Add, TypeOK
    <3>2. <<updates, Head(pending)>> \in Nodes
      BY <3>1 DEF Nodes, TypeOK
    <3>3. QED
      BY <2>2, <3>1, <3>2 DEF Add, TypeOK
  <2>3. CASE UpdateReturns
    BY <2>3 DEF UpdateReturns, TypeOK
  <2>4. QED
    BY <2>1, <2>2, <2>3 DEF Update
<1>4. clean' \in BOOLEAN /\ served' \in [Addrs -> Nat] /\ picks' \in Nat
  <2>1. /\ NothingServed \in [Addrs -> Nat] /\ served \in [Addrs -> Nat]
        /\ picks \in Nat /\ clean \in BOOLEAN
    BY DEF TypeOK, NothingServed
  <2>2. /\ served' \in {served, NothingServed}
        /\ picks' \in {picks, 0}
    BY DEF Update, UpdateStarts, Add, UpdateReturns, StartOver, history
  <2>3. clean' \in BOOLEAN
    BY <2>1 DEF Update, UpdateStarts, Add, UpdateReturns, history
  <2>4. QED
    BY <2>1, <2>2, <2>3
<1>5. QED
  BY <1>1, <1>2, <1>3, <1>4 DEF TypeOK

LEMMA NextIndex ==
    ASSUME IInv, Next
    PROVE  IndexInv'
<1>1. CASE Update
  <2>1. UNCHANGED <<pc, local>>
    BY <1>1 DEF Update, UpdateStarts, Add, UpdateReturns
  <2>2. CASE UpdateReturns
    BY <2>1, <2>2 DEF IInv, IndexInv, UpdateReturns
  <2>3. CASE UpdateStarts \/ Add
    <3>1. \A t \in Threads : pc[t] # "idle" => hit'[t]
      BY <2>3 DEF UpdateStarts, Add, EverybodyHit
    <3>2. QED
      BY <2>1, <3>1 DEF IndexInv
  <2>4. QED
    BY <1>1, <2>2, <2>3 DEF Update
<1>2. ASSUME NEW t \in Threads, Request(t)
      PROVE  IndexInv'
  <2>0. /\ pc \in [Threads -> InNext \cup {"idle", "panic"}]
        /\ local \in [Threads -> Locals] /\ hit \in [Threads -> BOOLEAN]
    BY DEF IInv, TypeOK, Locals
  <2>1. rss' = rss
    BY <1>2 DEF Request, Enter, LoopTest, Index, ReadWeight, WriteWeight,
       Compare, ReadBest, WriteBest, Recover
  <2>2. ASSUME NEW u \in Threads, u # t
        PROVE  pc'[u] = pc[u] /\ local'[u] = local[u] /\ hit'[u] = hit[u]
    BY <1>2, <2>0, <2>2 DEF Request, Enter, LoopTest, Index, ReadWeight,
       WriteWeight, Compare, ReadBest, WriteBest, Recover, Go
  <2>3. /\ pc'[t] = "index" => local'[t].i <= Len(rss)
        /\ pc'[t] = "panic" => hit'[t]
    <3>1. CASE LoopTest(t)
      BY <2>0, <3>1 DEF LoopTest, Go, InLoop
    <3>2. CASE Index(t)
      BY <2>0, <3>2 DEF Index, Go, IInv, IndexInv
    <3>3. CASE Enter(t) \/ ReadWeight(t) \/ WriteWeight(t) \/ Compare(t)
               \/ ReadBest(t) \/ WriteBest(t) \/ Recover(t)
      BY <2>0, <3>3 DEF Enter, ReadWeight, WriteWeight, Compare, ReadBest,
         WriteBest, Recover, Go
    <3>4. QED
      BY <1>2, <3>1, <3>2, <3>3 DEF Request
  <2>4. QED
    BY <2>1, <2>2, <2>3 DEF IInv, IndexInv
<1>3. QED
  BY <1>1, <1>2 DEF Next

LEMMA NextIInv == IInv /\ [Next]_vars => IInv'
<1> SUFFICES ASSUME IInv, [Next]_vars PROVE IInv'
  OBVIOUS
<1>1. CASE Next
  BY <1>1, RequestType, UpdateType, NextIndex DEF IInv, Next
<1>2. CASE UNCHANGED vars
  BY <1>2 DEF vars, updateVars, history, IInv, TypeOK, IndexInv
<1>3. QED
  BY <1>1, <1>2

\* The lists, weights, locals and the bookkeeping of Next keep their types: no
\* request ever subtracts from a node it has not found.
THEOREM TypesCorrect == Spec => []TypeOK
<1>1. IInv => TypeOK
  BY DEF IInv
<1>2. QED
  BY <1>1, InitIInv, NextIInv, PTL DEF Spec

\* Lines 42 and 43 disagree about the list only under an Update.
THEOREM PanicNeedsUpdate == Spec => []PanicOnlyUnderUpdate
<1>1. IInv => PanicOnlyUnderUpdate
  BY DEF IInv, IndexInv, PanicOnlyUnderUpdate
<1>2. QED
  BY <1>1, InitIInv, NextIInv, PTL DEF Spec
-----------------------------------------------------------------------------
(* Proportion.                                                             *)

\* The list has one node of every address in it, made by the last Update.
ListInv ==
    /\ \A i \in 1 .. Len(rss) : rss[i][1] = updates
    /\ \A i, j \in 1 .. Len(rss) : rss[i][2] = rss[j][2] => i = j
    /\ \A i, j \in 1 .. Len(pending) : pending[i] = pending[j] => i = j
    /\ \A i \in 1 .. Len(rss) : \A j \in 1 .. Len(pending) : rss[i][2] # pending[j]

\* A request begins with fresh locals; picks count while calls do not overlap.
FreshInv ==
    \A t \in Threads :
        pc[t] \in {"idle", "panic"} \/ (pc[t] = "loop" /\ local[t].best = None) =>
            local[t] = Fresh

CleanInv ==
    /\ updating => ~clean
    /\ ~clean => picks = 0 /\ served = NothingServed
    /\ clean => \A t \in Threads :
          pc[t] # "idle" => ~hit[t] /\ \A u \in Threads \ {t} : pc[u] = "idle"

\* What a node of this weight is owed, in a list whose weights add up to sum,
\* that got so many of so many picks.
Due(pickCount, weight, sum, got) == pickCount * weight - sum * got

ServedOf == [k \in 1 .. Len(rss) |-> served[rss[k][2]]]
Owed(k) == Due(picks, Shares[k], SumOfWeights, ServedOf[k])

\* What a request knows that is at this point of Next with these locals, from
\* the first node it reads to the best it lowers: the sum of the nodes it has
\* read, the weights of those it has raised, and the best of the first i - 1.
Summed(at, l) == IF at \in {"write", "compare"} THEN l.i ELSE l.i - 1
RaisedBy(at, l) == IF at = "compare" THEN l.i ELSE l.i - 1

CallAt(at, l, weight) ==
    /\ l.i <= Len(rss) + 1
    /\ at \in {"index", "read", "write", "compare"} => l.i <= Len(rss)
    /\ at \in {"readBest", "writeBest"} => l.i = Len(rss) + 1
    /\ at \in {"read", "write", "compare"} => l.w = rss[l.i]
    /\ at = "write" => l.tmp = weight[l.w]
    /\ at = "writeBest" => l.tmp = weight[l.best]
    /\ l.total = SumUpTo(Shares, Summed(at, l))
    /\ \A k \in 1 .. Len(rss) :
          weight[rss[k]] = Owed(k) + IF k <= RaisedBy(at, l) THEN Shares[k] ELSE 0
    /\ l.i = 1 => l.best = None
    /\ l.i > 1 => \E k \in 1 .. l.i - 1 : l.best = rss[k]
    /\ \A k \in 1 .. l.i - 1 : weight[rss[k]] <= weight[l.best]

\* The round so far, between calls and within one.
RoundOK ==
    /\ picks <= SumOfWeights
    /\ SumUpTo(ServedOf, Len(rss)) = picks
    /\ \A k \in 1 .. Len(rss) : Owed(k) > -SumOfWeights

AtRest == \A k \in 1 .. Len(rss) : current[rss[k]] = Owed(k)

BalanceInv ==
    clean /\ SumOfWeights > 0 =>
        /\ RoundOK
        /\ (\A t \in Threads : pc[t] = "idle") => AtRest
        /\ \A t \in Threads : pc[t] # "idle" => CallAt(pc[t], local[t], current)
-----------------------------------------------------------------------------
(* Sums.                                                                   *)

\* A set of numbers has a least one ...
LEMMA LeastNumber ==
    ASSUME NEW T, T \subseteq Nat, T # {}
    PROVE  \E x \in T : \A y \in T : x <= y
<1>1. PICK R : R = {ss \in Nat \X Nat : ss[1] < ss[2]}
  OBVIOUS
<1>2. IsWellFoundedOn(R, Nat)
  BY <1>1, NatLessThanWellFounded DEF OpToRel
<1>3. PICK x \in T : \A y \in T : ~ (<<y, x>> \in R)
  BY <1>2, WFMin
<1>4. \A y \in T : x <= y
  <2> SUFFICES ASSUME NEW y \in T PROVE x <= y
    OBVIOUS
  <2>1. x \in Nat /\ y \in Nat
    OBVIOUS
  <2>2. ~ (y < x)
    BY <1>1, <1>3, <2>1
  <2>3. QED
    BY <2>1, <2>2
<1>5. QED
  BY <1>4

\* ... so a set that has 0, and with a number the next one, has all up to n.
LEMMA UpTo ==
    ASSUME NEW n \in Nat, NEW Q, 0 \in Q, \A k \in 1 .. n : k - 1 \in Q => k \in Q
    PROVE  \A k \in 0 .. n : k \in Q
<1>. DEFINE T == {k \in 0 .. n : k \notin Q}
<1>1. SUFFICES ASSUME T # {} PROVE FALSE
  OBVIOUS
<1>2. PICK m \in T : \A y \in T : m <= y
  <2>1. T \subseteq Nat
    OBVIOUS
  <2>. HIDE DEF T
  <2>2. QED
    BY <1>1, <2>1, LeastNumber
<1>3. m \in 1 .. n /\ m - 1 \in 0 .. n
  OBVIOUS
<1>4. m - 1 \notin T
  BY <1>2, <1>3
<1>5. QED
  BY <1>3, <1>4

\* The function whose last value SumUpTo(f, n) is.
IsSum(s, f, n) == s = [k \in 0 .. n |-> IF k = 0 THEN 0 ELSE s[k - 1] + f[k]]

LEMMA SumExists ==
    ASSUME NEW n \in Nat, NEW f
    PROVE  \E s : IsSum(s, f, n)
<1>. DEFINE Q == {m \in Nat : \E s : IsSum(s, f, m)}
<1>1. 0 \in Q
  <2>. DEFINE s == [k \in 0 .. 0 |-> 0]
  <2>1. IsSum(s, f, 0)
    BY DEF IsSum
  <2>2. QED
    BY <2>1
<1>2. ASSUME NEW m \in 1 .. n, m - 1 \in Q PROVE m \in Q
  <2>1. m - 1 \in Nat /\ m # 0 /\ m \in Nat
    BY <1>2
  <2>2. PICK r : IsSum(r, f, m - 1)
    BY <1>2
  <2>. DEFINE s == [k \in 0 .. m |-> IF k = m THEN r[m - 1] + f[m] ELSE r[k]]
  <2>3. \A k \in 0 .. m : s[k] = IF k = 0 THEN 0 ELSE s[k - 1] + f[k]
    <3>1. TAKE k \in 0 .. m
    <3>2. CASE k = m
      <4>1. m - 1 \in 0 .. m /\ m - 1 # m
        BY <2>1
      <4>2. QED
        BY <2>1, <3>2, <4>1
    <3>3. CASE k # m
      <4>1. k \in 0 .. m - 1 /\ (k # 0 => k - 1 \in 0 .. m /\ k - 1 # m)
        BY <2>1, <3>3
      <4>2. r[k] = IF k = 0 THEN 0 ELSE r[k - 1] + f[k]
        BY <2>2, <4>1 DEF IsSum
      <4>3. QED
        BY <3>3, <4>1, <4>2
    <3>4. QED
      BY <3>2, <3>3
  <2>4. IsSum(s, f, m)
    <3>1. s = [k \in 0 .. m |-> s[k]]
      OBVIOUS
    <3>. HIDE DEF s
    <3>2. [k \in 0 .. m |-> s[k]] = [k \in 0 .. m |-> IF k = 0 THEN 0 ELSE s[k - 1] + f[k]]
      BY <2>3
    <3>3. QED
      BY <3>1, <3>2 DEF IsSum
  <2>5. QED
    BY <2>1, <2>4
<1>. HIDE DEF Q
<1>3. \A k \in 0 .. n : k \in Q
  BY <1>1, <1>2, UpTo
<1>. USE DEF Q
<1>4. QED
  BY <1>3

LEMMA SumIs ==
    ASSUME NEW n \in Nat, NEW f
    PROVE  \E s : IsSum(s, f, n) /\ SumUpTo(f, n) = s[n]
<1>. DEFINE s == CHOOSE s : IsSum(s, f, n)
<1>1. IsSum(s, f, n)
  BY SumExists
<1>2. SumUpTo(f, n) = s[n]
  BY DEF SumUpTo, IsSum
<1>3. QED
  BY <1>1, <1>2

\* What a sum is, one summand after the other.
LEMMA SumUnfold ==
    ASSUME NEW n \in Nat, NEW f \in [1 .. n -> Int]
    PROVE  /\ SumUpTo(f, 0) = 0
           /\ \A k \in 1 .. n : SumUpTo(f, k) = SumUpTo(f, k - 1) + f[k]
           /\ \A k \in 0 .. n : SumUpTo(f, k) \in Int
<1>1. PICK s : IsSum(s, f, n) /\ SumUpTo(f, n) = s[n]
  BY SumIs
<1>2. s[0] = 0 /\ \A k \in 1 .. n : s[k] = s[k - 1] + f[k]
  <2>1. \A k \in 0 .. n : s[k] = IF k = 0 THEN 0 ELSE s[k - 1] + f[k]
    BY <1>1 DEF IsSum
  <2>2. QED
    BY <2>1
\* The sums of shorter prefixes are the same function's values.
<1>3. ASSUME NEW m \in 0 .. n PROVE SumUpTo(f, m) = s[m]
  <2>1. PICK r : IsSum(r, f, m) /\ SumUpTo(f, m) = r[m]
    BY SumIs
  <2>2. r[0] = 0 /\ \A k \in 1 .. m : r[k] = r[k - 1] + f[k]
    <3>1. \A k \in 0 .. m : r[k] = IF k = 0 THEN 0 ELSE r[k - 1] + f[k]
      BY <2>1 DEF IsSum
    <3>2. QED
      BY <3>1
  <2>. DEFINE Q == {k \in 0 .. m : r[k] = s[k]}
  <2>3. 0 \in Q
    BY <1>2, <2>2
  <2>4. \A k \in 1 .. m : k - 1 \in Q => k \in Q
    BY <1>2, <2>2
  <2>. HIDE DEF Q
  <2>5. \A k \in 0 .. m : k \in Q
    <3>1. m \in Nat
      OBVIOUS
    <3>2. QED
      BY <2>3, <2>4, <3>1, UpTo
  <2>. USE DEF Q
  <2>6. QED
    BY <2>1, <2>5
<1>. DEFINE Q == {k \in 0 .. n : s[k] \in Int}
<1>4. 0 \in Q
  BY <1>2
<1>5. \A k \in 1 .. n : k - 1 \in Q => k \in Q
  BY <1>2
<1>. HIDE DEF Q
<1>6. \A k \in 0 .. n : k \in Q
  BY <1>4, <1>5, UpTo
<1>. USE DEF Q
<1>7. \A k \in 1 .. n : k \in 0 .. n /\ k - 1 \in 0 .. n
  OBVIOUS
<1>8. \A k \in 1 .. n : SumUpTo(f, k) = SumUpTo(f, k - 1) + f[k]
  BY <1>2, <1>3, <1>7
<1>9. SumUpTo(f, 0) = 0 /\ \A k \in 0 .. n : SumUpTo(f, k) \in Int
  <2>1. 0 \in 0 .. n
    OBVIOUS
  <2>2. QED
    BY <1>2, <1>3, <1>6, <2>1
<1>10. QED
  BY <1>8, <1>9

\* If a * f <= b * g for every summand, then for the sums.
LEMMA SumScaled ==
    ASSUME NEW n \in Nat, NEW f \in [1 .. n -> Int], NEW g \in [1 .. n -> Int],
           NEW a \in Int, NEW b \in Int, \A k \in 1 .. n : a * f[k] <= b * g[k]
    PROVE  a * SumUpTo(f, n) <= b * SumUpTo(g, n)
<1>. DEFINE Q == {k \in 0 .. n : a * SumUpTo(f, k) <= b * SumUpTo(g, k)}
<1>1. 0 \in Q
  <2>1. SumUpTo(f, 0) = 0 /\ SumUpTo(g, 0) = 0
    BY SumUnfold
  <2>2. a * 0 <= b * 0
    OBVIOUS
  <2>3. QED
    BY <2>1, <2>2
<1>2. ASSUME NEW k \in 1 .. n, k - 1 \in Q PROVE k \in Q
  <2>. DEFINE x == SumUpTo(f, k - 1)
              y == SumUpTo(g, k - 1)
              u == f[k]
              v == g[k]
  <2>1. SumUpTo(f, k) = x + u /\ SumUpTo(g, k) = y + v
    BY SumUnfold
  <2>2. k - 1 \in 0 .. n /\ k \in 0 .. n
    OBVIOUS
  <2>3. x \in Int /\ y \in Int /\ u \in Int /\ v \in Int
    BY <2>2, SumUnfold
  <2>4. a * x <= b * y /\ a * u <= b * v
    BY <1>2
  <2>. HIDE DEF x, y, u, v
  <2>5. a * (x + u) = a * x + a * u /\ b * (y + v) = b * y + b * v
    BY <2>3
  <2>6. a * x \in Int /\ a * u \in Int /\ b * y \in Int /\ b * v \in Int
    BY <2>3
  <2>7. a * (x + u) <= b * (y + v)
    BY <2>4, <2>5, <2>6
  <2>8. QED
    BY <2>1, <2>2, <2>7
<1>. HIDE DEF Q
<1>3. \A k \in 0 .. n : k \in Q
  BY <1>1, <1>2, UpTo
<1>. USE DEF Q
<1>4. QED
  BY <1>3

\* If one summand grows by 1, so does the sum.
LEMMA SumBump ==
    ASSUME NEW n \in Nat, NEW f \in [1 .. n -> Int], NEW g \in [1 .. n -> Int],
           NEW j \in 1 .. n, g[j] = f[j] + 1, \A k \in 1 .. n : k # j => g[k] = f[k]
    PROVE  SumUpTo(g, n) = SumUpTo(f, n) + 1
<1>. DEFINE Q == {k \in 0 .. n : SumUpTo(g, k) = SumUpTo(f, k) + IF k >= j THEN 1 ELSE 0}
<1>1. 0 \in Q
  BY SumUnfold
<1>2. ASSUME NEW k \in 1 .. n, k - 1 \in Q PROVE k \in Q
  <2>. DEFINE x == SumUpTo(f, k - 1)
              y == SumUpTo(g, k - 1)
  <2>1. SumUpTo(f, k) = x + f[k] /\ SumUpTo(g, k) = y + g[k]
    BY SumUnfold
  <2>2. k - 1 \in 0 .. n /\ k \in 0 .. n
    OBVIOUS
  <2>3. x \in Int /\ y \in Int /\ f[k] \in Int /\ g[k] \in Int
    BY <2>2, SumUnfold
  <2>4. y = x + IF k - 1 >= j THEN 1 ELSE 0
    BY <1>2
  <2>. HIDE DEF x, y
  <2>5. y + g[k] = (x + f[k]) + IF k >= j THEN 1 ELSE 0
    <3>1. CASE k = j
      BY <2>3, <2>4, <3>1
    <3>2. CASE k # j
      <4>1. k >= j <=> k - 1 >= j
        BY <3>2
      <4>2. g[k] = f[k]
        BY <3>2
      <4>3. QED
        BY <2>3, <2>4, <4>1, <4>2
    <3>3. QED
      BY <3>1, <3>2
  <2>6. QED
    BY <2>1, <2>2, <2>5
<1>. HIDE DEF Q
<1>3. \A k \in 0 .. n : k \in Q
  BY <1>1, <1>2, UpTo
<1>. USE DEF Q
<1>4. QED
  BY <1>3

\* Summands that are no larger and have the same sum are the same.
LEMMA SumTight ==
    ASSUME NEW n \in Nat, NEW f \in [1 .. n -> Int], NEW g \in [1 .. n -> Int],
           \A k \in 1 .. n : f[k] <= g[k], SumUpTo(f, n) = SumUpTo(g, n)
    PROVE  \A k \in 1 .. n : f[k] = g[k]
<1>. DEFINE Q == {k \in 0 .. n : /\ SumUpTo(f, k) <= SumUpTo(g, k)
                                 /\ SumUpTo(f, k) = SumUpTo(g, k) => \A j \in 1 .. k : f[j] = g[j]}
<1>1. 0 \in Q
  BY SumUnfold
<1>2. ASSUME NEW k \in 1 .. n, k - 1 \in Q PROVE k \in Q
  <2>. DEFINE x == SumUpTo(f, k - 1)
              y == SumUpTo(g, k - 1)
  <2>1. SumUpTo(f, k) = x + f[k] /\ SumUpTo(g, k) = y + g[k]
    BY SumUnfold
  <2>2. k - 1 \in 0 .. n /\ k \in 0 .. n
    OBVIOUS
  <2>3. x \in Int /\ y \in Int /\ f[k] \in Int /\ g[k] \in Int
    BY <2>2, SumUnfold
  <2>4. x <= y /\ (x = y => \A j \in 1 .. k - 1 : f[j] = g[j]) /\ f[k] <= g[k]
    BY <1>2
  <2>. HIDE DEF x, y
  <2>5. x + f[k] <= y + g[k] /\ (x + f[k] = y + g[k] => x = y /\ f[k] = g[k])
    BY <2>3, <2>4
  <2>6. x + f[k] = y + g[k] => \A j \in 1 .. k : f[j] = g[j]
    <3>1. \A j \in 1 .. k : j = k \/ j \in 1 .. k - 1
      OBVIOUS
    <3>2. QED
      BY <2>4, <2>5, <3>1
  <2>7. QED
    BY <2>1, <2>2, <2>5, <2>6
<1>. HIDE DEF Q
<1>3. \A k \in 0 .. n : k \in Q
  BY <1>1, <1>2, UpTo
<1>. USE DEF Q
<1>4. QED
  BY <1>3
-----------------------------------------------------------------------------
(* The list and the calls.                                                 *)

LEMMA ListTypes ==
    ASSUME TypeOK
    PROVE  /\ Len(rss) \in Nat /\ \A i \in 1 .. Len(rss) : rss[i] \in Nodes
           /\ \A i \in 1 .. Len(rss) : rss[i][2] \in Addrs /\ Shares[i] = Weight(rss[i]) /\ Shares[i] \in Nat
           /\ Shares \in [1 .. Len(rss) -> Int] /\ ServedOf \in [1 .. Len(rss) -> Int]
           /\ SumOfWeights \in Int
<1>1. rss \in Seq(Nodes) /\ served \in [Addrs -> Nat]
  BY DEF TypeOK
<1>2. Len(rss) \in Nat /\ \A i \in 1 .. Len(rss) : rss[i] \in Nodes
  BY <1>1
<1>3. \A i \in 1 .. Len(rss) : rss[i][2] \in Addrs
  BY <1>2 DEF Nodes
<1>4. \A i \in 1 .. Len(rss) : Shares[i] = Weight(rss[i]) /\ Shares[i] \in Nat
  BY <1>2, WeightType DEF Shares
<1>5. Shares \in [1 .. Len(rss) -> Int]
  BY <1>2, WeightType DEF Shares
<1>6. ServedOf \in [1 .. Len(rss) -> Int]
  BY <1>1, <1>3 DEF ServedOf
<1>7. SumOfWeights \in Int
  BY <1>2, <1>5, SumUnfold DEF SumOfWeights
<1>8. QED
  BY <1>2, <1>3, <1>4, <1>5, <1>6, <1>7

LEMMA OrderOnce ==
    ASSUME NEW order \in SetToAllKPermutations(Addrs)
    PROVE  \A i, j \in 1 .. Len(order) : order[i] = order[j] => i = j
<1>1. PICK S \in SUBSET Addrs : order \in SetToSeqs(S)
  BY DEF SetToAllKPermutations
<1>2. /\ order \in [1 .. Cardinality(S) -> S]
      /\ \A i, j \in 1 .. Cardinality(S) : i # j => order[i] # order[j]
  BY <1>1 DEF SetToSeqs
<1>3. order \in Seq(Addrs)
  BY OrderType
<1>4. DOMAIN order = 1 .. Len(order)
  BY <1>3
<1>5. 1 .. Len(order) = 1 .. Cardinality(S)
  BY <1>2, <1>4
<1>6. QED
  BY <1>2, <1>5

LEMMA RequestLeavesList ==
    ASSUME NEW t \in Threads, Request(t)
    PROVE  UNCHANGED <<rss, updateVars>>
BY DEF Request, Enter, LoopTest, Index, ReadWeight, WriteWeight, Compare, ReadBest, WriteBest,
       Recover, updateVars

LEMMA ListStep == TypeOK /\ ListInv /\ [Next]_vars => ListInv'
<1>. SUFFICES ASSUME TypeOK, ListInv, [Next]_vars PROVE ListInv'
  OBVIOUS
<1>1. CASE UNCHANGED <<rss, pending, updates>>
  BY <1>1 DEF ListInv
<1>2. CASE UpdateStarts
  <2>1. /\ rss' = <<>>
        /\ \A i, j \in 1 .. Len(pending') : pending'[i] = pending'[j] => i = j
    BY <1>2, OrderOnce DEF UpdateStarts
  <2>2. \A i \in 1 .. Len(rss') : FALSE
    BY <2>1
  <2>3. QED
    BY <2>1, <2>2 DEF ListInv
<1>3. CASE Add
  <2>. DEFINE n == Len(rss)
              m == Len(pending)
              new == <<updates, Head(pending)>>
  <2>1. /\ rss' = Append(rss, new) /\ pending' = Tail(pending) /\ updates' = updates
        /\ pending # <<>>
    BY <1>3 DEF Add
  <2>2. rss \in Seq(Nodes) /\ pending \in Seq(Addrs)
    BY DEF TypeOK
  <2>3. Head(pending) = pending[1] /\ m \in Nat \ {0} /\ Head(pending) \in Addrs
    BY <2>1, <2>2
  <2>4. new \in Nodes /\ new[1] = updates /\ new[2] = pending[1]
    BY <2>3 DEF Nodes, TypeOK
  <2>. HIDE DEF new
  <2>5. Len(rss') = n + 1 /\ n \in Nat /\ rss'[n + 1] = new /\ \A i \in 1 .. n : rss'[i] = rss[i]
    BY <2>1, <2>2, <2>4
  <2>6. Len(pending') = m - 1 /\ \A i \in 1 .. m - 1 : pending'[i] = pending[i + 1]
    BY <2>1, <2>2, <2>3
  <2>7. \A i \in 1 .. Len(rss') : i = n + 1 \/ i \in 1 .. n
    BY <2>5
  <2>8. \A i \in 1 .. m - 1 : i + 1 \in 1 .. m /\ i + 1 # 1
    BY <2>3
  <2>9. 1 \in 1 .. m
    BY <2>3
  <2>10. \A i \in 1 .. Len(rss') : rss'[i][1] = updates'
    BY <2>1, <2>4, <2>5, <2>7 DEF ListInv
  <2>11. \A i, j \in 1 .. Len(rss') : rss'[i][2] = rss'[j][2] => i = j
    BY <2>4, <2>5, <2>7, <2>9 DEF ListInv
  <2>12. \A i, j \in 1 .. Len(pending') : pending'[i] = pending'[j] => i = j
    <3>1. SUFFICES ASSUME NEW i \in 1 .. m - 1, NEW j \in 1 .. m - 1, pending[i + 1] = pending[j + 1]
                   PROVE  i = j
      BY <2>6
    <3>2. i + 1 = j + 1
      BY <2>8, <3>1 DEF ListInv
    <3>3. QED
      BY <2>3, <3>2
  <2>13. \A i \in 1 .. Len(rss') : \A j \in 1 .. Len(pending') : rss'[i][2] # pending'[j]
    <3>1. TAKE i \in 1 .. Len(rss')
    <3>2. TAKE j \in 1 .. Len(pending')
    <3>3. j + 1 \in 1 .. m /\ j + 1 # 1 /\ pending'[j] = pending[j + 1]
      BY <2>6, <2>8, <3>2
    <3>4. CASE i = n + 1
      BY <2>4, <2>5, <2>9, <3>3, <3>4 DEF ListInv
    <3>5. CASE i \in 1 .. n
      BY <2>5, <3>3, <3>5 DEF ListInv
    <3>6. QED
      BY <2>7, <3>4, <3>5
  <2>14. QED
    BY <2>10, <2>11, <2>12, <2>13 DEF ListInv
<1>4. ASSUME NEW t \in Threads, Request(t) PROVE UNCHANGED <<rss, pending, updates>>
  BY <1>4, RequestLeavesList DEF updateVars
<1>5. CASE UpdateReturns \/ UNCHANGED vars
  BY <1>1, <1>5 DEF UpdateReturns, vars, updateVars
<1>6. QED
  BY <1>1, <1>2, <1>3, <1>4, <1>5 DEF Next, Update

\* A step of request t moves no other one.
LEMMA RequestApart ==
    ASSUME TypeOK, NEW t \in Threads, Request(t)
    PROVE  \A u \in Threads \ {t} : pc'[u] = pc[u] /\ local'[u] = local[u]
<1>1. /\ pc \in [Threads -> InNext \cup {"idle", "panic"}]
      /\ local \in [Threads -> Locals]
  BY DEF TypeOK, Locals
<1>2. QED
  BY <1>1 DEF Request, Enter, LoopTest, Index, ReadWeight, WriteWeight, Compare, ReadBest,
              WriteBest, Recover, Go

LEMMA NoneIsNoNode == None \notin Nodes
<1>1. None[1] = -1
  BY DEF None
<1>2. QED
  BY <1>1, WeightRoundRobinAssumption DEF Nodes

LEMMA FreshStep == TypeOK /\ FreshInv /\ [Next]_vars => FreshInv'
<1>. SUFFICES ASSUME TypeOK, FreshInv, [Next]_vars PROVE FreshInv'
  OBVIOUS
<1>1. CASE UNCHANGED <<pc, local>>
  BY <1>1 DEF FreshInv
<1>2. ASSUME NEW t \in Threads, Request(t) PROVE FreshInv'
  <2>1. /\ pc \in [Threads -> InNext \cup {"idle", "panic"}] /\ local \in [Threads -> Locals]
        /\ local[t] \in Locals
    BY DEF TypeOK, Locals
  <2>2. pc'[t] \in {"idle", "panic"} \/ (pc'[t] = "loop" /\ local'[t].best = None) =>
           local'[t] = Fresh
    <3>1. CASE Enter(t) \/ Recover(t)
      BY <2>1, <3>1 DEF Enter, Recover, Go, FreshInv
    <3>2. CASE LoopTest(t)
      BY <2>1, <3>2 DEF LoopTest, Go, NothingFound, FreshInv
    <3>3. CASE Index(t) \/ WriteBest(t)
      BY <2>1, <3>3 DEF Index, WriteBest, Go
    <3>4. CASE ReadWeight(t) \/ WriteWeight(t) \/ ReadBest(t)
      BY <2>1, <3>4 DEF ReadWeight, WriteWeight, ReadBest, Go
    <3>5. CASE Compare(t)
      <4>1. pc'[t] = "loop" /\ local[t].w \in Nodes
        BY <2>1, <3>5 DEF Compare, Go, TypeOK
      <4>2. local'[t].best = IF Better(local[t].w, local[t].best) THEN local[t].w ELSE local[t].best
        BY <2>1, <3>5 DEF Compare, Locals
      <4>3. local'[t].best # None
        BY <4>1, <4>2, NoneIsNoNode DEF Better
      <4>4. QED
        BY <4>1, <4>3
    <3>6. QED
      BY <1>2, <3>1, <3>2, <3>3, <3>4, <3>5 DEF Request
  <2>3. QED
    BY <1>2, <2>2, RequestApart DEF FreshInv
<1>3. CASE Update \/ UNCHANGED vars
  BY <1>1, <1>3 DEF Update, UpdateStarts, Add, UpdateReturns, vars
<1>4. QED
  BY <1>2, <1>3 DEF Next

LEMMA CleanStep == TypeOK /\ CleanInv /\ [Next]_vars => CleanInv'
<1>. SUFFICES ASSUME TypeOK, CleanInv, [Next]_vars PROVE CleanInv'
  OBVIOUS
<1>1. /\ pc \in [Threads -> InNext \cup {"idle", "panic"}] /\ clean \in BOOLEAN
      /\ hit \in [Threads -> BOOLEAN]
  BY DEF TypeOK
<1>2. ASSUME NEW t \in Threads, Request(t) PROVE CleanInv'
  <2>1. updating' = updating
    BY <1>2, RequestLeavesList DEF updateVars
  <2>2. \A u \in Threads \ {t} : pc'[u] = pc[u]
    BY <1>2, RequestApart
  <2>3. CASE Enter(t)
    <3>1. /\ clean' => clean /\ \A u \in Threads \ {t} : pc[u] = "idle"
          /\ ~clean' => picks' = 0 /\ served' = NothingServed
          /\ ~hit'[t]
      BY <1>1, <2>3 DEF Enter, NoCallOverlaps, StartOver
    <3>2. updating => ~clean'
      BY <3>1 DEF CleanInv
    <3>3. ASSUME clean', NEW v \in Threads, pc'[v] # "idle" PROVE v = t
      BY <2>2, <3>1, <3>3
    <3>4. QED
      BY <2>1, <2>2, <3>1, <3>2, <3>3 DEF CleanInv
  <2>4. CASE ~Enter(t)
    <3>1. clean' = clean /\ hit' = hit /\ (~clean => picks' = picks /\ served' = served)
      BY <1>2, <2>4 DEF Request, LoopTest, Index, ReadWeight, WriteWeight, Compare, ReadBest,
                        WriteBest, Recover, history
    <3>2. pc[t] # "idle"
      BY <1>2, <2>4 DEF Request, LoopTest, Index, ReadWeight, WriteWeight, Compare, ReadBest,
                        WriteBest, Recover, Go
    <3>3. ASSUME clean PROVE ~hit[t] /\ \A u \in Threads \ {t} : pc[u] = "idle"
      BY <3>2, <3>3 DEF CleanInv
    <3>4. \A v \in Threads : clean /\ pc'[v] # "idle" => v = t
      BY <2>2, <3>3
    <3>5. QED
      BY <2>1, <2>2, <3>1, <3>3, <3>4 DEF CleanInv
  <2>5. QED
    BY <2>3, <2>4
<1>3. CASE UpdateStarts
  BY <1>3 DEF UpdateStarts, StartOver, CleanInv
<1>4. CASE Add
  BY <1>4 DEF Add, CleanInv, history
<1>5. CASE UpdateReturns
  BY <1>5 DEF UpdateReturns, CleanInv
<1>6. CASE UNCHANGED vars
  BY <1>6 DEF vars, updateVars, history, CleanInv
<1>7. QED
  BY <1>2, <1>3, <1>4, <1>5, <1>6 DEF Next, Update
-----------------------------------------------------------------------------
(* The arithmetic of a round.                                              *)

LEMMA DueSteps ==
    ASSUME NEW p \in Int, NEW w \in Int, NEW S \in Int, NEW c \in Int
    PROVE  Due(p, w, S, c) \in Int /\ Due(S, w, S, w) = 0
<1>1. PICK u \in Int : u = p * w
  OBVIOUS
<1>2. PICK v \in Int : v = S * c
  OBVIOUS
<1>3. S * w = w * S /\ S * w \in Int
  OBVIOUS
<1>4. QED
  BY <1>1, <1>2, <1>3 DEF Due

LEMMA SumZero ==
    ASSUME NEW n \in Nat, NEW f \in [1 .. n -> Int], \A k \in 1 .. n : f[k] = 0
    PROVE  SumUpTo(f, n) = 0
<1>. DEFINE Q == {k \in 0 .. n : SumUpTo(f, k) = 0}
<1>1. 0 \in Q
  BY SumUnfold
<1>2. ASSUME NEW k \in 1 .. n, k - 1 \in Q PROVE k \in Q
  <2>1. SumUpTo(f, k) = SumUpTo(f, k - 1) + f[k]
    BY SumUnfold
  <2>2. SumUpTo(f, k - 1) = 0 /\ f[k] = 0
    BY <1>2
  <2>3. QED
    BY <2>1, <2>2
<1>. HIDE DEF Q
<1>3. \A k \in 0 .. n : k \in Q
  BY <1>1, <1>2, UpTo
<1>. USE DEF Q
<1>4. QED
  BY <1>3

\* After as many picks as the weights add up to, nobody was picked less, since
\* nobody is owed a whole round.
LEMMA FullRound ==
    ASSUME NEW n \in Nat, NEW f \in [1 .. n -> Int], NEW s \in [1 .. n -> Int], NEW S \in Int,
           S > 0, SumUpTo(f, n) = S, SumUpTo(s, n) = S,
           \A k \in 1 .. n : Due(S, f[k], S, s[k]) > -S
    PROVE  \A k \in 1 .. n : s[k] = f[k]
<1>1. \A k \in 1 .. n : s[k] <= f[k]
  <2>1. TAKE k \in 1 .. n
  <2>2. PICK x \in Int : x = f[k] - s[k]
    OBVIOUS
  <2>3. S * x = Due(S, f[k], S, s[k])
    BY <2>2 DEF Due
  <2>4. S * x > -S
    BY <2>3
  <2>5. S * (x + 1) = S * x + S
    BY <2>2
  <2>6. S * (x + 1) > 0
    BY <2>2, <2>4, <2>5
  <2>7. x + 1 > 0
    <3>1. PICK y \in Int : y = x + 1
      BY <2>2
    <3>2. S * y > 0
      BY <2>6, <3>1
    <3>3. y > 0
      BY <3>2
    <3>4. QED
      BY <3>1, <3>3
  <2>8. QED
    BY <2>2, <2>7
<1>2. QED
  BY <1>1, SumTight

\* Who is owed most after everybody got a share is owed something.
LEMMA BestIsOwed ==
    ASSUME NEW n \in Nat, NEW f \in [1 .. n -> Int], NEW s \in [1 .. n -> Int],
           NEW p \in Int, NEW S \in Int, NEW j \in 1 .. n,
           S > 0, SumUpTo(f, n) = S, SumUpTo(s, n) = p,
           \A k \in 1 .. n : Due(p, f[k], S, s[k]) + f[k] <= Due(p, f[j], S, s[j]) + f[j]
    PROVE  Due(p, f[j], S, s[j]) + f[j] > 0
<1>. \A k \in 1 .. n : Due(p, f[k], S, s[k]) \in Int
  BY DueSteps
<1>1. SUFFICES ASSUME Due(p, f[j], S, s[j]) + f[j] <= 0 PROVE FALSE
  OBVIOUS
<1>2. \A k \in 1 .. n : (p + 1) * f[k] <= S * s[k]
  <2>1. TAKE k \in 1 .. n
  <2>2. Due(p, f[k], S, s[k]) + f[k] <= 0
    BY <1>1
  <2>3. PICK x \in Int : x = f[k]
    OBVIOUS
  <2>4. PICK y \in Int : y = s[k]
    OBVIOUS
  <2>5. (p + 1) * x = p * x + x
    OBVIOUS
  <2>6. p * x - S * y + x <= 0
    BY <2>2, <2>3, <2>4 DEF Due
  <2>7. p * x \in Int /\ S * y \in Int
    OBVIOUS
  <2>8. (p + 1) * x <= S * y
    BY <2>5, <2>6, <2>7
  <2>9. QED
    BY <2>3, <2>4, <2>8
<1>3. (p + 1) * S <= S * p
  <2>1. PICK q \in Int : q = p + 1
    OBVIOUS
  <2>2. \A k \in 1 .. n : q * f[k] <= S * s[k]
    BY <1>2, <2>1
  <2>3. q * SumUpTo(f, n) <= S * SumUpTo(s, n)
    BY <2>2, SumScaled
  <2>4. QED
    BY <2>1, <2>3
<1>4. (p + 1) * S = S * p + S
  OBVIOUS
<1>5. S * p \in Int
  OBVIOUS
<1>6. QED
  BY <1>3, <1>4, <1>5

-----------------------------------------------------------------------------
(* The steps of a call that no other overlaps.                             *)

LEMMA SameRound ==
    ASSUME UNCHANGED <<rss, served, picks>>
    PROVE  /\ Shares' = Shares /\ SumOfWeights' = SumOfWeights /\ ServedOf' = ServedOf
           /\ RoundOK' = RoundOK
           /\ \A at, l, weight : CallAt(at, l, weight)' = CallAt(at, l, weight)
<1>1. Shares' = Shares
  BY DEF Shares
<1>2. SumOfWeights' = SumOfWeights
  BY <1>1 DEF SumOfWeights
<1>3. ServedOf' = ServedOf
  BY DEF ServedOf
<1>4. \A k : Owed(k)' = Owed(k)
  BY <1>1, <1>2, <1>3 DEF Owed
<1>5. RoundOK' = RoundOK
  BY <1>1, <1>2, <1>3, <1>4 DEF RoundOK
<1>6. \A at, l, weight : CallAt(at, l, weight)' = CallAt(at, l, weight)
  BY <1>1, <1>4 DEF CallAt
<1>7. QED
  BY <1>1, <1>2, <1>3, <1>5, <1>6

LEMMA Apart ==
    ASSUME TypeOK, ListInv
    PROVE  \A k, i \in 1 .. Len(rss) : k # i => rss[k] # rss[i]
BY DEF ListInv

\* The numbers of a state are integers.
LEMMA OwedTypes ==
    ASSUME TypeOK
    PROVE  /\ \A k \in 1 .. Len(rss) : Owed(k) \in Int /\ current[rss[k]] \in Int
           /\ \A k \in 0 .. Len(rss) : SumUpTo(Shares, k) \in Int
<1>1. picks \in Int /\ current \in [Nodes -> Int]
  BY DEF TypeOK
<1>2. ASSUME NEW k \in 1 .. Len(rss) PROVE Owed(k) \in Int /\ current[rss[k]] \in Int
  BY <1>1, ListTypes, DueSteps DEF Owed
<1>3. \A k \in 0 .. Len(rss) : SumUpTo(Shares, k) \in Int
  BY ListTypes, SumUnfold
<1>4. QED
  BY <1>2, <1>3

LEMMA EnterCall ==
    ASSUME TypeOK, FreshInv, AtRest, NEW t \in Threads, Enter(t)
    PROVE  pc'[t] = "loop" /\ CallAt(pc'[t], local'[t], current')
<1>1. pc \in [Threads -> InNext \cup {"idle", "panic"}]
  BY DEF TypeOK
<1>2. pc[t] = "idle" /\ pc'[t] = "loop" /\ local'[t] = Fresh /\ current' = current
  BY <1>1 DEF Enter, Go, FreshInv
<1>3. Len(rss) \in Nat /\ SumUpTo(Shares, 0) = 0
  BY ListTypes, SumUnfold
<1>4. Fresh.i = 1 /\ Fresh.total = 0 /\ Fresh.best = None
  BY DEF Fresh
<1>5. \A k \in 1 .. Len(rss) : current[rss[k]] = Owed(k) + 0
  BY OwedTypes DEF AtRest
<1>6. CallAt("loop", Fresh, current)
  BY <1>3, <1>4, <1>5 DEF CallAt, Summed, RaisedBy
<1>7. QED
  BY <1>2, <1>6

LEMMA LoopTestCall ==
    ASSUME TypeOK, SumOfWeights > 0, NEW t \in Threads, LoopTest(t),
           CallAt(pc[t], local[t], current)
    PROVE  pc'[t] \in {"index", "readBest"} /\ CallAt(pc'[t], local'[t], current')
<1>1. /\ pc \in [Threads -> InNext \cup {"idle", "panic"}] /\ local[t] \in Locals
      /\ Len(rss) \in Nat
  BY ListTypes DEF TypeOK, Locals
<1>2. /\ pc[t] = "loop" /\ local'[t] = local[t] /\ current' = current
      /\ pc'[t] = IF InLoop(local[t].i) THEN "index"
                  ELSE IF NothingFound(local[t].best) THEN "idle" ELSE "readBest"
  BY <1>1 DEF LoopTest, Go
<1>3. local[t].i \in Nat \ {0} /\ local[t].i <= Len(rss) + 1
  BY <1>1, <1>2 DEF CallAt, Locals
<1>4. CASE local[t].i <= Len(rss)
  <2>1. pc'[t] = "index"
    BY <1>2, <1>4 DEF InLoop
  <2>2. CallAt("index", local[t], current)
    BY <1>2, <1>4 DEF CallAt, Summed, RaisedBy
  <2>3. QED
    BY <1>2, <2>1, <2>2
<1>5. CASE ~ (local[t].i <= Len(rss))
  <2>1. local[t].i = Len(rss) + 1
    BY <1>1, <1>3, <1>5
  <2>2. Len(rss) # 0
    <3>1. SumUpTo(Shares, 0) = 0
      BY ListTypes, SumUnfold
    <3>2. QED
      BY <3>1 DEF SumOfWeights
  <2>3. local[t].i > 1 /\ local[t].i - 1 = Len(rss)
    BY <1>1, <2>1, <2>2
  <2>4. local[t].best \in Nodes
    BY <1>2, <2>3, ListTypes DEF CallAt
  <2>5. pc'[t] = "readBest"
    BY <1>2, <1>5, <2>4, NoneIsNoNode DEF InLoop, NothingFound
  <2>6. CallAt("readBest", local[t], current)
    BY <1>2, <2>1 DEF CallAt, Summed, RaisedBy
  <2>7. QED
    BY <1>2, <2>5, <2>6
<1>6. QED
  BY <1>4, <1>5

LEMMA IndexCall ==
    ASSUME TypeOK, NEW t \in Threads, Index(t), CallAt(pc[t], local[t], current)
    PROVE  pc'[t] = "read" /\ CallAt(pc'[t], local'[t], current')
<1>1. /\ pc \in [Threads -> InNext \cup {"idle", "panic"}] /\ local \in [Threads -> Locals]
      /\ local[t] \in Locals
  BY DEF TypeOK, Locals
<1>2. pc[t] = "index"
  BY <1>1 DEF Index, Go
<1>3. local[t].i <= Len(rss)
  BY <1>2 DEF CallAt
<1>4. PICK l : l = [local[t] EXCEPT !.w = rss[local[t].i]]
  OBVIOUS
<1>5. pc'[t] = "read" /\ local'[t] = l /\ current' = current
  BY <1>1, <1>3, <1>4 DEF Index, Go
<1>6. /\ l.i = local[t].i /\ l.total = local[t].total /\ l.best = local[t].best
      /\ l.w = rss[l.i]
  BY <1>1, <1>4 DEF Locals
<1>7. CallAt("read", l, current)
  BY <1>2, <1>6 DEF CallAt, Summed, RaisedBy
<1>8. QED
  BY <1>5, <1>7

LEMMA ReadWeightCall ==
    ASSUME TypeOK, NEW t \in Threads, ReadWeight(t), CallAt(pc[t], local[t], current)
    PROVE  pc'[t] = "write" /\ CallAt(pc'[t], local'[t], current')
<1>1. /\ pc \in [Threads -> InNext \cup {"idle", "panic"}] /\ local \in [Threads -> Locals]
      /\ local[t] \in Locals /\ Len(rss) \in Nat
  BY ListTypes DEF TypeOK, Locals
<1>2. pc[t] = "read"
  BY <1>1 DEF ReadWeight, Go
<1>3. /\ local[t].i \in 1 .. Len(rss) /\ local[t].w = rss[local[t].i]
      /\ local[t].total = SumUpTo(Shares, local[t].i - 1)
  BY <1>1, <1>2 DEF CallAt, Summed, Locals
<1>4. PICK l : l = [local[t] EXCEPT !.total = @ + AddedToTotal(t), !.tmp = current[local[t].w]]
  OBVIOUS
<1>5. pc'[t] = "write" /\ local'[t] = l /\ current' = current
  BY <1>1, <1>4 DEF ReadWeight, Go
<1>6. /\ l.i = local[t].i /\ l.total = local[t].total + AddedToTotal(t) /\ l.best = local[t].best
      /\ l.w = local[t].w /\ l.tmp = current[l.w]
  BY <1>1, <1>4 DEF Locals
<1>7. l.total = SumUpTo(Shares, l.i)
  <2>1. AddedToTotal(t) = Shares[l.i]
    BY <1>3, <1>6, ListTypes DEF AddedToTotal
  <2>2. SumUpTo(Shares, l.i) = SumUpTo(Shares, l.i - 1) + Shares[l.i]
    BY <1>1, <1>3, <1>6, ListTypes, SumUnfold
  <2>3. QED
    BY <1>3, <1>6, <2>1, <2>2
<1>8. CallAt("write", l, current)
  BY <1>2, <1>6, <1>7 DEF CallAt, Summed, RaisedBy
<1>9. QED
  BY <1>5, <1>8

LEMMA WriteWeightCall ==
    ASSUME TypeOK, ListInv, NEW t \in Threads, WriteWeight(t), CallAt(pc[t], local[t], current)
    PROVE  pc'[t] = "compare" /\ CallAt(pc'[t], local'[t], current')
<1>1. /\ pc \in [Threads -> InNext \cup {"idle", "panic"}] /\ local \in [Threads -> Locals]
      /\ local[t] \in Locals /\ Len(rss) \in Nat /\ current \in [Nodes -> Int]
  BY ListTypes DEF TypeOK, Locals
<1>2. pc[t] = "write"
  BY <1>1 DEF WriteWeight, Go
<1>3. PICK i \in 1 .. Len(rss) : i = local[t].i
  BY <1>1, <1>2 DEF CallAt, Locals
<1>4. local[t].w = rss[i] /\ local[t].tmp = current[rss[i]]
  BY <1>2, <1>3 DEF CallAt
<1>5. PICK l : l = [local[t] EXCEPT !.tmp = 0]
  OBVIOUS
<1>6. pc'[t] = "compare" /\ local'[t] = l
  BY <1>1, <1>5 DEF WriteWeight, Go
<1>7. /\ l.i = i /\ l.total = local[t].total /\ l.best = local[t].best /\ l.w = rss[i]
  BY <1>1, <1>3, <1>4, <1>5 DEF Locals
<1>8. /\ current'[rss[i]] = current[rss[i]] + Shares[i]
      /\ \A k \in 1 .. Len(rss) : k # i => current'[rss[k]] = current[rss[k]]
  <2>1. Raised(t) = current[rss[i]] + Shares[i]
    BY <1>3, <1>4, ListTypes DEF Raised
  <2>2. current' = [current EXCEPT ![rss[i]] = Raised(t)]
    BY <1>4 DEF WriteWeight
  <2>3. \A k \in 1 .. Len(rss) : rss[k] \in Nodes /\ (k # i => rss[k] # rss[i])
    BY ListTypes, Apart
  <2>4. QED
    BY <1>1, <2>1, <2>2, <2>3
<1>9. \A k \in 1 .. Len(rss) :
          current[rss[k]] = Owed(k) + IF k <= i - 1 THEN Shares[k] ELSE 0
  BY <1>2, <1>3 DEF CallAt, RaisedBy
<1>10. \A k \in 1 .. Len(rss) :
          current'[rss[k]] = Owed(k) + IF k <= i THEN Shares[k] ELSE 0
  <2>1. TAKE k \in 1 .. Len(rss)
  <2>2. Owed(k) \in Int /\ Shares[k] \in Int
    BY OwedTypes, ListTypes
  <2>3. CASE k = i
    <3>1. current[rss[i]] = Owed(i)
      BY <1>9, <2>2, <2>3
    <3>2. QED
      BY <1>8, <2>2, <2>3, <3>1
  <2>4. CASE k # i
    <3>1. k <= i <=> k <= i - 1
      BY <2>4
    <3>2. QED
      BY <1>8, <1>9, <2>4, <3>1
  <2>5. QED
    BY <2>3, <2>4
<1>11. /\ i = 1 => l.best = None
       /\ i > 1 => \E k \in 1 .. i - 1 : l.best = rss[k]
       /\ \A k \in 1 .. i - 1 : current[rss[k]] <= current[l.best]
  BY <1>3, <1>7 DEF CallAt
<1>12. \A k \in 1 .. i - 1 : current'[rss[k]] <= current'[l.best]
  <2>1. TAKE k \in 1 .. i - 1
  <2>2. PICK b \in 1 .. i - 1 : l.best = rss[b]
    BY <1>11
  <2>3. k \in 1 .. Len(rss) /\ k # i /\ b \in 1 .. Len(rss) /\ b # i
    OBVIOUS
  <2>4. QED
    BY <1>8, <1>11, <2>2, <2>3
<1>13. l.total = SumUpTo(Shares, i)
  BY <1>2, <1>3, <1>7 DEF CallAt, Summed
<1>14. CallAt("compare", l, current')
  BY <1>1, <1>7, <1>10, <1>11, <1>12, <1>13 DEF CallAt, Summed, RaisedBy
<1>15. QED
  BY <1>6, <1>14

LEMMA CompareCall ==
    ASSUME TypeOK, NEW t \in Threads, Compare(t), CallAt(pc[t], local[t], current)
    PROVE  pc'[t] = "loop" /\ CallAt(pc'[t], local'[t], current')
<1>1. /\ pc \in [Threads -> InNext \cup {"idle", "panic"}] /\ local \in [Threads -> Locals]
      /\ local[t] \in Locals /\ Len(rss) \in Nat
  BY ListTypes DEF TypeOK, Locals
<1>2. pc[t] = "compare"
  BY <1>1 DEF Compare, Go
<1>3. PICK i \in 1 .. Len(rss) : i = local[t].i
  BY <1>1, <1>2 DEF CallAt, Locals
<1>4. local[t].w = rss[i] /\ local[t].total = SumUpTo(Shares, i)
  BY <1>2, <1>3 DEF CallAt, Summed
<1>5. PICK b : b = IF Better(rss[i], local[t].best) THEN rss[i] ELSE local[t].best
  OBVIOUS
<1>6. PICK l : l = [local[t] EXCEPT !.i = @ + 1, !.w = None, !.best = b]
  OBVIOUS
<1>7. pc'[t] = "loop" /\ local'[t] = l /\ current' = current
  BY <1>1, <1>4, <1>5, <1>6 DEF Compare, Go
<1>8. l.i = i + 1 /\ l.total = SumUpTo(Shares, i) /\ l.best = b
  BY <1>1, <1>3, <1>4, <1>6 DEF Locals
<1>9. /\ i > 1 => \E k \in 1 .. i - 1 : local[t].best = rss[k]
      /\ \A k \in 1 .. i - 1 : current[rss[k]] <= current[local[t].best]
  BY <1>3 DEF CallAt
<1>10. \A k \in 1 .. Len(rss) : current[rss[k]] \in Int
  BY OwedTypes
<1>11. (\E k \in 1 .. i : b = rss[k]) /\ \A k \in 1 .. i : current[rss[k]] <= current[b]
  <2>1. CASE Better(rss[i], local[t].best)
    <3>1. b = rss[i]
      BY <1>5, <2>1
    <3>2. ASSUME NEW k \in 1 .. i PROVE current[rss[k]] <= current[b]
      <4>1. CASE k = i
        BY <1>10, <3>1, <4>1
      <4>2. CASE k # i
        <5>1. k \in 1 .. i - 1 /\ i > 1
          BY <4>2
        <5>2. PICK m \in 1 .. i - 1 : local[t].best = rss[m]
          BY <1>9, <5>1
        <5>3. m \in 1 .. Len(rss) /\ k \in 1 .. Len(rss)
          BY <5>1
        <5>4. local[t].best # None
          BY <5>2, <5>3, ListTypes, NoneIsNoNode
        <5>5. current[rss[i]] > current[local[t].best]
          BY <2>1, <5>4 DEF Better
        <5>6. current[rss[k]] <= current[local[t].best]
          BY <1>9, <5>1
        <5>7. current[rss[k]] \in Int /\ current[rss[i]] \in Int /\ current[local[t].best] \in Int
          BY <1>10, <5>2, <5>3
        <5>8. QED
          BY <3>1, <5>5, <5>6, <5>7
      <4>3. QED
        BY <4>1, <4>2
    <3>3. QED
      BY <3>1, <3>2
  <2>2. CASE ~ Better(rss[i], local[t].best)
    <3>1. b = local[t].best /\ b # None /\ ~ (current[rss[i]] > current[b])
      BY <1>5, <2>2 DEF Better
    <3>2. i > 1
      <4>1. SUFFICES ASSUME ~ (i > 1) PROVE FALSE
        OBVIOUS
      <4>2. i = 1
        BY <4>1
      <4>3. QED
        BY <1>2, <1>3, <3>1, <4>2 DEF CallAt
    <3>3. PICK m \in 1 .. i - 1 : b = rss[m]
      BY <1>9, <3>1, <3>2
    <3>4. current[b] \in Int /\ current[rss[i]] \in Int
      BY <1>10, <3>3
    <3>5. current[rss[i]] <= current[b]
      BY <3>1, <3>4
    <3>6. \A k \in 1 .. i : k = i \/ k \in 1 .. i - 1
      OBVIOUS
    <3>7. QED
      BY <1>9, <3>1, <3>3, <3>5, <3>6
  <2>3. QED
    BY <2>1, <2>2
<1>12. CallAt("loop", l, current)
  <2>1. l.i <= Len(rss) + 1 /\ l.i - 1 = i
    BY <1>1, <1>8
  <2>2. l.total = SumUpTo(Shares, Summed("loop", l))
    BY <1>8, <2>1 DEF Summed
  <2>3. \A k \in 1 .. Len(rss) :
            current[rss[k]] = Owed(k) + IF k <= RaisedBy("loop", l) THEN Shares[k] ELSE 0
    BY <1>2, <1>3, <2>1 DEF CallAt, RaisedBy
  <2>4. QED
    BY <1>8, <1>11, <2>1, <2>2, <2>3 DEF CallAt
<1>13. QED
  BY <1>7, <1>12

LEMMA ReadBestCall ==
    ASSUME TypeOK, NEW t \in Threads, ReadBest(t), CallAt(pc[t], local[t], current)
    PROVE  pc'[t] = "writeBest" /\ CallAt(pc'[t], local'[t], current')
<1>1. /\ pc \in [Threads -> InNext \cup {"idle", "panic"}] /\ local \in [Threads -> Locals]
      /\ local[t] \in Locals
  BY DEF TypeOK, Locals
<1>2. pc[t] = "readBest"
  BY <1>1 DEF ReadBest, Go
<1>3. PICK l : l = [local[t] EXCEPT !.tmp = current[local[t].best]]
  OBVIOUS
<1>4. pc'[t] = "writeBest" /\ local'[t] = l /\ current' = current
  BY <1>1, <1>3 DEF ReadBest, Go
<1>5. /\ l.i = local[t].i /\ l.total = local[t].total /\ l.best = local[t].best
      /\ l.tmp = current[l.best]
  BY <1>1, <1>3 DEF Locals
<1>6. CallAt("writeBest", l, current)
  BY <1>2, <1>5 DEF CallAt, Summed, RaisedBy
<1>7. QED
  BY <1>4, <1>6

\* The pick: who is owed most gets it, and a round that was complete begins anew.
LEMMA WriteBestCall ==
    ASSUME TypeOK, TypeOK', ListInv, clean, SumOfWeights > 0, RoundOK,
           NEW t \in Threads, WriteBest(t), CallAt(pc[t], local[t], current)
    PROVE  RoundOK' /\ AtRest'
<1>. DEFINE n == Len(rss)
            S == SumOfWeights
<1>1. /\ pc \in [Threads -> InNext \cup {"idle", "panic"}] /\ local \in [Threads -> Locals]
      /\ local[t] \in Locals /\ n \in Nat /\ current \in [Nodes -> Int] /\ picks \in Nat
      /\ S \in Int /\ served \in [Addrs -> Nat]
  BY ListTypes DEF TypeOK, Locals
<1>2. /\ Shares \in [1 .. n -> Int] /\ ServedOf \in [1 .. n -> Int]
      /\ \A k \in 1 .. n : Shares[k] >= 0 /\ rss[k] \in Nodes /\ rss[k][2] \in Addrs
  BY ListTypes
<1>3. pc[t] = "writeBest" /\ rss' = rss
  BY <1>1 DEF WriteBest, Go
<1>4. S = SumUpTo(Shares, n)
  BY DEF SumOfWeights
<1>5. local[t].i = n + 1 /\ n > 0 /\ local[t].total = S
  <2>1. local[t].i = n + 1
    BY <1>3 DEF CallAt
  <2>2. SumUpTo(Shares, 0) = 0
    BY <1>1, <1>2, SumUnfold
  <2>3. n # 0
    BY <1>4, <2>2
  <2>4. local[t].i - 1 = n
    BY <1>1, <2>1
  <2>5. QED
    BY <1>1, <1>3, <1>4, <2>1, <2>3, <2>4 DEF CallAt, Summed
<1>6. PICK j \in 1 .. n : local[t].best = rss[j]
  <2>1. local[t].i - 1 = n /\ local[t].i > 1
    BY <1>1, <1>5
  <2>2. QED
    BY <2>1 DEF CallAt
<1>7. \A k \in 1 .. n : current[rss[k]] = Owed(k) + Shares[k]
  <2>1. TAKE k \in 1 .. n
  <2>2. k <= RaisedBy(pc[t], local[t])
    BY <1>1, <1>3, <1>5 DEF RaisedBy
  <2>3. QED
    BY <2>2 DEF CallAt
<1>8. \A k \in 1 .. n : current[rss[k]] <= current[rss[j]]
  BY <1>1, <1>5, <1>6 DEF CallAt
<1>9. local[t].tmp = current[rss[j]]
  BY <1>3, <1>6 DEF CallAt
<1>10. \A k \in 1 .. n : /\ k = j => current'[rss[k]] = current[rss[k]] - S
                         /\ k # j => current'[rss[k]] = current[rss[k]]
  <2>1. current' = [current EXCEPT ![rss[j]] = current[rss[j]] - S]
    BY <1>5, <1>6, <1>9 DEF WriteBest
  <2>2. \A k \in 1 .. n : k # j => rss[k] # rss[j]
    BY Apart
  <2>3. \A k \in 1 .. n : current[rss[k]] \in Int
    BY <1>1, <1>2
  <2>. HIDE DEF n, S
  <2>4. QED
    BY <1>1, <1>2, <2>1, <2>2, <2>3
<1>11. \A k \in 1 .. n : /\ Owed(k) = Due(picks, Shares[k], S, ServedOf[k])
                         /\ Owed(k) \in Int
  BY OwedTypes DEF Owed
<1>12. picks <= S /\ SumUpTo(ServedOf, n) = picks /\ \A k \in 1 .. n : Owed(k) > -S
  BY DEF RoundOK
<1>13. Owed(j) + Shares[j] > 0
  <2>1. \A k \in 1 .. n : Due(picks, Shares[k], S, ServedOf[k]) + Shares[k]
                            <= Due(picks, Shares[j], S, ServedOf[j]) + Shares[j]
    BY <1>7, <1>8, <1>11
  <2>2. S > 0 /\ picks \in Int
    BY <1>1
  <2>. HIDE DEF n, S
  <2>3. QED
    BY <1>1, <1>2, <1>4, <1>11, <1>12, <2>1, <2>2, BestIsOwed
<1>14. \A k \in 1 .. n : k # j => rss[k][2] # rss[j][2]
  BY DEF ListInv
<1>15. Shares' = Shares /\ SumOfWeights' = S
  BY <1>3 DEF Shares, SumOfWeights
<1>16. CountPick(rss[j][2])
  BY <1>6 DEF WriteBest
<1>17. PICK z \in [1 .. n -> Int] : z = ServedOf'
  <2>1. served' \in [Addrs -> Nat] /\ ServedOf' = [k \in 1 .. n |-> served'[rss[k][2]]]
    BY <1>3 DEF TypeOK, ServedOf
  <2>2. \A k \in 1 .. n : served'[rss[k][2]] \in Int
    BY <1>2, <2>1
  <2>3. ServedOf' \in [1 .. n -> Int]
    BY <2>1, <2>2
  <2>4. QED
    BY <2>3
<1>18. \A k \in 1 .. n : z[k] = served'[rss[k][2]]
  BY <1>3, <1>17 DEF ServedOf
\* Once the sums and the debts are as they should be, the state is.
<1>19. SUFFICES /\ picks' <= S /\ SumUpTo(z, n) = picks'
                /\ \A k \in 1 .. n :
                      /\ k = j => Due(picks', Shares[k], S, z[k]) = Owed(k) + Shares[k] - S
                      /\ k # j => Due(picks', Shares[k], S, z[k]) = Owed(k) + Shares[k]
  <2>1. \A k \in 1 .. n : Owed(k)' = Due(picks', Shares[k], S, z[k])
    BY <1>15, <1>17 DEF Owed
  <2>2. \A k \in 1 .. n : Owed(k)' > -S
    <3>1. S > 0
      OBVIOUS
    <3>. HIDE DEF n, S
    <3>2. TAKE k \in 1 .. n
    <3>3. Owed(k) \in Int /\ Owed(k) > -S /\ Shares[k] \in Nat /\ S \in Int
      BY <1>1, <1>2, <1>11, <1>12
    <3>4. CASE k = j
      <4>1. Owed(k)' = Owed(k) + Shares[k] - S /\ Owed(k) + Shares[k] > 0
        BY <1>13, <1>19, <2>1, <3>4
      <4>2. QED
        BY <3>3, <4>1
    <3>5. CASE k # j
      <4>1. Owed(k)' = Owed(k) + Shares[k]
        BY <1>19, <2>1, <3>5
      <4>2. QED
        BY <3>3, <4>1
    <3>6. QED
      BY <3>4, <3>5
  <2>3. RoundOK'
    BY <1>3, <1>15, <1>17, <1>19, <2>2 DEF RoundOK
  <2>4. \A k \in 1 .. n : current'[rss[k]] = Owed(k)'
    <3>. HIDE DEF n, S
    <3>1. TAKE k \in 1 .. n
    <3>2. Owed(k) \in Int /\ Shares[k] \in Int /\ S \in Int
      BY <1>1, <1>2, <1>11
    <3>3. current[rss[k]] = Owed(k) + Shares[k]
      BY <1>7
    <3>4. CASE k = j
      <4>1. current'[rss[k]] = current[rss[k]] - S
        BY <1>10, <3>4
      <4>2. Owed(k)' = Owed(k) + Shares[k] - S
        BY <1>19, <2>1, <3>4
      <4>3. QED
        BY <3>2, <3>3, <4>1, <4>2
    <3>5. CASE k # j
      BY <1>10, <1>19, <2>1, <3>3, <3>5
    <3>6. QED
      BY <3>4, <3>5
  <2>5. AtRest'
    BY <1>3, <2>4 DEF AtRest
  <2>6. QED
    BY <2>3, <2>5
<1>20. CASE picks >= S
  <2>1. /\ picks = S /\ picks' = 1
        /\ served' = [NothingServed EXCEPT ![rss[j][2]] = 1]
    BY <1>1, <1>12, <1>16, <1>20 DEF CountPick
  <2>2. z[j] = 1 /\ \A k \in 1 .. n : k # j => z[k] = 0
    BY <1>2, <1>14, <1>18, <2>1 DEF NothingServed
  <2>3. S > 0 /\ 1 <= S
    BY <1>1
  <2>. HIDE DEF n, S
  <2>4. \A k \in 1 .. n : ServedOf[k] = Shares[k]
    <3>1. \A k \in 1 .. n : Due(S, Shares[k], S, ServedOf[k]) > -S
      BY <1>11, <1>12, <2>1
    <3>2. SumUpTo(Shares, n) = S /\ SumUpTo(ServedOf, n) = S
      BY <1>4, <1>12, <2>1
    <3>3. QED
      BY <1>1, <1>2, <2>3, <3>1, <3>2, FullRound
  <2>5. \A k \in 1 .. n : Owed(k) = 0
    <3>1. \A k \in 1 .. n : Due(S, Shares[k], S, Shares[k]) = 0
      BY <1>1, <1>2, DueSteps
    <3>2. QED
      BY <1>11, <2>1, <2>4, <3>1
  <2>6. SumUpTo(z, n) = 1
    <3>1. PICK none \in [1 .. n -> Int] : none = [k \in 1 .. n |-> 0]
      <4>1. [k \in 1 .. n |-> 0] \in [1 .. n -> Int]
        OBVIOUS
      <4>2. QED
        BY <4>1
    <3>2. SumUpTo(none, n) = 0
      BY <1>1, <3>1, SumZero
    <3>3. SumUpTo(z, n) = SumUpTo(none, n) + 1
      <4>1. z[j] = none[j] + 1 /\ \A k \in 1 .. n : k # j => z[k] = none[k]
        BY <2>2, <3>1
      <4>2. QED
        BY <1>1, <4>1, SumBump
    <3>4. QED
      BY <3>2, <3>3
  <2>7. ASSUME NEW k \in 1 .. n
        PROVE  /\ k = j => Due(picks', Shares[k], S, z[k]) = Owed(k) + Shares[k] - S
               /\ k # j => Due(picks', Shares[k], S, z[k]) = Owed(k) + Shares[k]
    <3>1. Shares[k] \in Int /\ Owed(k) = 0 /\ picks' = 1 /\ S \in Int
      BY <1>1, <1>2, <2>1, <2>5
    <3>2. Due(1, Shares[k], S, 0) = Shares[k] /\ Due(1, Shares[k], S, 1) = Shares[k] - S
      <4>1. PICK w \in Int : w = Shares[k]
        BY <3>1
      <4>2. Due(1, w, S, 0) = w /\ Due(1, w, S, 1) = w - S
        BY <3>1 DEF Due
      <4>3. QED
        BY <4>1, <4>2
    <3>3. QED
      BY <2>2, <3>1, <3>2
  <2>8. QED
    BY <2>1, <2>3, <2>6, <2>7
<1>21. CASE ~ (picks >= S)
  <2>1. picks' = picks + 1 /\ served' = [served EXCEPT ![rss[j][2]] = @ + 1]
    BY <1>16, <1>21 DEF CountPick
  <2>2. \A k \in 1 .. n : ServedOf[k] = served[rss[k][2]]
    BY DEF ServedOf
  <2>3. z[j] = ServedOf[j] + 1 /\ \A k \in 1 .. n : k # j => z[k] = ServedOf[k]
    BY <1>1, <1>2, <1>14, <1>18, <2>1, <2>2
  <2>. HIDE DEF n, S
  <2>4. picks + 1 <= S
    BY <1>1, <1>21
  <2>5. SumUpTo(z, n) = picks + 1
    BY <1>1, <1>2, <1>12, <2>3, SumBump
  <2>6. ASSUME NEW k \in 1 .. n
        PROVE  /\ k = j => Due(picks', Shares[k], S, z[k]) = Owed(k) + Shares[k] - S
               /\ k # j => Due(picks', Shares[k], S, z[k]) = Owed(k) + Shares[k]
    <3>1. PICK w \in Int : w = Shares[k]
      BY <1>2
    <3>2. PICK c \in Int : c = ServedOf[k]
      BY <1>2
    <3>3. picks \in Int /\ S \in Int
      BY <1>1
    <3>4. /\ Due(picks + 1, w, S, c) = Due(picks, w, S, c) + w
          /\ Due(picks + 1, w, S, c + 1) = Due(picks, w, S, c) + w - S
      <4>1. PICK u \in Int : u = picks * w
        BY <3>3
      <4>2. PICK v \in Int : v = S * c
        BY <3>3
      <4>3. (picks + 1) * w = u + w /\ S * (c + 1) = v + S
        BY <3>3, <4>1, <4>2
      <4>4. QED
        BY <3>3, <4>1, <4>2, <4>3 DEF Due
    <3>5. Owed(k) = Due(picks, w, S, c)
      BY <1>11, <3>1, <3>2
    <3>6. QED
      BY <2>1, <2>3, <3>1, <3>2, <3>4, <3>5
  <2>7. QED
    BY <2>1, <2>4, <2>5, <2>6
<1>22. QED
  BY <1>20, <1>21

\* The inductive invariant of the proportion.
WInv == TypeOK /\ IndexInv /\ ListInv /\ FreshInv /\ CleanInv /\ BalanceInv

\* A call that no other overlaps keeps the balance, step by step.
LEMMA RequestBalance ==
    ASSUME WInv, TypeOK', CleanInv', NEW t \in Threads, Request(t)
    PROVE  BalanceInv'
<1>. SUFFICES ASSUME clean', SumOfWeights' > 0 PROVE BalanceInv'
  BY DEF BalanceInv
<1>. USE DEF WInv
<1>1. /\ pc \in [Threads -> InNext \cup {"idle", "panic"}] /\ clean \in BOOLEAN
      /\ \A u \in Threads \ {t} : pc'[u] = pc[u]
  BY RequestApart DEF TypeOK
<1>2. clean /\ SumOfWeights > 0
  <2>1. clean
    BY <1>1 DEF Request, Enter, LoopTest, Index, ReadWeight, WriteWeight, Compare, ReadBest,
                WriteBest, Recover, history
  <2>2. rss' = rss
    BY RequestLeavesList
  <2>3. SumOfWeights' = SumOfWeights
    BY <2>2 DEF SumOfWeights, Shares
  <2>4. QED
    BY <2>1, <2>3
<1>3. RoundOK
  BY <1>2 DEF BalanceInv
<1>4. pc[t] # "idle" => CallAt(pc[t], local[t], current) /\ ~hit[t]
  BY <1>2 DEF BalanceInv, CleanInv
\* All steps but the last leave the round alone and stay within Next.
<1>5. ASSUME UNCHANGED <<rss, served, picks>>, pc'[t] # "idle",
             CallAt(pc'[t], local'[t], current')
      PROVE  BalanceInv'
  <2>1. RoundOK'
    BY <1>3, <1>5, SameRound
  <2>2. CallAt(pc[t], local[t], current)'
    BY <1>5, SameRound
  <2>3. \A u \in Threads : pc'[u] # "idle" => u = t
    BY <1>5 DEF CleanInv
  <2>4. QED
    BY <1>5, <2>1, <2>2, <2>3 DEF BalanceInv
<1>6. CASE Enter(t)
  <2>1. \A u \in Threads : pc[u] = "idle"
    BY <1>1, <1>6 DEF Enter, Go, NoCallOverlaps
  <2>2. AtRest
    BY <1>2, <2>1 DEF BalanceInv
  <2>3. UNCHANGED <<rss, served, picks>>
    BY <1>6 DEF Enter
  <2>4. QED
    BY <1>5, <1>6, <2>2, <2>3, EnterCall
<1>7. CASE LoopTest(t)
  <2>1. pc[t] # "idle" /\ UNCHANGED <<rss, served, picks>>
    BY <1>7 DEF LoopTest, Go, history
  <2>2. QED
    BY <1>2, <1>4, <1>5, <1>7, <2>1, LoopTestCall
<1>8. CASE Index(t)
  <2>1. pc[t] # "idle" /\ UNCHANGED <<rss, served, picks>>
    BY <1>8 DEF Index, Go, history
  <2>2. QED
    BY <1>4, <1>5, <1>8, <2>1, IndexCall
<1>9. CASE ReadWeight(t)
  <2>1. pc[t] # "idle" /\ UNCHANGED <<rss, served, picks>>
    BY <1>9 DEF ReadWeight, Go, history
  <2>2. QED
    BY <1>4, <1>5, <1>9, <2>1, ReadWeightCall
<1>10. CASE WriteWeight(t)
  <2>1. pc[t] # "idle" /\ UNCHANGED <<rss, served, picks>>
    BY <1>10 DEF WriteWeight, Go, history
  <2>2. QED
    BY <1>4, <1>5, <1>10, <2>1, WriteWeightCall
<1>11. CASE Compare(t)
  <2>1. pc[t] # "idle" /\ UNCHANGED <<rss, served, picks>>
    BY <1>11 DEF Compare, Go, history
  <2>2. QED
    BY <1>4, <1>5, <1>11, <2>1, CompareCall
<1>12. CASE ReadBest(t)
  <2>1. pc[t] # "idle" /\ UNCHANGED <<rss, served, picks>>
    BY <1>12 DEF ReadBest, Go, history
  <2>2. QED
    BY <1>4, <1>5, <1>12, <2>1, ReadBestCall
<1>13. CASE WriteBest(t)
  <2>1. pc[t] = "writeBest" /\ pc'[t] = "idle"
    BY <1>1, <1>13 DEF WriteBest, Go
  <2>2. RoundOK' /\ AtRest'
    BY <1>2, <1>3, <1>4, <1>13, <2>1, WriteBestCall
  <2>3. \A u \in Threads : pc'[u] = "idle"
    BY <1>1, <1>2, <2>1 DEF CleanInv
  <2>4. QED
    BY <2>2, <2>3 DEF BalanceInv
\* Nobody panicked: no Update ran during the call.
<1>14. CASE Recover(t)
  BY <1>4, <1>14 DEF Recover, Go, IndexInv
<1>15. QED
  BY <1>6, <1>7, <1>8, <1>9, <1>10, <1>11, <1>12, <1>13, <1>14 DEF Request

\* A new list is at rest, and a round begins with it.
LEMMA NewRound ==
    ASSUME TypeOK, picks = 0, served = NothingServed, SumOfWeights > 0,
           \A k \in 1 .. Len(rss) : current[rss[k]] = 0
    PROVE  RoundOK /\ AtRest
<1>1. /\ Shares \in [1 .. Len(rss) -> Int] /\ ServedOf \in [1 .. Len(rss) -> Int]
      /\ Len(rss) \in Nat /\ SumOfWeights \in Int
  BY ListTypes
<1>2. \A k \in 1 .. Len(rss) : ServedOf[k] = 0
  BY ListTypes DEF ServedOf, NothingServed
<1>3. SumUpTo(ServedOf, Len(rss)) = 0
  BY <1>1, <1>2, SumZero
<1>4. \A k \in 1 .. Len(rss) : Owed(k) = 0
  <2>1. TAKE k \in 1 .. Len(rss)
  <2>2. PICK w \in Int : w = Shares[k]
    BY <1>1
  <2>3. 0 * w - SumOfWeights * 0 = 0
    BY <1>1
  <2>4. QED
    BY <1>2, <2>2, <2>3 DEF Owed, Due
<1>5. QED
  BY <1>1, <1>3, <1>4 DEF RoundOK, AtRest

LEMMA UpdateBalance ==
    ASSUME WInv, TypeOK', Update
    PROVE  BalanceInv'
<1>. SUFFICES ASSUME clean', SumOfWeights' > 0 PROVE BalanceInv'
  BY DEF BalanceInv
<1>1. UpdateReturns
  BY DEF Update, UpdateStarts, Add, WInv, CleanInv, history
<1>2. /\ \A t \in Threads : pc[t] = "idle"
      /\ \A a \in Addrs : current[<<updates, a>>] = 0
      /\ UNCHANGED <<rss, current, pc, local, served, picks>>
  BY <1>1 DEF UpdateReturns
<1>3. picks = 0 /\ served = NothingServed
  BY <1>1 DEF UpdateReturns, WInv, CleanInv
<1>4. \A k \in 1 .. Len(rss) : current[rss[k]] = 0
  <2>1. TAKE k \in 1 .. Len(rss)
  <2>2. rss[k] \in Nodes /\ rss[k][1] = updates
    BY ListTypes DEF WInv, ListInv
  <2>3. rss[k] = <<updates, rss[k][2]>> /\ rss[k][2] \in Addrs
    BY <2>2 DEF Nodes
  <2>4. QED
    BY <1>2, <2>3
<1>5. SumOfWeights > 0
  BY <1>2, SameRound
<1>6. RoundOK /\ AtRest
  BY <1>3, <1>4, <1>5, NewRound DEF WInv
<1>7. RoundOK'
  BY <1>2, <1>6, SameRound
<1>8. AtRest'
  <2>1. \A k \in 1 .. Len(rss) : Owed(k)' = Owed(k)
    BY <1>2, SameRound DEF Owed
  <2>2. QED
    BY <1>2, <1>6, <2>1 DEF AtRest
<1>9. QED
  BY <1>2, <1>7, <1>8 DEF BalanceInv

LEMMA InitWInv == Init => WInv
<1>. SUFFICES ASSUME Init PROVE WInv
  OBVIOUS
<1>1. TypeOK /\ IndexInv
  BY InitIInv DEF IInv
<1>2. ListInv
  <2>1. Len(rss) \in Nat /\ \A i \in 1 .. Len(rss) : rss[i] = <<0, i>>
    <3>1. Addrs = 1 .. Len(Weights) /\ Len(Weights) \in Nat
      BY WeightRoundRobinAssumption DEF Addrs
    <3>2. QED
      BY <3>1 DEF Init
  <2>2. QED
    BY <2>1 DEF Init, ListInv
<1>3. FreshInv /\ CleanInv
  BY DEF Init, FreshInv, CleanInv
<1>4. BalanceInv
  <2>1. SUFFICES ASSUME SumOfWeights > 0 PROVE BalanceInv
    BY DEF BalanceInv
  <2>2. \A k \in 1 .. Len(rss) : current[rss[k]] = 0
    BY <1>1, ListTypes DEF Init
  <2>3. RoundOK /\ AtRest
    BY <1>1, <2>1, <2>2, NewRound DEF Init
  <2>4. QED
    BY <2>3 DEF Init, BalanceInv
<1>5. QED
  BY <1>1, <1>2, <1>3, <1>4 DEF WInv

LEMMA NextWInv == WInv /\ [Next]_vars => WInv'
<1>. SUFFICES ASSUME WInv, [Next]_vars PROVE WInv'
  OBVIOUS
<1>1. TypeOK' /\ IndexInv'
  BY NextIInv DEF WInv, IInv
<1>2. ListInv' /\ FreshInv' /\ CleanInv'
  BY ListStep, FreshStep, CleanStep DEF WInv
<1>3. BalanceInv'
  <2>1. CASE UNCHANGED vars
    <3>1. UNCHANGED <<rss, served, picks, clean, pc, local, current>>
      BY <2>1 DEF vars, history
    <3>2. \A k \in 1 .. Len(rss) : Owed(k)' = Owed(k)
      BY <3>1, SameRound DEF Owed
    <3>3. AtRest' = AtRest
      BY <3>1, <3>2 DEF AtRest
    <3>4. \A t \in Threads : CallAt(pc[t], local[t], current)' = CallAt(pc[t], local[t], current)
      BY <3>1, SameRound
    <3>5. QED
      BY <3>1, <3>3, <3>4, SameRound DEF WInv, BalanceInv
  <2>2. CASE Next
    BY <1>1, <1>2, <2>2, RequestBalance, UpdateBalance DEF Next
  <2>3. QED
    BY <2>1, <2>2
<1>4. QED
  BY <1>1, <1>2, <1>3 DEF WInv

\* Of as many picks in a row as the weights add up to, with no two calls at the
\* same time, every address of the list gets exactly its weight: Next (lines 39
\* to 65 of weight_round_robin.go) is a weighted round robin, in whatever order
\* it picks.
THEOREM Proportions == Spec => []Proportional
<1>1. WInv => Proportional
  <2>. SUFFICES ASSUME WInv, Undisturbed, SumOfWeights > 0, picks = SumOfWeights,
                       NEW w \in Listed
                PROVE  served[w[2]] = Weight(w)
    BY DEF Proportional
  <2>1. PICK k \in 1 .. Len(rss) : w = rss[k]
    BY DEF Listed
  <2>2. RoundOK
    BY DEF Undisturbed, WInv, BalanceInv
  <2>3. /\ Shares \in [1 .. Len(rss) -> Int] /\ ServedOf \in [1 .. Len(rss) -> Int]
        /\ Len(rss) \in Nat /\ SumOfWeights \in Int
    BY ListTypes DEF WInv
  <2>4. \A m \in 1 .. Len(rss) : Due(SumOfWeights, Shares[m], SumOfWeights, ServedOf[m]) > -SumOfWeights
    BY <2>2 DEF RoundOK, Owed
  <2>5. SumUpTo(Shares, Len(rss)) = SumOfWeights /\ SumUpTo(ServedOf, Len(rss)) = SumOfWeights
    BY <2>2 DEF RoundOK, SumOfWeights
  <2>6. \A m \in 1 .. Len(rss) : ServedOf[m] = Shares[m]
    BY <2>3, <2>4, <2>5, FullRound
  <2>7. QED
    BY <2>1, <2>6 DEF ServedOf, Shares
<1>2. QED
  BY <1>1, InitWInv, NextWInv, PTL DEF Spec
=============================================================================
