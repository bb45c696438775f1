--------------------------- MODULE BalancersProofs ---------------------------
(***************************************************************************)
(* Proofs about RoundRobin and about Balancers, of which it is one kind,   *)
(* for any number of concurrent requests, any list length, any number of   *)
(* Updates, of virtual nodes and of hashes, colliding or not.              *)
(***************************************************************************)
EXTENDS Balancers, FiniteSetTheorems, NaturalsInduction, WellFoundedInduction, TLAPS

\* A request that stores an index divides by the length it read, which it has
\* found not to be 0; an Update never holds more than MaxLen addresses.
StepInv ==
    /\ \A t \in Threads : pc[t] = "store" => lens[t] > 0
    /\ Len(rss) + Len(pending) <= MaxLen

\* Without an Update nearby, everybody works with the length of the list there
\* is, and whoever is past the wrap check relies on an index inside the list:
\* the only writes to curIndex store 0 or a remainder by that length.
CalmInv ==
    calm => /\ ~updating
            /\ \A t \in Threads :
                  /\ pc[t] # "panic"
                  /\ pc[t] \in InNext => Len(rss) > 0
                  /\ pc[t] \in InNext \ {"lens"} => lens[t] = Len(rss)
                  /\ pc[t] \in {"pick", "read", "store"} => curIndex < Len(rss)

IInv == TypeOK /\ StepInv /\ CalmInv

LEMMA AdvanceInRange ==
    ASSUME NEW i \in Nat, NEW n \in Nat \ {0}
    PROVE  Advance(i, n) \in 0 .. n - 1
BY DEF Advance

LEMMA PlacesType ==
    ASSUME NEW n \in 0 .. MaxLen
    PROVE  Places(n) \in Seq(1 .. MaxLen) /\ Len(Places(n)) = n
BY RoundRobinAssumption DEF Places

LEMMA EmptyType == <<>> \in Seq(1 .. MaxLen) /\ Len(<<>>) = 0
OBVIOUS

LEMMA InitIInv == Init => IInv
<1> SUFFICES ASSUME Init PROVE IInv
  OBVIOUS
<1>1. PICK n \in 0 .. MaxLen : rss = Places(n)
  BY DEF Init
<1>2. rss \in Seq(1 .. MaxLen) /\ Len(rss) = n /\ Len(rss) <= MaxLen
  BY <1>1, PlacesType
<1>3. /\ pc \in [Threads -> InNext \cup {"idle", "panic"}]
      /\ \A t \in Threads : pc[t] = "idle"
  BY DEF Init
<1>4. TypeOK
  <2>1. 0 \in 0 .. MaxLen - 1 /\ 0 \in 0 .. MaxLen /\ 0 \in 0 .. Updates
    BY RoundRobinAssumption
  <2>2. QED
    BY <1>2, <1>3, <2>1, EmptyType DEF Init, TypeOK
<1>5. StepInv
  BY <1>2, <1>3, EmptyType DEF Init, StepInv
<1>6. CalmInv
  BY <1>3 DEF Init, CalmInv, InNext
<1>7. QED
  BY <1>4, <1>5, <1>6 DEF IInv

LEMMA RequestTypeOK ==
    ASSUME TypeOK, StepInv, NEW t \in Threads, Request(t), calm' \in BOOLEAN, steady' \in BOOLEAN
    PROVE  TypeOK' /\ StepInv'
<1> USE RoundRobinAssumption DEF TypeOK, StepInv, Go, InNext
<1>1. CASE Enter(t)
  BY <1>1 DEF Enter
<1>2. CASE ReadLens(t)
  BY <1>2 DEF ReadLens
<1>3. CASE CheckWrap(t)
  BY <1>3 DEF CheckWrap
<1>4. CASE ZeroIndex(t)
  BY <1>4 DEF ZeroIndex
<1>5. CASE Pick(t)
  <2>1. picked' \in 0 .. MaxLen
    <3>1. CASE curIndex < Len(rss)
      <4>1. curIndex + 1 \in 1 .. Len(rss)
        BY <3>1
      <4>2. rss[curIndex + 1] \in 1 .. MaxLen
        BY <4>1
      <4>3. QED
        BY <1>5, <3>1, <4>2 DEF Pick
    <3>2. CASE ~(curIndex < Len(rss))
      BY <1>5, <3>2 DEF Pick
    <3>3. QED
      BY <3>1, <3>2
  <2>2. QED
    BY <1>5, <2>1 DEF Pick
<1>6. CASE ReadIndex(t)
  BY <1>6 DEF ReadIndex
<1>7. CASE StoreIndex(t)
  <2>1. lens[t] \in 1 .. MaxLen /\ tmp[t] \in Nat /\ lens[t] \in Nat \ {0}
    BY <1>7 DEF StoreIndex
  <2>2. Advance(tmp[t], lens[t]) \in 0 .. lens[t] - 1
    BY <2>1, AdvanceInRange
  <2>3. Advance(tmp[t], lens[t]) \in 0 .. MaxLen - 1
    BY <2>1, <2>2
  <2>4. QED
    BY <1>7, <2>3 DEF StoreIndex
<1>8. CASE Recover(t)
  BY <1>8 DEF Recover
<1>9. QED
  BY <1>1, <1>2, <1>3, <1>4, <1>5, <1>6, <1>7, <1>8 DEF Request

LEMMA UpdateTypeOK ==
    ASSUME TypeOK, StepInv, Update, calm' \in BOOLEAN, steady' \in BOOLEAN
    PROVE  TypeOK' /\ StepInv'
<1> USE RoundRobinAssumption DEF TypeOK, StepInv
<1>1. CASE UpdateStarts
  <2>1. PICK n \in 0 .. MaxLen : pending' = Places(n)
    BY <1>1 DEF UpdateStarts
  <2>2. pending' \in Seq(1 .. MaxLen) /\ Len(pending') = n
    BY <2>1, PlacesType
  <2>3. rss' \in Seq(1 .. MaxLen) /\ Len(rss') = 0
    BY <1>1, EmptyType DEF UpdateStarts
  <2>4. updates' \in 0 .. Updates
    BY <1>1 DEF UpdateStarts
  <2>5. QED
    BY <1>1, <2>2, <2>3, <2>4 DEF UpdateStarts
<1>2. CASE Add
  <2>1. /\ Head(pending) \in 1 .. MaxLen /\ Tail(pending) \in Seq(1 .. MaxLen)
        /\ Len(pending) \in Nat /\ Len(Tail(pending)) = Len(pending) - 1
        /\ Len(pending) > 0
    BY <1>2 DEF Add
  <2>2. /\ rss' \in Seq(1 .. MaxLen) /\ Len(rss') = Len(rss) + 1
        /\ pending' = Tail(pending)
    BY <1>2, <2>1 DEF Add
  <2>3. Len(rss') + Len(pending') <= MaxLen /\ Len(rss') <= MaxLen
    <3>1. Len(rss) \in Nat /\ Len(rss) + Len(pending) <= MaxLen
      OBVIOUS
    <3>2. \A a, b \in Nat : b > 0 /\ a + b <= MaxLen
             => (a + 1) + (b - 1) <= MaxLen /\ a + 1 <= MaxLen
      OBVIOUS
    <3>3. (Len(rss) + 1) + (Len(pending) - 1) <= MaxLen
          /\ Len(rss) + 1 <= MaxLen
      BY <2>1, <3>1, <3>2, Zenon
    <3>4. QED
      BY <2>1, <2>2, <3>3
  <2>4. QED
    BY <1>2, <2>1, <2>2, <2>3 DEF Add
<1>3. CASE UpdateReturns
  BY <1>3 DEF UpdateReturns
<1>4. QED
  BY <1>1, <1>2, <1>3 DEF Update

\* A request's step in the calm keeps everybody else's view of the list.
LEMMA RequestCalm ==
    ASSUME IInv, NEW t \in Threads, Request(t), calm
    PROVE  CalmInv'
<1> USE DEF TypeOK, StepInv, Go, InNext
<1>1. /\ ~updating /\ UNCHANGED <<rss, updating>>
      /\ Len(rss) \in Nat /\ curIndex \in Nat
  BY DEF IInv, CalmInv, Request, Enter, ReadLens, CheckWrap, ZeroIndex, Pick,
         ReadIndex, StoreIndex, Recover
<1>2. ASSUME NEW u \in Threads, u # t
      PROVE  /\ pc'[u] = pc[u] /\ lens'[u] = lens[u]
  BY <1>2 DEF IInv, Request, Enter, ReadLens, CheckWrap, ZeroIndex, Pick,
              ReadIndex, StoreIndex, Recover
<1>3. curIndex' = curIndex \/ curIndex' = 0 \/ curIndex' < Len(rss)
  <2>1. CASE StoreIndex(t)
    <3>1. lens[t] = Len(rss) /\ Len(rss) \in Nat \ {0} /\ tmp[t] \in Nat
      BY <2>1 DEF IInv, CalmInv, StoreIndex
    <3>2. curIndex' = Advance(tmp[t], Len(rss))
      BY <2>1, <3>1 DEF StoreIndex
    <3>3. QED
      BY <3>1, <3>2, AdvanceInRange
  <2>2. CASE ~StoreIndex(t)
    BY <2>2 DEF Request, Enter, ReadLens, CheckWrap, ZeroIndex, Pick,
                ReadIndex, Recover
  <2>3. QED
    BY <2>1, <2>2
<1>4. ASSUME NEW u \in Threads, u # t
      PROVE  /\ pc'[u] # "panic"
             /\ pc'[u] \in InNext => Len(rss) > 0
             /\ pc'[u] \in InNext \ {"lens"} => lens'[u] = Len(rss)
             /\ pc'[u] \in {"pick", "read", "store"} => curIndex' < Len(rss)
  BY <1>1, <1>2, <1>3, <1>4 DEF IInv, CalmInv
<1>5. /\ pc'[t] # "panic"
      /\ pc'[t] \in InNext => Len(rss) > 0
      /\ pc'[t] \in InNext \ {"lens"} => lens'[t] = Len(rss)
      /\ pc'[t] \in {"pick", "read", "store"} => curIndex' < Len(rss)
  <2>0. /\ pc[t] # "panic"
        /\ pc[t] \in InNext => Len(rss) > 0
        /\ pc[t] \in InNext \ {"lens"} => lens[t] = Len(rss)
        /\ pc[t] \in {"pick", "read", "store"} => curIndex < Len(rss)
    BY DEF IInv, CalmInv
  <2>1. CASE Enter(t)
    BY <1>1, <2>0, <2>1 DEF IInv, Enter
  <2>2. CASE ReadLens(t)
    BY <1>1, <2>0, <2>2 DEF IInv, ReadLens
  <2>3. CASE CheckWrap(t)
    BY <1>1, <2>0, <2>3 DEF IInv, CheckWrap, Wrap
  <2>4. CASE ZeroIndex(t)
    BY <1>1, <2>0, <2>4 DEF IInv, ZeroIndex
  <2>5. CASE Pick(t)
    BY <1>1, <2>0, <2>5 DEF IInv, Pick
  <2>6. CASE ReadIndex(t)
    BY <1>1, <2>0, <2>6 DEF IInv, ReadIndex
  <2>7. CASE StoreIndex(t)
    BY <1>1, <2>0, <2>7 DEF IInv, StoreIndex
  <2>8. CASE Recover(t)
    BY <2>0, <2>8 DEF Recover
  <2>9. QED
    BY <2>1, <2>2, <2>3, <2>4, <2>5, <2>6, <2>7, <2>8 DEF Request
<1>6. QED
  BY <1>1, <1>4, <1>5 DEF CalmInv

LEMMA NextIInv == IInv /\ [Next]_vars => IInv'
<1> SUFFICES ASSUME IInv, [Next]_vars PROVE IInv'
  OBVIOUS
<1>1. CASE Next
  <2>1. /\ calm' = (~updating' /\ (calm \/ Quiet'))
        /\ (\E t \in Threads : Request(t)) \/ Update
    BY <1>1 DEF Next
  <2>2. calm' \in BOOLEAN /\ steady' \in BOOLEAN
    <3>1. steady' = (calm' /\ OneAtATime' /\ (steady \/ SomeonePicks))
      BY <1>1 DEF Next
    <3>2. QED
      BY <2>1, <3>1
  <2>3. TypeOK' /\ StepInv'
    BY <2>1, <2>2, RequestTypeOK, UpdateTypeOK DEF IInv
  <2>4. CalmInv'
    <3>1. CASE ~calm'
      BY <3>1 DEF CalmInv
    <3>2. CASE calm' /\ Quiet'
      BY <3>2 DEF CalmInv, Quiet, InNext
    <3>3. CASE calm' /\ ~Quiet'
      <4>1. calm /\ ~updating'
        BY <2>1, <3>3
      <4>2. ~updating
        BY <4>1 DEF IInv, CalmInv
      <4>3. ~Update
        BY <4>1, <4>2 DEF Update, UpdateStarts, Add, UpdateReturns
      <4>4. QED
        BY <2>1, <4>1, <4>3, RequestCalm
    <3>4. QED
      BY <3>1, <3>2, <3>3
  <2>5. QED
    BY <2>3, <2>4 DEF IInv
<1>2. CASE UNCHANGED vars
  BY <1>2 DEF vars, IInv, TypeOK, StepInv, CalmInv
<1>3. QED
  BY <1>1, <1>2

\* The types of RoundRobin hold in every reachable state; in particular
\* curIndex stays below the longest list.
THEOREM TypesCorrect == Spec => []TypeOK
<1>1. IInv => TypeOK
  BY DEF IInv
<1>2. QED
  BY <1>1, InitIInv, NextIInv, PTL DEF Spec

\* However many requests run Next() at once, an index out of range needs an
\* Update nearby (round_robin.go 25-36).
THEOREM NoPanicInTheCalm == Spec => []PanicOnlyAroundUpdate
<1>1. IInv => PanicOnlyAroundUpdate
  BY DEF IInv, CalmInv, PanicOnlyAroundUpdate
<1>2. QED
  BY <1>1, InitIInv, NextIInv, PTL DEF Spec
-----------------------------------------------------------------------------
(* The rotation: InTurn.                                                   *)

\* The list is 1 .. n, and what an Update has still to add goes on from there.
ListInv ==
    /\ \A i \in 1 .. Len(rss) : rss[i] = i
    /\ \A i \in 1 .. Len(pending) : pending[i] = Len(rss) + i

\* While steady, curIndex is behind the place last taken, but for the one
\* request that has taken it and not yet stored the next.
SteadyInv ==
    steady => /\ calm /\ OneAtATime
              /\ picked \in 1 .. Len(rss)
              /\ \A t \in Threads : /\ pc[t] # "zero"
                                    /\ pc[t] = "read" => picked = curIndex + 1
                                    /\ pc[t] = "store" => picked = tmp[t] + 1
              /\ (\A t \in Threads : pc[t] \notin {"read", "store"}) =>
                     curIndex = picked % Len(rss)

TurnInv == IInv /\ ListInv /\ SteadyInv

LEMMA InitTurnInv == Init => TurnInv
<1> SUFFICES ASSUME Init PROVE TurnInv
  OBVIOUS
<1>1. PICK n \in 0 .. MaxLen : rss = Places(n)
  BY DEF Init
<1>2. ListInv
  <2>1. Len(rss) = n /\ \A i \in 1 .. n : rss[i] = i
    BY <1>1, PlacesType DEF Places
  <2>2. Len(pending) = 0
    BY DEF Init
  <2>3. QED
    BY <2>1, <2>2 DEF ListInv
<1>3. SteadyInv
  BY DEF Init, SteadyInv
<1>4. QED
  BY <1>2, <1>3, InitIInv DEF TurnInv

LEMMA ListStep ==
    ASSUME TypeOK, ListInv, (\E t \in Threads : Request(t)) \/ Update
    PROVE  ListInv'
<1>1. CASE \E t \in Threads : Request(t)
  <2>1. UNCHANGED <<rss, pending>>
    BY <1>1 DEF Request, Enter, ReadLens, CheckWrap, ZeroIndex, Pick, ReadIndex, StoreIndex,
                Recover
  <2>2. QED
    BY <2>1 DEF ListInv
<1>2. CASE UpdateStarts
  <2>1. PICK n \in 0 .. MaxLen : pending' = Places(n)
    BY <1>2 DEF UpdateStarts
  <2>2. Len(pending') = n /\ \A i \in 1 .. n : pending'[i] = i
    BY <2>1, PlacesType DEF Places
  <2>3. Len(rss') = 0
    BY <1>2, EmptyType DEF UpdateStarts
  <2>4. QED
    BY <2>2, <2>3 DEF ListInv
<1>3. CASE Add
  <2>1. /\ rss \in Seq(1 .. MaxLen) /\ pending \in Seq(1 .. MaxLen)
        /\ Len(rss) \in Nat /\ Len(pending) \in Nat \ {0}
    BY <1>3 DEF Add, TypeOK
  <2>2. /\ Head(pending) = pending[1]
        /\ Len(Tail(pending)) = Len(pending) - 1
        /\ \A i \in 1 .. Len(pending) - 1 : Tail(pending)[i] = pending[i + 1]
    BY <2>1
  <2>3. pending[1] = Len(rss) + 1
    BY <2>1 DEF ListInv
  <2>4. /\ Len(rss') = Len(rss) + 1
        /\ \A i \in 1 .. Len(rss) : rss'[i] = rss[i]
        /\ rss'[Len(rss) + 1] = Len(rss) + 1
    BY <1>3, <2>1, <2>2, <2>3 DEF Add
  <2>5. \A i \in 1 .. Len(rss') : rss'[i] = i
    BY <2>1, <2>4 DEF ListInv
  <2>6. ASSUME NEW i \in 1 .. Len(pending')
        PROVE  pending'[i] = Len(rss') + i
    <3>1. i \in 1 .. Len(pending) - 1 /\ pending'[i] = pending[i + 1]
      BY <1>3, <2>1, <2>2 DEF Add
    <3>2. i + 1 \in 1 .. Len(pending)
      BY <2>1, <3>1
    <3>3. pending[i + 1] = Len(rss) + (i + 1)
      BY <3>2 DEF ListInv
    <3>4. QED
      BY <2>1, <2>4, <3>1, <3>3
  <2>7. QED
    BY <2>5, <2>6 DEF ListInv
<1>4. CASE UpdateReturns
  BY <1>4 DEF UpdateReturns, ListInv
<1>5. QED
  BY <1>1, <1>2, <1>3, <1>4 DEF Update

\* A pick is one request's step at line 33, within the list.
LEMMA PickOf ==
    ASSUME TypeOK, SomeonePicks, (\E t \in Threads : Request(t)) \/ Update
    PROVE  \E t \in Threads : Pick(t) /\ curIndex < Len(rss)
<1>1. PICK u \in Threads : pc[u] = "pick" /\ pc'[u] = "read"
  BY DEF SomeonePicks
<1>2. ~ Update
  BY <1>1 DEF Update, UpdateStarts, Add, UpdateReturns
<1>3. PICK t \in Threads : Request(t)
  BY <1>2
<1>4. t = u
  BY <1>1, <1>3 DEF TypeOK, Request, Enter, ReadLens, CheckWrap, ZeroIndex, Pick, ReadIndex,
                    StoreIndex, Recover, Go
<1>5. Pick(u)
  BY <1>1, <1>3, <1>4 DEF Request, Enter, ReadLens, CheckWrap, ZeroIndex, Pick, ReadIndex,
                          StoreIndex, Recover, Go
<1>6. curIndex < Len(rss)
  BY <1>1, <1>5 DEF Pick, Go, TypeOK
<1>7. QED
  BY <1>5, <1>6

LEMMA PickTakes ==
    ASSUME TypeOK, ListInv, NEW t \in Threads, Pick(t), curIndex < Len(rss)
    PROVE  /\ picked' = curIndex + 1 /\ picked' \in 1 .. Len(rss)
           /\ UNCHANGED <<curIndex, rss>>
<1>1. curIndex + 1 \in 1 .. Len(rss)
  BY DEF TypeOK
<1>2. picked' = rss[curIndex + 1]
  BY DEF Pick
<1>3. QED
  BY <1>1, <1>2 DEF ListInv, Pick

\* The state right after a pick, when it begins the steady time.
LEMMA SteadyBegins ==
    ASSUME TypeOK, ListInv, (\E t \in Threads : Request(t)) \/ Update,
           SomeonePicks, calm', OneAtATime'
    PROVE  SteadyInv'
<1>1. PICK t \in Threads : Pick(t) /\ curIndex < Len(rss)
  BY PickOf
<1>2. /\ picked' = curIndex + 1 /\ picked' \in 1 .. Len(rss)
      /\ UNCHANGED <<curIndex, rss>>
  BY <1>1, PickTakes
<1>3. pc'[t] = "read"
  BY <1>1 DEF Pick, Go, TypeOK
<1>4. \A u \in Threads : u # t => pc'[u] = "idle"
  BY <1>3 DEF OneAtATime
<1>5. QED
  BY <1>2, <1>3, <1>4 DEF SteadyInv

\* A step of the steady time itself.
LEMMA SteadyGoesOn ==
    ASSUME TurnInv, steady, NEW t \in Threads, Request(t), calm', OneAtATime', ~ SomeonePicks
    PROVE  SteadyInv'
<1>1. /\ TypeOK /\ StepInv /\ calm
      /\ picked \in 1 .. Len(rss) /\ Len(rss) \in Nat \ {0}
      /\ curIndex \in Nat
  BY DEF TurnInv, IInv, SteadyInv, TypeOK
<1>2. /\ \A u \in Threads : /\ pc[u] # "zero" /\ pc[u] # "panic"
                            /\ pc[u] \in {"pick", "read", "store"} => curIndex < Len(rss)
                            /\ pc[u] = "read" => picked = curIndex + 1
                            /\ pc[u] = "store" => picked = tmp[u] + 1
                            /\ pc[u] \in InNext \ {"lens"} => lens[u] = Len(rss)
      /\ (\A u \in Threads : pc[u] \notin {"read", "store"}) => curIndex = picked % Len(rss)
  BY <1>1 DEF TurnInv, IInv, SteadyInv, CalmInv
<1>3. \A u \in Threads : u # t => pc'[u] = pc[u]
  BY <1>1 DEF TypeOK, Request, Enter, ReadLens, CheckWrap, ZeroIndex, Pick, ReadIndex,
              StoreIndex, Recover, Go
<1>4. rss' = rss
  BY DEF Request, Enter, ReadLens, CheckWrap, ZeroIndex, Pick, ReadIndex, StoreIndex, Recover
<1>5. \A u \in Threads : u # t => pc[u] = "idle"
  <2>1. CASE pc[t] # "idle"
    BY <2>1 DEF OneAtATime, TurnInv, SteadyInv
  <2>2. CASE pc[t] = "idle"
    <3>1. Enter(t)
      BY <2>2 DEF Request, ReadLens, CheckWrap, ZeroIndex, Pick, ReadIndex, StoreIndex,
                  Recover, Go
    <3>2. pc'[t] = "lens"
      BY <1>1, <3>1 DEF TypeOK, Enter, Go
    <3>3. QED
      BY <1>3, <3>2 DEF OneAtATime
  <2>3. QED
    BY <2>1, <2>2
<1>6. pc \in [Threads -> InNext \cup {"idle", "panic"}] /\ tmp \in [Threads -> 0 .. MaxLen - 1]
  BY <1>1 DEF TypeOK
<1>7. SUFFICES /\ picked' = picked
               /\ pc'[t] # "zero"
               /\ pc'[t] = "read" => picked = curIndex' + 1
               /\ pc'[t] = "store" => picked = tmp'[t] + 1
               /\ pc'[t] \notin {"read", "store"} => curIndex' = picked % Len(rss)
  BY <1>1, <1>3, <1>4, <1>5 DEF SteadyInv
<1>8. CASE Enter(t)
  BY <1>2, <1>5, <1>6, <1>8 DEF Enter, Go
<1>9. CASE ReadLens(t)
  BY <1>2, <1>5, <1>6, <1>9 DEF ReadLens, Go
<1>10. CASE CheckWrap(t)
  <2>1. pc[t] = "wrap"
    BY <1>10 DEF CheckWrap, Go
  <2>2. curIndex = picked % Len(rss) /\ lens[t] = Len(rss)
    BY <1>2, <1>5, <2>1 DEF InNext
  <2>3. curIndex < Len(rss)
    BY <1>1, <2>2
  <2>4. ~ Wrap(curIndex, lens[t])
    BY <1>1, <2>2, <2>3 DEF Wrap
  <2>5. QED
    BY <1>6, <1>10, <2>2, <2>4 DEF CheckWrap, Go
<1>11. CASE ZeroIndex(t)
  BY <1>2, <1>11 DEF ZeroIndex, Go
<1>12. CASE Pick(t)
  <2>1. pc[t] = "pick" /\ curIndex < Len(rss)
    BY <1>2, <1>12 DEF Pick, Go
  <2>2. pc'[t] = "read"
    BY <1>6, <1>12, <2>1 DEF Pick, Go
  <2>3. QED
    BY <2>1, <2>2 DEF SomeonePicks
<1>13. CASE ReadIndex(t)
  <2>1. pc[t] = "read" /\ lens[t] = Len(rss)
    BY <1>2, <1>13 DEF ReadIndex, Go, InNext
  <2>2. pc'[t] = "store" /\ tmp'[t] = curIndex
    BY <1>1, <1>6, <1>13, <2>1 DEF ReadIndex, Go
  <2>3. QED
    BY <1>2, <1>13, <2>1, <2>2 DEF ReadIndex
<1>14. CASE StoreIndex(t)
  <2>1. pc[t] = "store" /\ lens[t] = Len(rss) /\ picked = tmp[t] + 1
    BY <1>2, <1>14 DEF StoreIndex, Go, InNext
  <2>2. curIndex' = picked % Len(rss)
    BY <1>14, <2>1 DEF StoreIndex, Advance
  <2>3. pc'[t] = "idle" /\ picked' = picked
    BY <1>6, <1>14 DEF StoreIndex, Go
  <2>4. QED
    BY <2>2, <2>3
<1>15. CASE Recover(t)
  BY <1>2, <1>15 DEF Recover, Go
<1>16. QED
  BY <1>8, <1>9, <1>10, <1>11, <1>12, <1>13, <1>14, <1>15 DEF Request

LEMMA NextTurnInv == TurnInv /\ [Next]_vars => TurnInv'
<1> SUFFICES ASSUME TurnInv, [Next]_vars PROVE TurnInv'
  OBVIOUS
<1>1. IInv'
  BY NextIInv DEF TurnInv
<1>2. CASE Next
  <2>1. /\ (\E t \in Threads : Request(t)) \/ Update
        /\ calm' = (~updating' /\ (calm \/ Quiet'))
        /\ steady' = (calm' /\ OneAtATime' /\ (steady \/ SomeonePicks))
    BY <1>2 DEF Next
  <2>2. TypeOK /\ ListInv
    BY DEF TurnInv, IInv
  <2>3. ListInv'
    BY <2>1, <2>2, ListStep
  <2>4. CASE ~ steady'
    BY <1>1, <2>3, <2>4 DEF SteadyInv, TurnInv
  <2>5. CASE steady' /\ SomeonePicks
    BY <1>1, <2>1, <2>2, <2>3, <2>5, SteadyBegins DEF TurnInv
  <2>6. CASE steady' /\ ~ SomeonePicks
    <3>1. steady /\ calm' /\ OneAtATime'
      BY <2>1, <2>6
    <3>2. ~ updating' /\ ~ updating
      BY <2>1, <3>1 DEF TurnInv, SteadyInv, IInv, CalmInv
    <3>3. ~ Update
      BY <3>2 DEF Update, UpdateStarts, Add, UpdateReturns
    <3>4. QED
      BY <1>1, <2>1, <2>3, <2>6, <3>1, <3>3, SteadyGoesOn DEF TurnInv
  <2>7. QED
    BY <2>4, <2>5, <2>6
<1>3. CASE UNCHANGED vars
  <2>1. UNCHANGED <<curIndex, rss, pc, tmp, picked, pending, calm, steady>>
    BY <1>3 DEF vars
  <2>2. QED
    BY <1>1, <2>1 DEF TurnInv, ListInv, SteadyInv, OneAtATime
<1>4. QED
  BY <1>2, <1>3

\* What the next request that takes an address gets, while they do not meet.
LEMMA TakesTheNext ==
    ASSUME TurnInv, Next, SomeonePicks, steady
    PROVE  picked' = (picked % Len(rss)) + 1
<1>1. /\ TypeOK /\ ListInv
      /\ (\E t \in Threads : Request(t)) \/ Update
  BY DEF Next, TurnInv, IInv
<1>2. PICK t \in Threads : Pick(t) /\ curIndex < Len(rss)
  BY <1>1, PickOf
<1>3. picked' = curIndex + 1
  BY <1>1, <1>2, PickTakes
<1>4. \A u \in Threads : pc[u] \notin {"read", "store"}
  BY <1>2 DEF Pick, Go, TurnInv, SteadyInv, OneAtATime
<1>5. curIndex = picked % Len(rss)
  BY <1>4 DEF TurnInv, SteadyInv
<1>6. QED
  BY <1>3, <1>5

\* Requests that do not meet inside Next get the addresses one after the
\* other, from wherever races and Updates before left curIndex: lines 30 to 34
\* of round_robin.go, for any number of requests and addresses.
THEOREM TakesTurns == Spec => InTurn
<1>1. TurnInv /\ [Next]_vars
        => [SomeonePicks /\ steady => picked' = (picked % Len(rss)) + 1]_vars
  BY TakesTheNext
<1>2. QED
  BY <1>1, InitTurnInv, NextTurnInv, PTL DEF Spec, InTurn
-----------------------------------------------------------------------------
(* Numbers.                                                                *)

\* A set of numbers has a least one ...
LEMMA LeastNumber ==
    ASSUME NEW T, T \subseteq Nat, T # {}
    PROVE  \E x \in T : \A y \in T : x <= y
<1>1. PICK R : R = {ss \in Nat \X Nat : ss[1] < ss[2]}
  OBVIOUS
<1>2. IsWellFoundedOn(R, Nat)
  BY <1>1, NatLessThanWellFounded DEF OpToRel
<1>3. PICK x \in T : \A y \in T : ~ (<<y, x>> \in R)
  BY <1>2, WFMin
<1>4. \A y \in T : x <= y
  <2> SUFFICES ASSUME NEW y \in T PROVE x <= y
    OBVIOUS
  <2>1. x \in Nat /\ y \in Nat
    OBVIOUS
  <2>2. ~ (y < x)
    BY <1>1, <1>3, <2>1
  <2>3. QED
    BY <2>1, <2>2
<1>5. QED
  BY <1>4

\* ... so a set that has 0, and with a number the next one, has all up to n.
LEMMA UpTo ==
    ASSUME NEW n \in Nat, NEW Q, 0 \in Q, \A k \in 1 .. n : k - 1 \in Q => k \in Q
    PROVE  \A k \in 0 .. n : k \in Q
<1>. DEFINE T == {k \in 0 .. n : k \notin Q}
<1>1. SUFFICES ASSUME T # {} PROVE FALSE
  OBVIOUS
<1>2. PICK m \in T : \A y \in T : m <= y
  <2>1. T \subseteq Nat
    OBVIOUS
  <2>. HIDE DEF T
  <2>2. QED
    BY <1>1, <2>1, LeastNumber
<1>3. m \in 1 .. n /\ m - 1 \in 0 .. n
  OBVIOUS
<1>4. m - 1 \notin T
  BY <1>2, <1>3
<1>5. QED
  BY <1>3, <1>4

LEMMA MinIs ==
    ASSUME NEW S, S \subseteq Nat, NEW m \in S, \A y \in S : m <= y
    PROVE  Min(S) = m
<1>1. Min(S) \in S /\ \A y \in S : Min(S) <= y
  BY DEF Min
<1>2. Min(S) \in Nat /\ m \in Nat /\ Min(S) <= m /\ m <= Min(S)
  BY <1>1
<1>3. QED
  BY <1>2

LEMMA MaxIs ==
    ASSUME NEW S, S \subseteq Nat, NEW m \in S, \A y \in S : y <= m
    PROVE  Max(S) = m
<1>1. Max(S) \in S /\ \A y \in S : Max(S) >= y
  BY DEF Max
<1>2. Max(S) \in Nat /\ m \in Nat /\ m <= Max(S) /\ Max(S) <= m
  BY <1>1
<1>3. QED
  BY <1>2

\* One of n numbers, of those that have a property, is the greatest.
LEMMA Greatest ==
    ASSUME NEW n \in Nat, NEW s \in [1 .. n -> Nat], NEW J \in SUBSET (1 .. n), J # {}
    PROVE  \E m \in J : \A j \in J : s[j] <= s[m]
<1>. DEFINE J0(k) == J \cap (1 .. k)
            Q == {k \in 0 .. n : J0(k) = {} \/ \E m \in J0(k) : \A j \in J0(k) : s[j] <= s[m]}
<1>1. 0 \in Q
  OBVIOUS
<1>2. ASSUME NEW k \in 1 .. n, k - 1 \in Q PROVE k \in Q
  <2>1. J0(k) = IF k \in J THEN J0(k - 1) \cup {k} ELSE J0(k - 1)
    OBVIOUS
  <2>2. k \in 0 .. n
    OBVIOUS
  <2>3. \A j \in J : s[j] \in Nat
    OBVIOUS
  <2>4. CASE k \notin J
    <3>1. J0(k) = J0(k - 1)
      BY <2>1, <2>4
    <3>. HIDE DEF J0
    <3>2. QED
      BY <1>2, <2>2, <3>1
  <2>5. CASE k \in J /\ J0(k - 1) = {}
    <3>1. J0(k) = {k}
      BY <2>1, <2>5
    <3>2. s[k] \in Nat
      BY <2>3, <2>5
    <3>. HIDE DEF J0
    <3>3. QED
      BY <2>2, <3>1, <3>2
  <2>6. CASE k \in J /\ J0(k - 1) # {}
    <3>1. J0(k) = J0(k - 1) \cup {k} /\ J0(k - 1) \subseteq J
      BY <2>1, <2>6
    <3>. HIDE DEF J0
    <3>2. PICK m \in J0(k - 1) : \A j \in J0(k - 1) : s[j] <= s[m]
      BY <1>2, <2>6
    <3>3. s[k] \in Nat /\ s[m] \in Nat /\ \A j \in J0(k - 1) : s[j] \in Nat
      BY <2>3, <2>6, <3>1
    <3>4. CASE s[k] <= s[m]
      BY <2>2, <3>1, <3>2, <3>4
    <3>5. CASE s[m] <= s[k]
      <4>1. \A j \in J0(k) : s[j] <= s[k]
        BY <3>1, <3>2, <3>3, <3>5
      <4>2. QED
        BY <2>2, <3>1, <4>1
    <3>6. QED
      BY <3>3, <3>4, <3>5
  <2>7. QED
    BY <2>4, <2>5, <2>6
<1>. HIDE DEF Q
<1>3. n \in Q
  <2>1. \A k \in 0 .. n : k \in Q
    BY <1>1, <1>2, UpTo
  <2>2. QED
    BY <2>1
<1>4. J0(n) = J
  OBVIOUS
<1>. USE DEF Q
<1>5. QED
  BY <1>3, <1>4
-----------------------------------------------------------------------------
(* The sort.                                                               *)

\* Sorted has the numbers of s, none before a smaller one.
LEMMA CountsIn ==
    ASSUME NEW s \in Seq(Nat), NEW x \in Nat
    PROVE  /\ Below(s, x) \in Nat /\ NotAbove(s, x) \in Nat
           /\ \A y \in Nat : x < y => NotAbove(s, x) <= Below(s, y)
           /\ \A j \in 1 .. Len(s) : Below(s, s[j]) < NotAbove(s, s[j])
           /\ (\A j \in 1 .. Len(s) : s[j] <= x) => NotAbove(s, x) = Len(s)
           /\ (\A j \in 1 .. Len(s) : ~ (s[j] < x)) => Below(s, x) = 0
<1>. DEFINE D == 1 .. Len(s)
            B(y) == {j \in D : s[j] < y}
            N(y) == {j \in D : s[j] <= y}
<1>1. DOMAIN s = D /\ Len(s) \in Nat /\ \A j \in D : s[j] \in Nat
  OBVIOUS
<1>2. \A y : Below(s, y) = Cardinality(B(y)) /\ NotAbove(s, y) = Cardinality(N(y))
  BY <1>1 DEF Below, NotAbove
<1>3. IsFiniteSet(D) /\ Cardinality(D) = Len(s)
  <2>1. Len(s) \in Int /\ 1 \in Int /\ (1 > Len(s) => Len(s) = 0)
    BY <1>1
  <2>2. QED
    BY <2>1, FS_Interval
<1>4. \A y : IsFiniteSet(B(y)) /\ IsFiniteSet(N(y))
  <2>1. \A y : B(y) \in SUBSET D /\ N(y) \in SUBSET D
    OBVIOUS
  <2>. HIDE DEF B, N, D
  <2>2. QED
    BY <1>3, <2>1, FS_Subset
<1>5. \A y : Cardinality(B(y)) \in Nat /\ Cardinality(N(y)) \in Nat
  <2>. HIDE DEF B, N
  <2>1. QED
    BY <1>4, FS_CardinalityType
<1>6. ASSUME NEW y \in Nat, x < y PROVE Cardinality(N(x)) <= Cardinality(B(y))
  <2>1. N(x) \in SUBSET B(y)
    BY <1>1, <1>6
  <2>. HIDE DEF B, N
  <2>2. QED
    BY <1>4, <2>1, FS_Subset
<1>7. ASSUME NEW j \in D PROVE Cardinality(B(s[j])) < Cardinality(N(s[j]))
  <2>1. B(s[j]) \in SUBSET N(s[j]) /\ j \in N(s[j]) /\ j \notin B(s[j])
    BY <1>1, <1>7
  <2>. HIDE DEF B, N
  <2>2. /\ Cardinality(B(s[j])) <= Cardinality(N(s[j]))
        /\ Cardinality(B(s[j])) # Cardinality(N(s[j]))
    BY <1>4, <2>1, FS_Subset
  <2>3. QED
    BY <1>5, <2>2
<1>8. (\A j \in D : s[j] <= x) => N(x) = D
  OBVIOUS
<1>9. (\A j \in D : ~ (s[j] < x)) => Cardinality(B(x)) = 0
  <2>1. (\A j \in D : ~ (s[j] < x)) => B(x) = {}
    OBVIOUS
  <2>. HIDE DEF B
  <2>2. QED
    BY <2>1, FS_EmptySet
<1>. HIDE DEF B, N
<1>10. QED
  BY <1>2, <1>3, <1>5, <1>6, <1>7, <1>8, <1>9

LEMMA SortedIs ==
    ASSUME NEW s \in Seq(Nat)
    PROVE  /\ Sorted(s) \in Seq(Nat) /\ Len(Sorted(s)) = Len(s)
           /\ ToSet(Sorted(s)) = ToSet(s)
           /\ \A i, k \in 1 .. Len(s) : i <= k => Sorted(s)[i] <= Sorted(s)[k]
<1>. DEFINE n == Len(s)
            At(i, x) == x \in ToSet(s) /\ Below(s, x) < i /\ i <= NotAbove(s, x)
<1>1. n \in Nat /\ DOMAIN s = 1 .. n /\ s \in [1 .. n -> Nat] /\ \A j \in 1 .. n : s[j] \in Nat
  OBVIOUS
<1>2. ToSet(s) = {s[j] : j \in 1 .. n} /\ ToSet(s) \subseteq Nat
  BY <1>1 DEF ToSet
<1>3. \A x \in ToSet(s) : Below(s, x) \in Nat /\ NotAbove(s, x) \in Nat
  BY <1>2, CountsIn
\* Every place has a number ...
<1>4. ASSUME NEW i \in 1 .. n PROVE \E x : At(i, x)
  <2>. DEFINE C == {x \in ToSet(s) : i <= NotAbove(s, x)}
  <2>1. C # {}
    <3>1. PICK m \in 1 .. n : \A j \in 1 .. n : s[j] <= s[m]
      <4>1. (1 .. n) \in SUBSET (1 .. n) /\ 1 .. n # {}
        BY <1>4
      <4>2. QED
        BY <1>1, <4>1, Greatest
    <3>2. NotAbove(s, s[m]) = n /\ s[m] \in ToSet(s)
      BY <1>1, <1>2, <3>1, CountsIn
    <3>3. QED
      BY <1>1, <3>2
  <2>2. PICK x \in C : \A y \in C : x <= y
    <3>1. C \subseteq Nat
      BY <1>2
    <3>. HIDE DEF C
    <3>2. QED
      BY <2>1, <3>1, LeastNumber
  <2>3. x \in ToSet(s) /\ x \in Nat /\ i <= NotAbove(s, x)
    BY <1>2, <2>2
  <2>4. Below(s, x) < i
    <3>. DEFINE J == {j \in 1 .. n : s[j] < x}
    <3>1. CASE J = {}
      <4>1. \A j \in 1 .. n : ~ (s[j] < x)
        BY <3>1
      <4>2. Below(s, x) = 0
        BY <2>3, <4>1, CountsIn
      <4>3. QED
        BY <4>2
    <3>2. CASE J # {}
      <4>1. PICK m \in J : \A j \in J : s[j] <= s[m]
        <5>1. J \in SUBSET (1 .. n)
          OBVIOUS
        <5>. HIDE DEF J
        <5>2. QED
          BY <1>1, <3>2, <5>1, Greatest
      <4>2. m \in 1 .. n /\ s[m] < x /\ s[m] \in ToSet(s) /\ s[m] \in Nat
        BY <1>1, <1>2, <4>1
      <4>3. s[m] \notin C
        BY <2>2, <2>3, <4>2
      <4>4. ~ (i <= NotAbove(s, s[m]))
        BY <4>2, <4>3
      <4>5. \A j \in 1 .. n : s[j] < x <=> s[j] <= s[m]
        BY <1>1, <2>3, <4>1, <4>2
      <4>6. Below(s, x) = NotAbove(s, s[m])
        <5>1. {j \in 1 .. n : s[j] < x} = {j \in 1 .. n : s[j] <= s[m]}
          BY <4>5
        <5>2. QED
          BY <1>1, <5>1 DEF Below, NotAbove
      <4>7. NotAbove(s, s[m]) \in Nat
        BY <1>3, <4>2
      <4>8. QED
        BY <4>4, <4>6, <4>7
    <3>3. QED
      BY <3>1, <3>2
  <2>5. QED
    BY <2>3, <2>4
<1>5. \A i \in 1 .. n : At(i, Sorted(s)[i])
  <2>1. TAKE i \in 1 .. n
  <2>2. Sorted(s)[i] = CHOOSE x \in ToSet(s) : Below(s, x) < i /\ i <= NotAbove(s, x)
    BY <1>1 DEF Sorted
  <2>3. PICK x : At(i, x)
    BY <1>4
  <2>4. QED
    BY <2>2, <2>3
<1>6. Sorted(s) \in Seq(Nat) /\ Len(Sorted(s)) = n /\ DOMAIN Sorted(s) = 1 .. n
  <2>1. DOMAIN Sorted(s) = 1 .. n /\ \A i \in 1 .. n : Sorted(s)[i] \in Nat
    BY <1>1, <1>2, <1>5 DEF Sorted
  <2>2. Sorted(s) = [i \in 1 .. n |-> Sorted(s)[i]]
    BY <1>1 DEF Sorted
  <2>3. QED
    BY <1>1, <2>1, <2>2
\* ... no smaller than the one before ...
<1>7. ASSUME NEW i \in 1 .. n, NEW k \in 1 .. n, i <= k PROVE Sorted(s)[i] <= Sorted(s)[k]
  <2>. DEFINE x == Sorted(s)[i]
              y == Sorted(s)[k]
  <2>1. At(i, x) /\ At(k, y)
    BY <1>5
  <2>2. x \in Nat /\ y \in Nat
    BY <1>2, <2>1
  <2>. HIDE DEF x, y
  <2>3. SUFFICES ASSUME y < x PROVE FALSE
    BY <2>2 DEF x, y
  <2>4. NotAbove(s, y) <= Below(s, x)
    BY <2>2, <2>3, CountsIn
  <2>5. Below(s, x) \in Nat /\ NotAbove(s, y) \in Nat
    BY <1>3, <2>1
  <2>6. QED
    BY <1>7, <2>1, <2>4, <2>5
\* ... and every number has a place.
<1>8. ASSUME NEW j \in 1 .. n PROVE \E i \in 1 .. n : Sorted(s)[i] = s[j]
  <2>1. PICK i : i = NotAbove(s, s[j])
    OBVIOUS
  <2>2. s[j] \in Nat /\ s[j] \in ToSet(s)
    BY <1>1, <1>2
  <2>3. i \in 1 .. n
    <3>1. Below(s, s[j]) < i /\ Below(s, s[j]) \in Nat /\ i \in Nat
      BY <2>1, <2>2, CountsIn
    <3>2. PICK m \in 1 .. n : \A h \in 1 .. n : s[h] <= s[m]
      <4>1. (1 .. n) \in SUBSET (1 .. n) /\ 1 .. n # {}
        BY <1>8
      <4>2. QED
        BY <1>1, <4>1, Greatest
    <3>3. NotAbove(s, s[m]) = n /\ s[m] \in Nat /\ s[j] <= s[m]
      BY <1>1, <3>2, CountsIn
    <3>4. i <= n
      <4>1. CASE s[j] = s[m]
        BY <1>1, <2>1, <3>3, <4>1
      <4>2. CASE s[j] < s[m]
        <5>1. NotAbove(s, s[j]) <= Below(s, s[m]) /\ Below(s, s[m]) < NotAbove(s, s[m])
          BY <2>2, <3>3, <4>2, CountsIn
        <5>2. Below(s, s[m]) \in Nat
          BY <3>3, CountsIn
        <5>3. QED
          BY <2>1, <3>1, <3>3, <5>1, <5>2
      <4>3. QED
        BY <2>2, <3>3, <4>1, <4>2
    <3>5. QED
      BY <1>1, <3>1, <3>4
  <2>4. PICK x : x = Sorted(s)[i]
    OBVIOUS
  <2>5. At(i, x) /\ x \in Nat
    BY <1>2, <1>5, <2>3, <2>4
  <2>6. Below(s, x) \in Nat /\ NotAbove(s, x) \in Nat /\ Below(s, s[j]) \in Nat /\ i \in Nat
    BY <1>3, <2>2, <2>3, <2>5
  <2>7. ~ (x < s[j])
    <3>1. SUFFICES ASSUME x < s[j] PROVE FALSE
      OBVIOUS
    <3>2. NotAbove(s, x) <= Below(s, s[j]) /\ Below(s, s[j]) < i
      BY <2>1, <2>2, <2>5, <3>1, CountsIn
    <3>3. QED
      BY <2>5, <2>6, <3>2
  <2>8. ~ (s[j] < x)
    <3>1. SUFFICES ASSUME s[j] < x PROVE FALSE
      OBVIOUS
    <3>2. i <= Below(s, x)
      BY <2>1, <2>2, <2>5, <3>1, CountsIn
    <3>3. QED
      BY <2>5, <2>6, <3>2
  <2>9. QED
    BY <2>2, <2>3, <2>4, <2>5, <2>7, <2>8
<1>9. ToSet(Sorted(s)) = ToSet(s)
  <2>1. \A i \in 1 .. n : Sorted(s)[i] \in ToSet(s)
    BY <1>5
  <2>2. QED
    BY <1>2, <1>6, <1>8, <2>1 DEF ToSet
<1>10. QED
  BY <1>6, <1>7, <1>9
-----------------------------------------------------------------------------
(* The ring of virtual nodes.                                              *)

Hashes(A) == UNION {NodeHashes(a) : a \in A}

\* The keys and the map after the addresses of A have been added, each after
\* the smaller ones: a hash of two addresses goes to the greater.
Ring(A, ks, m) ==
    /\ ks \in Seq(Nat) /\ ToSet(ks) = Hashes(A)
    /\ DOMAIN m = Hashes(A)
    /\ \A h \in Hashes(A) :
          m[h] \in A /\ h \in NodeHashes(m[h]) /\ \A a \in A : h \in NodeHashes(a) => a <= m[h]

LEMMA EmptyRing == Ring({}, <<>>, Empty)
<1>1. Hashes({}) = {}
  BY DEF Hashes
<1>2. ToSet(<<>>) = {} /\ DOMAIN Empty = {} /\ <<>> \in Seq(Nat)
  BY DEF ToSet, Empty
<1>3. QED
  BY <1>1, <1>2 DEF Ring

LEMMA NodeHashesType ==
    ASSUME NEW a \in 1 .. MaxLen
    PROVE  NodeHashes(a) \subseteq Nat
BY BalancersAssumption DEF NodeHashes

LEMMA ConcatIs ==
    ASSUME NEW s \in Seq(Nat), NEW u \in Seq(Nat)
    PROVE  s \o u \in Seq(Nat) /\ ToSet(s \o u) = ToSet(s) \cup ToSet(u)
<1>1. PICK n, m, w : n = Len(s) /\ m = Len(u) /\ w = s \o u
  OBVIOUS
<1>2. /\ w \in Seq(Nat) /\ Len(w) = n + m /\ n \in Nat /\ m \in Nat
      /\ \A i \in 1 .. n : w[i] = s[i]
  BY <1>1
<1>3. \A i \in 1 .. m : w[n + i] = u[i]
  <2>1. TAKE i \in 1 .. m
  <2>2. n + i \in 1 .. Len(s) + Len(u) /\ n + i > Len(s) /\ (n + i) - Len(s) = i
    BY <1>1, <1>2
  <2>3. (s \o u)[n + i] = u[(n + i) - Len(s)]
    BY <2>2
  <2>4. QED
    BY <1>1, <2>2, <2>3
<1>4. /\ DOMAIN w = 1 .. n + m /\ DOMAIN s = 1 .. n /\ DOMAIN u = 1 .. m
  BY <1>1, <1>2
<1>5. ASSUME NEW i \in 1 .. n + m PROVE w[i] \in ToSet(s) \cup ToSet(u)
  <2>1. CASE i \in 1 .. n
    BY <1>2, <1>4, <2>1 DEF ToSet
  <2>2. CASE i \notin 1 .. n
    <3>1. PICK j : j = i - n
      OBVIOUS
    <3>2. j \in 1 .. m /\ i = n + j
      BY <1>2, <1>5, <2>2, <3>1
    <3>3. w[i] = u[j]
      BY <1>3, <3>2
    <3>4. QED
      BY <1>4, <3>2, <3>3 DEF ToSet
  <2>3. QED
    BY <2>1, <2>2
<1>6. ASSUME NEW i \in 1 .. n PROVE s[i] \in ToSet(w)
  <2>1. i \in DOMAIN w /\ w[i] = s[i]
    BY <1>2, <1>4, <1>6
  <2>2. QED
    BY <2>1 DEF ToSet
<1>7. ASSUME NEW i \in 1 .. m PROVE u[i] \in ToSet(w)
  <2>1. n + i \in DOMAIN w /\ w[n + i] = u[i]
    BY <1>2, <1>3, <1>4, <1>7
  <2>2. QED
    BY <2>1 DEF ToSet
<1>8. /\ \A x \in ToSet(w) : x \in ToSet(s) \cup ToSet(u)
      /\ \A x \in ToSet(s) \cup ToSet(u) : x \in ToSet(w)
  BY <1>4, <1>5, <1>6, <1>7 DEF ToSet
<1>9. ToSet(w) = ToSet(s) \cup ToSet(u)
  <2>. HIDE DEF ToSet
  <2>1. QED
    BY <1>8
<1>10. QED
  BY <1>1, <1>2, <1>9

LEMMA AddToRing ==
    ASSUME NEW A \in SUBSET (1 .. MaxLen), NEW ks, NEW m, Ring(A, ks, m),
           NEW a \in 1 .. MaxLen, \A b \in A : b < a
    PROVE  Ring(A \cup {a}, WithHashes(ks, a), WithNode(m, a))
<1>. DEFINE B == A \cup {a}
            new == [i \in 1 .. Replicas |-> HashOf(a, i)]
            ks2 == WithHashes(ks, a)
            m2 == WithNode(m, a)
<1>1. Hashes(B) = Hashes(A) \cup NodeHashes(a)
  BY DEF Hashes
<1>2. new \in Seq(Nat) /\ Len(new) = Replicas /\ Replicas \in Nat
  BY BalancersAssumption
<1>3. ToSet(new) = NodeHashes(a)
  BY DEF ToSet, NodeHashes
<1>4. ks \in Seq(Nat) /\ ToSet(ks) = Hashes(A) /\ DOMAIN m = Hashes(A)
  BY DEF Ring
<1>5. ks2 = ks \o new
  BY DEF WithHashes
<1>6. ks2 \in Seq(Nat) /\ ToSet(ks2) = ToSet(ks) \cup ToSet(new)
  <2>. HIDE DEF new, ks2
  <2>1. QED
    BY <1>2, <1>4, <1>5, ConcatIs
<1>7. /\ DOMAIN m2 = Hashes(B)
      /\ \A h \in Hashes(B) : m2[h] = IF h \in NodeHashes(a) THEN a ELSE m[h]
  BY <1>1, <1>4 DEF WithNode
<1>8. ASSUME NEW h \in Hashes(B)
      PROVE  m2[h] \in B /\ h \in NodeHashes(m2[h]) /\ \A b \in B : h \in NodeHashes(b) => b <= m2[h]
  <2>1. \A b \in B : b \in 1 .. MaxLen /\ b <= a
    BY RoundRobinAssumption
  <2>2. CASE h \in NodeHashes(a)
    BY <1>7, <2>1, <2>2
  <2>3. CASE h \notin NodeHashes(a)
    <3>1. h \in Hashes(A) /\ m2[h] = m[h]
      BY <1>1, <1>7, <2>3
    <3>2. m[h] \in A /\ h \in NodeHashes(m[h]) /\ \A b \in A : h \in NodeHashes(b) => b <= m[h]
      BY <3>1 DEF Ring
    <3>3. QED
      BY <2>3, <3>1, <3>2
  <2>4. QED
    BY <2>2, <2>3
<1>. HIDE DEF B, ks2, m2
<1>9. Ring(B, ks2, m2)
  BY <1>1, <1>3, <1>4, <1>6, <1>7, <1>8 DEF Ring
<1>. USE DEF B, ks2, m2
<1>10. QED
  BY <1>9

\* What Adds of a whole list leave, one after the other.
IsAdded(r, l, n) ==
    r = [k \in 0 .. n |-> IF k = 0 THEN <<<<>>, Empty>>
                          ELSE <<WithHashes(r[k - 1][1], l[k]), WithNode(r[k - 1][2], l[k])>>]

LEMMA AddedExists ==
    ASSUME NEW n \in Nat, NEW l
    PROVE  \E r : IsAdded(r, l, n)
<1>. DEFINE Step(p, k) == <<WithHashes(p[1], l[k]), WithNode(p[2], l[k])>>
            none == <<<<>>, Empty>>
            Q == {m \in Nat : \E r : IsAdded(r, l, m)}
<1>0. \A r, m : IsAdded(r, l, m) <=> r = [k \in 0 .. m |-> IF k = 0 THEN none ELSE Step(r[k - 1], k)]
  BY DEF IsAdded
<1>. HIDE DEF Step, none
<1>1. 0 \in Q
  <2>. DEFINE r == [k \in 0 .. 0 |-> none]
  <2>1. r = [k \in 0 .. 0 |-> IF k = 0 THEN none ELSE Step(r[k - 1], k)]
    OBVIOUS
  <2>2. QED
    BY <1>0, <2>1
<1>2. ASSUME NEW m \in 1 .. n, m - 1 \in Q PROVE m \in Q
  <2>1. m - 1 \in Nat /\ m # 0 /\ m \in Nat
    BY <1>2
  <2>2. PICK r : IsAdded(r, l, m - 1)
    BY <1>2
  <2>. DEFINE s == [k \in 0 .. m |-> IF k = m THEN Step(r[m - 1], m) ELSE r[k]]
  <2>3. \A k \in 0 .. m : s[k] = IF k = 0 THEN none ELSE Step(s[k - 1], k)
    <3>1. TAKE k \in 0 .. m
    <3>2. CASE k = m
      <4>1. m - 1 \in 0 .. m /\ m - 1 # m
        BY <2>1
      <4>2. QED
        BY <2>1, <3>2, <4>1
    <3>3. CASE k # m
      <4>1. k \in 0 .. m - 1 /\ (k # 0 => k - 1 \in 0 .. m /\ k - 1 # m)
        BY <2>1, <3>3
      <4>2. r[k] = IF k = 0 THEN none ELSE Step(r[k - 1], k)
        BY <1>0, <2>2, <4>1
      <4>3. QED
        BY <3>3, <4>1, <4>2
    <3>4. QED
      BY <3>2, <3>3
  <2>4. IsAdded(s, l, m)
    <3>1. s = [k \in 0 .. m |-> s[k]]
      OBVIOUS
    <3>. HIDE DEF s
    <3>2. [k \in 0 .. m |-> s[k]] = [k \in 0 .. m |-> IF k = 0 THEN none ELSE Step(s[k - 1], k)]
      BY <2>3
    <3>3. QED
      BY <1>0, <3>1, <3>2
  <2>5. QED
    BY <2>1, <2>4
<1>. HIDE DEF Q
<1>3. \A k \in 0 .. n : k \in Q
  BY <1>1, <1>2, UpTo
<1>. USE DEF Q
<1>4. QED
  BY <1>3

LEMMA ListIs ==
    ASSUME NEW l \in Lists
    PROVE  /\ l \in Seq(1 .. MaxLen) /\ Len(l) \in Nat /\ Len(l) <= MaxLen
           /\ \A i \in 1 .. Len(l) : l[i] \in 1 .. MaxLen
           /\ \A i, j \in 1 .. Len(l) : i < j => l[i] < l[j]
<1>1. PICK n \in 0 .. MaxLen : l \in [1 .. n -> 1 .. MaxLen]
  BY DEF Lists
<1>2. n \in Nat /\ l \in Seq(1 .. MaxLen) /\ Len(l) = n
  BY <1>1, RoundRobinAssumption
<1>3. \A i, j \in DOMAIN l : i < j => l[i] < l[j]
  BY DEF Lists
<1>4. QED
  BY <1>1, <1>2, <1>3

\* The first n addresses of a list.
FirstOf(l, n) == {l[i] : i \in 1 .. n}

LEMMA FirstOfNext ==
    ASSUME NEW l \in Lists, NEW k \in Nat, k < Len(l)
    PROVE  /\ FirstOf(l, k + 1) = FirstOf(l, k) \cup {l[k + 1]} /\ l[k + 1] \in 1 .. MaxLen
           /\ FirstOf(l, k) \in SUBSET (1 .. MaxLen) /\ \A b \in FirstOf(l, k) : b < l[k + 1]
<1>1. PICK j : j = k + 1
  OBVIOUS
<1>2. j \in 1 .. Len(l) /\ \A i : i \in 1 .. j <=> i = j \/ i \in 1 .. k
  BY <1>1, ListIs
<1>3. \A i \in 1 .. k : i \in 1 .. Len(l) /\ i < j
  BY <1>1, ListIs
<1>4. FirstOf(l, j) = FirstOf(l, k) \cup {l[j]}
  BY <1>2 DEF FirstOf
<1>5. l[j] \in 1 .. MaxLen /\ \A i \in 1 .. k : l[i] \in 1 .. MaxLen /\ l[i] < l[j]
  BY <1>2, <1>3, ListIs
<1>6. QED
  BY <1>1, <1>4, <1>5 DEF FirstOf

LEMMA RingOfList ==
    ASSUME NEW l \in Lists
    PROVE  Ring(FirstOf(l, Len(l)), AfterAdds(l)[1], AfterAdds(l)[2])
<1>. DEFINE n == Len(l)
<1>1. n \in Nat /\ \A i \in 1 .. n : l[i] \in 1 .. MaxLen
  BY ListIs
<1>2. PICK r : IsAdded(r, l, n) /\ AfterAdds(l) = r[n]
  <2>. DEFINE r == CHOOSE r : IsAdded(r, l, n)
  <2>1. IsAdded(r, l, n)
    BY <1>1, AddedExists
  <2>2. AfterAdds(l) = r[n]
    BY DEF AfterAdds, IsAdded
  <2>3. QED
    BY <2>1, <2>2
<1>3. /\ r[0] = <<<<>>, Empty>>
      /\ \A k \in 1 .. n : r[k] = <<WithHashes(r[k - 1][1], l[k]), WithNode(r[k - 1][2], l[k])>>
  <2>1. \A k \in 0 .. n : r[k] = IF k = 0 THEN <<<<>>, Empty>>
                ELSE <<WithHashes(r[k - 1][1], l[k]), WithNode(r[k - 1][2], l[k])>>
    BY <1>2 DEF IsAdded
  <2>2. 0 \in 0 .. n /\ \A k \in 1 .. n : k \in 0 .. n /\ k # 0
    BY <1>1
  <2>3. QED
    BY <2>1, <2>2
<1>. DEFINE Q == {k \in 0 .. n : Ring(FirstOf(l, k), r[k][1], r[k][2])}
<1>4. 0 \in Q
  <2>1. FirstOf(l, 0) = {}
    BY DEF FirstOf
  <2>2. 0 \in 0 .. n
    BY <1>1
  <2>3. r[0][1] = <<>> /\ r[0][2] = Empty
    BY <1>3
  <2>4. Ring(FirstOf(l, 0), r[0][1], r[0][2])
    BY <2>1, <2>3, EmptyRing
  <2>5. QED
    BY <2>2, <2>4
<1>5. ASSUME NEW k \in 1 .. n, k - 1 \in Q PROVE k \in Q
  <2>1. PICK j : j = k - 1
    OBVIOUS
  <2>2. j \in Nat /\ j < Len(l) /\ j + 1 = k /\ k \in 0 .. n
    BY <1>1, <2>1
  <2>3. Ring(FirstOf(l, j), r[j][1], r[j][2])
    BY <1>5, <2>1
  <2>4. Ring(FirstOf(l, k), WithHashes(r[j][1], l[k]), WithNode(r[j][2], l[k]))
    BY <2>2, <2>3, FirstOfNext, AddToRing
  <2>5. r[k][1] = WithHashes(r[j][1], l[k]) /\ r[k][2] = WithNode(r[j][2], l[k])
    BY <1>3, <2>1
  <2>6. QED
    BY <2>2, <2>4, <2>5
<1>. HIDE DEF Q
<1>6. n \in Q
  <2>1. \A k \in 0 .. n : k \in Q
    BY <1>1, <1>4, <1>5, UpTo
  <2>2. n \in 0 .. n
    BY <1>1
  <2>3. QED
    BY <2>1, <2>2
<1>. USE DEF Q
<1>7. QED
  BY <1>2, <1>6

\* Who owns a hash, when the next virtual node has hash x.
LEMMA OwnerIs ==
    ASSUME NEW l \in Lists, NEW ks, NEW m, Ring(FirstOf(l, Len(l)), ks, m),
           NEW h \in Nat, NEW x \in ToSet(ks),
           \/ x >= h /\ \A y \in ToSet(ks) : y >= h => x <= y
           \/ \A y \in ToSet(ks) : y < h /\ x <= y
    PROVE  x \in DOMAIN m /\ m[x] = Owner(l, h)
<1>. DEFINE A == FirstOf(l, Len(l))
            ring == UNION {NodeHashes(l[i]) : i \in DOMAIN l}
            after == {y \in ring : y >= h}
            next == Min(IF after = {} THEN ring ELSE after)
<1>1. DOMAIN l = 1 .. Len(l) /\ ToSet(l) = A /\ A \subseteq 1 .. MaxLen
  BY ListIs DEF FirstOf, ToSet
<1>2. ring = Hashes(A)
  BY <1>1 DEF Hashes, FirstOf
<1>3. ring = ToSet(ks) /\ ring \subseteq Nat /\ x \in ring /\ x \in DOMAIN m
  <2>1. ring = ToSet(ks)
    BY <1>2 DEF Ring
  <2>2. ring \subseteq Nat
    BY <1>1, <1>2, NodeHashesType DEF Hashes
  <2>3. DOMAIN m = ring
    BY <1>2 DEF Ring
  <2>4. QED
    BY <2>1, <2>2, <2>3
<1>4. next = x
  <2>. HIDE DEF ring
  <2>1. CASE x >= h
    <3>1. x \in after /\ after # {} /\ after \subseteq Nat /\ \A y \in after : x <= y
      <4>1. \A y \in ring : y >= h => x <= y
        BY <1>3, <2>1
      <4>2. QED
        BY <1>3, <2>1, <4>1
    <3>. HIDE DEF after
    <3>2. Min(after) = x
      BY <3>1, MinIs
    <3>3. QED
      BY <3>1, <3>2
  <2>2. CASE ~ (x >= h)
    <3>1. \A y \in ring : y < h /\ x <= y
      BY <1>3, <2>2
    <3>2. after = {}
      BY <1>3, <3>1
    <3>. HIDE DEF after
    <3>3. Min(ring) = x
      BY <1>3, <3>1, MinIs
    <3>4. QED
      BY <3>2, <3>3
  <2>3. QED
    BY <2>1, <2>2
<1>5. m[x] \in A /\ x \in NodeHashes(m[x]) /\ \A a \in A : x \in NodeHashes(a) => a <= m[x]
  BY <1>2, <1>3 DEF Ring
<1>6. Max({a \in A : x \in NodeHashes(a)}) = m[x]
  <2>1. PICK S : S = {a \in A : x \in NodeHashes(a)}
    OBVIOUS
  <2>2. S \subseteq Nat /\ m[x] \in S /\ \A a \in S : a <= m[x]
    BY <1>1, <1>5, <2>1
  <2>3. Max(S) = m[x]
    BY <2>2, MaxIs
  <2>4. QED
    BY <2>1, <2>3
<1>7. Owner(l, h) = Max({a \in ToSet(l) : next \in NodeHashes(a)})
  BY DEF Owner
<1>. HIDE DEF next, A
<1>8. QED
  BY <1>1, <1>3, <1>4, <1>6, <1>7
-----------------------------------------------------------------------------
(* The invariant of the three kinds of balancer.                           *)

RandomTypes ==
    /\ pc \in [Threads -> {"idle", "intn", "take", "panic"}]
    /\ nodes \in Seq(1 .. MaxLen) /\ at \in Nat
    /\ pending \in Seq(1 .. MaxLen) /\ updating \in BOOLEAN

\* A request that has met no Update finds the list it entered with; any draw,
\* its own or another's, is within it.
RandomInv ==
    /\ RandomTypes
    /\ \A t \in Threads :
          ~ updating /\ t \notin met =>
             /\ pc[t] # "panic"
             /\ pc[t] \in {"intn", "take"} => nodes # <<>>
             /\ pc[t] = "take" => at < Len(nodes)

HashTypes ==
    /\ pc \in [Threads -> {"idle", "error", "search", "probe", "lock", "index", "lookup", "panic"}]
    /\ query \in [Threads -> [hash : Nat, lo : Nat, hi : Nat, key : Nat]]
    /\ keys \in Seq(Nat) /\ listed \in Lists
    /\ updating \in BOOLEAN /\ cleared \in BOOLEAN /\ adding \in BOOLEAN
    /\ pending \in Seq(1 .. MaxLen) /\ Len(pending) <= Len(listed)

Added == Len(listed) - Len(pending)

\* The keys and the map are those of the addresses added so far, in order
\* unless an Add is at work; between Updates, of the whole list.
RingInv ==
    /\ \A i \in 1 .. Len(pending) : pending[i] = listed[Added + i]
    /\ cleared => updating /\ ~ adding /\ keys = <<>> /\ Len(pending) = Len(listed)
    /\ ~ cleared => Ring(FirstOf(listed, Added), keys, hashMap)
    /\ ~ updating => ~ cleared /\ ~ adding /\ Len(pending) = 0
    /\ ~ adding => \A i, k \in 1 .. Len(keys) : i <= k => keys[i] <= keys[k]

\* The hash of the next virtual node: the least from h on, or else of all.
IsNext(ks, x, h) ==
    /\ x \in ToSet(ks)
    /\ \/ x >= h /\ \A y \in ToSet(ks) : y >= h => x <= y
       \/ \A y \in ToSet(ks) : y < h /\ x <= y

\* A request at p that has met no Update: its search keeps what it looks for
\* between its bounds.
QueryOK(p, q, ks, l) ==
    /\ p # "panic"
    /\ p = "error" <=> l = <<>>
    /\ p = "search" => q.lo = 0
    /\ p = "probe" =>
          /\ q.lo <= q.hi /\ q.hi <= Len(ks)
          /\ \A i \in 1 .. Len(ks) : /\ i <= q.lo => ks[i] < q.hash
                                     /\ i > q.hi => ks[i] >= q.hash
    /\ p \in {"lock", "index"} =>
          q.lo + 1 \in 1 .. Len(ks) /\ IsNext(ks, ks[q.lo + 1], q.hash)
    /\ p = "lookup" => IsNext(ks, q.key, q.hash)

HashInv ==
    /\ HashTypes /\ RingInv
    /\ \A t \in Threads : ~ updating /\ t \notin met /\ pc[t] # "idle" =>
          QueryOK(pc[t], query[t], keys, listed)
    /\ \A t \in ended : t \in Threads /\ pc[t] = "error"

BInv ==
    /\ kind \in {"random", "round robin", "hash"}
    /\ calm => ~ updating /\ met = {}
    /\ kind = "round robin" => TurnInv
    /\ kind = "random" => RandomInv /\ ~ steady
    /\ kind = "hash" => HashInv /\ ~ steady

LEMMA RingSorted ==
    ASSUME NEW A, NEW ks, NEW m, Ring(A, ks, m)
    PROVE  /\ Ring(A, Sorted(ks), m)
           /\ \A i, k \in 1 .. Len(Sorted(ks)) : i <= k => Sorted(ks)[i] <= Sorted(ks)[k]
BY SortedIs DEF Ring

LEMMA RingNotEmpty ==
    ASSUME NEW l \in Lists, NEW ks, NEW m, Ring(FirstOf(l, Len(l)), ks, m)
    PROVE  ks = <<>> <=> l = <<>>
<1>1. CASE l = <<>>
  <2>1. FirstOf(l, Len(l)) = {}
    BY <1>1 DEF FirstOf
  <2>2. ks \in Seq(Nat) /\ ToSet(ks) = {}
    BY <2>1 DEF Ring, Hashes
  <2>3. ks = <<>>
    <3>1. \A i \in DOMAIN ks : ks[i] \in ToSet(ks)
      BY DEF ToSet
    <3>2. ks # <<>> => 1 \in DOMAIN ks
      BY <2>2
    <3>3. QED
      BY <2>2, <3>1, <3>2
  <2>4. QED
    BY <1>1, <2>3
<1>2. CASE l # <<>>
  <2>1. 1 \in 1 .. Len(l) /\ l[1] \in 1 .. MaxLen
    BY <1>2, ListIs
  <2>2. 1 \in 1 .. Replicas
    BY BalancersAssumption
  <2>3. HashOf(l[1], 1) \in ToSet(ks)
    BY <2>1, <2>2 DEF Ring, Hashes, NodeHashes, FirstOf
  <2>4. QED
    BY <1>2, <2>3 DEF ToSet
<1>3. QED
  BY <1>1, <1>2

-----------------------------------------------------------------------------
(* A consistent-hash Get.                                                  *)

LEMMA RequestFrame ==
    ASSUME HashTypes, NEW t \in Threads, HashRequest(t) \/ (Recover(t) /\ UNCHANGED vars2)
    PROVE  /\ UNCHANGED <<keys, hashMap, listed, pending, cleared, adding, updating>>
           /\ \A u \in Threads : u # t => pc'[u] = pc[u] /\ query'[u] = query[u]
           /\ ended' = ended \/ (ended' = {t} /\ pc[t] = "error" /\ pc'[t] = "error")
<1>. USE DEF HashTypes, Go, Ask, vars2
<1>1. CASE HashEnter(t)
  BY <1>1 DEF HashEnter
<1>2. CASE HandleError(t)
  BY <1>2 DEF HandleError
<1>3. CASE Search(t)
  BY <1>3 DEF Search
<1>4. CASE Probe(t)
  BY <1>4 DEF Probe
<1>5. CASE Found(t)
  BY <1>5 DEF Found
<1>6. CASE RLock(t)
  BY <1>6 DEF RLock
<1>7. CASE Index(t)
  BY <1>7 DEF Index
<1>8. CASE Lookup(t)
  BY <1>8 DEF Lookup
<1>9. CASE Recover(t) /\ UNCHANGED vars2
  BY <1>9 DEF Recover
<1>10. QED
  BY <1>1, <1>2, <1>3, <1>4, <1>5, <1>6, <1>7, <1>8, <1>9 DEF HashRequest

\* Where a request goes, and with which query.
Where == {"idle", "error", "search", "probe", "lock", "index", "lookup", "panic"}
Query == [hash : Nat, lo : Nat, hi : Nat, key : Nat]

LEMMA QueryFields ==
    ASSUME NEW q \in Query
    PROVE  q.hash \in Nat /\ q.lo \in Nat /\ q.hi \in Nat /\ q.key \in Nat
BY DEF Query

\* A step of a Get from place p and query q to place p2 and query q2.
Moves(p, q, p2, q2) ==
    \/ p = "idle" /\ q2.lo = 0 /\ p2 = (IF keys = <<>> THEN "error" ELSE "search")
    \/ p = "error" /\ p2 \in {"error", "idle"}
    \/ p = "search" /\ p2 = "probe" /\ q2 = [q EXCEPT !.hi = Len(keys)]
    \/ /\ p = "probe" /\ q.lo < q.hi
       /\ \E mid \in Nat :
             /\ q.lo <= mid /\ mid < q.hi
             /\ p2 = IF mid < Len(keys) THEN "probe" ELSE "panic"
             /\ mid < Len(keys) => q2 = IF keys[mid + 1] >= q.hash THEN [q EXCEPT !.hi = mid]
                                        ELSE [q EXCEPT !.lo = mid + 1]
    \/ /\ p = "probe" /\ q.lo = q.hi /\ p2 = "lock"
       /\ q2.hash = q.hash /\ q2.lo = IF q.lo = Len(keys) THEN 0 ELSE q.lo
    \/ p = "lock" /\ p2 = "index" /\ q2 = q
    \/ /\ p = "index"
       /\ q.lo + 1 \notin 1 .. Len(keys) => p2 = "panic"
       /\ q.lo + 1 \in 1 .. Len(keys) =>
             p2 = "lookup" /\ q2.hash = q.hash /\ q2.key = keys[q.lo + 1]
    \/ p \in {"lookup", "panic"} /\ p2 = "idle"

LEMMA RequestMoves ==
    ASSUME HashTypes, NEW t \in Threads, HashRequest(t) \/ (Recover(t) /\ UNCHANGED vars2),
           NEW q, q = query[t]
    PROVE  /\ pc' \in [Threads -> Where] /\ query' \in [Threads -> Query]
           /\ Moves(pc[t], q, pc'[t], query'[t])
<1>0. /\ pc \in [Threads -> Where] /\ query \in [Threads -> Query] /\ q \in Query
      /\ Len(keys) \in Nat /\ DOMAIN keys = 1 .. Len(keys)
      /\ \A i \in 1 .. Len(keys) : keys[i] \in Nat
      /\ q.hash \in Nat /\ q.lo \in Nat /\ q.hi \in Nat /\ q.key \in Nat
  <2>1. pc \in [Threads -> Where] /\ query \in [Threads -> Query] /\ keys \in Seq(Nat)
    BY DEF HashTypes, Where, Query
  <2>2. q \in Query
    BY <2>1
  <2>3. QED
    BY <2>1, <2>2, QueryFields
<1>1. NoQuery \in Query
  BY DEF NoQuery, Query
<1>2. ASSUME NEW n \in Nat
      PROVE  [q EXCEPT !.hi = n] \in Query /\ [q EXCEPT !.lo = n] \in Query
             /\ [q EXCEPT !.lo = n, !.hi = 0] \in Query
             /\ [q EXCEPT !.key = n, !.lo = 0] \in Query /\ [NoQuery EXCEPT !.hash = n] \in Query
  BY <1>0 DEF Query, NoQuery
<1>3. CASE HashEnter(t)
  <2>1. PICK h \in KeyHashes : query' = [query EXCEPT ![t] = [NoQuery EXCEPT !.hash = h]]
    BY <1>3 DEF HashEnter, Ask
  <2>2. [NoQuery EXCEPT !.hash = h] \in Query
    BY <1>2, BalancersAssumption
  <2>3. query' \in [Threads -> Query] /\ query'[t] = [NoQuery EXCEPT !.hash = h]
    BY <1>0, <2>1, <2>2
  <2>4. query'[t].lo = 0
    BY <2>3 DEF NoQuery
  <2>5. QED
    BY <1>0, <1>3, <2>3, <2>4 DEF HashEnter, Go, Where, Moves
<1>4. CASE HandleError(t)
  <2>1. query' \in [Threads -> Query]
    BY <1>0, <1>1, <1>4 DEF HandleError, Ask
  <2>2. QED
    BY <1>0, <1>4, <2>1 DEF HandleError, Go, Where, Moves
<1>5. CASE Search(t)
  <2>1. query' = [query EXCEPT ![t] = [q EXCEPT !.hi = Len(keys)]]
    BY <1>5 DEF Search, Ask
  <2>2. [q EXCEPT !.hi = Len(keys)] \in Query
    BY <1>0, <1>2
  <2>3. query' \in [Threads -> Query] /\ query'[t] = [q EXCEPT !.hi = Len(keys)]
    BY <1>0, <2>1, <2>2
  <2>4. QED
    BY <1>0, <1>5, <2>3 DEF Search, Go, Where, Moves
<1>6. CASE Probe(t)
  <2>1. PICK mid : mid = (q.lo + q.hi) \div 2
    OBVIOUS
  <2>2. q.lo < q.hi
    BY <1>6 DEF Probe
  <2>3. mid \in Nat /\ q.lo <= mid /\ mid < q.hi
    BY <1>0, <2>1, <2>2
  <2>4. PICK r : r = IF mid >= Len(keys) THEN NoQuery
                     ELSE IF keys[mid + 1] >= q.hash THEN [q EXCEPT !.hi = mid]
                     ELSE [q EXCEPT !.lo = mid + 1]
    OBVIOUS
  <2>5. r \in Query
    <3>1. mid + 1 \in Nat
      BY <2>3
    <3>2. [q EXCEPT !.hi = mid] \in Query /\ [q EXCEPT !.lo = mid + 1] \in Query
      BY <1>2, <2>3, <3>1
    <3>3. QED
      BY <1>1, <2>4, <3>2
  <2>6. /\ query' = [query EXCEPT ![t] = r]
        /\ pc[t] = "probe"
        /\ pc' = [pc EXCEPT ![t] = IF mid < Len(keys) THEN "probe" ELSE "panic"]
    BY <1>6, <2>1, <2>4 DEF Probe, Ask, Go
  <2>7. query' \in [Threads -> Query] /\ query'[t] = r
    BY <1>0, <2>5, <2>6
  <2>8. pc' \in [Threads -> Where] /\ pc'[t] = IF mid < Len(keys) THEN "probe" ELSE "panic"
    BY <1>0, <2>6 DEF Where
  <2>9. mid < Len(keys) => r = IF keys[mid + 1] >= q.hash THEN [q EXCEPT !.hi = mid]
                               ELSE [q EXCEPT !.lo = mid + 1]
    BY <1>0, <2>3, <2>4
  <2>10. QED
    BY <2>2, <2>3, <2>6, <2>7, <2>8, <2>9 DEF Moves
<1>7. CASE Found(t)
  <2>1. PICK n : n = IF q.lo = Len(keys) THEN 0 ELSE q.lo
    OBVIOUS
  <2>2. n \in Nat
    BY <1>0, <2>1
  <2>3. query' = [query EXCEPT ![t] = [q EXCEPT !.lo = n, !.hi = 0]]
    BY <1>7, <2>1 DEF Found, Ask, FirstAgain
  <2>4. [q EXCEPT !.lo = n, !.hi = 0] \in Query
    BY <1>2, <2>2
  <2>5. query' \in [Threads -> Query] /\ query'[t] = [q EXCEPT !.lo = n, !.hi = 0]
    BY <1>0, <2>3, <2>4
  <2>6. query'[t].hash = q.hash /\ query'[t].lo = n
    BY <1>0, <2>5 DEF Query
  <2>7. QED
    BY <1>0, <1>7, <2>1, <2>5, <2>6 DEF Found, Go, Where, Moves
<1>8. CASE RLock(t)
  BY <1>0, <1>8 DEF RLock, Go, Where, Moves, vars2
<1>9. CASE Index(t)
  <2>1. PICK i : i = q.lo + 1
    OBVIOUS
  <2>2. CASE i \in 1 .. Len(keys)
    <3>1. query' = [query EXCEPT ![t] = [q EXCEPT !.key = keys[i], !.lo = 0]]
      BY <1>0, <1>9, <2>1, <2>2 DEF Index, Ask
    <3>2. [q EXCEPT !.key = keys[i], !.lo = 0] \in Query
      BY <1>0, <1>2, <2>2
    <3>3. query' \in [Threads -> Query] /\ query'[t] = [q EXCEPT !.key = keys[i], !.lo = 0]
      BY <1>0, <3>1, <3>2
    <3>4. query'[t].hash = q.hash /\ query'[t].key = keys[i]
      BY <1>0, <3>3 DEF Query
    <3>5. pc[t] = "index" /\ pc' = [pc EXCEPT ![t] = "lookup"]
      BY <1>0, <1>9, <2>1, <2>2 DEF Index, Go
    <3>6. QED
      BY <1>0, <2>1, <2>2, <3>3, <3>4, <3>5 DEF Where, Moves
  <2>3. CASE i \notin 1 .. Len(keys)
    <3>1. query' = [query EXCEPT ![t] = NoQuery] /\ pc[t] = "index" /\ pc' = [pc EXCEPT ![t] = "panic"]
      BY <1>0, <1>9, <2>1, <2>3 DEF Index, Ask, Go
    <3>2. query' \in [Threads -> Query] /\ pc' \in [Threads -> Where] /\ pc'[t] = "panic"
      BY <1>0, <1>1, <3>1 DEF Where
    <3>3. QED
      BY <2>1, <2>3, <3>1, <3>2 DEF Moves
  <2>4. QED
    BY <2>2, <2>3
<1>10. CASE Lookup(t)
  <2>1. query' \in [Threads -> Query]
    BY <1>0, <1>1, <1>10 DEF Lookup, Ask
  <2>2. QED
    BY <1>0, <1>10, <2>1 DEF Lookup, Go, Where, Moves
<1>11. CASE Recover(t) /\ UNCHANGED vars2
  BY <1>0, <1>11 DEF Recover, Go, Where, Moves, vars2
<1>12. QED
  BY <1>3, <1>4, <1>5, <1>6, <1>7, <1>8, <1>9, <1>10, <1>11 DEF HashRequest

\* A search that has met no Update goes on rightly.
LEMMA RequestGoesOn ==
    ASSUME HashTypes, RingInv, ~ updating,
           NEW t \in Threads, HashRequest(t) \/ (Recover(t) /\ UNCHANGED vars2),
           pc[t] = "idle" \/ QueryOK(pc[t], query[t], keys, listed), pc'[t] # "idle"
    PROVE  QueryOK(pc'[t], query'[t], keys, listed)
<1>1. PICK q, n : q = query[t] /\ n = Len(keys)
  OBVIOUS
<1>2. /\ q \in Query /\ n \in Nat /\ DOMAIN keys = 1 .. n
      /\ \A i \in 1 .. n : keys[i] \in Nat
      /\ q.hash \in Nat /\ q.lo \in Nat /\ q.hi \in Nat /\ q.key \in Nat
  <2>1. q \in Query /\ n \in Nat /\ DOMAIN keys = 1 .. n /\ \A i \in 1 .. n : keys[i] \in Nat
    BY <1>1 DEF HashTypes, Query
  <2>2. QED
    BY <2>1, QueryFields
<1>3. /\ keys = <<>> <=> listed = <<>>
      /\ \A i, k \in 1 .. n : i <= k => keys[i] <= keys[k]
  <2>1. Added = Len(listed) /\ ~ cleared /\ ~ adding
    BY ListIs DEF RingInv, Added, HashTypes
  <2>2. Ring(FirstOf(listed, Len(listed)), keys, hashMap)
    BY <2>1 DEF RingInv
  <2>3. QED
    BY <1>1, <2>1, <2>2, RingNotEmpty DEF RingInv, HashTypes
<1>4. n = 0 <=> keys = <<>>
  BY <1>1 DEF HashTypes
<1>5. ToSet(keys) = {keys[i] : i \in 1 .. n}
  BY <1>2 DEF ToSet
<1>. DEFINE OK(p, r) == QueryOK(p, r, keys, listed)
            Bounds(r) == /\ r.lo <= r.hi /\ r.hi <= n
                         /\ \A i \in 1 .. n : /\ i <= r.lo => keys[i] < r.hash
                                              /\ i > r.hi => keys[i] >= r.hash
\* What OK says at each place.
<1>6. \A r : /\ OK("error", r) <=> listed = <<>>
             /\ OK("search", r) <=> listed # <<>> /\ r.lo = 0
             /\ OK("probe", r) <=> listed # <<>> /\ Bounds(r)
             /\ OK("lock", r) <=> /\ listed # <<>> /\ r.lo + 1 \in 1 .. n
                                  /\ IsNext(keys, keys[r.lo + 1], r.hash)
             /\ OK("index", r) <=> /\ listed # <<>> /\ r.lo + 1 \in 1 .. n
                                   /\ IsNext(keys, keys[r.lo + 1], r.hash)
             /\ OK("lookup", r) <=> listed # <<>> /\ IsNext(keys, r.key, r.hash)
             /\ ~ OK("panic", r)
  BY <1>1 DEF QueryOK
<1>7. pc[t] = "idle" \/ OK(pc[t], q)
  BY <1>1
<1>8. PICK p, r : p = pc'[t] /\ r = query'[t]
  OBVIOUS
<1>9. SUFFICES OK(p, r)
  BY <1>8
<1>. HIDE DEF OK
<1>10. CASE /\ pc[t] = "idle" /\ r.lo = 0 /\ p = IF keys = <<>> THEN "error" ELSE "search"
  BY <1>3, <1>6, <1>10
<1>11. CASE pc[t] = "error" /\ p \in {"error", "idle"}
  BY <1>6, <1>7, <1>8, <1>11
<1>12. CASE pc[t] = "search" /\ p = "probe" /\ r = [q EXCEPT !.hi = n]
  <2>1. r.lo = 0 /\ r.hi = n /\ r.hash = q.hash
    BY <1>2, <1>6, <1>7, <1>12 DEF Query
  <2>2. Bounds(r)
    BY <1>2, <2>1
  <2>3. QED
    BY <1>6, <1>7, <1>12, <2>2
<1>13. CASE /\ pc[t] = "probe" /\ q.lo < q.hi
            /\ \E mid \in Nat :
                  /\ q.lo <= mid /\ mid < q.hi
                  /\ p = IF mid < n THEN "probe" ELSE "panic"
                  /\ mid < n =>
                        r = IF keys[mid + 1] >= q.hash THEN [q EXCEPT !.hi = mid]
                            ELSE [q EXCEPT !.lo = mid + 1]
  <2>1. PICK mid \in Nat : /\ q.lo <= mid /\ mid < q.hi
                           /\ p = IF mid < n THEN "probe" ELSE "panic"
                           /\ mid < n =>
                                 r = IF keys[mid + 1] >= q.hash THEN [q EXCEPT !.hi = mid]
                                     ELSE [q EXCEPT !.lo = mid + 1]
    BY <1>13
  <2>2. listed # <<>> /\ Bounds(q)
    BY <1>6, <1>7, <1>13
  <2>3. PICK m : m = mid + 1
    OBVIOUS
  <2>4. mid < n /\ m \in 1 .. n /\ p = "probe"
    BY <1>2, <2>1, <2>2, <2>3
  <2>5. CASE keys[m] >= q.hash
    <3>1. r = [q EXCEPT !.hi = mid]
      BY <2>1, <2>3, <2>4, <2>5
    <3>2. r.lo = q.lo /\ r.hi = mid /\ r.hash = q.hash
      BY <1>2, <3>1 DEF Query
    <3>3. ASSUME NEW i \in 1 .. n, i > mid PROVE keys[i] >= q.hash
      <4>1. m <= i
        BY <2>1, <2>3, <3>3
      <4>2. keys[m] <= keys[i] /\ keys[m] \in Nat /\ keys[i] \in Nat
        BY <1>2, <1>3, <2>4, <4>1
      <4>3. QED
        BY <1>2, <2>5, <4>2
    <3>4. Bounds(r)
      BY <1>2, <2>1, <2>2, <2>4, <3>2, <3>3
    <3>5. QED
      BY <1>6, <2>2, <2>4, <3>4
  <2>6. CASE ~ (keys[m] >= q.hash)
    <3>1. r = [q EXCEPT !.lo = m]
      BY <2>1, <2>3, <2>4, <2>6
    <3>2. r.lo = m /\ r.hi = q.hi /\ r.hash = q.hash
      BY <1>2, <3>1 DEF Query
    <3>3. ASSUME NEW i \in 1 .. n, i <= m PROVE keys[i] < q.hash
      <4>1. keys[i] <= keys[m] /\ keys[m] \in Nat /\ keys[i] \in Nat
        BY <1>2, <1>3, <2>4, <3>3
      <4>2. QED
        BY <1>2, <2>6, <4>1
    <3>4. Bounds(r)
      BY <1>2, <2>1, <2>2, <2>3, <2>4, <3>2, <3>3
    <3>5. QED
      BY <1>6, <2>2, <2>4, <3>4
  <2>7. QED
    BY <2>5, <2>6
<1>14. CASE /\ pc[t] = "probe" /\ q.lo = q.hi /\ p = "lock"
            /\ r.hash = q.hash /\ r.lo = IF q.lo = n THEN 0 ELSE q.lo
  <2>1. listed # <<>> /\ Bounds(q) /\ n # 0
    BY <1>3, <1>4, <1>6, <1>7, <1>14
  <2>2. CASE q.lo = n
    <3>1. \A i \in 1 .. n : keys[i] < q.hash
      BY <2>1, <2>2
    <3>2. r.lo + 1 = 1 /\ 1 \in 1 .. n
      BY <1>2, <1>14, <2>1, <2>2
    <3>3. \A i \in 1 .. n : keys[1] <= keys[i]
      BY <1>2, <1>3, <3>2
    <3>4. IsNext(keys, keys[1], q.hash)
      BY <1>5, <3>1, <3>2, <3>3 DEF IsNext
    <3>5. QED
      BY <1>6, <1>14, <2>1, <3>2, <3>4
  <2>3. CASE q.lo # n
    <3>1. PICK m : m = q.lo + 1
      OBVIOUS
    <3>2. r.lo + 1 = m /\ m \in 1 .. n /\ m > q.hi
      BY <1>2, <1>14, <2>1, <2>3, <3>1
    <3>3. keys[m] >= q.hash
      BY <2>1, <3>2
    <3>4. ASSUME NEW i \in 1 .. n, keys[i] >= q.hash PROVE keys[m] <= keys[i]
      <4>1. ~ (i <= q.lo)
        BY <1>2, <2>1, <3>4
      <4>2. m <= i
        BY <1>2, <3>1, <4>1
      <4>3. QED
        BY <1>3, <3>2, <4>2
    <3>5. IsNext(keys, keys[m], q.hash)
      BY <1>5, <3>2, <3>3, <3>4 DEF IsNext
    <3>6. QED
      BY <1>6, <1>14, <2>1, <3>2, <3>5
  <2>4. QED
    BY <2>2, <2>3
<1>15. CASE pc[t] = "lock" /\ p = "index" /\ r = q
  BY <1>6, <1>7, <1>15
<1>16. CASE /\ pc[t] = "index"
            /\ q.lo + 1 \notin 1 .. n => p = "panic"
            /\ q.lo + 1 \in 1 .. n =>
                  p = "lookup" /\ r.hash = q.hash /\ r.key = keys[q.lo + 1]
  <2>1. /\ listed # <<>> /\ q.lo + 1 \in 1 .. n
        /\ IsNext(keys, keys[q.lo + 1], q.hash)
    BY <1>6, <1>7, <1>16
  <2>2. p = "lookup" /\ r.hash = q.hash /\ r.key = keys[q.lo + 1]
    BY <1>16, <2>1
  <2>3. QED
    BY <1>6, <2>1, <2>2
<1>17. p # "idle"
  BY <1>8
<1>18. Moves(pc[t], q, p, r)
  BY <1>1, <1>8, RequestMoves
<1>19. QED
  BY <1>1, <1>10, <1>11, <1>12, <1>13, <1>14, <1>15, <1>16, <1>17, <1>18 DEF Moves
-----------------------------------------------------------------------------
(* The invariant holds: consistent hashing.                                *)

LEMMA HashRequestStep ==
    ASSUME HashInv, ended = {}, Meets,
           NEW t \in Threads, HashRequest(t) \/ (Recover(t) /\ UNCHANGED vars2)
    PROVE  HashInv'
<1>1. HashTypes /\ RingInv
  BY DEF HashInv
<1>2. /\ UNCHANGED <<keys, hashMap, listed, pending, cleared, adding, updating>>
      /\ \A u \in Threads : u # t => pc'[u] = pc[u] /\ query'[u] = query[u]
      /\ ended' = ended \/ (ended' = {t} /\ pc[t] = "error" /\ pc'[t] = "error")
  BY <1>1, RequestFrame
<1>3. pc' \in [Threads -> Where] /\ query' \in [Threads -> Query]
  BY <1>1, RequestMoves
<1>4. HashTypes'
  BY <1>1, <1>2, <1>3 DEF HashTypes, Where, Query
<1>5. RingInv'
  BY <1>1, <1>2 DEF RingInv, Added
<1>6. ASSUME NEW u \in Threads, ~ updating', u \notin met', pc'[u] # "idle"
      PROVE  QueryOK(pc'[u], query'[u], keys', listed')
  <2>1. ~ updating /\ u \notin met
    BY <1>2, <1>6 DEF Meets
  <2>2. CASE u = t
    <3>1. pc[t] = "idle" \/ QueryOK(pc[t], query[t], keys, listed)
      BY <2>1, <2>2 DEF HashInv
    <3>2. QueryOK(pc'[t], query'[t], keys, listed)
      BY <1>1, <1>6, <2>1, <2>2, <3>1, RequestGoesOn
    <3>3. QED
      BY <1>2, <2>2, <3>2
  <2>3. CASE u # t
    BY <1>2, <1>6, <2>1, <2>3 DEF HashInv
  <2>4. QED
    BY <2>2, <2>3
<1>7. \A u \in ended' : u \in Threads /\ pc'[u] = "error"
  BY <1>2
<1>8. QED
  BY <1>4, <1>5, <1>6, <1>7 DEF HashInv

LEMMA ListTypes ==
    ASSUME NEW l \in Lists
    PROVE  l \in Seq(1 .. MaxLen) /\ Len(l) \in Nat
BY ListIs

LEMMA HashUpdateStep ==
    ASSUME HashInv, ended = {}, Meets, ClearKeys \/ ClearMap \/ HashAdd \/ Sort \/ UpdateEnds
    PROVE  HashInv'
<1>1. /\ HashTypes /\ RingInv
      /\ listed \in Lists /\ listed \in Seq(1 .. MaxLen) /\ Len(listed) \in Nat
      /\ pending \in Seq(1 .. MaxLen) /\ Len(pending) \in Nat /\ Len(pending) <= Len(listed)
  BY ListTypes DEF HashInv, HashTypes
<1>2. /\ UNCHANGED <<pc, query, ended>>
      /\ updating \/ updating'
  BY <1>1 DEF ClearKeys, GetConf, ClearMap, HashAdd, Sort, UpdateEnds, UpdateReturns, vars2,
              RingInv
\* No request is past the Update as if it had not met it.
<1>3. \A u \in Threads : ~ updating' /\ pc'[u] # "idle" => u \in met'
  BY <1>2 DEF Meets
<1>4. \A u \in ended' : u \in Threads /\ pc'[u] = "error"
  BY <1>2
<1>5. SUFFICES HashTypes' /\ RingInv'
  BY <1>3, <1>4 DEF HashInv
<1>6. CASE ClearKeys
  <2>1. /\ updating' = TRUE /\ keys' = <<>> /\ cleared' = TRUE /\ ~ adding /\ adding' = adding
        /\ pending' \in Lists /\ listed' = pending'
    BY <1>1, <1>6 DEF ClearKeys, GetConf, RingInv
  <2>2. pending' \in Seq(1 .. MaxLen) /\ Len(pending') \in Nat
    BY <2>1, ListTypes
  <2>3. <<>> \in Seq(Nat) /\ Len(<<>>) = 0
    OBVIOUS
  <2>4. HashTypes'
    BY <1>1, <1>2, <2>1, <2>2, <2>3 DEF HashTypes
  <2>5. Added' = 0 /\ \A i \in 1 .. Len(pending') : 0 + i = i
    BY <2>1, <2>2 DEF Added
  <2>6. \A i \in 1 .. Len(pending') : pending'[i] = listed'[Added' + i]
    BY <2>1, <2>5
  <2>7. \A i, k \in 1 .. Len(keys') : i <= k => keys'[i] <= keys'[k]
    BY <2>1, <2>3
  <2>8. QED
    BY <2>1, <2>4, <2>6, <2>7 DEF RingInv
<1>7. CASE ClearMap
  <2>1. /\ cleared /\ updating /\ ~ adding /\ keys = <<>> /\ Len(pending) = Len(listed)
        /\ hashMap' = Empty /\ cleared' = FALSE
        /\ UNCHANGED <<pending, updating, keys, adding, listed>>
    BY <1>1, <1>7 DEF ClearMap, RingInv
  <2>2. HashTypes'
    BY <1>1, <1>2, <2>1 DEF HashTypes
  <2>3. Added = 0 /\ Added' = Added
    BY <1>1, <2>1 DEF Added
  <2>4. FirstOf(listed, 0) = {}
    BY DEF FirstOf
  <2>5. Ring(FirstOf(listed', Added'), keys', hashMap')
    BY <2>1, <2>3, <2>4, EmptyRing
  <2>6. QED
    BY <1>1, <2>1, <2>2, <2>3, <2>5 DEF RingInv
<1>8. CASE HashAdd
  <2>1. /\ updating /\ ~ cleared /\ pending # <<>>
        /\ adding' = TRUE
        /\ keys' = WithHashes(keys, Head(pending)) /\ hashMap' = WithNode(hashMap, Head(pending))
        /\ pending' = Tail(pending)
        /\ UNCHANGED <<updating, listed, cleared>>
    BY <1>8 DEF HashAdd
  <2>2. PICK k, m : k = Added /\ m = Len(pending)
    OBVIOUS
  <2>3. k \in Nat /\ k < Len(listed) /\ m \in Nat \ {0} /\ k + m = Len(listed)
    <3>1. Len(pending) # 0
      BY <1>1, <2>1
    <3>2. QED
      BY <1>1, <2>2, <3>1 DEF Added
  <2>4. /\ pending' \in Seq(1 .. MaxLen) /\ Len(pending') = m - 1
        /\ Head(pending) = pending[1]
        /\ \A i \in 1 .. m - 1 : pending'[i] = pending[i + 1]
    BY <1>1, <2>1, <2>2
  <2>5. Head(pending) = listed[k + 1]
    BY <1>1, <2>2, <2>3, <2>4 DEF RingInv
  <2>6. Added' = k + 1
    BY <1>1, <2>1, <2>2, <2>3, <2>4 DEF Added
  <2>7. Ring(FirstOf(listed, k), keys, hashMap)
    BY <1>1, <2>1, <2>2 DEF RingInv
  <2>8. Ring(FirstOf(listed, k + 1), keys', hashMap')
    <3>1. PICK a, A : a = Head(pending) /\ A = FirstOf(listed, k)
      OBVIOUS
    <3>2. /\ FirstOf(listed, k + 1) = A \cup {a} /\ a \in 1 .. MaxLen
          /\ A \in SUBSET (1 .. MaxLen) /\ \A b \in A : b < a
      BY <1>1, <2>3, <2>5, <3>1, FirstOfNext
    <3>3. Ring(A \cup {a}, WithHashes(keys, a), WithNode(hashMap, a))
      BY <2>7, <3>1, <3>2, AddToRing
    <3>4. QED
      BY <2>1, <3>1, <3>2, <3>3
  <2>9. keys' \in Seq(Nat)
    BY <2>8 DEF Ring
  <2>10. HashTypes'
    BY <1>1, <1>2, <2>1, <2>3, <2>4, <2>9 DEF HashTypes
  <2>11. ASSUME NEW i \in 1 .. Len(pending') PROVE pending'[i] = listed'[Added' + i]
    <3>1. i \in 1 .. m - 1 /\ i + 1 \in 1 .. m /\ k + (i + 1) = (k + 1) + i
      BY <2>3, <2>4, <2>11
    <3>2. pending[i + 1] = listed[k + (i + 1)]
      BY <1>1, <2>2, <3>1 DEF RingInv
    <3>3. QED
      BY <2>1, <2>4, <2>6, <3>1, <3>2
  <2>12. QED
    BY <2>1, <2>6, <2>8, <2>10, <2>11 DEF RingInv
<1>9. CASE Sort
  <2>1. /\ adding /\ adding' = FALSE /\ keys' = Sorted(keys) /\ updating /\ ~ cleared
        /\ UNCHANGED <<pending, updating, hashMap, listed, cleared>>
    BY <1>1, <1>9 DEF Sort, RingInv, HashTypes
  <2>2. Ring(FirstOf(listed, Added), keys, hashMap)
    BY <1>1, <2>1 DEF RingInv
  <2>3. /\ Ring(FirstOf(listed, Added), keys', hashMap)
        /\ \A i, k \in 1 .. Len(keys') : i <= k => keys'[i] <= keys'[k]
    BY <2>1, <2>2, RingSorted
  <2>4. keys' \in Seq(Nat)
    BY <2>3 DEF Ring
  <2>5. HashTypes'
    BY <1>1, <1>2, <2>1, <2>4 DEF HashTypes
  <2>6. Added' = Added
    BY <2>1 DEF Added
  <2>7. QED
    BY <1>1, <2>1, <2>3, <2>5, <2>6 DEF RingInv
<1>10. CASE UpdateEnds
  <2>1. /\ ~ cleared /\ ~ adding /\ pending = <<>> /\ updating' = FALSE
        /\ UNCHANGED <<pending, keys, hashMap, listed, cleared, adding>>
    BY <1>10 DEF UpdateEnds, UpdateReturns, vars2
  <2>2. HashTypes'
    BY <1>1, <1>2, <2>1 DEF HashTypes
  <2>3. Added' = Added /\ Len(pending) = 0
    BY <2>1 DEF Added
  <2>4. QED
    BY <1>1, <2>1, <2>2, <2>3 DEF RingInv
<1>11. QED
  BY <1>6, <1>7, <1>8, <1>9, <1>10

-----------------------------------------------------------------------------
(* Random.                                                                 *)

LEMMA RandomStep ==
    ASSUME RandomInv, Meets, RandomNext
    PROVE  RandomInv'
<1>1. RandomTypes
  BY DEF RandomInv
<1>2. CASE \E t \in Threads :
              RandomEnter(t) \/ Intn(t) \/ RandomTake(t) \/ (Recover(t) /\ UNCHANGED vars2)
  <2>1. PICK t \in Threads :
              RandomEnter(t) \/ Intn(t) \/ RandomTake(t) \/ (Recover(t) /\ UNCHANGED vars2)
    BY <1>2
  <2>2. UNCHANGED <<nodes, pending, updating>>
    BY <2>1 DEF RandomEnter, Intn, RandomTake, Recover, vars2
  <2>3. RandomTypes'
    <3>1. Len(nodes) \in Nat /\ (nodes # <<>> => Len(nodes) # 0)
      BY <1>1 DEF RandomTypes
    <3>2. at' \in Nat
      BY <1>1, <2>1, <3>1 DEF RandomEnter, Intn, RandomTake, Recover, vars2, RandomTypes
    <3>3. pc' \in [Threads -> {"idle", "intn", "take", "panic"}]
      BY <1>1, <2>1 DEF RandomEnter, Intn, RandomTake, Recover, Go, RandomTypes
    <3>4. QED
      BY <1>1, <2>2, <3>2, <3>3 DEF RandomTypes
  <2>4. ASSUME NEW u \in Threads, ~ updating', u \notin met'
        PROVE  /\ pc'[u] # "panic"
               /\ pc'[u] \in {"intn", "take"} => nodes' # <<>>
               /\ pc'[u] = "take" => at' < Len(nodes')
    <3>1. CASE pc'[u] = "idle"
      BY <3>1
    <3>2. CASE pc'[u] # "idle"
      <4>1. ~ updating /\ u \notin met
        BY <2>2, <2>4, <3>2 DEF Meets
      <4>2. /\ pc[u] # "panic"
            /\ pc[u] \in {"intn", "take"} => nodes # <<>>
            /\ pc[u] = "take" => at < Len(nodes)
        BY <4>1 DEF RandomInv
      <4>3. Len(nodes) \in Nat /\ at' \in Nat /\ at \in Nat
        BY <1>1, <2>3 DEF RandomTypes
      <4>4. at' = at \/ at' < Len(nodes)
        BY <2>1, <4>3 DEF RandomEnter, Intn, RandomTake, Recover, vars2
      <4>5. CASE u # t
        <5>1. pc'[u] = pc[u]
          BY <1>1, <2>1, <4>5 DEF RandomEnter, Intn, RandomTake, Recover, Go, RandomTypes
        <5>2. QED
          BY <2>2, <4>2, <4>4, <5>1
      <4>6. CASE u = t
        <5>1. CASE RandomEnter(t)
          BY <1>1, <2>2, <4>6, <5>1 DEF RandomEnter, Go, RandomTypes
        <5>2. CASE Intn(t)
          <6>1. pc[t] = "intn" /\ nodes # <<>>
            BY <4>2, <4>6, <5>2 DEF Intn, Go
          <6>2. pc'[t] = "take" /\ at' < Len(nodes)
            BY <1>1, <4>3, <5>2, <6>1 DEF Intn, Go, RandomTypes
          <6>3. QED
            BY <2>2, <4>6, <6>1, <6>2
        <5>3. CASE RandomTake(t)
          <6>1. pc[t] = "take" /\ at < Len(nodes)
            BY <4>2, <4>6, <5>3 DEF RandomTake, Go
          <6>2. pc'[t] = "idle"
            BY <1>1, <5>3, <6>1 DEF RandomTake, Go, RandomTypes
          <6>3. QED
            BY <3>2, <4>6, <6>2
        <5>4. CASE Recover(t)
          BY <4>2, <4>6, <5>4 DEF Recover, Go
        <5>5. QED
          BY <2>1, <5>1, <5>2, <5>3, <5>4
      <4>7. QED
        BY <4>5, <4>6
    <3>3. QED
      BY <3>1, <3>2
  <2>5. QED
    BY <2>3, <2>4 DEF RandomInv
<1>3. CASE RandomUpdate \/ RandomAdd \/ UpdateEnds
  <2>1. pc' = pc /\ at' = at /\ (updating \/ updating') /\ updating' \in BOOLEAN
    BY <1>1, <1>3 DEF RandomUpdate, GetConf, RandomAdd, UpdateEnds, UpdateReturns, vars2,
                      RandomTypes
  <2>2. nodes' \in Seq(1 .. MaxLen) /\ pending' \in Seq(1 .. MaxLen)
    <3>1. CASE RandomUpdate
      <4>1. nodes' = <<>> /\ pending' \in Lists
        BY <3>1 DEF RandomUpdate, GetConf
      <4>2. QED
        BY <4>1, ListTypes, EmptyType
    <3>2. CASE RandomAdd
      <4>1. /\ nodes \in Seq(1 .. MaxLen) /\ pending \in Seq(1 .. MaxLen) /\ pending # <<>>
            /\ nodes' = Append(nodes, Head(pending)) /\ pending' = Tail(pending)
        BY <1>1, <3>2 DEF RandomAdd, RandomTypes
      <4>2. Len(pending) > 0 /\ Head(pending) \in 1 .. MaxLen /\ Tail(pending) \in Seq(1 .. MaxLen)
        BY <4>1, RoundRobinAssumption
      <4>3. QED
        BY <4>1, <4>2
    <3>3. CASE UpdateEnds
      BY <1>1, <3>3 DEF UpdateEnds, UpdateReturns, vars2, RandomTypes
    <3>4. QED
      BY <1>3, <3>1, <3>2, <3>3
  <2>3. RandomTypes'
    BY <1>1, <2>1, <2>2 DEF RandomTypes
  <2>4. \A u \in Threads : ~ updating' /\ u \notin met' => pc'[u] = "idle"
    BY <2>1 DEF Meets
  <2>5. QED
    BY <2>3, <2>4 DEF RandomInv
<1>4. QED
  BY <1>2, <1>3 DEF RandomNext

-----------------------------------------------------------------------------
(* All kinds.                                                              *)

LEMMA InitBInv == BInit => BInv
<1> SUFFICES ASSUME BInit PROVE BInv
  OBVIOUS
<1>1. /\ Init /\ kind \in {"random", "round robin", "hash"} /\ met = {} /\ ended = {}
      /\ pc = [t \in Threads |-> "idle"] /\ pending = <<>> /\ ~ updating /\ updating \in BOOLEAN
      /\ ~ steady /\ at = 0 /\ ~ cleared /\ ~ adding /\ cleared \in BOOLEAN /\ adding \in BOOLEAN
      /\ query = [t \in Threads |-> NoQuery]
  BY DEF BInit, Init
<1>2. <<>> \in Seq(1 .. MaxLen) /\ Len(<<>>) = 0
  BY EmptyType
<1>3. /\ kind = "random" => nodes \in Lists
      /\ kind = "hash" => /\ listed \in Lists /\ keys = Sorted(AfterAdds(listed)[1])
                          /\ hashMap = AfterAdds(listed)[2]
  BY DEF BInit
<1>4. kind = "round robin" => TurnInv
  BY <1>1, InitTurnInv
<1>5. CASE kind = "random"
  <2>1. nodes \in Seq(1 .. MaxLen)
    BY <1>3, <1>5, ListTypes
  <2>2. RandomInv
    BY <1>1, <1>2, <2>1 DEF RandomInv, RandomTypes
  <2>3. QED
    BY <1>1, <1>4, <1>5, <2>2 DEF BInv
<1>6. CASE kind = "hash"
  <2>1. listed \in Lists /\ Len(listed) \in Nat
    BY <1>3, <1>6, ListTypes
  <2>2. Ring(FirstOf(listed, Len(listed)), AfterAdds(listed)[1], hashMap)
    BY <1>3, <1>6, <2>1, RingOfList
  <2>3. keys = Sorted(AfterAdds(listed)[1])
    BY <1>3, <1>6
  <2>4. /\ Ring(FirstOf(listed, Len(listed)), keys, hashMap)
        /\ \A i, k \in 1 .. Len(keys) : i <= k => keys[i] <= keys[k]
    BY <2>2, <2>3, RingSorted
  <2>5. keys \in Seq(Nat)
    BY <2>4 DEF Ring
  <2>6. Len(pending) = 0 /\ pending \in Seq(1 .. MaxLen)
    BY <1>1, <1>2, Zenon
  <2>7. Added = Len(listed) /\ HashTypes
    <3>1. NoQuery \in [hash : Nat, lo : Nat, hi : Nat, key : Nat]
      BY DEF NoQuery
    <3>2. query \in [Threads -> [hash : Nat, lo : Nat, hi : Nat, key : Nat]]
      BY <1>1, <3>1
    <3>3. pc \in [Threads -> {"idle", "error", "search", "probe", "lock", "index", "lookup", "panic"}]
      BY <1>1
    <3>4. Len(pending) <= Len(listed)
      BY <2>1, <2>6
    <3>5. HashTypes
      BY <1>1, <2>1, <2>5, <2>6, <3>2, <3>3, <3>4 DEF HashTypes
    <3>6. QED
      BY <2>1, <2>6, <3>5 DEF Added
  <2>8. RingInv
    <3>1. Ring(FirstOf(listed, Added), keys, hashMap)
      BY <2>4, <2>7
    <3>2. \A i \in 1 .. Len(pending) : pending[i] = listed[Added + i]
      BY <2>6
    <3>3. QED
      BY <1>1, <2>4, <2>6, <3>1, <3>2 DEF RingInv
  <2>9. HashInv
    BY <1>1, <2>7, <2>8 DEF HashInv
  <2>10. QED
    BY <1>1, <1>4, <1>6, <2>9 DEF BInv
<1>7. QED
  BY <1>1, <1>4, <1>5, <1>6 DEF BInv

LEMMA NextBInv == BInv /\ [BNext \/ Ended]_all => BInv'
<1> SUFFICES ASSUME BInv, [BNext \/ Ended]_all PROVE BInv'
  OBVIOUS
<1>1. CASE BNext
  <2>1. /\ Meets /\ kind' = kind /\ ended = {}
        /\ \/ kind = "round robin" /\ Next /\ UNCHANGED vars2
           \/ /\ (kind = "random" /\ RandomNext) \/ (kind = "hash" /\ HashNext)
              /\ calm' = (~ updating' /\ (calm \/ Quiet')) /\ steady' = steady
    BY <1>1 DEF BNext
  <2>2. calm' => ~ updating' /\ met' = {}
    <3>1. calm' = (~ updating' /\ (calm \/ Quiet'))
      BY <2>1 DEF Next
    <3>2. CASE Quiet'
      BY <2>1, <3>1, <3>2 DEF Quiet, Meets
    <3>3. CASE calm
      BY <2>1, <3>1, <3>3 DEF BInv, Meets
    <3>4. QED
      BY <3>1, <3>2, <3>3
  <2>3. CASE kind = "round robin"
    <3>1. TurnInv'
      BY <2>1, <2>3, NextTurnInv DEF BInv
    <3>2. QED
      BY <2>1, <2>2, <2>3, <3>1 DEF BInv
  <2>4. CASE kind = "random"
    <3>1. RandomInv'
      BY <2>1, <2>4, RandomStep DEF BInv
    <3>2. QED
      BY <2>1, <2>2, <2>4, <3>1 DEF BInv
  <2>5. CASE kind = "hash"
    <3>1. HashInv /\ HashNext
      BY <2>1, <2>5 DEF BInv
    <3>2. HashInv'
      BY <2>1, <3>1, HashRequestStep, HashUpdateStep DEF HashNext
    <3>3. QED
      BY <2>1, <2>2, <2>5, <3>2 DEF BInv
  <2>6. QED
    BY <2>3, <2>4, <2>5 DEF BInv
<1>2. CASE UNCHANGED all
  <2>1. UNCHANGED vars /\ UNCHANGED <<kind, met>> /\ UNCHANGED vars2
    BY <1>2 DEF all
  <2>2. /\ UNCHANGED <<pc, pending, updating, calm, steady, kind, met>>
        /\ UNCHANGED <<nodes, at, keys, hashMap, adding, query, listed, cleared, ended>>
    BY <2>1 DEF vars, vars2
  <2>3. TurnInv => TurnInv'
    BY <2>1, NextTurnInv
  <2>4. RandomInv => RandomInv'
    BY <2>2 DEF RandomInv, RandomTypes
  <2>5. HashInv => HashInv'
    BY <2>2 DEF HashInv, HashTypes, RingInv, Added
  <2>6. QED
    BY <2>2, <2>3, <2>4, <2>5 DEF BInv
<1>3. QED
  BY <1>1, <1>2 DEF Ended

\* However many requests ask at once, a balancer of any kind panics only
\* around an Update: round robin's index stays within the list
\* (round_robin.go 25-36), so does random's draw, which another request may
\* overwrite (random.go 26-32), and so does the search that consistent hashing
\* makes outside its lock (consistent_hash.go 78-94).
THEOREM NoBalancerPanics == BSpec => []PanicOnlyAroundUpdate
<1>1. BInv => PanicOnlyAroundUpdate
  <2> SUFFICES ASSUME BInv, calm, NEW t \in Threads, pc[t] = "panic" PROVE FALSE
    BY DEF PanicOnlyAroundUpdate
  <2>1. ~ updating /\ met = {}
    BY DEF BInv
  <2>2. CASE kind = "round robin"
    BY <2>2 DEF BInv, TurnInv, IInv, CalmInv
  <2>3. CASE kind = "random"
    BY <2>1, <2>3 DEF BInv, RandomInv
  <2>4. CASE kind = "hash"
    BY <2>1, <2>4 DEF BInv, HashInv, QueryOK
  <2>5. QED
    BY <2>2, <2>3, <2>4 DEF BInv
<1>2. QED
  BY <1>1, InitBInv, NextBInv, PTL DEF BSpec

\* Of the balancers, round robin takes the addresses in turn while its
\* requests do not meet (round_robin.go 30-34).
THEOREM BalancerTakesTurns == BSpec => InTurn
<1>1. BInv /\ [BNext \/ Ended]_all
        => [SomeonePicks /\ steady => picked' = (picked % Len(rss)) + 1]_vars
  <2> SUFFICES ASSUME BInv, [BNext \/ Ended]_all, SomeonePicks, steady, vars' # vars
               PROVE  picked' = (picked % Len(rss)) + 1
    OBVIOUS
  <2>1. kind = "round robin"
    BY DEF BInv
  <2>2. BNext
    BY DEF Ended, all
  <2>3. Next /\ TurnInv
    BY <2>1, <2>2 DEF BNext, BInv
  <2>4. QED
    BY <2>3, TakesTheNext
<1>2. QED
  BY <1>1, InitBInv, NextBInv, PTL DEF BSpec, InTurn

\* A consistent-hash Get that meets no Update answers the address whose
\* virtual node is next on the ring of the whole list, and fails only for an
\* empty one, whatever the number of addresses, of virtual nodes and of
\* concurrent requests, and however hashes collide (consistent_hash.go 60-110).
THEOREM HashAnswersOwner == BSpec => AnswersOwner
<1>1. ASSUME BInv, [BNext \/ Ended]_all, NEW t \in Threads, GetEnds(t), t \notin met, ~ updating
      PROVE  IF listed = <<>> THEN pc[t] = "error"
             ELSE Answer(t) = Owner(listed, query[t].hash) /\ pc[t] = "lookup"
  <2>1. HashInv /\ HashTypes /\ RingInv /\ listed \in Lists /\ Len(listed) \in Nat
    BY <1>1, ListTypes DEF GetEnds, BInv, HashInv, HashTypes
  <2>2. kind = "hash" /\ pc[t] # "idle" /\ QueryOK(pc[t], query[t], keys, listed)
    BY <1>1, <2>1 DEF GetEnds, HashInv
  <2>3. CASE listed = <<>>
    BY <2>2, <2>3 DEF QueryOK
  <2>4. CASE listed # <<>>
    <3>1. pc[t] # "error" /\ pc[t] # "panic"
      BY <2>2, <2>4 DEF QueryOK
    <3>2. t \notin ended
      BY <2>1, <3>1 DEF HashInv
    <3>3. HashNext /\ ended = {}
      <4>1. CASE BNext
        BY <2>2, <4>1 DEF BNext
      <4>2. CASE UNCHANGED all
        <5>1. pc' = pc /\ ended' = ended
          BY <4>2 DEF all, vars, vars2
        <5>2. QED
          BY <1>1, <3>2, <5>1 DEF GetEnds
      <4>3. QED
        BY <1>1, <4>1, <4>2 DEF Ended
    <3>4. PICK u \in Threads : HashRequest(u) \/ (Recover(u) /\ UNCHANGED vars2)
      <4>1. CASE ClearKeys \/ ClearMap \/ HashAdd \/ Sort \/ UpdateEnds
        <5>1. pc' = pc /\ ended' = ended
          BY <4>1 DEF ClearKeys, GetConf, ClearMap, HashAdd, Sort, UpdateEnds, UpdateReturns, vars2
        <5>2. QED
          BY <1>1, <3>2, <5>1 DEF GetEnds
      <4>2. QED
        BY <3>3, <4>1 DEF HashNext
    <3>5. /\ \A v \in Threads : v # u => pc'[v] = pc[v]
          /\ ended' = ended \/ (ended' = {u} /\ pc[u] = "error")
      BY <2>1, <3>4, RequestFrame
    <3>6. u = t /\ pc'[t] \in {"idle", "panic"}
      BY <1>1, <3>1, <3>3, <3>5 DEF GetEnds
    <3>7. ~ updating /\ pc'[t] # "panic"
      <4>1. CASE pc'[t] = "panic"
        <5>1. QueryOK(pc'[t], query'[t], keys, listed)
          BY <1>1, <2>1, <2>2, <3>4, <3>6, <4>1, RequestGoesOn
        <5>2. QED
          BY <4>1, <5>1 DEF QueryOK
      <4>2. QED
        BY <1>1, <4>1
    <3>8. PICK q : q = query[t]
      OBVIOUS
    <3>9. pc'[t] = "idle" /\ Moves(pc[t], q, pc'[t], query'[t])
      BY <2>1, <3>4, <3>6, <3>7, <3>8, RequestMoves
    <3>10. pc[t] = "lookup"
      BY <3>1, <3>9 DEF Moves
    <3>11. q.key \in ToSet(keys) /\ IsNext(keys, q.key, q.hash) /\ q.hash \in Nat
      BY <2>1, <2>2, <3>8, <3>10 DEF QueryOK, IsNext, HashTypes
    <3>12. Ring(FirstOf(listed, Len(listed)), keys, hashMap)
      BY <1>1, <2>1 DEF RingInv, Added
    <3>13. q.key \in DOMAIN hashMap /\ hashMap[q.key] = Owner(listed, q.hash)
      BY <2>1, <3>11, <3>12, OwnerIs DEF IsNext
    <3>14. QED
      BY <2>4, <3>8, <3>10, <3>13 DEF Answer
  <2>5. QED
    BY <2>3, <2>4
<1>2. BInv /\ [BNext \/ Ended]_all
        => [\A t \in Threads :
              GetEnds(t) /\ t \notin met /\ ~ updating =>
                 IF listed = <<>> THEN pc[t] = "error"
                 ELSE Answer(t) = Owner(listed, query[t].hash) /\ pc[t] = "lookup"]_all
  BY <1>1
<1>3. QED
  BY <1>2, InitBInv, NextBInv, PTL DEF BSpec, AnswersOwner

\* What makes the hashing consistent: when the address a leaves the list, the
\* keys of the other addresses stay where they are, for any hash of the virtual
\* nodes, colliding or not (consistent_hash.go 60-94).
THEOREM OnlyItsKeysMove ==
    ASSUME NEW l \in Lists, NEW rest \in Lists, NEW a, ToSet(rest) = ToSet(l) \ {a},
           NEW h \in Nat, l # <<>>, Owner(l, h) # a
    PROVE  Owner(rest, h) = Owner(l, h)
<1>1. PICK A, B, ks, m, ks2, m2 :
         /\ A = FirstOf(l, Len(l)) /\ Ring(A, ks, m)
         /\ B = FirstOf(rest, Len(rest)) /\ Ring(B, ks2, m2)
  BY RingOfList
<1>2. B = A \ {a} /\ A \subseteq 1 .. MaxLen
  <2>1. A = ToSet(l) /\ B = ToSet(rest)
    BY <1>1, ListIs DEF FirstOf, ToSet
  <2>2. QED
    BY <1>1, <2>1, ListIs DEF FirstOf
<1>3. ToSet(ks) = Hashes(A) /\ ToSet(ks2) = Hashes(B) /\ ToSet(ks) # {} /\ ToSet(ks) \subseteq Nat
  <2>1. ks # <<>> /\ ks \in Seq(Nat)
    BY <1>1, RingNotEmpty DEF Ring
  <2>2. 1 \in DOMAIN ks /\ \A i \in DOMAIN ks : ks[i] \in Nat
    BY <2>1
  <2>3. QED
    BY <1>1, <2>2 DEF Ring, ToSet
\* The next virtual node of the list ...
<1>4. PICK x \in ToSet(ks) : \/ x >= h /\ \A y \in ToSet(ks) : y >= h => x <= y
                             \/ \A y \in ToSet(ks) : y < h /\ x <= y
  <2>1. PICK S, T : S = ToSet(ks) /\ T = {y \in S : y >= h}
    OBVIOUS
  <2>2. T \subseteq Nat /\ S \subseteq Nat /\ S # {}
    BY <1>3, <2>1
  <2>3. CASE T # {}
    <3>1. PICK x \in T : \A y \in T : x <= y
      BY <2>2, <2>3, LeastNumber
    <3>2. QED
      BY <2>1, <3>1
  <2>4. CASE T = {}
    <3>1. PICK x \in S : \A y \in S : x <= y
      BY <2>2, LeastNumber
    <3>2. \A y \in S : y < h
      BY <2>1, <2>2, <2>4
    <3>3. QED
      BY <2>1, <3>1, <3>2
  <2>5. QED
    BY <2>3, <2>4
<1>5. x \in DOMAIN m /\ m[x] = Owner(l, h)
  BY <1>1, <1>4, OwnerIs
<1>6. m[x] \in A /\ x \in NodeHashes(m[x]) /\ \A b \in A : x \in NodeHashes(b) => b <= m[x]
  BY <1>1, <1>3 DEF Ring
\* ... is not of a, so it is the next one of the rest too ...
<1>7. m[x] \in B
  BY <1>2, <1>5, <1>6
<1>8. x \in ToSet(ks2) /\ \A y \in ToSet(ks2) : y \in ToSet(ks)
  BY <1>2, <1>3, <1>6, <1>7 DEF Hashes
<1>9. x \in DOMAIN m2 /\ m2[x] = Owner(rest, h)
  <2>1. \/ x >= h /\ \A y \in ToSet(ks2) : y >= h => x <= y
        \/ \A y \in ToSet(ks2) : y < h /\ x <= y
    BY <1>4, <1>8
  <2>2. QED
    BY <1>1, <1>8, <2>1, OwnerIs
\* ... and goes to the same address.
<1>10. m2[x] \in B /\ x \in NodeHashes(m2[x]) /\ \A b \in B : x \in NodeHashes(b) => b <= m2[x]
  BY <1>1, <1>3, <1>8 DEF Ring
<1>11. m2[x] <= m[x] /\ m[x] <= m2[x]
  BY <1>2, <1>6, <1>7, <1>10
<1>12. m2[x] = m[x]
  <2>1. m2[x] \in 1 .. MaxLen /\ m[x] \in 1 .. MaxLen
    BY <1>2, <1>6, <1>7, <1>10
  <2>2. QED
    BY <1>11, <2>1
<1>13. QED
  BY <1>5, <1>9, <1>12
==============================================================================
