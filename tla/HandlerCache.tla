---------------------------- MODULE HandlerCache ----------------------------
(***************************************************************************)
(* The four get-or-create caches of the gateway: GetCounter                *)
(* (public/flow_count_handler.go), GetLimiter                              *)
(* (public/flow_limit_handler.go), GetLoadBalancer and GetTrans            *)
(* (dao/service_load_balance.go).  All four have one shape: range over a   *)
(* slice for an item of the name, and if there is none make an item and    *)
(* append it.  The Locker guards only the map that follows, which nobody   *)
(* reads and which is left out.                                            *)
(*                                                                         *)
(* The slice is read and appended to without a lock, so its three words    *)
(* and its array are shared memory here.  x.s = append(x.s, e) is what the *)
(* Go compiler emits for an append in place: load the three words; if the  *)
(* length would exceed the capacity, copy into an array of twice the size  *)
(* and store capacity, then array; then store the length, and only then    *)
(* the element.  The words of one read are loaded in any order.            *)
(*                                                                         *)
(* MatchesNothing and FitsTooLong are faulty variants.                     *)
(***************************************************************************)
EXTENDS Integers, Sequences, FiniteSets

CONSTANTS Threads,  \* requests in flight at the same time
          Names,    \* names asked for: counters, limiters, services
          MaxCalls  \* how many calls are made; bounds the model

ASSUME HandlerCacheAssumption ==
    /\ MaxCalls \in Nat
    /\ IsFiniteSet(Threads) /\ Names # {}

VARIABLES
    slice,      \* the slice header: array (an index into mem, 0 is nil), len, cap
    mem,        \* mem[a]: the elements of array a
    at,         \* at[t]: where call t is, or "idle"
    locals,     \* locals[t]: the locals of call t, see Fresh
    calls,      \* calls so far
    made,       \* history: made[n]: items made for name n
    met,        \* history: met[t]: another call was appending during call t
    clashed,    \* history: two calls were appending at the same time
    overlapped, \* history: some call ran while another was appending
    stray       \* history: an element was stored outside its array

memory == <<slice, mem>>
history == <<made, met, clashed, overlapped, stray>>
hvars == <<memory, at, locals, calls, history>>

Nil == <<>>       \* an element not stored yet
Unread == -1      \* a word not loaded yet

Items == Names \X Nat   \* an item is its name and its number
Appending == {"append", "storeCap", "storeArray", "storeLen", "storeItem"}

\* The slice words loaded, the position of the scan and the item made.
Fresh == [array |-> Unread, len |-> Unread, cap |-> Unread, i |-> 0,
          name |-> CHOOSE n \in Names : TRUE, item |-> Nil]

\* New...: a slice literal without elements has no array.
NewArrays == <<>>

HInit ==
    /\ mem = NewArrays
    /\ LET n == IF mem = <<>> THEN 0 ELSE Len(mem[1]) IN
          slice = [array |-> Len(mem), len |-> n, cap |-> n]
    /\ at = [t \in Threads |-> "idle"]
    /\ locals = [t \in Threads |-> Fresh]
    /\ calls = 0
    /\ made = [n \in Names |-> 0]
    /\ met = [t \in Threads |-> FALSE]
    /\ clashed = FALSE /\ overlapped = FALSE /\ stray = FALSE

\* The element at position i (from 0) of array a; nothing is known of what
\* lies beyond the array.
Within(a, i) == a > 0 /\ i < Len(mem[a])
Element(a, i) == mem[a][i + 1]

AppendingNow == {t \in Threads : at[t] \in Appending}

Go(t, from, to) == at[t] = from /\ at' = [at EXCEPT ![t] = to]

Leave(t, from) == Go(t, from, "idle") /\ locals' = [locals EXCEPT ![t] = Fresh]

Call(t, n) ==
    /\ calls < MaxCalls
    /\ Go(t, "idle", "scan")
    /\ locals' = [locals EXCEPT ![t].name = n]
    /\ calls' = calls + 1
    /\ met' = [met EXCEPT ![t] = AppendingNow # {}]
    /\ overlapped' = (overlapped \/ met'[t])
    /\ UNCHANGED <<memory, made, clashed, stray>>

\* range and append each read the slice; range has no use for the capacity.
LoadWord(t) ==
    /\ at[t] \in {"scan", "append"}
    /\ \E word \in {"array", "len", "cap"} :
          /\ word = "cap" => at[t] = "append"
          /\ locals[t][word] = Unread
          /\ locals' = [locals EXCEPT ![t][word] = slice[word]]
    /\ UNCHANGED <<memory, at, calls, history>>

Loaded(t) ==
    /\ locals[t].array # Unread /\ locals[t].len # Unread
    /\ at[t] = "append" => locals[t].cap # Unread

Scanned(t) == locals[t].i >= locals[t].len

MatchesNothing(item, n) == FALSE
Matches(item, n) == item[1] = n

\* The fast path: the item is found and returned.
Found(t) ==
    /\ Loaded(t) /\ ~Scanned(t)
    /\ Within(locals[t].array, locals[t].i)
    /\ LET item == Element(locals[t].array, locals[t].i) IN
          item # Nil /\ Matches(item, locals[t].name)
    /\ Leave(t, "scan")
    /\ UNCHANGED <<memory, calls, history>>

\* Not this one; beyond the array may lie an item of anybody.
Skip(t) ==
    /\ Loaded(t) /\ ~Scanned(t)
    /\ Within(locals[t].array, locals[t].i) =>
          LET item == Element(locals[t].array, locals[t].i) IN
             item # Nil /\ ~Matches(item, locals[t].name)
    /\ at[t] = "scan"
    /\ locals' = [locals EXCEPT ![t].i = @ + 1]
    /\ UNCHANGED <<memory, at, calls, history>>

\* item.ServiceName of a nil pointer.
Fault(t) ==
    /\ Loaded(t) /\ ~Scanned(t)
    /\ Within(locals[t].array, locals[t].i) =>
          Element(locals[t].array, locals[t].i) = Nil
    /\ Go(t, "scan", "panic")
    /\ UNCHANGED <<memory, locals, calls, history>>

\* The recover of the middleware or of the connection ends the call.
Recover(t) == Leave(t, "panic") /\ UNCHANGED <<memory, calls, history>>

\* The slow path: no item of the name, so one is made.
Make(t) ==
    /\ Loaded(t) /\ Scanned(t)
    /\ Go(t, "scan", "append")
    /\ LET n == locals[t].name IN
          /\ made' = [made EXCEPT ![n] = @ + 1]
          /\ locals' = [locals EXCEPT ![t] =
                          [Fresh EXCEPT !.name = n, !.item = <<n, made[n] + 1>>]]
    /\ met' = [u \in Threads |->
                  met[u] \/ (u # t /\ at[u] # "idle")
                         \/ (u = t /\ AppendingNow # {})]
    /\ clashed' = (clashed \/ AppendingNow # {})
    /\ overlapped' = (overlapped \/ \E u \in Threads : met'[u])
    /\ UNCHANGED <<memory, calls, stray>>

FitsTooLong(t) == locals[t].len <= locals[t].cap
Fits(t) == locals[t].len + 1 <= locals[t].cap

AppendInPlace(t) ==
    /\ Loaded(t) /\ Fits(t)
    /\ Go(t, "append", "storeLen")
    /\ UNCHANGED <<memory, locals, calls, history>>

\* growslice: twice the capacity, or what is needed if that is more.
NewCap(t) == IF locals[t].len + 1 > 2 * locals[t].cap THEN locals[t].len + 1
             ELSE 2 * locals[t].cap

Copied(t) == locals[t].len

Grow(t) ==
    /\ Loaded(t) /\ ~Fits(t)
    /\ Go(t, "append", "storeCap")
    /\ mem' = Append(mem, [k \in 1 .. NewCap(t) |->
                              IF k <= Copied(t) /\ Within(locals[t].array, k - 1)
                              THEN Element(locals[t].array, k - 1) ELSE Nil])
    /\ locals' = [locals EXCEPT ![t].array = Len(mem) + 1, ![t].cap = NewCap(t)]
    /\ UNCHANGED <<slice, calls, history>>

StoreCap(t) ==
    /\ Go(t, "storeCap", "storeArray")
    /\ slice' = [slice EXCEPT !.cap = locals[t].cap]
    /\ UNCHANGED <<mem, locals, calls, history>>

StoreArray(t) ==
    /\ Go(t, "storeArray", "storeLen")
    /\ slice' = [slice EXCEPT !.array = locals[t].array]
    /\ UNCHANGED <<mem, locals, calls, history>>

StoreLen(t) ==
    /\ Go(t, "storeLen", "storeItem")
    /\ slice' = [slice EXCEPT !.len = locals[t].len + 1]
    /\ UNCHANGED <<mem, locals, calls, history>>

\* The element goes where the words loaded say, in the array or beyond it;
\* then the map, under its lock, and the item is returned.
StoreItem(t) ==
    /\ Leave(t, "storeItem")
    /\ IF Within(locals[t].array, locals[t].len)
       THEN /\ mem' = [mem EXCEPT ![locals[t].array][locals[t].len + 1] = locals[t].item]
            /\ UNCHANGED stray
       ELSE stray' = TRUE /\ UNCHANGED mem
    /\ UNCHANGED <<slice, calls, made, met, clashed, overlapped>>

Get(t) ==
    \/ \E n \in Names : Call(t, n)
    \/ LoadWord(t) \/ Found(t) \/ Skip(t) \/ Fault(t) \/ Recover(t) \/ Make(t)
    \/ AppendInPlace(t) \/ Grow(t)
    \/ StoreCap(t) \/ StoreArray(t) \/ StoreLen(t) \/ StoreItem(t)

HNext == \E t \in Threads : Get(t)

HSpec == HInit /\ [][HNext]_hvars
-----------------------------------------------------------------------------
Words == {Unread} \cup Nat

Locals == [array : {Unread} \cup 0 .. Len(mem), len : Words, cap : Words,
           i : Nat, name : Names, item : Items \cup {Nil}]

\* The locals of a call that is at p: what is stored was loaded.
LocalsFit(l, p) ==
    /\ IF l.len = Unread THEN l.i = 0 ELSE l.i <= l.len
    /\ p \in Appending => l.item \in Items
    /\ p \in Appending \ {"append"} => Unread \notin {l.array, l.len, l.cap}

Places == Appending \cup {"idle", "scan", "panic"}

HTypeOK ==
    /\ slice \in [array : 0 .. Len(mem), len : Nat, cap : Nat]
    /\ mem \in Seq(Seq(Items \cup {Nil}))
    /\ at \in [Threads -> Places] /\ locals \in [Threads -> Locals]
    /\ \A t \in Threads : LocalsFit(locals[t], at[t])
    /\ calls \in 0 .. MaxCalls
    /\ made \in [Names -> Nat] /\ met \in [Threads -> BOOLEAN]
    /\ clashed \in BOOLEAN /\ overlapped \in BOOLEAN /\ stray \in BOOLEAN

\* Without two requests appending at once the memory is sound: nothing is
\* stored outside an array, and below the length there is no hole but the
\* element the one append still owes.  A request faults on an item of the cache
\* only if another one appended during its own scan, as the length is there
\* before the element; after two appends at once any later request may.
SoundUnlessClashed ==
    ~clashed =>
        /\ ~stray
        /\ \A t \in Threads : at[t] = "panic" => met[t]
        /\ \A i \in 1 .. slice.len :
              \/ Within(slice.array, i - 1) /\ Element(slice.array, i - 1) # Nil
              \/ i = slice.len /\ \E t \in Threads : at[t] = "storeItem"

\* "Load balancers, transports and limiters are cached by name" (Go_Gateway
\* technical analysis, lines 472 to 474): a name has a second counter, limiter,
\* balancer or transport only because a request looked for it while another one
\* appended, and then no more of them than requests in flight.  Only two appends
\* at once break that bound: they may leave a capacity larger than the array,
\* and from then on every new item is stored outside it and made again by the
\* next request.
SecondItemForCause ==
    \A n \in Names :
        made[n] > 1 => /\ overlapped
                       /\ clashed \/ made[n] <= Cardinality(Threads)
=============================================================================
