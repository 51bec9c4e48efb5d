--------------------------- MODULE Metrics_proofs ---------------------------
(***************************************************************************)
(* Proofs about the metrics service: its alerts on pegouts, with            *)
(* PegoutManager which writes the rows they read, for every set of pegouts, *)
(* every chain of them and every bound; and, at the end, its fetchers, for  *)
(* every set of them and every channel size.                                *)
(***************************************************************************)
EXTENDS MetricsPegouts, MetricsFetchers, FiniteSetTheorems, WellFoundedInduction, TLAPS

LEMMA Bounds == MaxLosses \in Nat /\ MaxEvictions \in Nat /\ MaxRestarts \in Nat
BY PegoutManagerAssumption

LEMMA NoneIsNoString == None \notin {"SIGNING", "SIGNED", "CONFIRMED", "lookup", "send"}
BY PegoutManagerAssumption

\* The counters of faults stay within their bounds.
CountersOK ==
  /\ losses \in 0 .. MaxLosses
  /\ evictions \in 0 .. MaxEvictions
  /\ restarts \in 0 .. MaxRestarts

LEMMA CountersStart ==
  ASSUME losses = 0, evictions = 0, restarts = 0
  PROVE  CountersOK
BY Bounds DEF CountersOK

LEMMA CountersStep ==
  ASSUME CountersOK,
         losses' = losses \/ (losses < MaxLosses /\ losses' = losses + 1),
         evictions' = evictions \/ (evictions < MaxEvictions /\ evictions' = evictions + 1),
         restarts' = restarts \/ (restarts < MaxRestarts /\ restarts' = restarts + 1)
  PROVE  CountersOK' /\ (losses' = 0 => losses = 0) /\ (losses' = losses + 1 => losses' # 0)
BY Bounds DEF CountersOK

\* A batch of rows is a set of these rows, whatever the limit.
LEMMA BatchesAreRows == ASSUME NEW S, NEW batch \in Batches(S) PROVE batch \subseteq S
BY DEF Batches, kSubset

-----------------------------------------------------------------------------
(* The order of the inputs.                                                 *)

\* A finite set of numbers can be counted upwards.
Ascending(f, n) == \A i, j \in 1 .. n : i < j => f[i] < f[j]

LEMMA LeastOfNumbers == ASSUME NEW S \in SUBSET Nat, S # {} PROVE \E x \in S : \A y \in S : x <= y
<1>1. PICK x \in S : \A y \in S : <<y, x>> \notin OpToRel(<, Nat)
  BY NatLessThanWellFounded, WFMin, Zenon
<1>2. ASSUME NEW y \in S PROVE x <= y
  <2>1. x \in Nat /\ y \in Nat
    OBVIOUS
  <2>2. ~(y < x)
    BY <1>1, <2>1 DEF OpToRel
  <2> QED BY <2>1, <2>2
<1> QED BY <1>2

\* The least number first, then the others in order.
LEMMA CountUpwards ==
  ASSUME NEW S \in SUBSET Nat, IsFiniteSet(S), NEW a \in S, \A y \in S : a <= y,
         NEW g \in [1 .. Cardinality(S \ {a}) -> S \ {a}], Ascending(g, Cardinality(S \ {a}))
  PROVE  \E f \in [1 .. Cardinality(S) -> S] : Ascending(f, Cardinality(S))
<1> DEFINE n == Cardinality(S)
           m == Cardinality(S \ {a})
           f == [i \in 1 .. n |-> IF i = 1 THEN a ELSE g[i - 1]]
<1>1. n \in Nat /\ m \in Nat /\ m = n - 1
  BY FS_CardinalityType, FS_RemoveElement
<1>2. ASSUME NEW i \in 1 .. n, i # 1 PROVE i - 1 \in 1 .. m /\ g[i - 1] \in S /\ a < g[i - 1]
  <2>1. i - 1 \in 1 .. m
    <3> HIDE DEF n, m
    <3> QED BY <1>1, <1>2
  <2>2. g[i - 1] \in S \ {a}
    BY <2>1
  <2>3. a <= g[i - 1] /\ a # g[i - 1] /\ a \in Nat /\ g[i - 1] \in Nat
    BY <2>2
  <2> QED BY <2>1, <2>2, <2>3
<1>3. f \in [1 .. n -> S]
  <2> HIDE DEF n, m
  <2> QED BY <1>2
<1>4. ASSUME NEW i \in 1 .. n, NEW j \in 1 .. n, i < j PROVE f[i] < f[j]
  <2> HIDE DEF n, m
  <2>1. j # 1 /\ f[j] = g[j - 1] /\ j - 1 \in 1 .. m
    BY <1>1, <1>2, <1>4
  <2>2. CASE i = 1
    BY <1>2, <2>1, <2>2
  <2>3. CASE i # 1
    <3>1. f[i] = g[i - 1] /\ i - 1 \in 1 .. m /\ i - 1 < j - 1
      BY <1>1, <1>2, <1>4, <2>3
    <3>2. g[i - 1] < g[j - 1]
      BY <2>1, <3>1 DEF Ascending, m
    <3> QED BY <2>1, <3>1, <3>2
  <2> QED BY <2>2, <2>3
<1> HIDE DEF f
<1>5. Ascending(f, n)
  BY <1>4 DEF Ascending
<1> QED BY <1>3, <1>5

LEMMA OrderExists ==
  ASSUME NEW S \in SUBSET Nat, IsFiniteSet(S)
  PROVE  \E f \in [1 .. Cardinality(S) -> S] : Ascending(f, Cardinality(S))
<1> DEFINE Ordered(T) == \E f \in [1 .. Cardinality(T) -> T] : Ascending(f, Cardinality(T))
           Bad == {T \in SUBSET Nat : IsFiniteSet(T) /\ ~Ordered(T)}
           Sizes == {Cardinality(T) : T \in Bad}
<1> SUFFICES ASSUME Bad # {} PROVE FALSE
  OBVIOUS
<1>1. Sizes \in SUBSET Nat /\ Sizes # {}
  <2>1. \A T \in Bad : Cardinality(T) \in Nat
    BY FS_CardinalityType
  <2> HIDE DEF Bad
  <2> QED BY <2>1
<1>2. \E x \in Sizes : \A y \in Sizes : x <= y
  <2> HIDE DEF Sizes
  <2> QED BY <1>1, LeastOfNumbers
<1>3. PICK T \in Bad : \A U \in Bad : Cardinality(T) <= Cardinality(U)
  <2> HIDE DEF Bad
  <2> QED BY <1>2
<1>4. T \in SUBSET Nat /\ IsFiniteSet(T) /\ ~Ordered(T)
  OBVIOUS
<1>5. T # {}
  <2> SUFFICES ASSUME T = {} PROVE Ordered(T)
    BY <1>4
  <2>1. Cardinality(T) = 0
    BY FS_EmptySet
  <2>2. [i \in 1 .. 0 |-> i] \in [1 .. 0 -> T] /\ Ascending([i \in 1 .. 0 |-> i], 0)
    BY DEF Ascending
  <2> QED BY <2>1, <2>2
<1>6. PICK a \in T : \A y \in T : a <= y
  BY <1>4, <1>5, LeastOfNumbers
<1>7. IsFiniteSet(T \ {a}) /\ Cardinality(T) \in Nat /\ Cardinality(T \ {a}) = Cardinality(T) - 1
  BY <1>4, FS_RemoveElement, FS_CardinalityType
<1>8. T \ {a} \notin Bad
  <2> HIDE DEF Bad
  <2> QED BY <1>3, <1>7
<1>9. Ordered(T \ {a})
  BY <1>4, <1>7, <1>8
<1>10. PICK g \in [1 .. Cardinality(T \ {a}) -> T \ {a}] : Ascending(g, Cardinality(T \ {a}))
  BY <1>9
<1>11. Ordered(T)
  BY <1>4, <1>6, <1>10, CountUpwards
<1> QED BY <1>4, <1>11

\* The sort of the indexer gives each input its place.
LEMMA SortedPlaces ==
  ASSUME NEW p \in Pegouts
  PROVE  /\ Count(p) \in Nat
         /\ SortedInputs(p) \in [1 .. Count(p) -> Inputs[p]]
         /\ Ascending(SortedInputs(p), Count(p))
         /\ {SortedInputs(p)[i] : i \in 1 .. Count(p)} = Inputs[p]
<1> DEFINE S == Inputs[p]
           n == Count(p)
           f == SortedInputs(p)
<1>0. S \in SUBSET Nat /\ IsFiniteSet(S)
  BY PegoutManagerAssumption
<1>1. n \in Nat /\ n = Cardinality(S)
  BY <1>0, FS_CardinalityType DEF Count
<1>2. \E g \in [1 .. n -> S] : \A i, j \in 1 .. n : i < j => g[i] < g[j]
  <2> HIDE DEF S
  <2> QED BY <1>0, <1>1, OrderExists DEF Ascending
<1>3. f \in [1 .. n -> S] /\ \A i, j \in 1 .. n : i < j => f[i] < f[j]
  BY <1>2 DEF SortedInputs
<1> HIDE DEF f, n, S
<1>4. ASSUME NEW i \in 1 .. n, NEW j \in 1 .. n, f[i] = f[j] PROVE i = j
  <2>1. f[i] \in S /\ f[j] \in S
    BY <1>3
  <2>2. f[i] \in Nat /\ f[j] \in Nat
    BY <1>0, <2>1
  <2>3. i \in Int /\ j \in Int
    BY <1>1
  <2>4. ~(f[i] < f[j]) /\ ~(f[j] < f[i])
    BY <1>4, <2>2
  <2>5. ~(i < j) /\ ~(j < i)
    BY <1>3, <2>4
  <2> QED BY <2>3, <2>5
<1>5. f \in Injection(1 .. n, S)
  BY <1>3, <1>4 DEF Injection, IsInjective
<1>6. Cardinality(1 .. n) = n
  BY <1>1, FS_Interval
<1>7. f \in Surjection(1 .. n, S)
  BY <1>0, <1>1, <1>5, <1>6, FS_Injection
<1>8. {f[i] : i \in 1 .. n} = S
  BY <1>7 DEF Surjection
<1> QED BY <1>1, <1>3, <1>8 DEF f, n, S, Ascending

\* The input at place i has i - 1 smaller ones.
LEMMA SmallerInputs ==
  ASSUME NEW p \in Pegouts, NEW i \in 1 .. Count(p)
  PROVE  Cardinality({u \in Inputs[p] : u < SortedInputs(p)[i]}) = i - 1
<1> DEFINE n == Count(p)
           f == SortedInputs(p)
           T == {u \in Inputs[p] : u < f[i]}
           g == [j \in 1 .. i - 1 |-> f[j]]
<1>1. /\ n \in Nat /\ f \in [1 .. n -> Inputs[p]] /\ Inputs[p] \subseteq Nat
      /\ \A j, k \in 1 .. n : j < k => f[j] < f[k]
      /\ {f[j] : j \in 1 .. n} = Inputs[p]
  BY SortedPlaces, PegoutManagerAssumption DEF Ascending
<1> HIDE DEF f, n
<1>2. i \in 1 .. n
  BY DEF n
<1>3. ASSUME NEW j \in 1 .. n PROVE f[j] < f[i] <=> j < i
  <2>1. f[j] \in Nat /\ f[i] \in Nat /\ i \in Nat /\ j \in Nat
    BY <1>1, <1>2
  <2>2. CASE j < i
    BY <1>1, <1>2, <2>2
  <2>3. CASE i < j
    BY <1>1, <1>2, <2>1, <2>3
  <2>4. CASE i = j
    BY <2>1, <2>4
  <2> QED BY <2>1, <2>2, <2>3, <2>4
<1>4. ASSUME NEW j \in 1 .. i - 1 PROVE j \in 1 .. n /\ g[j] = f[j] /\ g[j] \in T
  <2>1. j \in 1 .. n /\ j < i
    BY <1>1, <1>2
  <2> QED BY <1>1, <1>3, <2>1
<1>5. g \in [1 .. i - 1 -> T]
  BY <1>4
<1>6. ASSUME NEW j \in 1 .. i - 1, NEW k \in 1 .. i - 1, g[j] = g[k] PROVE j = k
  <2>1. j \in 1 .. n /\ k \in 1 .. n /\ f[j] = f[k] /\ f[j] \in Nat /\ f[k] \in Nat
    BY <1>1, <1>4, <1>6
  <2>2. ~(j < k) /\ ~(k < j)
    BY <1>1, <2>1
  <2> QED BY <1>1, <2>1, <2>2
<1>7. ASSUME NEW u \in T PROVE \E j \in 1 .. i - 1 : g[j] = u
  <2>1. PICK j \in 1 .. n : f[j] = u
    BY <1>1
  <2>2. j < i /\ j \in 1 .. i - 1
    BY <1>1, <1>2, <1>3, <2>1
  <2> QED BY <1>4, <2>1, <2>2
<1>8. g \in Bijection(1 .. i - 1, T)
  <2> HIDE DEF g, T
  <2> QED BY <1>5, <1>6, <1>7 DEF Bijection, Injection, Surjection, IsInjective
<1>9. i - 1 \in Int /\ i - 1 >= 0
  BY <1>1, <1>2
<1>10. IsFiniteSet(1 .. i - 1) /\ Cardinality(1 .. i - 1) = i - 1
  BY <1>9, FS_Interval
<1> HIDE DEF g, T
<1>11. Cardinality(T) = i - 1
  BY <1>8, <1>10, FS_Bijection DEF ExistsBijection
<1> QED BY <1>11 DEF T, f

\* What the oracles sign under an index is the input the indexer finds at its place.
LEMMA PlacesAgree ==
  ASSUME NEW p \in Pegouts, NEW i \in 1 .. Count(p)
  PROVE  SignedInput(p, i - 1) = SortedInputs(p)[i]
<1> DEFINE f == SortedInputs(p)
           t == SignedInput(p, i - 1)
<1>1. Count(p) \in Nat /\ f[i] \in Inputs[p] /\ {f[j] : j \in 1 .. Count(p)} = Inputs[p]
  BY SortedPlaces
<1>2. t \in Inputs[p] /\ Cardinality({u \in Inputs[p] : u < t}) = i - 1
  BY <1>1, SmallerInputs DEF SignedInput
<1> HIDE DEF f, t
<1>3. PICK j \in 1 .. Count(p) : f[j] = t
  BY <1>1, <1>2
<1>4. j - 1 = i - 1
  BY <1>2, <1>3, SmallerInputs DEF f
<1>5. i = j
  BY <1>1, <1>4
<1> QED BY <1>3, <1>5 DEF f, t

LEMMA InputIsSigned ==
  ASSUME NEW p \in Pegouts, NEW i \in Indices(p)
  PROVE  SignedInput(p, i) \in Inputs[p]
<1>1. i + 1 \in 1 .. Count(p) /\ (i + 1) - 1 = i
  BY SortedPlaces DEF Indices
<1>2. SignedInput(p, i) = SortedInputs(p)[i + 1]
  BY <1>1, PlacesAgree
<1> QED BY <1>1, <1>2, SortedPlaces

-----------------------------------------------------------------------------
(* The invariant of the indexer's two loops.                                *)

\* The functions TypeOK describes point by point.
Domains == DOMAIN sigs = Pegouts /\ DOMAIN raw = Pegouts /\ DOMAIN block = Pegouts

\* Rows and the cycles that hold them.
RowFieldsInv ==
  \A p \in Pegouts :
    /\ toSend[p] # None => status[p] = "SIGNED"
    /\ status[p] \in {"SIGNED", "CONFIRMED"} <=> raw[p] # None
    /\ hash[p] # "" => status[p] = "CONFIRMED"

\* Rows and the node.
NodeInv ==
  \A p \in Pegouts :
    /\ chain[p] # "unknown" => p \in known
    /\ p \in known => raw[p] # None
    /\ status[p] = "CONFIRMED" => p \in known

\* Without a loss, what is sent or given up is not known to the node.
SentInv ==
  \A p \in Pegouts :
    /\ p \in excluded => toSend[p] = None
    /\ losses = 0 /\ toSend[p] = "send" => chain[p] = "unknown"
    /\ losses = 0 /\ p \in excluded => chain[p] = "unknown"

ManagerInv == TypeOK /\ Domains /\ RowFieldsInv /\ NodeInv /\ SentInv

\* What TypeOK says of the signatures, and of those the signing cycle reads.
SigsOK(p) ==
  sigs[p] = None \/ (DOMAIN sigs[p] \subseteq Indices(p) /\ sigs[p] \in [DOMAIN sigs[p] -> Inputs[p]])
BlockOK(p) == block[p] # None => /\ sigs[p] # None
                                 /\ DOMAIN block[p] \subseteq DOMAIN sigs[p]
                                 /\ block[p] = Restrict(sigs[p], DOMAIN block[p])

LEMMA ManagerParts == ASSUME TypeOK, NEW p \in Pegouts PROVE SigsOK(p) /\ BlockOK(p)
BY DEF TypeOK, SigsOK, BlockOK

LEMMA ManagerInit == Init => ManagerInv
<1> SUFFICES ASSUME Init PROVE ManagerInv
  OBVIOUS
<1>1. Domains
  BY DEF Init, Domains
<1>2. TypeOK
  <2>1. CountersOK
    BY CountersStart DEF Init
  <2>2. \A p \in Pegouts : sigs[p] = None /\ raw[p] = None /\ block[p] = None
    BY DEF Init
  <2>3. /\ chain = [p \in Pegouts |-> "unknown"] /\ known = {} /\ old = {} /\ refused \subseteq Pegouts
        /\ status = [p \in Pegouts |-> None] /\ hash = [p \in Pegouts |-> ""]
        /\ toSign = {} /\ toSend = [p \in Pegouts |-> None] /\ excluded = {}
    BY PegoutManagerAssumption DEF Init
  <2>4. \A p \in Pegouts : SigsOK(p) /\ BlockOK(p)
    BY <2>2 DEF SigsOK, BlockOK
  <2> QED BY <2>1, <2>2, <2>3, <2>4 DEF TypeOK, CountersOK, SigsOK, BlockOK
<1>3. RowFieldsInv /\ NodeInv /\ SentInv
  BY NoneIsNoString DEF Init, RowFieldsInv, NodeInv, SentInv
<1> QED BY <1>1, <1>2, <1>3 DEF ManagerInv

\* A change of one pegout's signatures keeps the rest as it is.
LEMMA SigsStep ==
  ASSUME TypeOK, NEW p \in Pegouts, SigsOK(p)', BlockOK(p)',
         \A q \in Pegouts \ {p} : sigs'[q] = sigs[q],
         UNCHANGED <<chain, known, old, refused, status, raw, hash, toSign, block, toSend, excluded,
                     losses, evictions, restarts>>
  PROVE  TypeOK'
<1>1. \A q \in Pegouts : SigsOK(q)' /\ BlockOK(q)'
  BY ManagerParts DEF SigsOK, BlockOK
<1> QED BY <1>1 DEF TypeOK, SigsOK, BlockOK, Rows

\* A step of the world outside touches no row but that of a new event.
LEMMA OutsideStep ==
  ASSUME ManagerInv, NEW p \in Pegouts, Outside(p)
  PROVE  ManagerInv'
<1> USE NoneIsNoString DEF ManagerInv, world, table, cycles, bounds
<1>1. CASE EventWritten(p)
  <2>1. /\ UNCHANGED <<sigs, chain, known, old, refused, raw, hash, toSign, block, toSend, excluded, losses, evictions, restarts>>
        /\ status[p] = None /\ status' = [status EXCEPT ![p] = "SIGNING"]
    BY <1>1 DEF EventWritten
  <2>2. TypeOK'
    BY <2>1 DEF TypeOK, Rows
  <2>3. status'[p] = "SIGNING" /\ \A q \in Pegouts \ {p} : status'[q] = status[q]
    BY <2>1 DEF TypeOK
  <2>4. RowFieldsInv'
    BY <2>1, <2>3 DEF RowFieldsInv
  <2>5. NodeInv' /\ SentInv' /\ Domains'
    BY <2>1, <2>3 DEF NodeInv, SentInv, Domains
  <2> QED BY <2>2, <2>4, <2>5
<1>2. CASE Deploy(p)
  <2>1. /\ UNCHANGED <<chain, known, old, refused, status, raw, hash, toSign, block, toSend, excluded, losses, evictions, restarts>>
        /\ sigs[p] = None /\ sigs' = [sigs EXCEPT ![p] = <<>>]
    BY <1>2 DEF Deploy
  <2>3. Domains' /\ sigs'[p] = <<>> /\ \A q \in Pegouts \ {p} : sigs'[q] = sigs[q]
    BY <2>1 DEF Domains
  <2>4. SigsOK(p)' /\ BlockOK(p)'
    BY <2>1, <2>3, ManagerParts DEF SigsOK, BlockOK
  <2>2. TypeOK' /\ Domains'
    BY <2>1, <2>3, <2>4, SigsStep
  <2> QED BY <2>1, <2>2 DEF RowFieldsInv, NodeInv, SentInv
<1>3. CASE Sign(p)
  <2>1. PICK i \in Indices(p) \ DOMAIN sigs[p] :
          sigs' = [sigs EXCEPT ![p] = [j \in DOMAIN @ \cup {i} |->
                                        IF j = i THEN SignedInput(p, i) ELSE @[j]]]
    BY <1>3 DEF Sign
  <2>2. /\ UNCHANGED <<chain, known, old, refused, status, raw, hash, toSign, block, toSend, excluded, losses, evictions, restarts>>
        /\ sigs[p] # None
    BY <1>3 DEF Sign
  <2> DEFINE s == [j \in DOMAIN sigs[p] \cup {i} |-> IF j = i THEN SignedInput(p, i) ELSE sigs[p][j]]
  <2>3. Domains' /\ sigs'[p] = s /\ \A q \in Pegouts \ {p} : sigs'[q] = sigs[q]
    BY <2>1, <2>2 DEF Domains
  <2>4. SigsOK(p)' /\ BlockOK(p)'
    <3>1. SigsOK(p) /\ BlockOK(p)
      BY ManagerParts
    <3>2. DOMAIN s = DOMAIN sigs[p] \cup {i} /\ \A j \in DOMAIN sigs[p] : s[j] = sigs[p][j]
      BY <2>1
    <3>3. s \in [DOMAIN s -> Inputs[p]] /\ DOMAIN s \subseteq Indices(p)
      BY <2>1, <2>2, <3>1, <3>2, InputIsSigned DEF SigsOK
    <3>4. s # None
      BY <3>3, NoneAssumption
    <3>5. SigsOK(p)'
      BY <2>3, <3>3 DEF SigsOK
    <3>6. block[p] # None => block[p] = Restrict(s, DOMAIN block[p])
      BY <2>2, <3>1, <3>2 DEF BlockOK, Restrict
    <3> HIDE DEF s
    <3>7. BlockOK(p)'
      BY <2>2, <2>3, <3>1, <3>2, <3>4, <3>6 DEF BlockOK
    <3> QED BY <3>5, <3>7
  <2>5. TypeOK'
    BY <2>2, <2>3, <2>4, SigsStep
  <2> QED BY <2>2, <2>3, <2>5 DEF RowFieldsInv, NodeInv, SentInv
<1>4. CASE GrowOld(p)
  BY <1>4 DEF GrowOld, TypeOK, Domains, RowFieldsInv, NodeInv, SentInv, Rows
<1>5. CASE Mine(p)
  <2>1. /\ UNCHANGED <<sigs, known, old, refused, status, raw, hash, toSign, block, toSend, excluded, losses, evictions, restarts>>
        /\ chain[p] = "mempool" /\ chain' = [chain EXCEPT ![p] = "block"]
    BY <1>5 DEF Mine
  <2>2. chain'[p] = "block" /\ \A q \in Pegouts \ {p} : chain'[q] = chain[q]
    BY <2>1 DEF TypeOK
  <2>3. TypeOK' /\ Domains'
    BY <2>1 DEF TypeOK, Rows, Domains
  <2>4. NodeInv' /\ SentInv'
    BY <2>1, <2>2 DEF NodeInv, SentInv
  <2> QED BY <2>1, <2>3, <2>4 DEF RowFieldsInv
<1>6. CASE Evict(p)
  <2>1. /\ UNCHANGED <<sigs, known, old, refused, status, raw, hash, toSign, block, toSend, excluded, losses, restarts>>
        /\ evictions < MaxEvictions /\ evictions' = evictions + 1
        /\ chain' = [q \in Pegouts |-> IF q = p \/ (Depends[q] = p /\ chain[q] = "mempool")
                                       THEN "unknown" ELSE chain[q]]
    BY <1>6 DEF Evict
  <2>2. \A q \in Pegouts : chain'[q] \in {"unknown", chain[q]}
    BY <2>1
  <2>3. CountersOK'
    BY <2>1, CountersStep DEF TypeOK, CountersOK
  <2>4. TypeOK' /\ Domains'
    BY <2>1, <2>3 DEF TypeOK, Rows, Domains, CountersOK
  <2>5. NodeInv' /\ SentInv'
    BY <2>1, <2>2 DEF NodeInv, SentInv
  <2> QED BY <2>1, <2>4, <2>5 DEF RowFieldsInv
<1> QED BY <1>1, <1>2, <1>3, <1>4, <1>5, <1>6 DEF Outside

-----------------------------------------------------------------------------
(* The loop over pegouts that are being signed.                             *)

\* The transaction of a pegout is built from its contract, or the row stays.
LEMMA SigningEffect ==
  ASSUME ManagerInv, NEW p \in Pegouts, HandleSigning(p)
  PROVE  /\ status[p] = "SIGNING"
         /\ \/ UNCHANGED <<status, raw>>
            \/ /\ Build(p, block[p]) # None
               /\ DOMAIN Build(p, block[p]) = 1 .. Count(p)
               /\ status' = [status EXCEPT ![p] = "SIGNED"]
               /\ raw' = [raw EXCEPT ![p] = Build(p, block[p])]
<1>1. status[p] = "SIGNING"
  BY DEF ManagerInv, TypeOK, Rows, HandleSigning
<1>2. Build(p, block[p]) # None => DOMAIN Build(p, block[p]) = 1 .. Count(p)
  BY DEF Build
<1> HIDE DEF Build
<1> QED BY <1>1, <1>2 DEF HandleSigning

LEMMA SigningStep ==
  ASSUME ManagerInv, NEW p \in Pegouts, Signing(p)
  PROVE  ManagerInv'
<1> USE NoneIsNoString DEF ManagerInv, world, table, cycles, bounds
<1>1. CASE HandleSigning(p)
  <2>1. /\ UNCHANGED <<sigs, chain, known, old, refused, hash, block, toSend, excluded, losses, evictions, restarts>>
        /\ toSign' = toSign \ {p}
    BY <1>1 DEF HandleSigning
  <2>2. CASE UNCHANGED <<status, raw>>
    BY <2>1, <2>2 DEF TypeOK, Domains, RowFieldsInv, NodeInv, SentInv, Rows
  <2>3. CASE /\ Build(p, block[p]) # None
             /\ DOMAIN Build(p, block[p]) = 1 .. Count(p)
             /\ status' = [status EXCEPT ![p] = "SIGNED"]
             /\ raw' = [raw EXCEPT ![p] = Build(p, block[p])]
    <3>1. /\ status'[p] = "SIGNED" /\ raw'[p] # None /\ DOMAIN raw'[p] = 1 .. Count(p)
          /\ \A q \in Pegouts \ {p} : status'[q] = status[q] /\ raw'[q] = raw[q]
      BY <2>3 DEF TypeOK, Domains
    <3>2. status[p] = "SIGNING"
      BY <1>1, SigningEffect
    <3>3. status' \in [Pegouts -> {None, "SIGNING", "SIGNED", "CONFIRMED"}] /\ Domains'
      BY <2>1, <2>3 DEF TypeOK, Domains
    <3>4. TypeOK'
      BY <2>1, <3>1, <3>2, <3>3 DEF TypeOK, Rows
    <3>5. RowFieldsInv' /\ NodeInv' /\ SentInv'
      BY <2>1, <3>1, <3>2 DEF RowFieldsInv, NodeInv, SentInv
    <3> QED BY <3>3, <3>4, <3>5
  <2> QED BY <1>1, <2>2, <2>3, SigningEffect
<1>2. CASE HandleSigningFails(p)
  <2>1. /\ UNCHANGED <<sigs, chain, known, old, refused, status, raw, hash, block, toSend, excluded, evictions, restarts>>
        /\ losses < MaxLosses /\ losses' = losses + 1
        /\ toSign' = toSign \ {p}
    BY <1>2 DEF HandleSigningFails
  <2>2. CountersOK' /\ (losses' = 0 => losses = 0)
    BY <2>1, CountersStep DEF TypeOK, CountersOK
  <2>3. TypeOK' /\ Domains'
    BY <2>1, <2>2 DEF TypeOK, Domains, Rows, CountersOK
  <2> QED BY <2>1, <2>2, <2>3 DEF RowFieldsInv, NodeInv, SentInv
<1> QED BY <1>1, <1>2 DEF Signing

-----------------------------------------------------------------------------
(* The loop over signed pegouts.                                            *)

\* A pegout in that loop is signed and was not given up.
LEMMA InLoop ==
  ASSUME ManagerInv, NEW p \in Pegouts, toSend[p] # None
  PROVE  status[p] = "SIGNED" /\ raw[p] # None /\ p \notin excluded /\ p \notin toSign
BY DEF ManagerInv, RowFieldsInv, SentInv, TypeOK, Rows

LEMMA SendingStep ==
  ASSUME ManagerInv, NEW p \in Pegouts, Sending(p)
  PROVE  ManagerInv'
<1> USE NoneIsNoString DEF ManagerInv, world, table, cycles, bounds
<1>0. /\ toSend[p] # None
      /\ UNCHANGED <<sigs, old, refused, raw, toSign, block, evictions, restarts>>
  BY DEF Sending, Lookup, LookupFails, UpdateFails, SendAccepted, SendKnown, SendRefused, SendFails
<1>1. status[p] = "SIGNED" /\ raw[p] # None /\ p \notin excluded /\ p \notin toSign
  BY <1>0, InLoop
<1>2. CASE Lookup(p)
  <2>1. UNCHANGED <<chain, known, excluded, losses>>
    BY <1>2 DEF Lookup
  <2>2. CASE Found(p)
    <3>1. /\ status' = [status EXCEPT ![p] = "CONFIRMED"]
          /\ hash' = [hash EXCEPT ![p] = IF chain[p] = "block" THEN "block" ELSE ""]
          /\ toSend' = [toSend EXCEPT ![p] = None]
      BY <1>2, <2>2 DEF Lookup
    <3>2. /\ status'[p] = "CONFIRMED" /\ toSend'[p] = None
          /\ \A q \in Pegouts \ {p} : status'[q] = status[q] /\ hash'[q] = hash[q] /\ toSend'[q] = toSend[q]
      BY <3>1 DEF TypeOK
    <3>3. /\ status' \in [Pegouts -> {None, "SIGNING", "SIGNED", "CONFIRMED"}]
          /\ hash' \in [Pegouts -> {"", "block"}]
          /\ toSend' \in [Pegouts -> {None, "lookup", "send"}]
      BY <3>1 DEF TypeOK
    <3>4. TypeOK' /\ Domains'
      <4>0. toSign \subseteq Rows("SIGNING") /\ excluded \subseteq Rows("SIGNED")
        BY DEF TypeOK
      <4>1. toSign' \subseteq Rows("SIGNING")' /\ excluded' \subseteq Rows("SIGNED")'
        <5>1. toSign' = toSign /\ excluded' = excluded
          BY <1>0, <2>1
        <5>2. \A q \in Pegouts : q # p => status'[q] = status[q]
          BY <3>2
        <5> QED BY <1>1, <4>0, <5>1, <5>2 DEF Rows
      <4>2. TypeOK'
        BY <1>0, <2>1, <3>3, <4>1 DEF TypeOK
      <4>3. Domains'
        BY <1>0 DEF Domains
      <4> QED BY <4>2, <4>3
    <3>5. RowFieldsInv'
      BY <1>0, <1>1, <3>2 DEF RowFieldsInv
    <3>6. NodeInv'
      BY <1>0, <1>1, <2>1, <2>2, <3>2 DEF NodeInv, Found
    <3>7. SentInv'
      BY <1>1, <2>1, <3>2 DEF SentInv
    <3> QED BY <3>4, <3>5, <3>6, <3>7
  <2>3. CASE ~Found(p)
    <3>1. /\ UNCHANGED <<status, hash>> /\ toSend' = [toSend EXCEPT ![p] = "send"]
      BY <1>2, <2>3 DEF Lookup
    <3>2. toSend'[p] = "send" /\ \A q \in Pegouts \ {p} : toSend'[q] = toSend[q]
      BY <3>1 DEF TypeOK
    <3>3. TypeOK' /\ Domains'
      BY <1>0, <2>1, <3>1 DEF TypeOK, Rows, Domains
    <3>4. RowFieldsInv' /\ NodeInv'
      BY <1>0, <1>1, <2>1, <3>1, <3>2 DEF RowFieldsInv, NodeInv
    <3>5. SentInv'
      BY <1>0, <1>1, <2>1, <2>3, <3>1, <3>2 DEF SentInv, NodeInv, Found
    <3> QED BY <3>3, <3>4, <3>5
  <2> QED BY <2>2, <2>3
<1>3. CASE LookupFails(p) \/ UpdateFails(p) \/ SendKnown(p)
  <2>1. /\ UNCHANGED <<chain, known, status, hash, excluded>>
        /\ losses' = losses \/ (losses < MaxLosses /\ losses' = losses + 1)
        /\ \/ toSend' = [toSend EXCEPT ![p] = None]
           \/ toSend' = [toSend EXCEPT ![p] = "send"] /\ losses' = losses + 1
    BY <1>3 DEF LookupFails, UpdateFails, SendKnown
  <2>2. CountersOK' /\ (losses' = 0 => losses = 0) /\ (losses' = losses + 1 => losses' # 0)
    BY <1>0, <2>1, CountersStep DEF TypeOK, CountersOK
  <2>3. PICK next \in {None, "send"} :
          toSend' = [toSend EXCEPT ![p] = next] /\ (next = "send" => losses' # 0)
    BY <2>1, <2>2
  <2>4. toSend'[p] = next /\ \A q \in Pegouts \ {p} : toSend'[q] = toSend[q]
    BY <2>3 DEF TypeOK
  <2>5. TypeOK' /\ Domains'
    BY <1>0, <2>1, <2>3, <2>2 DEF TypeOK, Rows, Domains, CountersOK
  <2>6. RowFieldsInv' /\ NodeInv'
    BY <1>0, <1>1, <2>1, <2>3, <2>4 DEF RowFieldsInv, NodeInv
  <2>7. SentInv'
    BY <1>1, <2>1, <2>2, <2>3, <2>4 DEF SentInv
  <2> QED BY <2>5, <2>6, <2>7
<1>4. CASE SendAccepted(p) \/ SendFails(p)
  <2>1. /\ UNCHANGED <<status, hash, excluded>>
        /\ losses' = losses \/ (losses < MaxLosses /\ losses' = losses + 1)
        /\ toSend' = [toSend EXCEPT ![p] = None]
        /\ UNCHANGED <<chain, known>> \/ Accept(p)
    BY <1>4 DEF SendAccepted, SendFails
  <2>2. toSend'[p] = None /\ \A q \in Pegouts \ {p} : toSend'[q] = toSend[q]
    BY <2>1 DEF TypeOK
  <2>3. /\ \A q \in Pegouts \ {p} : chain'[q] = chain[q]
        /\ chain'[p] = chain[p] \/ p \in known'
        /\ chain' \in [Pegouts -> {"unknown", "mempool", "block"}]
        /\ known \subseteq known' /\ known' \subseteq known \cup {p}
    BY <2>1 DEF Accept, TypeOK
  <2>4. CountersOK' /\ (losses' = 0 => losses = 0)
    BY <1>0, <2>1, CountersStep DEF TypeOK, CountersOK
  <2>5. TypeOK' /\ Domains'
    BY <1>0, <2>1, <2>3, <2>4 DEF TypeOK, Rows, Domains, CountersOK
  <2>6. RowFieldsInv' /\ NodeInv'
    BY <1>0, <1>1, <2>1, <2>2, <2>3 DEF RowFieldsInv, NodeInv
  <2>7. SentInv'
    BY <1>1, <2>1, <2>2, <2>3, <2>4 DEF SentInv
  <2> QED BY <2>5, <2>6, <2>7
<1>5. CASE SendRefused(p)
  <2>1. /\ UNCHANGED <<chain, known, status, hash, losses>>
        /\ toSend[p] = "send" /\ toSend' = [toSend EXCEPT ![p] = None]
        /\ excluded' \in {excluded, excluded \cup {p}}
    BY <1>5 DEF SendRefused
  <2>2. toSend'[p] = None /\ \A q \in Pegouts \ {p} : toSend'[q] = toSend[q]
    BY <2>1 DEF TypeOK
  <2>3. TypeOK' /\ Domains'
    BY <1>0, <1>1, <2>1 DEF TypeOK, Rows, Domains
  <2>4. RowFieldsInv' /\ NodeInv' /\ SentInv'
    <3>1. RowFieldsInv' /\ NodeInv'
      BY <1>0, <1>1, <2>1, <2>2 DEF RowFieldsInv, NodeInv
    <3>2. SentInv'
      BY <1>0, <1>1, <2>1, <2>2 DEF SentInv
    <3> QED BY <3>1, <3>2
  <2> QED BY <2>3, <2>4
<1> QED BY <1>2, <1>3, <1>4, <1>5 DEF Sending

LEMMA OthersStep ==
  ASSUME ManagerInv, QuerySigning \/ QuerySigned \/ Restart \/ UNCHANGED vars
  PROVE  ManagerInv'
<1> USE NoneIsNoString DEF ManagerInv, world, table, cycles, bounds
<1>1. CASE QuerySigning
  <2>1. /\ UNCHANGED <<sigs, chain, known, old, refused, status, raw, hash, toSend, excluded, losses, evictions, restarts>>
        /\ toSign' \subseteq Rows("SIGNING") /\ block' = sigs
    BY <1>1, BatchesAreRows DEF QuerySigning
  <2>2. \A p \in Pegouts : block'[p] # None => /\ sigs'[p] # None
                                               /\ DOMAIN block'[p] \subseteq DOMAIN sigs'[p]
                                               /\ block'[p] = Restrict(sigs'[p], DOMAIN block'[p])
    <3> SUFFICES ASSUME NEW p \in Pegouts, sigs[p] # None
                 PROVE  sigs[p] = Restrict(sigs[p], DOMAIN sigs[p])
      BY <2>1
    <3>1. sigs[p] \in [DOMAIN sigs[p] -> Inputs[p]]
      BY ManagerParts DEF SigsOK
    <3> QED BY <3>1 DEF Restrict
  <2> QED BY <2>1, <2>2 DEF TypeOK, Domains, RowFieldsInv, NodeInv, SentInv, Rows
<1>2. CASE QuerySigned
  <2>1. UNCHANGED <<sigs, chain, known, old, refused, status, raw, hash, toSign, block, excluded, losses, evictions, restarts>>
    BY <1>2 DEF QuerySigned
  <2>2. PICK batch \in Batches(Pending) : toSend' = [p \in Pegouts |-> IF p \in batch THEN "lookup" ELSE None]
    BY <1>2 DEF QuerySigned
  <2>3. batch \subseteq Pending
    BY BatchesAreRows
  <2>4. \A p \in Pegouts : toSend'[p] # None => status[p] = "SIGNED" /\ p \notin excluded /\ toSend'[p] # "send"
    BY <2>2, <2>3 DEF Pending, Rows
  <2>5. TypeOK' /\ Domains'
    BY <2>1, <2>2 DEF TypeOK, Domains, Rows
  <2>6. RowFieldsInv' /\ NodeInv' /\ SentInv'
    BY <2>1, <2>4 DEF RowFieldsInv, NodeInv, SentInv
  <2> QED BY <2>5, <2>6
<1>3. CASE Restart
  <2>1. /\ UNCHANGED <<sigs, chain, known, old, refused, status, raw, hash, block, losses, evictions>>
        /\ toSign' = {} /\ excluded' = {} /\ toSend' = [p \in Pegouts |-> None]
        /\ restarts < MaxRestarts /\ restarts' = restarts + 1
    BY <1>3 DEF Restart
  <2>2. CountersOK'
    BY <2>1, CountersStep DEF TypeOK, CountersOK
  <2>3. TypeOK' /\ Domains'
    BY <2>1, <2>2 DEF TypeOK, Domains, Rows, CountersOK
  <2> QED BY <2>1, <2>3 DEF RowFieldsInv, NodeInv, SentInv
<1>4. CASE UNCHANGED vars
  BY <1>4 DEF vars, TypeOK, Domains, RowFieldsInv, NodeInv, SentInv, Rows
<1> QED BY <1>1, <1>2, <1>3, <1>4

LEMMA ManagerStep == ASSUME ManagerInv, [Next]_vars PROVE ManagerInv'
BY OutsideStep, SigningStep, SendingStep, OthersStep DEF Next

LEMMA ManagerAlways == Spec => []ManagerInv
BY ManagerInit, ManagerStep, PTL DEF Spec

\* Where a row can go in one step, and what goes with it.
Advances(p) ==
  \/ UNCHANGED <<status[p], raw[p], hash[p]>>
  \/ status[p] = None /\ status'[p] = "SIGNING" /\ UNCHANGED <<raw[p], hash[p]>>
  \/ status[p] = "SIGNING" /\ status'[p] = "SIGNED" /\ UNCHANGED hash[p]
  \/ status[p] = "SIGNED" /\ status'[p] = "CONFIRMED" /\ UNCHANGED raw[p]

LEMMA RowsAdvance ==
  ASSUME ManagerInv, [Next]_vars
  PROVE  \A p \in Pegouts : Advances(p)
<1> USE DEF world, table, cycles, bounds
<1>0. ManagerInv /\ TypeOK /\ Domains
  BY DEF ManagerInv
<1>1. CASE UNCHANGED <<status, raw, hash>>
  BY <1>1 DEF Advances
<1>2. ASSUME NEW p \in Pegouts, EventWritten(p) PROVE \A q \in Pegouts : Advances(q)
  BY <1>0, <1>2 DEF EventWritten, Advances, TypeOK
<1>3. ASSUME NEW p \in Pegouts, HandleSigning(p) PROVE \A q \in Pegouts : Advances(q)
  <2>1. status[p] = "SIGNING" /\ hash' = hash
    BY <1>0, <1>3, SigningEffect DEF HandleSigning
  <2>2. CASE UNCHANGED <<status, raw>>
    BY <1>1, <2>1, <2>2
  <2>3. CASE /\ status' = [status EXCEPT ![p] = "SIGNED"]
             /\ raw' = [raw EXCEPT ![p] = Build(p, block[p])]
    <3>1. status'[p] = "SIGNED" /\ \A q \in Pegouts \ {p} : status'[q] = status[q] /\ raw'[q] = raw[q]
      BY <1>0, <2>3 DEF TypeOK, Domains
    <3> QED BY <2>1, <3>1 DEF Advances
  <2> QED BY <1>0, <1>3, <2>2, <2>3, SigningEffect
<1>4. ASSUME NEW p \in Pegouts, Lookup(p) PROVE \A q \in Pegouts : Advances(q)
  <2>1. status[p] = "SIGNED" /\ raw' = raw
    BY <1>0, <1>4, InLoop, NoneIsNoString DEF Lookup
  <2>2. CASE UNCHANGED <<status, hash>>
    BY <1>1, <2>1, <2>2
  <2>3. CASE ~UNCHANGED <<status, hash>>
    <3>1. /\ status' = [status EXCEPT ![p] = "CONFIRMED"]
          /\ \A q \in Pegouts \ {p} : hash'[q] = hash[q]
      BY <1>0, <1>4, <2>3 DEF Lookup, TypeOK
    <3>2. status'[p] = "CONFIRMED" /\ \A q \in Pegouts \ {p} : status'[q] = status[q]
      BY <1>0, <3>1 DEF TypeOK
    <3> QED BY <2>1, <3>1, <3>2 DEF Advances
  <2> QED BY <2>2, <2>3
<1>5. ASSUME NEW p \in Pegouts, Outside(p), ~EventWritten(p) PROVE UNCHANGED <<status, raw, hash>>
  BY <1>5 DEF Outside, Deploy, Sign, GrowOld, Mine, Evict
<1>6. ASSUME NEW p \in Pegouts, HandleSigningFails(p) PROVE UNCHANGED <<status, raw, hash>>
  BY <1>6 DEF HandleSigningFails
<1>7. ASSUME NEW p \in Pegouts, Sending(p), ~Lookup(p) PROVE UNCHANGED <<status, raw, hash>>
  BY <1>7 DEF Sending, LookupFails, UpdateFails, SendAccepted, SendKnown, SendRefused, SendFails
<1>8. ASSUME QuerySigning \/ QuerySigned \/ Restart \/ UNCHANGED vars PROVE UNCHANGED <<status, raw, hash>>
  BY <1>8 DEF QuerySigning, QuerySigned, Restart, vars
<1> QED BY <1>1, <1>2, <1>3, <1>4, <1>5, <1>6, <1>7, <1>8 DEF Next, Signing

LEMMA Ranks ==
  Rank(None) = 0 /\ Rank("SIGNING") = 1 /\ Rank("SIGNED") = 2 /\ Rank("CONFIRMED") = 3
BY NoneIsNoString DEF Rank

LEMMA AdvancesKeeps ==
  ASSUME ManagerInv, NEW p \in Pegouts, Advances(p)
  PROVE  /\ Rank(status'[p]) >= Rank(status[p])
         /\ raw[p] # None => raw'[p] = raw[p]
         /\ status[p] = "CONFIRMED" => hash'[p] = hash[p]
<1>1. /\ status[p] \in {None, "SIGNING", "SIGNED", "CONFIRMED"}
      /\ status[p] = "SIGNING" => raw[p] = None
  BY NoneIsNoString DEF ManagerInv, TypeOK, RowFieldsInv
<1>2. Rank(status'[p]) >= Rank(status[p])
  <2>1. CASE status'[p] = status[p]
    BY <1>1, <2>1, Ranks
  <2>2. CASE status'[p] # status[p]
    BY <2>2, Ranks DEF Advances
  <2> QED BY <2>1, <2>2
<1> QED BY <1>1, <1>2, NoneIsNoString DEF Advances

\* StatusAdvances: no step of either loop takes a row back, replaces a transaction
\* that may be on its way, or changes the block of a confirmed row.
THEOREM RowsOnlyAdvance == Spec => StatusAdvances
<1>1. ManagerInv /\ [Next]_vars =>
      [\A p \in Pegouts :
         /\ Rank(status'[p]) >= Rank(status[p])
         /\ raw[p] # None => raw'[p] = raw[p]
         /\ status[p] = "CONFIRMED" => hash'[p] = hash[p]]_vars
  BY RowsAdvance, AdvancesKeeps
<1> QED BY <1>1, ManagerAlways, PTL DEF Spec, StatusAdvances

-----------------------------------------------------------------------------
(* The alerts.                                                              *)

LEMMA AlertsOnlyWatch == AlertSpec => Spec
<1>1. AlertInit => Init
  BY DEF AlertInit
<1>2. [AlertNext]_allVars => [Next]_vars
  BY DEF AlertNext, Indexer, Tick, CheckMempool, CheckFee, AlertRestart, allVars
<1> QED BY <1>1, <1>2, PTL DEF AlertSpec, Spec

\* Every row is at one place of ids.
IdsInv ==
  /\ ids \in Seq(Pegouts)
  /\ \A i, j \in 1 .. Len(ids) : ids[i] = ids[j] => i = j
  /\ {ids[i] : i \in 1 .. Len(ids)} = {p \in Pegouts : status[p] # None}

\* What the alert follows was signed at least as long ago as it says.
FollowedInv ==
  /\ toCheck # None => /\ lastId \in 1 .. Len(ids)
                       /\ ids[lastId] = toCheck
                       /\ status[toCheck] \in {"SIGNED", "CONFIRMED"}
                       /\ waited <= signedFor[toCheck]
  /\ toCheck \in Pegouts \cup {None}
  /\ lastId \in 0 .. Len(ids)
  /\ waited \in 0 .. Crit
  /\ signedFor \in [Pegouts -> 0 .. Crit]

SeverityInv ==
  /\ checked \in BOOLEAN
  /\ mempool \in {"OK", "WARNING", "CRITICAL"}
  /\ fee \in {"OK", "CRITICAL"}
  /\ alertFaults \in 0 .. MaxAlertFaults

AlertInv == IdsInv /\ FollowedInv /\ SeverityInv

LEMMA AlertBounds ==
  /\ Warn \in Nat /\ Crit \in Nat /\ MaxAlertFaults \in Nat /\ 0 < Warn /\ Warn < Crit
BY MetricsPegoutsAssumption

LEMMA LaterType == ASSUME NEW n \in 0 .. Crit PROVE Later(n) \in 0 .. Crit
BY AlertBounds DEF Later

LEMMA LaterMonotone ==
  ASSUME NEW m \in 0 .. Crit, NEW n \in 0 .. Crit, m <= n
  PROVE  Later(m) <= Later(n)
BY AlertBounds DEF Later

LEMMA AlertStarts == AlertInit => AlertInv
<1> SUFFICES ASSUME AlertInit PROVE AlertInv
  OBVIOUS
<1>1. IdsInv
  <2>1. ids = <<>> /\ \A p \in Pegouts : status[p] = None
    BY DEF AlertInit, Init
  <2> QED BY <2>1 DEF IdsInv
<1>2. FollowedInv
  <2>1. /\ toCheck = None /\ lastId = 0 /\ waited = 0 /\ ids = <<>>
        /\ signedFor = [p \in Pegouts |-> 0]
    BY DEF AlertInit
  <2> QED BY <2>1, AlertBounds DEF FollowedInv
<1>3. SeverityInv
  <2>1. alertFaults \in 0 .. MaxAlertFaults
    <3>1. alertFaults = 0
      BY DEF AlertInit
    <3> QED BY <3>1, AlertBounds
  <2>2. checked \in BOOLEAN /\ mempool = "OK" /\ fee = "OK"
    BY Zenon DEF AlertInit
  <2> QED BY <2>1, <2>2, Zenon DEF SeverityInv
<1> QED BY <1>1, <1>2, <1>3 DEF AlertInv

\* A step of the indexer adds at most one row.
LEMMA OneNewRow ==
  ASSUME ManagerInv, Next
  PROVE  New = {} \/ \E p \in Pegouts : New = {p}
<1> USE DEF world, table, cycles, bounds
<1>1. CASE \E p \in Pegouts : EventWritten(p)
  <2>1. PICK p \in Pegouts : EventWritten(p)
    BY <1>1
  <2>2. \A q \in Pegouts \ {p} : status'[q] = status[q]
    BY <2>1 DEF EventWritten, ManagerInv, TypeOK
  <2> QED BY <2>2 DEF New
<1>2. CASE ~ \E p \in Pegouts : EventWritten(p)
  <2>1. \A p \in Pegouts : status[p] = None => status'[p] = None
    <3>1. ASSUME NEW p \in Pegouts, Outside(p) \/ HandleSigningFails(p) \/ (Sending(p) /\ ~Lookup(p))
          PROVE  status' = status
      BY <1>2, <3>1 DEF Outside, Deploy, Sign, GrowOld, Mine, Evict, HandleSigningFails, Sending,
             LookupFails, UpdateFails, SendAccepted, SendKnown, SendRefused, SendFails
    <3>2. ASSUME NEW p \in Pegouts, HandleSigning(p)
          PROVE  status[p] = "SIGNING" /\ (status' = status \/ status' = [status EXCEPT ![p] = "SIGNED"])
      BY <3>2, SigningEffect
    <3>3. ASSUME NEW p \in Pegouts, Lookup(p)
          PROVE  status[p] = "SIGNED" /\ (status' = status \/ status' = [status EXCEPT ![p] = "CONFIRMED"])
      BY <3>3, InLoop, NoneIsNoString DEF Lookup
    <3>4. CASE \E p \in Pegouts : HandleSigning(p) \/ Lookup(p)
      BY <3>2, <3>3, <3>4, NoneIsNoString DEF ManagerInv, TypeOK
    <3>5. ASSUME QuerySigning \/ QuerySigned \/ Restart PROVE status' = status
      BY <3>5 DEF QuerySigning, QuerySigned, Restart
    <3> QED BY <3>1, <3>4, <3>5 DEF Next, Signing
  <2> QED BY <2>1 DEF New
<1> QED BY <1>1, <1>2

LEMMA SequenceOfRows ==
  /\ SetToSeq({}) = <<>>
  /\ \A p : SetToSeq({p}) = <<p>>
<1>1. SetToSeq({}) = <<>>
  <2>1. Cardinality({}) = 0
    BY FS_EmptySet
  <2>2. SetToSeq({}) = CHOOSE f \in [1 .. 0 -> {}] : IsInjective(f)
    BY <2>1 DEF SetToSeq
  <2>3. <<>> \in [1 .. 0 -> {}] /\ IsInjective(<<>>)
    BY DEF IsInjective
  <2>4. \A f \in [1 .. 0 -> {}] : f = <<>>
    OBVIOUS
  <2> QED BY <2>2, <2>3, <2>4
<1>2. ASSUME NEW p PROVE SetToSeq({p}) = <<p>>
  <2>1. Cardinality({p}) = 1
    BY FS_Singleton
  <2>2. SetToSeq({p}) = CHOOSE f \in [1 .. 1 -> {p}] : IsInjective(f)
    BY <2>1 DEF SetToSeq
  <2>3. <<p>> \in [1 .. 1 -> {p}] /\ IsInjective(<<p>>)
    BY DEF IsInjective
  <2>4. \A f \in [1 .. 1 -> {p}] : f = <<p>>
    OBVIOUS
  <2> QED BY <2>2, <2>3, <2>4
<1> QED BY <1>1, <1>2

LEMMA IndexerKeeps ==
  ASSUME ManagerInv, AlertInv, Indexer
  PROVE  AlertInv'
<1>0. /\ Next /\ ids' = ids \o SetToSeq(New)
      /\ UNCHANGED <<toCheck, lastId, waited, mempool, fee, checked, signedFor, alertFaults>>
  BY DEF Indexer, alert
<1>1. ids \in Seq(Pegouts) /\ IdsInv /\ FollowedInv
  BY DEF AlertInv, IdsInv
<1>2. \A p \in Pegouts : Advances(p)
  BY <1>0, RowsAdvance
<1>3. {p \in Pegouts : status'[p] # None} = {p \in Pegouts : status[p] # None} \cup New
  BY <1>2, NoneIsNoString DEF Advances, New
<1>4. IdsInv' /\ Len(ids) <= Len(ids') /\ \A i \in 1 .. Len(ids) : ids'[i] = ids[i]
  <2>1. CASE New = {}
    <3>1. ids' = ids
      BY <1>0, <1>1, <2>1, SequenceOfRows
    <3> QED BY <1>1, <1>3, <2>1, <3>1 DEF IdsInv
  <2>2. CASE \E p \in Pegouts : New = {p}
    <3>1. PICK p \in Pegouts : New = {p}
      BY <2>2
    <3>2. ids' = ids \o <<p>>
      BY <1>0, <3>1, SequenceOfRows
    <3>3. status[p] = None
      BY <3>1 DEF New
    <3>4. /\ ids' \in Seq(Pegouts) /\ Len(ids') = Len(ids) + 1
          /\ \A i \in 1 .. Len(ids) : ids'[i] = ids[i]
          /\ ids'[Len(ids) + 1] = p
      BY <1>1, <3>2
    <3>5. \A i \in 1 .. Len(ids) : ids[i] # p
      BY <1>1, <3>3 DEF IdsInv
    <3>6. 1 .. Len(ids') = (1 .. Len(ids)) \cup {Len(ids) + 1} /\ Len(ids) \in Nat
      BY <1>1, <3>4
    <3>7. \A i, j \in 1 .. Len(ids') : ids'[i] = ids'[j] => i = j
      BY <1>1, <3>4, <3>5, <3>6 DEF IdsInv
    <3>8. {ids'[i] : i \in 1 .. Len(ids')} = {ids[i] : i \in 1 .. Len(ids)} \cup {p}
      BY <3>4, <3>6
    <3>9. IdsInv'
      BY <1>1, <1>3, <3>1, <3>4, <3>7, <3>8 DEF IdsInv
    <3> QED BY <3>4, <3>6, <3>9
  <2> QED BY <1>0, <2>1, <2>2, OneNewRow
<1>5. FollowedInv'
  <2>1. Len(ids) \in Nat /\ Len(ids') \in Nat
    BY <1>1, <1>4 DEF IdsInv
  <2>2. toCheck # None => status'[toCheck] \in {"SIGNED", "CONFIRMED"}
    BY <1>1, <1>2, NoneIsNoString DEF FollowedInv, Advances
  <2>3. toCheck # None => lastId \in 1 .. Len(ids') /\ ids'[lastId] = toCheck
    BY <1>1, <1>4, <2>1 DEF FollowedInv
  <2>4. lastId \in 0 .. Len(ids')
    BY <1>1, <1>4, <2>1 DEF FollowedInv
  <2> QED BY <1>0, <1>1, <2>2, <2>3, <2>4 DEF FollowedInv
<1>6. SeverityInv'
  BY <1>0, Zenon DEF AlertInv, SeverityInv
<1> QED BY <1>4, <1>5, <1>6 DEF AlertInv

LEMMA TickKeeps ==
  ASSUME ManagerInv, AlertInv, Tick
  PROVE  AlertInv'
<1>1. /\ UNCHANGED <<status, ids, toCheck, lastId>>
      /\ waited' = Later(waited)
      /\ signedFor' = [p \in Pegouts |->
                        IF status[p] \in {"SIGNED", "CONFIRMED"} THEN Later(signedFor[p]) ELSE 0]
  BY DEF Tick, vars, table
<1>2. IdsInv /\ FollowedInv
  BY DEF AlertInv
<1>3. IdsInv'
  BY <1>1, <1>2 DEF IdsInv
<1>4. waited' \in 0 .. Crit /\ signedFor' \in [Pegouts -> 0 .. Crit]
  <2>1. 0 \in 0 .. Crit
    BY AlertBounds
  <2>2. \A p \in Pegouts : Later(signedFor[p]) \in 0 .. Crit
    BY <1>2, LaterType DEF FollowedInv
  <2>3. Later(waited) \in 0 .. Crit
    BY <1>2, LaterType DEF FollowedInv
  <2> QED BY <1>1, <2>1, <2>2, <2>3
<1>5. toCheck # None => waited' <= signedFor'[toCheck]
  <2> SUFFICES ASSUME toCheck # None PROVE waited' <= signedFor'[toCheck]
    OBVIOUS
  <2>1. /\ toCheck \in Pegouts /\ status[toCheck] \in {"SIGNED", "CONFIRMED"}
        /\ waited \in 0 .. Crit /\ signedFor[toCheck] \in 0 .. Crit
        /\ waited <= signedFor[toCheck]
    BY <1>2 DEF FollowedInv
  <2>2. signedFor'[toCheck] = Later(signedFor[toCheck])
    BY <1>1, <2>1
  <2> QED BY <1>1, <2>1, <2>2, LaterMonotone
<1>6. FollowedInv'
  BY <1>1, <1>2, <1>4, <1>5 DEF FollowedInv
<1>7. SeverityInv'
  <2>1. UNCHANGED <<mempool, fee, alertFaults>> /\ checked' = FALSE
    BY DEF Tick
  <2> QED BY <2>1, Zenon DEF AlertInv, SeverityInv
<1> QED BY <1>3, <1>6, <1>7 DEF AlertInv

\* The least row id of several.
LEMMA FirstIsMember == ASSUME NEW S \in SUBSET Nat, S # {} PROVE First(S) \in S
<1>1. PICK x \in S : \A y \in S : <<y, x>> \notin OpToRel(<, Nat)
  BY NatLessThanWellFounded, WFMin, Zenon
<1>2. ASSUME NEW y \in S PROVE x <= y
  <2>1. x \in Nat /\ y \in Nat
    OBVIOUS
  <2>2. ~(y < x)
    BY <1>1, <2>1 DEF OpToRel
  <2> QED BY <2>1, <2>2
<1> QED BY <1>2 DEF First

\* What the alert follows next, if anything, has a row and is signed.
LEMMA TakenFollows ==
  ASSUME AlertInv
  PROVE  /\ Taken[2] \in 0 .. Len(ids)
         /\ Taken[3] \in 0 .. Crit
         /\ Taken[1] \in Pegouts \cup {None}
         /\ Taken[1] # None => /\ Taken[2] \in 1 .. Len(ids)
                               /\ ids[Taken[2]] = Taken[1]
                               /\ status[Taken[1]] \in {"SIGNED", "CONFIRMED"}
                               /\ Taken[3] <= signedFor[Taken[1]]
<1>0. FollowedInv /\ ids \in Seq(Pegouts) /\ Len(ids) \in Nat
  BY DEF AlertInv, IdsInv
<1>1. CASE toCheck # None
  <2>1. Taken = <<toCheck, lastId, waited>>
    BY <1>1 DEF Taken
  <2> QED BY <1>0, <1>1, <2>1 DEF FollowedInv
<1>2. CASE toCheck = None /\ Candidates = {}
  <2>1. Taken = <<None, lastId, waited>>
    BY <1>2 DEF Taken
  <2> QED BY <1>0, <2>1 DEF FollowedInv
<1>3. CASE toCheck = None /\ Candidates # {}
  <2> DEFINE k == First(Candidates)
  <2>1. Taken = <<ids[k], k, 0>>
    BY <1>3 DEF Taken
  <2>2. Candidates \subseteq Nat
    BY <1>0 DEF Candidates, LastSigned, SignedIds
  <2>3. k \in Candidates
    BY <1>3, <2>2, FirstIsMember
  <2> HIDE DEF k
  <2>4. k \in 1 .. Len(ids) /\ status[ids[k]] = "SIGNED"
    BY <1>0, <2>3 DEF Candidates, LastSigned, SignedIds
  <2>5. ids[k] \in Pegouts /\ k \in 0 .. Len(ids)
    BY <1>0, <2>4
  <2>6. 0 <= signedFor[ids[k]] /\ 0 \in 0 .. Crit
    BY <1>0, <2>5, AlertBounds DEF FollowedInv
  <2> QED BY <2>1, <2>4, <2>5, <2>6
<1> QED BY <1>1, <1>2, <1>3

\* What a question of the mempool alert does with the pegout it takes.
LEMMA MempoolEffect ==
  ASSUME AlertInv, AskNode
  PROVE  /\ lastId' = Taken[2]
         /\ waited' = Taken[3]
         /\ toCheck' \in {None, Taken[1]}
         /\ mempool' \in {"OK", Severity(Taken[3])}
         /\ alertFaults' \in 0 .. MaxAlertFaults
         /\ mempool' # "OK" =>
              /\ toCheck' = Taken[1] /\ Taken[1] # None /\ mempool' = Severity(Taken[3])
              /\ Found(Taken[1]) => alertFaults' # alertFaults
<1>0. alertFaults \in 0 .. MaxAlertFaults
  BY DEF AlertInv, SeverityInv
<1>1. CASE Taken[1] = None
  <2>1. mempool' = "OK" /\ lastId' = Taken[2] /\ waited' = Taken[3] /\ UNCHANGED <<toCheck, alertFaults>>
    BY <1>1 DEF AskNode
  <2>2. toCheck = None
    BY <1>1 DEF Taken
  <2> QED BY <1>0, <2>1, <2>2
<1>2. CASE Taken[1] # None
  <2>1. PICK answer \in Answers(Taken[1]) :
          /\ alertFaults' = IF answer = Found(Taken[1]) THEN alertFaults ELSE alertFaults + 1
          /\ toCheck' = IF answer THEN None ELSE Taken[1]
          /\ mempool' = IF answer THEN "OK" ELSE Severity(Taken[3])
    BY <1>2 DEF AskNode
  <2>2. lastId' = Taken[2] /\ waited' = Taken[3]
    BY DEF AskNode
  <2>3. answer = Found(Taken[1]) \/ (answer = FALSE /\ alertFaults < MaxAlertFaults)
    BY <2>1 DEF Answers
  <2>4. alertFaults' = alertFaults \/ (alertFaults < MaxAlertFaults /\ alertFaults' = alertFaults + 1)
    BY <2>1, <2>3
  <2>5. alertFaults' \in 0 .. MaxAlertFaults /\ alertFaults + 1 # alertFaults
    BY <1>0, <2>4, AlertBounds
  <2>6. mempool' # "OK" => ~answer
    BY <2>1
  <2>7. ~answer /\ Found(Taken[1]) => alertFaults' # alertFaults
    BY <2>1, <2>5
  <2> QED BY <1>2, <2>1, <2>2, <2>5, <2>6, <2>7
<1> QED BY <1>1, <1>2

\* What a failed query does.
LEMMA NoRowsEffect ==
  ASSUME AlertInv, NoRows
  PROVE  /\ UNCHANGED <<toCheck, lastId, waited>> /\ toCheck = None /\ mempool' = "CRITICAL"
         /\ alertFaults' \in 0 .. MaxAlertFaults /\ alertFaults' # alertFaults
<1>1. alertFaults \in 0 .. MaxAlertFaults
  BY DEF AlertInv, SeverityInv
<1> QED BY <1>1, AlertBounds DEF NoRows

\* The newest signed row has no block yet.
LEMMA FeeIsReset ==
  ASSUME ManagerInv, AlertInv, NEW deep, NEW svb
  PROVE  ~FeeNotReset(deep, svb)
<1> SUFFICES ASSUME SignedIds # {}
             PROVE  hash[ids[Newest(SignedIds)]] = ""
  BY DEF FeeNotReset
<1>0. ids \in Seq(Pegouts) /\ Len(ids) \in Nat /\ SignedIds \subseteq 1 .. Len(ids)
  BY DEF AlertInv, IdsInv, SignedIds
<1> DEFINE T == {Len(ids) - i : i \in SignedIds}
           newest == Newest(SignedIds)
<1>1. T \subseteq Nat /\ T # {}
  <2>1. ASSUME NEW i \in SignedIds PROVE Len(ids) - i \in Nat
    <3>1. i \in 1 .. Len(ids) /\ Len(ids) \in Nat
      BY <1>0
    <3> QED BY <3>1
  <2> QED BY <2>1
<1>2. PICK x \in T : \A y \in T : <<y, x>> \notin OpToRel(<, Nat)
  <2> HIDE DEF T
  <2> QED BY <1>1, NatLessThanWellFounded, WFMin, Zenon
<1>3. PICK k \in SignedIds : x = Len(ids) - k
  OBVIOUS
<1>4. ASSUME NEW j \in SignedIds PROVE j <= k
  <2>1. Len(ids) - j \in T
    OBVIOUS
  <2>2. ~(Len(ids) - j < x)
    <3> HIDE DEF T
    <3> QED BY <1>1, <1>2, <2>1 DEF OpToRel
  <2> QED BY <1>0, <1>3, <2>2
<1>5. newest \in SignedIds
  BY <1>4 DEF Newest
<1> HIDE DEF newest, T
<1>6. status[ids[newest]] = "SIGNED" /\ ids[newest] \in Pegouts
  BY <1>0, <1>5 DEF SignedIds
<1>7. hash[ids[newest]] = ""
  BY <1>6 DEF ManagerInv, RowFieldsInv
<1> QED BY <1>7 DEF newest

LEMMA CheckKeeps ==
  ASSUME ManagerInv, AlertInv, CheckMempool
  PROVE  AlertInv'
<1>0. /\ (AskNode \/ NoRows) /\ checked' = TRUE
      /\ UNCHANGED <<status, ids, fee, signedFor>>
  BY DEF CheckMempool, vars, table
<1>1. IdsInv'
  BY <1>0 DEF AlertInv, IdsInv
<1>2. FollowedInv'
  <2>1. CASE AskNode
    BY <1>0, <2>1, TakenFollows, MempoolEffect DEF AlertInv, FollowedInv
  <2>2. CASE NoRows
    BY <1>0, <2>2, NoRowsEffect DEF AlertInv, FollowedInv
  <2> QED BY <1>0, <2>1, <2>2
<1>3. mempool' \in {"OK", "WARNING", "CRITICAL"} /\ alertFaults' \in 0 .. MaxAlertFaults
  BY <1>0, MempoolEffect, NoRowsEffect DEF Severity
<1>4. SeverityInv'
  <2>1. fee \in {"OK", "CRITICAL"}
    BY DEF AlertInv, SeverityInv
  <2> QED BY <1>0, <1>3, <2>1, Zenon DEF SeverityInv
<1> QED BY <1>1, <1>2, <1>4 DEF AlertInv

LEMMA FeeCheckKeeps ==
  ASSUME AlertInv, NEW deep, NEW svb, CheckFee(deep, svb)
  PROVE  AlertInv'
<1>0. UNCHANGED <<status, ids, toCheck, lastId, waited, mempool, checked, signedFor>>
  BY DEF CheckFee, vars, table
<1>1. IdsInv' /\ FollowedInv'
  BY <1>0 DEF AlertInv, IdsInv, FollowedInv
<1>2. fee' \in {"OK", "CRITICAL"} /\ alertFaults' \in 0 .. MaxAlertFaults
  <2>1. alertFaults \in 0 .. MaxAlertFaults
    BY DEF AlertInv, SeverityInv
  <2>2. fee' \in {"OK", "CRITICAL"}
    BY DEF CheckFee
  <2>3. alertFaults' = alertFaults \/ (alertFaults < MaxAlertFaults /\ alertFaults' = alertFaults + 1)
    BY DEF CheckFee
  <2> QED BY <2>1, <2>2, <2>3, AlertBounds
<1>3. SeverityInv'
  BY <1>0, <1>2, Zenon DEF AlertInv, SeverityInv
<1> QED BY <1>1, <1>3 DEF AlertInv

LEMMA RestartKeeps ==
  ASSUME ManagerInv, AlertInv, AlertRestart
  PROVE  AlertInv'
<1>1. /\ UNCHANGED <<status, ids, checked, signedFor>>
      /\ toCheck' = None /\ lastId' = 0 /\ waited' = 0 /\ mempool' = "OK" /\ fee' = "OK"
      /\ alertFaults < MaxAlertFaults /\ alertFaults' = alertFaults + 1
  BY DEF AlertRestart, vars, table
<1>2. IdsInv'
  BY <1>1 DEF AlertInv, IdsInv
<1>3. FollowedInv'
  <2>1. Len(ids) \in Nat
    BY DEF AlertInv, IdsInv
  <2>2. 0 \in 0 .. Len(ids) /\ 0 \in 0 .. Crit
    BY <2>1, AlertBounds
  <2> QED BY <1>1, <2>2 DEF AlertInv, FollowedInv
<1>4. alertFaults' \in 0 .. MaxAlertFaults
  <2>1. alertFaults \in 0 .. MaxAlertFaults
    BY DEF AlertInv, SeverityInv
  <2> QED BY <1>1, <2>1, AlertBounds
<1>5. SeverityInv'
  BY <1>1, <1>4, Zenon DEF AlertInv, SeverityInv
<1> QED BY <1>2, <1>3, <1>5 DEF AlertInv

LEMMA AlertStutters == ASSUME AlertInv, UNCHANGED allVars PROVE AlertInv'
<1>1. UNCHANGED <<status, ids, toCheck, lastId, waited, mempool, fee, checked, signedFor, alertFaults>>
  BY DEF allVars, vars, table, alert
<1>2. IdsInv' /\ FollowedInv'
  BY <1>1 DEF AlertInv, IdsInv, FollowedInv
<1>3. SeverityInv'
  BY <1>1, Zenon DEF AlertInv, SeverityInv
<1> QED BY <1>2, <1>3 DEF AlertInv

LEMMA AlertStep == ASSUME ManagerInv, AlertInv, [AlertNext]_allVars PROVE AlertInv'
<1>1. ASSUME NEW deep \in SUBSET InBlock, NEW svb \in BOOLEAN, CheckFee(deep, svb) PROVE AlertInv'
  BY <1>1, FeeCheckKeeps
<1> QED BY <1>1, IndexerKeeps, TickKeeps, CheckKeeps, RestartKeeps, AlertStutters DEF AlertNext

LEMMA AlertAlways == AlertSpec => [](ManagerInv /\ AlertInv)
<1>1. AlertSpec => []ManagerInv
  BY AlertsOnlyWatch, ManagerAlways, PTL
<1> QED BY <1>1, AlertStarts, AlertStep, PTL DEF AlertSpec

\* PegoutsInv: rows and node are well formed; confirmed pegouts were accepted,
\* whole; a row that is not confirmed has no block; and without a lost call, only
\* what the node does not know is given up.
LEMMA PegoutsAreConsistent == Spec => []PegoutsInv
<1>1. ASSUME ManagerInv PROVE PegoutsInv
  <2>1. TypeOK /\ RowFieldsInv /\ NodeInv /\ SentInv
    BY <1>1 DEF ManagerInv
  <2>2. ConfirmedWasAccepted /\ SignedHasNoBlock
    BY <2>1 DEF ConfirmedWasAccepted, SignedHasNoBlock, NodeInv, RowFieldsInv
  <2>3. ExcludedIsUnknown
    BY <2>1 DEF ExcludedIsUnknown, SentInv, TypeOK, Rows
  <2> QED BY <2>1, <2>2, <2>3 DEF PegoutsInv
<1> QED BY <1>1, ManagerAlways, PTL

\* AlertTypeOK: row ids and what the alerts keep of them fit the table in every
\* state.
LEMMA AlertsAreTyped == AlertSpec => []AlertTypeOK
<1>1. ASSUME AlertInv PROVE AlertTypeOK
  <2>1. IdsInv /\ FollowedInv /\ SeverityInv
    BY <1>1 DEF AlertInv
  <2>2. DOMAIN ids = 1 .. Len(ids)
    BY <2>1 DEF IdsInv
  <2>3. toCheck # None => lastId = Id(toCheck)
    <3> SUFFICES ASSUME toCheck # None PROVE lastId = Id(toCheck)
      OBVIOUS
    <3>1. lastId \in DOMAIN ids /\ ids[lastId] = toCheck
      BY <2>1, <2>2 DEF FollowedInv
    <3>2. \A i \in DOMAIN ids : ids[i] = toCheck => i = lastId
      BY <2>1, <2>2, <3>1 DEF IdsInv
    <3> QED BY <3>1, <3>2 DEF Id
  <2>4. /\ {ids[i] : i \in DOMAIN ids} = {p \in Pegouts : status[p] # None}
        /\ toCheck \in Pegouts \cup {None} /\ lastId \in 0 .. Len(ids) /\ waited \in 0 .. Crit
        /\ signedFor \in [Pegouts -> 0 .. Crit]
    BY <2>1, <2>2 DEF IdsInv, FollowedInv
  <2>5. /\ checked \in BOOLEAN /\ mempool \in {"OK", "WARNING", "CRITICAL"}
        /\ alertFaults \in 0 .. MaxAlertFaults /\ fee \in {"OK", "CRITICAL"}
    BY <2>1, Zenon DEF SeverityInv
  <2> QED BY <2>3, <2>4, <2>5, Zenon DEF AlertTypeOK
<1> QED BY <1>1, AlertAlways, PTL

\* PegoutsWithAlertsInv: both of the above, beside the alerts and whatever fails.
THEOREM AlertsAreConsistent == AlertSpec => []PegoutsWithAlertsInv
<1>1. PegoutsInv /\ AlertTypeOK => PegoutsWithAlertsInv
  BY DEF PegoutsWithAlertsInv
<1> QED BY <1>1, AlertsOnlyWatch, PegoutsAreConsistent, AlertsAreTyped, PTL

\* What alert_rules.yml calls critical for the fee is never seen: the last row that
\* is signed has no block hash, whatever the heights and the fee are.  Only a
\* failed call makes that alert critical.
FeeIsNeverSeen == \A deep \in SUBSET Pegouts, svb \in BOOLEAN : ~FeeNotReset(deep, svb)
THEOREM FeeAlertIsBlind == AlertSpec => []FeeIsNeverSeen
<1>1. ASSUME ManagerInv, AlertInv PROVE FeeIsNeverSeen
  BY <1>1, FeeIsReset DEF FeeIsNeverSeen
<1> QED BY <1>1, AlertAlways, PTL

\* MempoolAlertIsFounded: the alert never names a pegout as missing for longer than
\* it is signed, nor one the node knows unless the node did not answer; and it is
\* above OK without a pegout only if the table was not read.
THEOREM MempoolAlertsAreFounded == AlertSpec => MempoolAlertIsFounded
<1> DEFINE Founded == IF toCheck' = None THEN mempool' = "CRITICAL" /\ alertFaults' # alertFaults
                      ELSE /\ signedFor[toCheck'] >= (IF mempool' = "CRITICAL" THEN Crit ELSE Warn)
                           /\ Found(toCheck') => alertFaults' # alertFaults
<1>1. ASSUME AlertInv, CheckMempool, mempool' # "OK"
      PROVE  Founded
  <2>1. CASE NoRows
    BY <1>1, <2>1, NoRowsEffect
  <2>2. CASE AskNode
    <3>1. /\ toCheck' = Taken[1] /\ Taken[1] # None /\ mempool' = Severity(Taken[3])
          /\ Found(Taken[1]) => alertFaults' # alertFaults
      BY <1>1, <2>2, MempoolEffect
    <3>2. /\ Taken[3] <= signedFor[Taken[1]] /\ Taken[3] \in 0 .. Crit
          /\ signedFor[Taken[1]] \in 0 .. Crit
      BY <1>1, <3>1, TakenFollows DEF AlertInv, FollowedInv
    <3>3. Taken[3] >= (IF mempool' = "CRITICAL" THEN Crit ELSE Warn)
      BY <1>1, <3>1 DEF Severity
    <3>4. signedFor[Taken[1]] >= (IF mempool' = "CRITICAL" THEN Crit ELSE Warn)
      BY <3>2, <3>3, AlertBounds
    <3> QED BY <3>1, <3>4 DEF Found
  <2> QED BY <1>1, <2>1, <2>2 DEF CheckMempool
<1>2. AlertInv => [CheckMempool /\ mempool' # "OK" => Founded]_allVars
  BY <1>1
<1> QED BY <1>2, AlertAlways, PTL DEF AlertSpec, MempoolAlertIsFounded

-----------------------------------------------------------------------------
(* The stored transaction.                                                  *)

\* The signatures of a contract are those of the oracles, index by index, and a
\* transaction that is stored is the one Build makes of them.
SignaturesInv ==
  \A p \in Pegouts : sigs[p] # None => \A i \in DOMAIN sigs[p] : sigs[p][i] = SignedInput(p, i)
Whole(p) == [i \in 1 .. Count(p) |-> <<SortedInputs(p)[i], SignedInput(p, i - 1)>>]
StoredInv == \A p \in Pegouts : raw[p] # None => raw[p] = Whole(p)

LEMMA SignaturesStep ==
  ASSUME ManagerInv, SignaturesInv, [Next]_vars
  PROVE  SignaturesInv'
<1> USE DEF world, table, cycles, bounds
<1>1. CASE sigs' = sigs
  BY <1>1 DEF SignaturesInv
<1>2. ASSUME NEW p \in Pegouts, Deploy(p) PROVE SignaturesInv'
  <2>1. sigs'[p] = <<>> /\ \A q \in Pegouts \ {p} : sigs'[q] = sigs[q]
    BY <1>2 DEF Deploy, ManagerInv, Domains
  <2> QED BY <2>1 DEF SignaturesInv
<1>3. ASSUME NEW p \in Pegouts, Sign(p) PROVE SignaturesInv'
  <2>1. PICK i \in Indices(p) \ DOMAIN sigs[p] :
          sigs' = [sigs EXCEPT ![p] = [j \in DOMAIN @ \cup {i} |->
                                        IF j = i THEN SignedInput(p, i) ELSE @[j]]]
    BY <1>3 DEF Sign
  <2>2. /\ sigs'[p] = [j \in DOMAIN sigs[p] \cup {i} |->
                        IF j = i THEN SignedInput(p, i) ELSE sigs[p][j]]
        /\ \A q \in Pegouts \ {p} : sigs'[q] = sigs[q]
    BY <2>1 DEF ManagerInv, Domains
  <2>3. sigs[p] # None
    BY <1>3 DEF Sign
  <2> QED BY <2>2, <2>3 DEF SignaturesInv
<1>4. ASSUME NEW p \in Pegouts, EventWritten(p) \/ GrowOld(p) \/ Mine(p) \/ Evict(p) PROVE sigs' = sigs
  BY <1>4 DEF EventWritten, GrowOld, Mine, Evict
<1>5. ASSUME NEW p \in Pegouts, Signing(p) \/ Sending(p) PROVE sigs' = sigs
  BY <1>5 DEF Signing, HandleSigning, HandleSigningFails, Sending, Lookup, LookupFails, UpdateFails,
              SendAccepted, SendKnown, SendRefused, SendFails
<1>6. ASSUME QuerySigning \/ QuerySigned \/ Restart \/ UNCHANGED vars PROVE sigs' = sigs
  BY <1>6 DEF QuerySigning, QuerySigned, Restart, vars
<1> QED BY <1>1, <1>2, <1>3, <1>4, <1>5, <1>6 DEF Next, Outside

LEMMA StoredStep ==
  ASSUME ManagerInv, SignaturesInv, StoredInv, [Next]_vars
  PROVE  StoredInv'
<1> USE DEF world, table, cycles, bounds
<1>1. CASE raw' = raw
  BY <1>1 DEF StoredInv, Whole
<1>2. ASSUME NEW p \in Pegouts, HandleSigning(p) PROVE StoredInv'
  <2>1. CASE block[p] # None /\ raw' = [raw EXCEPT ![p] = Build(p, block[p])] /\ Build(p, block[p]) # None
    <3>1. Indices(p) \subseteq DOMAIN block[p]
      BY <2>1 DEF Build
    <3>2. /\ sigs[p] # None /\ DOMAIN block[p] \subseteq DOMAIN sigs[p]
          /\ block[p] = Restrict(sigs[p], DOMAIN block[p])
      BY <2>1, ManagerParts DEF ManagerInv, BlockOK
    <3>3. \A i \in Indices(p) : block[p][i] = SignedInput(p, i)
      <4> SUFFICES ASSUME NEW i \in Indices(p) PROVE block[p][i] = SignedInput(p, i)
        OBVIOUS
      <4>1. i \in DOMAIN block[p] /\ i \in DOMAIN sigs[p]
        BY <3>1, <3>2
      <4>2. block[p][i] = sigs[p][i]
        BY <3>2, <4>1 DEF Restrict
      <4> QED BY <3>2, <4>1, <4>2 DEF SignaturesInv
    <3>4. \A i \in 1 .. Count(p) : i - 1 \in Indices(p)
      BY SortedPlaces DEF Indices
    <3>5. Build(p, block[p]) = Whole(p)
      BY <3>1, <3>3, <3>4 DEF Build, Whole
    <3>6. raw'[p] = Whole(p) /\ \A q \in Pegouts \ {p} : raw'[q] = raw[q]
      BY <2>1, <3>5 DEF ManagerInv, Domains
    <3> QED BY <3>6 DEF StoredInv, Whole
  <2>2. CASE block[p] = None
    BY <1>1, <1>2, <2>2 DEF HandleSigning
  <2> QED BY <1>1, <1>2, <2>1, <2>2, SigningEffect
<1>3. ASSUME NEW p \in Pegouts, Outside(p) PROVE raw' = raw
  BY <1>3 DEF Outside, EventWritten, Deploy, Sign, GrowOld, Mine, Evict
<1>4. ASSUME NEW p \in Pegouts, HandleSigningFails(p) \/ Sending(p) PROVE raw' = raw
  BY <1>4 DEF HandleSigningFails, Sending, Lookup, LookupFails, UpdateFails, SendAccepted,
              SendKnown, SendRefused, SendFails
<1>5. ASSUME QuerySigning \/ QuerySigned \/ Restart \/ UNCHANGED vars PROVE raw' = raw
  BY <1>5 DEF QuerySigning, QuerySigned, Restart, vars
<1> QED BY <1>1, <1>2, <1>3, <1>4, <1>5 DEF Next, Signing

\* StoredIsSigned: what the indexer stores and sends spends every input of the
\* pegout, each with its own signature, however many inputs there are: the sort of
\* the oracles, by which the contract counts the signatures, and that of the
\* indexer give each input the same place.
THEOREM StoredTransactionsAreSigned == Spec => []StoredIsSigned
<1>1. Init => SignaturesInv /\ StoredInv
  BY DEF Init, SignaturesInv, StoredInv
<1>2. ASSUME ManagerInv, StoredInv PROVE StoredIsSigned
  <2> SUFFICES ASSUME NEW p \in Pegouts, status[p] \in {"SIGNED", "CONFIRMED"}
               PROVE  raw[p] # None /\ {raw[p][i] : i \in 1 .. Count(p)} = {<<t, t>> : t \in Inputs[p]}
    BY DEF StoredIsSigned
  <2>1. raw[p] # None
    BY <1>2 DEF ManagerInv, RowFieldsInv
  <2>2. \A i \in 1 .. Count(p) : raw[p][i] = <<SortedInputs(p)[i], SortedInputs(p)[i]>>
    <3>1. raw[p] = Whole(p)
      BY <1>2, <2>1 DEF StoredInv
    <3>2. \A i \in 1 .. Count(p) : SignedInput(p, i - 1) = SortedInputs(p)[i]
      BY PlacesAgree
    <3> QED BY <3>1, <3>2 DEF Whole
  <2>3. {SortedInputs(p)[i] : i \in 1 .. Count(p)} = Inputs[p]
    BY SortedPlaces
  <2>4. {raw[p][i] : i \in 1 .. Count(p)} = {<<t, t>> : t \in {SortedInputs(p)[i] : i \in 1 .. Count(p)}}
    BY <2>2
  <2> QED BY <2>1, <2>3, <2>4
<1> QED BY <1>1, <1>2, SignaturesStep, StoredStep, ManagerAlways, PTL DEF Spec

-----------------------------------------------------------------------------
(* The fetchers.                                                            *)

\* Payload types that go through the writer's channel.
ThroughChannel == UNION {Range(Kinds[f]) : f \in Fetchers \ Direct}

\* What a fetcher writes itself never meets the writer.
RouteInv ==
  /\ \A i \in 1 .. Len(ch) : ch[i][1] \in ThroughChannel
  /\ writer = "write" => taken[1] \in ThroughChannel

SourceInv ==
  \A k \in AllKinds : source[k] # Nil => past[k] # <<>> /\ past[k][Len(past[k])] = source[k]

\* Positions in the history of k: at of its rows, t of the last payload that was
\* received, c of those in the channel, m of the latest one that was fetched.
Written(k, at) ==
  /\ \A i \in 1 .. Len(rows[k]) : rows[k][i] = past[k][at[i]]
  /\ \A i, j \in 1 .. Len(rows[k]) : i < j => at[i] < at[j]
Received(k, t) == writer = "write" /\ taken[1] = k => t > 0 /\ taken[2] = past[k][t]
Queued(k, t, c) ==
  /\ \A i \in 1 .. Len(ch) : ch[i][1] = k => c[i] > 0 /\ t <= c[i] /\ ch[i][2] = past[k][c[i]]
  /\ \A i, j \in 1 .. Len(ch) : i < j /\ ch[i][1] = k /\ ch[j][1] = k => c[i] <= c[j]
Fetched(k, m) ==
  \A f \in Fetchers : pc[f] = "send" /\ Kind(f) = k => m > 0 /\ item[f] = past[k][m]

Placed(k, m, t, c, at) ==
  /\ m \in 0 .. Len(past[k])
  /\ t \in 0 .. m
  /\ c \in [1 .. Len(ch) -> 0 .. m]
  /\ at \in [1 .. Len(rows[k]) -> 1 .. t]
  /\ Written(k, at) /\ Received(k, t) /\ Queued(k, t, c) /\ Fetched(k, m)

\* From the first row to the payload in a fetcher's hand, nothing overtakes
\* anything that the source has answered later.
Ordered(k) == \E m, t, c, at : Placed(k, m, t, c, at)

PipeInv ==
  /\ FetchersTypeOK
  /\ NeighboursDiffer
  /\ RouteInv
  /\ SourceInv
  /\ \A k \in AllKinds : Ordered(k)

\* What the constants say of the payload a fetcher is at.
LEMMA KindOfFetcher ==
  ASSUME FetchersTypeOK, NEW f \in Fetchers
  PROVE  /\ Kind(f) \in AllKinds
         /\ f \notin Direct => Kind(f) \in ThroughChannel
         /\ f \in Direct => Kind(f) \notin ThroughChannel
         /\ \A g \in Fetchers : Kind(g) = Kind(f) => g = f
<1>1. \A g \in Fetchers : Kind(g) \in Range(Kinds[g])
  BY DEF FetchersTypeOK, Kind, Range
<1>2. \A g \in Fetchers : g # f => Range(Kinds[g]) \cap Range(Kinds[f]) = {}
  BY MetricsFetchersAssumption
<1>3. Kind(f) \in AllKinds
  BY <1>1 DEF AllKinds
<1>4. f \notin Direct => Kind(f) \in ThroughChannel
  BY <1>1 DEF ThroughChannel
<1>5. f \in Direct => Kind(f) \notin ThroughChannel
  BY <1>1, <1>2 DEF ThroughChannel
<1> QED BY <1>1, <1>2, <1>3, <1>4, <1>5

\* The next part of a round, or its end.
LEMMA NextPart ==
  ASSUME FetchersTypeOK, NEW f \in Fetchers, ToNext(f)
  PROVE  /\ \E s \in {"fetch", "wait"} : pc' = [pc EXCEPT ![f] = s]
         /\ step' \in [Fetchers -> Nat]
         /\ \A g \in Fetchers : step'[g] \in DOMAIN Kinds[g] /\ (g # f => step'[g] = step[g])
         /\ watch' \in [Fetchers -> {Nil, "beat", "quiet"}]
         /\ reports' \subseteq reports
<1>1. Len(Kinds[f]) \in Nat /\ DOMAIN Kinds[f] = 1 .. Len(Kinds[f])
  BY MetricsFetchersAssumption
<1>2. CASE step[f] < Len(Kinds[f])
  <2>1. step' = [step EXCEPT ![f] = @ + 1] /\ pc' = [pc EXCEPT ![f] = "fetch"]
       /\ UNCHANGED <<watch, reports>>
    BY <1>2 DEF ToNext, dog
  <2>2. step[f] \in DOMAIN Kinds[f]
    BY DEF FetchersTypeOK
  <2>3. step[f] + 1 \in DOMAIN Kinds[f] /\ step[f] + 1 \in Nat
    BY <1>1, <1>2, <2>2
  <2> QED BY <2>1, <2>2, <2>3 DEF FetchersTypeOK
<1>3. CASE ~(step[f] < Len(Kinds[f]))
  BY <1>3 DEF ToNext, FetchersTypeOK
<1> QED BY <1>2, <1>3

\* The state of the fetchers after a step of one of them.
LEMMA FetcherTypes ==
  ASSUME FetchersTypeOK, NEW f \in Fetchers,
         Fetching(f)
  PROVE  /\ pc' \in [Fetchers -> {"start", "wait", "fetch", "send", "done"}]
         /\ step' \in [Fetchers -> Nat]
         /\ item' \in [Fetchers -> Payloads \cup {Nil}]
         /\ \A g \in Fetchers : step'[g] \in DOMAIN Kinds[g] /\ (item'[g] # Nil <=> pc'[g] = "send")
         /\ watch' \in [Fetchers -> {Nil, "beat", "quiet"}]
         /\ \A g \in Fetchers : pc'[g] = "send" /\ pc[g] = "send" => item'[g] = item[g] /\ step'[g] = step[g]
         /\ \A g \in Fetchers : pc'[g] = "send" /\ pc[g] # "send" => Fetch(g) /\ g = f
<1> USE DEF fetching, dog
<1>0. /\ pc \in [Fetchers -> {"start", "wait", "fetch", "send", "done"}]
      /\ step \in [Fetchers -> Nat]
      /\ item \in [Fetchers -> Payloads \cup {Nil}]
      /\ \A g \in Fetchers : step[g] \in DOMAIN Kinds[g] /\ (item[g] # Nil <=> pc[g] = "send")
      /\ watch \in [Fetchers -> {Nil, "beat", "quiet"}]
  BY DEF FetchersTypeOK
<1>1. CASE Start(f) \/ PrepareFails(f)
  <2>1. /\ pc[f] = "start" /\ item' = item /\ step' = step
        /\ pc' = [pc EXCEPT ![f] = "wait"] \/ pc' = [pc EXCEPT ![f] = "done"]
        /\ watch' = watch \/ watch' = [watch EXCEPT ![f] = "beat"]
    BY <1>1 DEF Start, PrepareFails
  <2>2. \A g \in Fetchers : item'[g] # Nil <=> pc'[g] = "send"
    BY <1>0, <2>1
  <2>3. \A g \in Fetchers : pc'[g] = "send" => pc[g] = "send"
    BY <1>0, <2>1
  <2>4. watch' \in [Fetchers -> {Nil, "beat", "quiet"}]
    BY <1>0, <2>1
  <2>5. pc' \in [Fetchers -> {"start", "wait", "fetch", "send", "done"}]
    BY <1>0, <2>1
  <2> QED BY <1>0, <2>1, <2>2, <2>3, <2>4, <2>5
<1>2. CASE TickFetcher(f)
  <2>1. 1 \in DOMAIN Kinds[f]
    BY MetricsFetchersAssumption
  <2> QED BY <1>2, <2>1 DEF FetchersTypeOK, TickFetcher
<1>3. CASE Fetch(f)
  <2>1. source[Kind(f)] \in Payloads
    BY <1>3, KindOfFetcher DEF FetchersTypeOK, Fetch
  <2>2. Nil \notin Payloads
    BY MetricsFetchersAssumption
  <2> QED BY <1>3, <2>1, <2>2 DEF FetchersTypeOK, Fetch
<1>4. CASE FetchNothing(f)
  <2>1. ToNext(f) /\ item' = item /\ pc[f] = "fetch"
    BY <1>4 DEF FetchNothing
  <2>2. PICK s \in {"fetch", "wait"} : pc' = [pc EXCEPT ![f] = s]
    BY <2>1, NextPart
  <2>3. \A g \in Fetchers : item'[g] # Nil <=> pc'[g] = "send"
    BY <1>0, <2>1, <2>2
  <2>4. \A g \in Fetchers : pc'[g] = "send" => g # f /\ pc[g] = "send"
    BY <1>0, <2>2
  <2> QED BY <1>0, <2>1, <2>2, <2>3, <2>4, NextPart
<1>5. CASE Send(f) \/ WriteBalance(f)
  <2>1. ToNext(f) /\ item' = [item EXCEPT ![f] = Nil] /\ pc[f] = "send"
    BY <1>5 DEF Send, WriteBalance
  <2>2. PICK s \in {"fetch", "wait"} : pc' = [pc EXCEPT ![f] = s]
    BY <2>1, NextPart
  <2>3. \A g \in Fetchers : item'[g] # Nil <=> pc'[g] = "send"
    BY <1>0, <2>1, <2>2
  <2>4. \A g \in Fetchers : pc'[g] = "send" => g # f /\ pc[g] = "send"
    BY <1>0, <2>2
  <2>5. /\ item' \in [Fetchers -> Payloads \cup {Nil}]
        /\ \A g \in Fetchers : g # f => item'[g] = item[g]
    BY <1>0, <2>1
  <2>6. pc' \in [Fetchers -> {"start", "wait", "fetch", "send", "done"}]
    BY <1>0, <2>2
  <2> QED BY <2>1, <2>3, <2>4, <2>5, <2>6, NextPart
<1> QED BY <1>1, <1>2, <1>3, <1>4, <1>5 DEF Fetching, Polling, Stating

\* What is inserted is a row of payloads.
LEMMA InsertType ==
  ASSUME FetchersTypeOK, NEW k \in AllKinds, NEW p \in Payloads
  PROVE  /\ Insert(k, p) \in Seq(Payloads)
         /\ Insert(k, p) \in {rows[k], Append(rows[k], p)}
         /\ rows[k] \in Seq(Payloads) /\ Len(rows[k]) \in Nat
         /\ Insert(k, p) # rows[k] =>
              Insert(k, p) = Append(rows[k], p) /\ (rows[k] # <<>> => rows[k][Len(rows[k])] # p)
         /\ Insert(k, p) = rows[k] => rows[k] # <<>> /\ rows[k][Len(rows[k])] = p
<1>1. rows[k] \in Seq(Payloads)
  BY DEF FetchersTypeOK
<1>2. Append(rows[k], p) # rows[k] /\ Append(rows[k], p) \in Seq(Payloads)
  BY <1>1
<1>3. CASE rows[k] # <<>> /\ Last(rows[k]) = p
  <2>1. Insert(k, p) = rows[k]
    BY <1>3 DEF Insert
  <2> QED BY <1>1, <1>3, <2>1 DEF Last
<1>4. CASE ~(rows[k] # <<>> /\ Last(rows[k]) = p)
  <2>1. Insert(k, p) = Append(rows[k], p)
    BY <1>4 DEF Insert
  <2> QED BY <1>1, <1>2, <1>4, <2>1 DEF Last
<1> QED BY <1>3, <1>4

LEMMA MetricsTypes ==
  ASSUME FetchersTypeOK, FetchersNext
  PROVE  FetchersTypeOK'
<1> USE DEF sources, fetching, writing, dog, process
<1>0. /\ {MaxChanges, MaxFailures, MaxStarts} \subseteq Nat
      /\ Capacity \in Nat \ {0}
      /\ Nil \notin Payloads
  BY MetricsFetchersAssumption
<1>1. ASSUME NEW k \in AllKinds, Change(k) PROVE FetchersTypeOK'
  <2>1. PICK p \in (Payloads \cup {Nil}) \ {source[k]} :
          /\ source' = [source EXCEPT ![k] = p]
          /\ past' = IF p = Nil THEN past ELSE [past EXCEPT ![k] = Append(@, p)]
    BY <1>1 DEF Change
  <2>2. past' \in [AllKinds -> Seq(Payloads)]
    BY <2>1 DEF FetchersTypeOK
  <2>3. source' \in [AllKinds -> Payloads \cup {Nil}]
    BY <2>1 DEF FetchersTypeOK
  <2>4. changes' \in 0 .. MaxChanges
    BY <1>0, <1>1 DEF FetchersTypeOK, Change
  <2>5. UNCHANGED <<group, rows, pc, step, item, ch, writer, taken, watch, reports, ctx, main, failures, starts>>
    BY <1>1 DEF Change
  <2> QED BY <2>2, <2>3, <2>4, <2>5 DEF FetchersTypeOK
<1>2. ASSUME NEW f \in Fetchers, Fetching(f) PROVE FetchersTypeOK'
  <2>1. /\ ch' \in Seq(AllKinds \X Payloads) /\ Len(ch') <= Capacity
        /\ rows' \in [AllKinds -> Seq(Payloads)]
    <3>1. CASE Send(f)
      <4>1. <<Kind(f), item[f]>> \in AllKinds \X Payloads
        BY <3>1, KindOfFetcher DEF FetchersTypeOK, Send
      <4>2. ch' = Append(ch, <<Kind(f), item[f]>>) /\ Len(ch) < Capacity /\ rows' = rows
        BY <3>1 DEF Send, HasRoom
      <4> QED BY <1>0, <4>1, <4>2 DEF FetchersTypeOK
    <3>2. CASE WriteBalance(f)
      <4>1. Kind(f) \in AllKinds /\ item[f] \in Payloads
        BY <3>2, KindOfFetcher DEF FetchersTypeOK, WriteBalance
      <4>2. ch' = ch /\ (rows' = rows \/ rows' = [rows EXCEPT ![Kind(f)] = Insert(Kind(f), item[f])])
        BY <3>2 DEF WriteBalance
      <4>3. Insert(Kind(f), item[f]) \in Seq(Payloads)
        BY <4>1, InsertType
      <4>4. rows \in [AllKinds -> Seq(Payloads)]
        BY DEF FetchersTypeOK
      <4>5. rows' \in [AllKinds -> Seq(Payloads)]
        BY <4>1, <4>2, <4>3, <4>4
      <4> QED BY <4>2, <4>5 DEF FetchersTypeOK
    <3>3. CASE UNCHANGED <<ch, rows>>
      BY <3>3 DEF FetchersTypeOK
    <3> QED BY <1>2, <3>1, <3>2, <3>3 DEF Fetching, Polling, Stating, Start, PrepareFails,
              TickFetcher, Fetch, FetchNothing
  <2>2. /\ UNCHANGED <<source, past, changes, writer, taken, group, ctx, main, starts>>
        /\ failures' \in 0 .. MaxFailures
    BY <1>0, <1>2 DEF FetchersTypeOK, Fetching, Polling, Stating, Start, PrepareFails, TickFetcher,
       Fetch, FetchNothing, Send, WriteBalance, Lose
  <2>3. reports' \subseteq reports
    <3>1. ToNext(f) \/ reports' = reports
      BY <1>2 DEF Fetching, Polling, Stating, Start, PrepareFails, TickFetcher, Fetch,
         FetchNothing, Send, WriteBalance
    <3> QED BY <3>1, NextPart
  <2> QED BY <1>2, <2>1, <2>2, <2>3, FetcherTypes DEF FetchersTypeOK
<1>3. ASSUME NEW f \in Fetchers, Stop(f) \/ Lapse(f) PROVE FetchersTypeOK'
  <2>1. CASE Stop(f)
    <3>1. /\ pc' \in [Fetchers -> {"start", "wait", "fetch", "send", "done"}]
          /\ \A g \in Fetchers : pc'[g] = "send" <=> pc[g] = "send"
      BY <2>1 DEF FetchersTypeOK, Stop
    <3> QED BY <2>1, <3>1 DEF FetchersTypeOK, Stop
  <2>2. CASE Lapse(f)
    BY <2>2 DEF FetchersTypeOK, Lapse
  <2> QED BY <1>3, <2>1, <2>2
<1>4. CASE Writing
  <2>1. CASE Receive
    <3>1. Head(ch) \in AllKinds \X Payloads /\ Tail(ch) \in Seq(AllKinds \X Payloads)
          /\ Len(Tail(ch)) <= Capacity
      BY <1>0, <2>1 DEF FetchersTypeOK, Receive
    <3> QED BY <2>1, <3>1 DEF FetchersTypeOK, Receive
  <2>2. CASE Write
    <3>1. taken[1] \in AllKinds /\ taken[2] \in Payloads
      BY <2>2 DEF FetchersTypeOK, Write
    <3>2. rows' = [rows EXCEPT ![taken[1]] = Insert(taken[1], taken[2])]
      BY <2>2 DEF Write
    <3>3. rows' \in [AllKinds -> Seq(Payloads)]
      BY <3>1, <3>2, InsertType DEF FetchersTypeOK
    <3> QED BY <2>2, <3>3 DEF FetchersTypeOK, Write
  <2>3. CASE WriteFails
    BY <1>0, <2>3 DEF FetchersTypeOK, WriteFails, Lose
  <2> QED BY <1>4, <2>1, <2>2, <2>3 DEF Writing
<1>5. CASE WriterStops \/ Cancel \/ Exit
  BY <1>5 DEF FetchersTypeOK, WriterStops, Cancel, Exit
<1>6. CASE RestartService
  <2>1. \A f \in Fetchers : 1 \in DOMAIN Kinds[f]
    BY MetricsFetchersAssumption
  <2>2. Everyone(1) \in [Fetchers -> Nat] /\ \A f \in Fetchers : Everyone(1)[f] = 1
    BY DEF Everyone
  <2>3. Everyone(Nil) \in [Fetchers -> {Nil}] /\ \A f \in Fetchers : Everyone(Nil)[f] = Nil
    BY DEF Everyone
  <2>4. Starting(group) \in [Fetchers -> {"start", "done"}]
    BY DEF Starting
  <2>5. <<>> \in Seq(AllKinds \X Payloads) /\ Len(<<>>) <= Capacity
    BY <1>0
  <2>6. \A f \in Fetchers : step'[f] \in DOMAIN Kinds[f] /\ (item'[f] # Nil <=> pc'[f] = "send")
    BY <1>6, <2>1, <2>2, <2>3, <2>4 DEF RestartService
  <2>7. starts' \in 0 .. MaxStarts
    BY <1>0, <1>6 DEF RestartService, FetchersTypeOK
  <2> QED BY <1>6, <2>2, <2>3, <2>4, <2>5, <2>6, <2>7 DEF FetchersTypeOK, RestartService
<1> QED BY <1>1, <1>2, <1>3, <1>4, <1>5, <1>6 DEF FetchersNext

-----------------------------------------------------------------------------
(* The order of what a source has answered.                                 *)

\* What a step drops or leaves where it is stays in order.
LEMMA DroppedStaysOrdered ==
  ASSUME NEW k, Ordered(k), rows'[k] = rows[k], past'[k] = past[k],
         ch' = ch \/ ch' = <<>>,
         writer' = "write" /\ taken'[1] = k => writer = "write" /\ taken' = taken,
         \A f \in Fetchers : pc'[f] = "send" /\ Kind(f)' = k =>
           pc[f] = "send" /\ Kind(f) = k /\ item'[f] = item[f]
  PROVE  Ordered(k)'
<1>1. PICK m, t, c, at : Placed(k, m, t, c, at)
  BY DEF Ordered
<1>2. /\ m \in 0 .. Len(past[k]) /\ t \in 0 .. m /\ at \in [1 .. Len(rows[k]) -> 1 .. t]
      /\ Written(k, at) /\ Received(k, t) /\ Queued(k, t, c) /\ Fetched(k, m)
      /\ c \in [1 .. Len(ch) -> 0 .. m]
  BY <1>1 DEF Placed
<1>3. Written(k, at)' /\ Received(k, t)' /\ Fetched(k, m)'
  BY <1>2 DEF Written, Received, Fetched
<1>4. \E c2 : c2 \in [1 .. Len(ch') -> 0 .. m] /\ Queued(k, t, c2)'
  <2>1. CASE ch' = ch
    BY <1>2, <2>1 DEF Queued
  <2>2. CASE ch' = <<>>
    <3>1. Len(ch') = 0 /\ 1 .. Len(ch') = {}
      BY <2>2
    <3>2. [i \in {} |-> 0] \in [1 .. Len(ch') -> 0 .. m]
      BY <3>1
    <3>3. Queued(k, t, [i \in {} |-> 0])'
      BY <3>1 DEF Queued
    <3> QED BY <3>2, <3>3
  <2> QED BY <2>1, <2>2
<1>5. PICK c2 : c2 \in [1 .. Len(ch') -> 0 .. m] /\ Queued(k, t, c2)'
  BY <1>4
<1>6. Placed(k, m, t, c2, at)'
  BY <1>2, <1>3, <1>5 DEF Placed
<1> QED BY <1>6 DEF Ordered

\* The rows s are answers of k up to position u, each after the one before it.
UpTo(k, u, s) ==
  \E now \in [1 .. Len(s) -> 1 .. u] :
    /\ \A i \in 1 .. Len(s) : s[i] = past[k][now[i]]
    /\ \A i, j \in 1 .. Len(s) : i < j => now[i] < now[j]

\* An inserted payload that is at least as new as all rows takes its place.
LEMMA InsertedInOrder ==
  ASSUME FetchersTypeOK, NEW k \in AllKinds, NEW p \in Payloads,
         NEW t \in Nat, NEW at \in [1 .. Len(rows[k]) -> 1 .. t], Written(k, at),
         NEW u \in Nat \ {0}, t <= u, p = past[k][u]
  PROVE  UpTo(k, u, Insert(k, p))
<1> DEFINE s == Insert(k, p)
           n == Len(rows[k])
<1>0. rows[k] \in Seq(Payloads) /\ n \in Nat
  BY InsertType
<1>1. /\ \A i \in 1 .. n : at[i] \in 1 .. t /\ rows[k][i] = past[k][at[i]]
      /\ \A i, j \in 1 .. n : i < j => at[i] < at[j]
  BY DEF Written
<1>2. CASE s = rows[k]
  <2>1. at \in [1 .. Len(s) -> 1 .. u]
    BY <1>0, <1>1, <1>2
  <2> QED BY <1>1, <1>2, <2>1 DEF UpTo
<1>3. CASE s # rows[k]
  <2> DEFINE now == [i \in 1 .. n + 1 |-> IF i = n + 1 THEN u ELSE at[i]]
  <2>1. s = Append(rows[k], p) /\ (rows[k] # <<>> => rows[k][n] # p)
    BY <1>3, InsertType
  <2>2. Len(s) = n + 1 /\ s[n + 1] = p /\ \A i \in 1 .. n : s[i] = rows[k][i]
    BY <1>0, <2>1
  <2>3. \A i \in 1 .. n : at[i] < u
    <3> SUFFICES ASSUME NEW i \in 1 .. n PROVE at[i] < u
      OBVIOUS
    <3>1. n \in 1 .. n /\ rows[k] # <<>>
      BY <1>0
    <3>2. at[n] # u
      BY <1>1, <2>1, <3>1
    <3>3. at[n] < u /\ at[n] \in Nat
      BY <1>1, <3>1, <3>2
    <3>4. CASE i = n
      BY <3>3, <3>4
    <3>5. CASE i < n
      <4>1. at[i] < at[n] /\ at[i] \in Nat
        BY <1>1, <3>1, <3>5
      <4> QED BY <3>3, <4>1
    <3> QED BY <1>0, <3>4, <3>5
  <2>4. now \in [1 .. Len(s) -> 1 .. u]
    <3>1. ASSUME NEW i \in 1 .. n + 1 PROVE now[i] \in 1 .. u
      BY <1>0, <1>1, <2>3, <3>1
    <3> QED BY <2>2, <3>1
  <2>5. ASSUME NEW i \in 1 .. Len(s) PROVE s[i] = past[k][now[i]]
    BY <1>0, <1>1, <2>2, <2>5
  <2>6. ASSUME NEW i \in 1 .. Len(s), NEW j \in 1 .. Len(s), i < j PROVE now[i] < now[j]
    <3>1. i \in 1 .. n /\ now[i] = at[i]
      BY <1>0, <2>2, <2>6
    <3>2. CASE j = n + 1
      BY <1>0, <2>3, <3>1, <3>2
    <3>3. CASE j # n + 1
      <4>1. j \in 1 .. n /\ now[j] = at[j]
        BY <1>0, <2>2, <3>3
      <4> QED BY <1>1, <2>6, <3>1, <4>1
    <3> QED BY <3>2, <3>3
  <2> QED BY <2>4, <2>5, <2>6 DEF UpTo
<1> QED BY <1>2, <1>3

LEMMA ChangeOrdered ==
  ASSUME FetchersTypeOK, NEW k \in AllKinds, Ordered(k),
         NEW l \in AllKinds, Change(l)
  PROVE  Ordered(k)'
<1> USE DEF fetching, writing
<1>1. PICK p \in (Payloads \cup {Nil}) \ {source[l]} :
        past' = IF p = Nil THEN past ELSE [past EXCEPT ![l] = Append(@, p)]
  BY DEF Change
<1>2. UNCHANGED <<rows, pc, step, item, ch, writer, taken>>
  BY DEF Change
<1>3. past[k] \in Seq(Payloads) /\ Len(past[k]) \in Nat
  BY DEF FetchersTypeOK
<1>4. /\ Len(past'[k]) \in Nat /\ Len(past[k]) <= Len(past'[k])
      /\ \A n \in 1 .. Len(past[k]) : past'[k][n] = past[k][n]
  BY <1>1, <1>3 DEF FetchersTypeOK
<1>5. PICK m, t, c, at : Placed(k, m, t, c, at)
  BY DEF Ordered
<1>6. /\ m \in 0 .. Len(past[k]) /\ t \in 0 .. m
      /\ at \in [1 .. Len(rows[k]) -> 1 .. t] /\ c \in [1 .. Len(ch) -> 0 .. m]
      /\ Written(k, at) /\ Received(k, t) /\ Queued(k, t, c) /\ Fetched(k, m)
  BY <1>5 DEF Placed
<1>7. Written(k, at)'
  <2>1. \A i \in 1 .. Len(rows[k]) : at[i] \in 1 .. Len(past[k])
    BY <1>3, <1>6
  <2> QED BY <1>2, <1>4, <1>6, <2>1 DEF Written
<1>8. Received(k, t)'
  <2>1. t > 0 => t \in 1 .. Len(past[k])
    BY <1>3, <1>6
  <2> QED BY <1>2, <1>4, <1>6, <2>1 DEF Received
<1>9. Queued(k, t, c)'
  <2>1. \A i \in 1 .. Len(ch) : c[i] > 0 => c[i] \in 1 .. Len(past[k])
    BY <1>3, <1>6
  <2> QED BY <1>2, <1>4, <1>6, <2>1 DEF Queued
<1>10. Fetched(k, m)'
  <2>1. m > 0 => m \in 1 .. Len(past[k])
    BY <1>3, <1>6
  <2>2. \A f \in Fetchers : Kind(f)' = Kind(f)
    BY <1>2 DEF Kind
  <2> QED BY <1>2, <1>4, <1>6, <2>1, <2>2 DEF Fetched
<1>11. m \in 0 .. Len(past'[k])
  BY <1>3, <1>4, <1>6
<1>12. Placed(k, m, t, c, at)'
  BY <1>2, <1>6, <1>7, <1>8, <1>9, <1>10, <1>11 DEF Placed
<1> QED BY <1>12 DEF Ordered

LEMMA FetchOrdered ==
  ASSUME FetchersTypeOK, SourceInv,
         NEW k \in AllKinds, Ordered(k),
         NEW f \in Fetchers, Fetch(f), Kind(f) = k
  PROVE  Ordered(k)'
<1> USE DEF sources, writing
<1>1. /\ source[k] # Nil /\ item' = [item EXCEPT ![f] = source[k]]
      /\ pc' = [pc EXCEPT ![f] = "send"] /\ pc[f] = "fetch"
      /\ UNCHANGED <<past, rows, step, ch, writer, taken>>
  BY DEF Fetch
<1> DEFINE u == Len(past[k])
<1>2. past[k] \in Seq(Payloads) /\ u \in Nat /\ u > 0 /\ source[k] = past[k][u]
  BY <1>1 DEF FetchersTypeOK, SourceInv
<1>3. PICK m, t, c, at : Placed(k, m, t, c, at)
  BY DEF Ordered
<1>4. /\ m \in 0 .. u /\ t \in 0 .. m
      /\ at \in [1 .. Len(rows[k]) -> 1 .. t] /\ c \in [1 .. Len(ch) -> 0 .. m]
      /\ Written(k, at) /\ Received(k, t) /\ Queued(k, t, c)
  BY <1>3 DEF Placed
<1>5. Written(k, at)' /\ Received(k, t)' /\ Queued(k, t, c)'
  BY <1>1, <1>4 DEF Written, Received, Queued
<1>6. Fetched(k, u)'
  <2>1. \A g \in Fetchers : Kind(g)' = Kind(g)
    BY <1>1 DEF Kind
  <2>2. \A g \in Fetchers : Kind(g) = k => g = f
    BY KindOfFetcher
  <2>3. item'[f] = past[k][u]
    BY <1>1, <1>2 DEF FetchersTypeOK
  <2> QED BY <1>1, <1>2, <2>1, <2>2, <2>3 DEF Fetched
<1>7. /\ u \in 0 .. Len(past'[k]) /\ t \in 0 .. u
      /\ c \in [1 .. Len(ch') -> 0 .. u] /\ at \in [1 .. Len(rows'[k]) -> 1 .. t]
  <2>1. \A i \in 1 .. Len(ch) : c[i] \in 0 .. u
    BY <1>2, <1>4
  <2> QED BY <1>1, <1>2, <1>4, <2>1
<1>8. Placed(k, u, t, c, at)'
  BY <1>5, <1>6, <1>7 DEF Placed
<1> QED BY <1>8 DEF Ordered

LEMMA SendOrdered ==
  ASSUME FetchersTypeOK,
         NEW k \in AllKinds, Ordered(k), NEW f \in Fetchers, Send(f)
  PROVE  Ordered(k)'
<1> USE DEF sources, writing
<1>1. /\ ch' = Append(ch, <<Kind(f), item[f]>>)
      /\ item' = [item EXCEPT ![f] = Nil] /\ pc[f] = "send"
      /\ ToNext(f)
      /\ UNCHANGED <<past, rows, writer, taken>>
  BY DEF Send
<1>0. PICK n : n = Len(ch)
  OBVIOUS
<1>2. /\ ch \in Seq(AllKinds \X Payloads) /\ n = Len(ch) /\ n \in Nat
      /\ past[k] \in Seq(Payloads) /\ Len(past[k]) \in Nat
  BY <1>0 DEF FetchersTypeOK
<1>3. /\ Len(ch') = n + 1 /\ ch'[n + 1] = <<Kind(f), item[f]>>
      /\ \A i \in 1 .. n : ch'[i] = ch[i]
  <2>1. <<Kind(f), item[f]>> \in AllKinds \X Payloads
    BY <1>1, KindOfFetcher DEF FetchersTypeOK
  <2> QED BY <1>1, <1>2, <2>1
<1>4. PICK m, t, c, at : Placed(k, m, t, c, at)
  BY DEF Ordered
<1>5. /\ m \in 0 .. Len(past[k]) /\ t \in 0 .. m
      /\ at \in [1 .. Len(rows[k]) -> 1 .. t] /\ c \in [1 .. n -> 0 .. m]
      /\ Written(k, at) /\ Received(k, t) /\ Queued(k, t, c) /\ Fetched(k, m)
  BY <1>2, <1>4 DEF Placed
<1>10. PICK c2 : c2 = [i \in 1 .. n + 1 |-> IF i = n + 1 THEN m ELSE c[i]]
  OBVIOUS
<1>6. c2 \in [1 .. Len(ch') -> 0 .. m]
  <2>1. ASSUME NEW i \in 1 .. n + 1 PROVE c2[i] \in 0 .. m
    <3>1. c2[i] = IF i = n + 1 THEN m ELSE c[i]
      BY <1>10
    <3>2. CASE i = n + 1
      <4>1. m \in 0 .. m
        BY <1>2, <1>5
      <4> QED BY <3>1, <3>2, <4>1
    <3>3. CASE i # n + 1
      <4>1. i \in 1 .. n
        BY <1>2, <3>3
      <4> QED BY <1>5, <3>1, <3>3, <4>1
    <3> QED BY <3>2, <3>3
  <2> QED BY <1>3, <1>10, <2>1
<1>7. Written(k, at)' /\ Received(k, t)'
  BY <1>1, <1>5 DEF Written, Received
<1>8. Queued(k, t, c2)'
  <2>1. /\ \A i \in 1 .. n : ch[i][1] = k => c[i] > 0 /\ t <= c[i] /\ ch[i][2] = past[k][c[i]]
        /\ \A i, j \in 1 .. n : i < j /\ ch[i][1] = k /\ ch[j][1] = k => c[i] <= c[j]
    BY <1>2, <1>5 DEF Queued
  <2>2. ASSUME NEW i \in 1 .. n + 1, ch'[i][1] = k
        PROVE  c2[i] > 0 /\ t <= c2[i] /\ ch'[i][2] = past[k][c2[i]]
    <3>1. CASE i = n + 1
      <4>1. Kind(f) = k /\ c2[i] = m /\ ch'[i][2] = item[f]
        BY <1>2, <1>3, <1>10, <2>2, <3>1
      <4>2. m > 0 /\ item[f] = past[k][m]
        BY <1>1, <1>5, <4>1 DEF Fetched
      <4> QED BY <1>2, <1>5, <4>1, <4>2
    <3>2. CASE i # n + 1
      <4>1. i \in 1 .. n /\ c2[i] = c[i] /\ ch'[i] = ch[i]
        BY <1>2, <1>3, <1>10, <3>2
      <4> QED BY <2>1, <2>2, <4>1
    <3> QED BY <3>1, <3>2
  <2>3. ASSUME NEW i \in 1 .. n + 1, NEW j \in 1 .. n + 1, i < j, ch'[i][1] = k, ch'[j][1] = k
        PROVE  c2[i] <= c2[j]
    <3>1. i \in 1 .. n /\ c2[i] = c[i] /\ ch'[i] = ch[i]
      BY <1>2, <1>3, <1>10, <2>3
    <3>2. CASE j = n + 1
      <4>1. c2[j] = m /\ c[i] \in 0 .. m
        BY <1>2, <1>5, <1>10, <3>1, <3>2
      <4> QED BY <1>2, <1>5, <3>1, <4>1
    <3>3. CASE j # n + 1
      <4>1. j \in 1 .. n /\ c2[j] = c[j] /\ ch'[j] = ch[j]
        BY <1>2, <1>3, <1>10, <3>3
      <4> QED BY <2>1, <2>3, <3>1, <4>1
    <3> QED BY <3>2, <3>3
  <2> QED BY <1>1, <1>3, <2>2, <2>3 DEF Queued
<1>9. Fetched(k, m)'
  <2>1. \A g \in Fetchers : pc'[g] = "send" => g # f /\ pc[g] = "send" /\ item'[g] = item[g]
    <3>1. PICK s \in {"fetch", "wait"} : pc' = [pc EXCEPT ![f] = s]
      BY <1>1, NextPart
    <3> QED BY <1>1, <3>1 DEF FetchersTypeOK
  <2>2. \A g \in Fetchers : g # f => Kind(g)' = Kind(g)
    BY <1>1, NextPart DEF Kind
  <2> QED BY <1>1, <1>5, <2>1, <2>2 DEF Fetched
<1>11. Placed(k, m, t, c2, at)'
  BY <1>1, <1>2, <1>5, <1>6, <1>7, <1>8, <1>9 DEF Placed
<1> QED BY <1>11 DEF Ordered

LEMMA ReceiveOrdered ==
  ASSUME FetchersTypeOK, NEW k \in AllKinds, Ordered(k), Receive
  PROVE  Ordered(k)'
<1> USE DEF sources, fetching
<1>1. /\ ch # <<>> /\ writer' = "write" /\ taken' = Head(ch) /\ ch' = Tail(ch)
      /\ UNCHANGED <<past, rows, pc, step, item>>
  BY DEF Receive
<1>2. PICK n : n = Len(ch)
  OBVIOUS
<1>3. /\ n \in Nat /\ n > 0 /\ Len(ch') = n - 1 /\ taken' = ch[1]
      /\ \A i \in 1 .. n - 1 : ch'[i] = ch[i + 1]
  BY <1>1, <1>2 DEF FetchersTypeOK
<1>4. PICK m, t, c, at : Placed(k, m, t, c, at)
  BY DEF Ordered
<1>5. /\ m \in 0 .. Len(past[k]) /\ t \in 0 .. m
      /\ at \in [1 .. Len(rows[k]) -> 1 .. t] /\ c \in [1 .. n -> 0 .. m]
      /\ Written(k, at) /\ Queued(k, t, c) /\ Fetched(k, m)
  BY <1>2, <1>4 DEF Placed
<1>6. /\ \A i \in 1 .. n : ch[i][1] = k => c[i] > 0 /\ t <= c[i] /\ ch[i][2] = past[k][c[i]]
      /\ \A i, j \in 1 .. n : i < j /\ ch[i][1] = k /\ ch[j][1] = k => c[i] <= c[j]
  BY <1>2, <1>5 DEF Queued
<1>7. PICK u : u = IF ch[1][1] = k THEN c[1] ELSE t
  OBVIOUS
<1>8. PICK d : d = [i \in 1 .. n - 1 |-> c[i + 1]]
  OBVIOUS
<1>9. 1 \in 1 .. n /\ \A i \in 1 .. n - 1 : i + 1 \in 1 .. n
  BY <1>3
<1>10. /\ m \in Nat /\ Len(past[k]) \in Nat
       /\ u \in 0 .. m /\ t <= u /\ (ch[1][1] = k => u > 0 /\ ch[1][2] = past[k][u])
  <2>1. Len(past[k]) \in Nat
    BY DEF FetchersTypeOK
  <2>2. m \in Nat /\ c[1] \in 0 .. m
    BY <1>5, <1>9, <2>1
  <2>3. CASE ch[1][1] = k
    BY <1>5, <1>6, <1>7, <1>9, <2>1, <2>2, <2>3
  <2>4. CASE ch[1][1] # k
    BY <1>5, <1>7, <2>1, <2>2, <2>4
  <2> QED BY <2>3, <2>4
<1>11. d \in [1 .. Len(ch') -> 0 .. m]
  BY <1>3, <1>5, <1>8, <1>9
<1>12. at \in [1 .. Len(rows'[k]) -> 1 .. u]
  <2>1. \A i \in 1 .. Len(rows[k]) : at[i] \in 1 .. u
    BY <1>5, <1>10
  <2> QED BY <1>1, <1>5, <2>1
<1>13. Written(k, at)' /\ Received(k, u)' /\ Fetched(k, m)'
  <2>1. \A g \in Fetchers : Kind(g)' = Kind(g)
    BY <1>1 DEF Kind
  <2> QED BY <1>1, <1>3, <1>5, <1>10, <2>1 DEF Written, Received, Fetched
<1>14. Queued(k, u, d)'
  <2>1. ASSUME NEW i \in 1 .. n - 1, ch'[i][1] = k
        PROVE  d[i] > 0 /\ u <= d[i] /\ ch'[i][2] = past[k][d[i]]
    <3>1. d[i] = c[i + 1] /\ ch'[i] = ch[i + 1] /\ i + 1 \in 1 .. n /\ 1 < i + 1
      BY <1>3, <1>8, <1>9
    <3>2. u <= d[i]
      <4>1. CASE ch[1][1] = k
        BY <1>6, <1>7, <1>9, <2>1, <3>1, <4>1
      <4>2. CASE ch[1][1] # k
        BY <1>6, <1>7, <2>1, <3>1, <4>2
      <4> QED BY <4>1, <4>2
    <3> QED BY <1>6, <2>1, <3>1, <3>2
  <2>2. ASSUME NEW i \in 1 .. n - 1, NEW j \in 1 .. n - 1, i < j, ch'[i][1] = k, ch'[j][1] = k
        PROVE  d[i] <= d[j]
    <3>1. /\ d[i] = c[i + 1] /\ ch'[i] = ch[i + 1] /\ i + 1 \in 1 .. n
          /\ d[j] = c[j + 1] /\ ch'[j] = ch[j + 1] /\ j + 1 \in 1 .. n /\ i + 1 < j + 1
      BY <1>3, <1>8, <1>9, <2>2
    <3> QED BY <1>6, <2>2, <3>1
  <2> QED BY <1>1, <1>3, <2>1, <2>2 DEF Queued
<1>15. m \in 0 .. Len(past'[k])
  BY <1>1, <1>5
<1>16. Placed(k, m, u, d, at)'
  BY <1>10, <1>11, <1>12, <1>13, <1>14, <1>15 DEF Placed
<1> QED BY <1>16 DEF Ordered

LEMMA WriteOrdered ==
  ASSUME FetchersTypeOK, NEW k \in AllKinds, Ordered(k), Write, taken[1] = k
  PROVE  Ordered(k)'
<1> USE DEF sources, fetching
<1>1. /\ writer = "write" /\ writer' = "wait"
      /\ rows' = [rows EXCEPT ![k] = Insert(k, taken[2])]
      /\ UNCHANGED <<past, pc, step, item, ch>>
  BY DEF Write
<1>2. taken[2] \in Payloads /\ rows'[k] = Insert(k, taken[2]) /\ Len(past[k]) \in Nat
  BY <1>1 DEF FetchersTypeOK
<1>3. PICK m, t, c, at : Placed(k, m, t, c, at)
  BY DEF Ordered
<1>4. /\ m \in 0 .. Len(past[k]) /\ t \in 0 .. m
      /\ at \in [1 .. Len(rows[k]) -> 1 .. t] /\ c \in [1 .. Len(ch) -> 0 .. m]
      /\ Written(k, at) /\ Queued(k, t, c) /\ Fetched(k, m)
      /\ t > 0 /\ taken[2] = past[k][t]
  BY <1>1, <1>3 DEF Placed, Received
<1>5. t \in Nat \ {0} /\ t <= t
  BY <1>2, <1>4
<1>6. PICK now \in [1 .. Len(rows'[k]) -> 1 .. t] :
        /\ \A i \in 1 .. Len(rows'[k]) : rows'[k][i] = past[k][now[i]]
        /\ \A i, j \in 1 .. Len(rows'[k]) : i < j => now[i] < now[j]
  <2>1. UpTo(k, t, Insert(k, taken[2]))
    BY <1>2, <1>4, <1>5, InsertedInOrder
  <2>2. UpTo(k, t, rows'[k])
    BY <1>2, <2>1
  <2> QED BY <2>2 DEF UpTo
<1>7. Written(k, now)' /\ Received(k, t)' /\ Queued(k, t, c)' /\ Fetched(k, m)'
  <2>1. \A g \in Fetchers : Kind(g)' = Kind(g)
    BY <1>1 DEF Kind
  <2> QED BY <1>1, <1>4, <1>6, <2>1 DEF Written, Received, Queued, Fetched
<1>8. Placed(k, m, t, c, now)'
  BY <1>1, <1>4, <1>6, <1>7 DEF Placed
<1> QED BY <1>8 DEF Ordered

LEMMA BalanceOrdered ==
  ASSUME FetchersTypeOK, RouteInv,
         NEW k \in AllKinds, Ordered(k),
         NEW f \in Fetchers, WriteBalance(f), Kind(f) = k, rows'[k] # rows[k]
  PROVE  Ordered(k)'
<1> USE DEF sources, writing
<1>1. /\ pc[f] = "send" /\ f \in Direct /\ ToNext(f)
      /\ rows' = [rows EXCEPT ![k] = Insert(k, item[f])]
      /\ item' = [item EXCEPT ![f] = Nil]
      /\ UNCHANGED <<past, ch, writer, taken>>
  BY DEF WriteBalance
<1>2. item[f] \in Payloads /\ rows'[k] = Insert(k, item[f]) /\ Len(past[k]) \in Nat
  BY <1>1 DEF FetchersTypeOK
<1>3. PICK m, t, c, at : Placed(k, m, t, c, at)
  BY DEF Ordered
<1>4. /\ m \in 0 .. Len(past[k]) /\ t \in 0 .. m
      /\ at \in [1 .. Len(rows[k]) -> 1 .. t] /\ c \in [1 .. Len(ch) -> 0 .. m]
      /\ Written(k, at) /\ Fetched(k, m)
  BY <1>3 DEF Placed
<1>5. m > 0 /\ item[f] = past[k][m]
  BY <1>1, <1>4 DEF Fetched
<1>6. m \in Nat \ {0} /\ t \in Nat /\ t <= m
  BY <1>2, <1>4, <1>5
<1>7. PICK now \in [1 .. Len(rows'[k]) -> 1 .. m] :
        /\ \A i \in 1 .. Len(rows'[k]) : rows'[k][i] = past[k][now[i]]
        /\ \A i, j \in 1 .. Len(rows'[k]) : i < j => now[i] < now[j]
  <2>1. UpTo(k, m, Insert(k, item[f]))
    BY <1>2, <1>4, <1>5, <1>6, InsertedInOrder
  <2>2. UpTo(k, m, rows'[k])
    BY <1>2, <2>1
  <2> QED BY <2>2 DEF UpTo
<1>8. Written(k, now)'
  BY <1>1, <1>7 DEF Written
<1>9. Received(k, m)' /\ Queued(k, m, c)'
  <2>1. k \notin ThroughChannel
    BY <1>1, KindOfFetcher
  <2> QED BY <1>1, <2>1 DEF RouteInv, Received, Queued
<1>10. Fetched(k, m)'
  <2>1. PICK s \in {"fetch", "wait"} : pc' = [pc EXCEPT ![f] = s]
    BY <1>1, NextPart
  <2>2. \A g \in Fetchers : pc'[g] = "send" => g # f
    BY <2>1 DEF FetchersTypeOK
  <2>3. \A g \in Fetchers : g # f => Kind(g)' = Kind(g)
    BY <1>1, NextPart DEF Kind
  <2>4. \A g \in Fetchers : Kind(g) = k => g = f
    BY KindOfFetcher
  <2> QED BY <2>2, <2>3, <2>4 DEF Fetched
<1>11. Placed(k, m, m, c, now)'
  BY <1>1, <1>4, <1>6, <1>7, <1>8, <1>9, <1>10 DEF Placed
<1> QED BY <1>11 DEF Ordered

\* A fetcher that holds a payload after a step of some fetcher held it before or
\* has just fetched it.
LEMMA HeldBefore ==
  ASSUME FetchersTypeOK, NEW f \in Fetchers,
         Fetching(f), NEW k, ~(Fetch(f) /\ Kind(f) = k)
  PROVE  \A g \in Fetchers : pc'[g] = "send" /\ Kind(g)' = k =>
           pc[g] = "send" /\ Kind(g) = k /\ item'[g] = item[g]
<1> SUFFICES ASSUME NEW g \in Fetchers, pc'[g] = "send", Kind(g)' = k
             PROVE  pc[g] = "send" /\ Kind(g) = k /\ item'[g] = item[g]
  OBVIOUS
<1>1. CASE pc[g] = "send"
  BY <1>1, FetcherTypes DEF Kind
<1>2. CASE pc[g] # "send"
  <2>1. Fetch(f) /\ g = f
    BY <1>2, FetcherTypes
  <2>2. step' = step
    BY <2>1 DEF Fetch
  <2>3. Kind(g) = k
    BY <2>2 DEF Kind
  <2> QED BY <2>1, <2>3
<1> QED BY <1>1, <1>2

LEMMA FetchingOrdered ==
  ASSUME FetchersTypeOK, RouteInv, SourceInv,
         NEW k \in AllKinds, Ordered(k), NEW f \in Fetchers, Fetching(f)
  PROVE  Ordered(k)'
<1> USE DEF sources, writing
<1>1. CASE Send(f)
  BY <1>1, SendOrdered
<1>2. CASE Fetch(f) /\ Kind(f) = k
  BY <1>2, FetchOrdered
<1>3. CASE WriteBalance(f) /\ rows'[k] # rows[k]
  <2>1. Kind(f) = k
    BY <1>3 DEF WriteBalance, FetchersTypeOK
  <2> QED BY <1>3, <2>1, BalanceOrdered
<1>4. CASE ~Send(f) /\ ~(Fetch(f) /\ Kind(f) = k)
           /\ ~(WriteBalance(f) /\ rows'[k] # rows[k])
  <2>1. UNCHANGED <<past, ch, writer, taken>> /\ rows'[k] = rows[k]
    BY <1>4 DEF Fetching, Polling, Stating, Start, PrepareFails, TickFetcher, Fetch,
       FetchNothing, WriteBalance
  <2> QED BY <1>4, <2>1, HeldBefore, DroppedStaysOrdered
<1> QED BY <1>1, <1>2, <1>3, <1>4

LEMMA OrderedNext ==
  ASSUME FetchersTypeOK, RouteInv, SourceInv,
         NEW k \in AllKinds, Ordered(k), FetchersNext
  PROVE  Ordered(k)'
<1> USE DEF sources, fetching, writing, dog, process
<1>1. ASSUME NEW l \in AllKinds, Change(l) PROVE Ordered(k)'
  BY <1>1, ChangeOrdered
<1>2. ASSUME NEW f \in Fetchers, Fetching(f) PROVE Ordered(k)'
  BY <1>2, FetchingOrdered
<1>3. ASSUME NEW f \in Fetchers, Stop(f) PROVE Ordered(k)'
  <2>1. pc' = [pc EXCEPT ![f] = "done"] /\ UNCHANGED <<past, rows, step, item, ch, writer, taken>>
    BY <1>3 DEF Stop
  <2>2. \A g \in Fetchers : (pc'[g] = "send" => pc[g] = "send") /\ Kind(g)' = Kind(g)
    BY <2>1 DEF FetchersTypeOK, Kind
  <2> QED BY <2>1, <2>2, DroppedStaysOrdered
<1>4. CASE UNCHANGED <<past, rows, pc, step, item, ch, writer, taken>>
  <2>1. \A g \in Fetchers : Kind(g)' = Kind(g)
    BY <1>4 DEF Kind
  <2> QED BY <1>4, <2>1, DroppedStaysOrdered
<1>5. CASE Receive
  BY <1>5, ReceiveOrdered
<1>6. CASE Write
  <2>1. CASE taken[1] = k
    BY <1>6, <2>1, WriteOrdered
  <2>2. CASE taken[1] # k
    <3>1. rows'[k] = rows[k] /\ writer' = "wait" /\ UNCHANGED <<past, pc, step, item, ch>>
      BY <1>6, <2>2 DEF Write, FetchersTypeOK
    <3>2. \A g \in Fetchers : Kind(g)' = Kind(g)
      BY <3>1 DEF Kind
    <3> QED BY <3>1, <3>2, DroppedStaysOrdered
  <2> QED BY <2>1, <2>2
<1>7. CASE WriteFails \/ WriterStops
  <2>1. writer' # "write" /\ UNCHANGED <<past, rows, pc, step, item, ch>>
    BY <1>7 DEF WriteFails, WriterStops
  <2>2. \A g \in Fetchers : Kind(g)' = Kind(g)
    BY <2>1 DEF Kind
  <2> QED BY <2>1, <2>2, DroppedStaysOrdered
<1>8. CASE RestartService
  <2>1. writer' = "wait" /\ ch' = <<>> /\ UNCHANGED <<past, rows>>
    BY <1>8 DEF RestartService
  <2>2. \A g \in Fetchers : pc'[g] # "send"
    BY <1>8 DEF RestartService, Starting
  <2> QED BY <2>1, <2>2, DroppedStaysOrdered
<1> QED
  BY <1>1, <1>2, <1>3, <1>4, <1>5, <1>6, <1>7, <1>8
     DEF FetchersNext, Writing, Lapse, Cancel, Exit

LEMMA RouteNext ==
  ASSUME FetchersTypeOK, RouteInv, FetchersNext
  PROVE  RouteInv'
<1> USE DEF sources, fetching, writing, dog, process
<1>1. ch \in Seq(AllKinds \X Payloads) /\ Len(ch) \in Nat
  BY DEF FetchersTypeOK
<1>2. ASSUME NEW f \in Fetchers, Send(f) PROVE RouteInv'
  <2>1. /\ f \notin Direct /\ ch' = Append(ch, <<Kind(f), item[f]>>)
        /\ UNCHANGED <<writer, taken>>
    BY <1>2 DEF Send
  <2>2. Kind(f) \in ThroughChannel
    BY <2>1, KindOfFetcher
  <2>3. /\ Len(ch') = Len(ch) + 1 /\ ch'[Len(ch) + 1][1] = Kind(f)
        /\ \A i \in 1 .. Len(ch) : ch'[i] = ch[i]
    BY <1>1, <2>1
  <2>4. \A i \in 1 .. Len(ch') : i = Len(ch) + 1 \/ i \in 1 .. Len(ch)
    BY <1>1, <2>3
  <2> QED BY <2>1, <2>2, <2>3, <2>4 DEF RouteInv, ThroughChannel
<1>3. CASE Receive
  <2>1. /\ taken' = ch[1] /\ 1 \in 1 .. Len(ch) /\ Len(ch') = Len(ch) - 1
        /\ \A i \in 1 .. Len(ch) - 1 : ch'[i] = ch[i + 1] /\ i + 1 \in 1 .. Len(ch)
    BY <1>1, <1>3 DEF Receive
  <2> QED BY <2>1 DEF RouteInv, ThroughChannel
<1>4. CASE /\ ch' = ch \/ ch' = <<>>
           /\ writer' = "write" => writer = "write" /\ taken' = taken
  <2>1. \A i \in 1 .. Len(ch') : i \in 1 .. Len(ch) /\ ch'[i] = ch[i]
    BY <1>1, <1>4
  <2> QED BY <1>4, <2>1 DEF RouteInv, ThroughChannel
<1>5. ASSUME NEW f \in Fetchers, Fetching(f), ~Send(f) PROVE UNCHANGED <<ch, writer, taken>>
  BY <1>5 DEF Fetching, Polling, Stating, Start, PrepareFails, TickFetcher, Fetch,
     FetchNothing, WriteBalance
<1> QED
  BY <1>2, <1>3, <1>4, <1>5
     DEF FetchersNext, Writing, Change, Stop, Lapse, Write,
         WriteFails, WriterStops, Cancel, Exit, RestartService

LEMMA SourceNext ==
  ASSUME FetchersTypeOK, SourceInv, FetchersNext
  PROVE  SourceInv'
<1>1. ASSUME NEW l \in AllKinds, Change(l) PROVE SourceInv'
  <2>1. PICK p \in (Payloads \cup {Nil}) \ {source[l]} :
          /\ source' = [source EXCEPT ![l] = p]
          /\ past' = IF p = Nil THEN past ELSE [past EXCEPT ![l] = Append(@, p)]
    BY <1>1 DEF Change
  <2> SUFFICES ASSUME NEW k \in AllKinds, source'[k] # Nil
               PROVE  past'[k] # <<>> /\ past'[k][Len(past'[k])] = source'[k]
    BY DEF SourceInv
  <2>2. past[k] \in Seq(Payloads) /\ past \in [AllKinds -> Seq(Payloads)]
        /\ source \in [AllKinds -> Payloads \cup {Nil}]
    BY DEF FetchersTypeOK
  <2>3. CASE k = l
    <3>1. p = source'[k] /\ p \in Payloads /\ past'[k] = Append(past[k], p)
      BY <2>1, <2>2, <2>3
    <3>2. PICK s \in Seq(Payloads) : s = past[k]
      BY <2>2
    <3>3. past'[k] = Append(s, p) /\ Len(s) \in Nat
      BY <3>1, <3>2
    <3>4. Append(s, p) \in Seq(Payloads)
      BY <3>1
    <3>5. Len(past'[k]) = Len(s) + 1 /\ past'[k][Len(s) + 1] = p
      BY <3>3, <3>1
    <3>6. past'[k] # <<>>
      BY <3>3, <3>5
    <3> QED BY <3>1, <3>3, <3>5, <3>6
  <2>4. CASE k # l
    <3>1. source'[k] = source[k] /\ past'[k] = past[k]
      BY <2>1, <2>2, <2>4
    <3> QED BY <3>1 DEF SourceInv
  <2> QED BY <2>3, <2>4
<1>2. CASE UNCHANGED <<source, past>>
  BY <1>2 DEF SourceInv
<1> QED
  BY <1>1, <1>2
     DEF FetchersNext, Writing, Fetching, Polling, Stating, Start, PrepareFails,
         TickFetcher, Fetch, FetchNothing, Send, WriteBalance,
         Stop, Lapse, Receive, Write, WriteFails,
         WriterStops, Cancel, Exit, RestartService, sources

LEMMA NeighboursNext ==
  ASSUME FetchersTypeOK, NeighboursDiffer, FetchersNext
  PROVE  NeighboursDiffer'
<1>1. ASSUME NEW l \in AllKinds, NEW p \in Payloads,
             rows' = [rows EXCEPT ![l] = Insert(l, p)]
      PROVE  NeighboursDiffer'
  <2> SUFFICES ASSUME NEW k \in AllKinds, NEW i \in 1 .. Len(rows'[k]) - 1
               PROVE  rows'[k][i] # rows'[k][i + 1]
    BY DEF NeighboursDiffer
  <2>1. CASE rows'[k] = rows[k]
    BY <2>1 DEF NeighboursDiffer
  <2>2. CASE rows'[k] # rows[k]
    <3>1. k = l /\ rows'[k] = Insert(k, p)
      BY <1>1, <2>2 DEF FetchersTypeOK
    <3>2. /\ rows[k] \in Seq(Payloads) /\ Len(rows[k]) \in Nat
          /\ rows'[k] = Append(rows[k], p) /\ (rows[k] # <<>> => rows[k][Len(rows[k])] # p)
      BY <2>2, <3>1, InsertType
    <3>3. /\ Len(rows'[k]) = Len(rows[k]) + 1 /\ rows'[k][Len(rows[k]) + 1] = p
          /\ \A j \in 1 .. Len(rows[k]) : rows'[k][j] = rows[k][j]
      BY <3>2
    <3>4. i \in 1 .. Len(rows[k]) /\ rows[k] # <<>>
      BY <3>2, <3>3
    <3>5. CASE i = Len(rows[k])
      BY <3>2, <3>3, <3>4, <3>5
    <3>6. CASE i # Len(rows[k])
      <4>1. i \in 1 .. Len(rows[k]) - 1 /\ i + 1 \in 1 .. Len(rows[k])
        BY <3>2, <3>4, <3>6
      <4> QED BY <3>3, <3>4, <4>1 DEF NeighboursDiffer
    <3> QED BY <3>5, <3>6
  <2> QED BY <2>1, <2>2
<1>2. CASE rows' = rows
  BY <1>2 DEF NeighboursDiffer
<1>3. CASE Write
  <2>1. taken[1] \in AllKinds /\ taken[2] \in Payloads
    BY <1>3 DEF FetchersTypeOK, Write
  <2> QED BY <1>1, <1>3, <2>1 DEF Write
<1>4. ASSUME NEW f \in Fetchers, WriteBalance(f) PROVE NeighboursDiffer'
  <2>1. Kind(f) \in AllKinds /\ item[f] \in Payloads
    BY <1>4, KindOfFetcher DEF FetchersTypeOK, WriteBalance
  <2> QED BY <1>1, <1>2, <1>4, <2>1 DEF WriteBalance
<1> QED
  BY <1>2, <1>3, <1>4
     DEF FetchersNext, Writing, Fetching, Polling, Stating, Change, Start,
         PrepareFails, TickFetcher, Fetch, FetchNothing, Send,
         Stop, Lapse, Receive, WriteFails,
         WriterStops, Cancel, Exit, RestartService

LEMMA PipeNext ==
  ASSUME PipeInv, [FetchersNext]_fetchersVars
  PROVE  PipeInv'
<1>1. CASE FetchersNext
  BY <1>1, MetricsTypes, NeighboursNext, RouteNext, SourceNext, OrderedNext DEF PipeInv, AllKinds
<1>2. CASE UNCHANGED fetchersVars
  <2> USE DEF fetchersVars, sources, fetching, writing, dog, process
  <2>1. FetchersTypeOK' /\ NeighboursDiffer' /\ RouteInv' /\ SourceInv'
    BY <1>2 DEF PipeInv, FetchersTypeOK, NeighboursDiffer, RouteInv, SourceInv, ThroughChannel
  <2>2. \A k \in AllKinds : Ordered(k)'
    <3> SUFFICES ASSUME NEW k \in AllKinds PROVE Ordered(k)'
      OBVIOUS
    <3>1. \A g \in Fetchers : Kind(g)' = Kind(g)
      BY <1>2 DEF Kind
    <3> QED BY <1>2, <3>1, DroppedStaysOrdered DEF PipeInv
  <2> QED BY <2>1, <2>2 DEF PipeInv, AllKinds
<1> QED BY <1>1, <1>2

LEMMA PipeInit ==
  ASSUME FetchersInit
  PROVE  PipeInv
<1>1. /\ \A f \in Fetchers : 1 \in DOMAIN Kinds[f]
      /\ {MaxChanges, MaxFailures, MaxStarts} \subseteq Nat /\ Capacity \in Nat \ {0}
  BY MetricsFetchersAssumption
<1>2. <<>> \in Seq(Payloads) /\ <<>> \in Seq(AllKinds \X Payloads) /\ Len(<<>>) = 0
  OBVIOUS
<1>3. \A k \in AllKinds : source[k] = Nil /\ past[k] = <<>> /\ rows[k] = <<>>
  BY DEF FetchersInit
<1>4. FetchersTypeOK
  <2>1. step \in [Fetchers -> Nat] /\ \A f \in Fetchers : step[f] = 1
    BY DEF FetchersInit, Everyone
  <2>2. item \in [Fetchers -> {Nil}] /\ watch \in [Fetchers -> {Nil}]
    BY DEF FetchersInit, Everyone
  <2>3. pc \in [Fetchers -> {"start", "done"}]
    BY DEF FetchersInit, Starting
  <2>4. \A f \in Fetchers : step[f] \in DOMAIN Kinds[f] /\ (item[f] # Nil <=> pc[f] = "send")
    BY <1>1, <2>1, <2>2, <2>3
  <2> QED BY <1>1, <1>2, <2>1, <2>2, <2>3, <2>4 DEF FetchersInit, FetchersTypeOK
<1>5. NeighboursDiffer
  BY <1>2, <1>3 DEF NeighboursDiffer
<1>6. RouteInv /\ SourceInv
  BY <1>2, <1>3 DEF FetchersInit, RouteInv, SourceInv
<1>7. ASSUME NEW k \in AllKinds PROVE Ordered(k)
  <2> DEFINE none == [i \in {} |-> 0]
  <2>1. /\ Len(past[k]) = 0 /\ Len(rows[k]) = 0 /\ Len(ch) = 0 /\ 1 .. 0 = {}
        /\ writer # "write" /\ \A f \in Fetchers : pc[f] # "send"
    BY <1>2, <1>3 DEF FetchersInit, Starting
  <2>2. none \in [1 .. Len(ch) -> 0 .. 0] /\ none \in [1 .. Len(rows[k]) -> 1 .. 0]
    BY <2>1
  <2>3. Placed(k, 0, 0, none, none)
    BY <2>1, <2>2 DEF Placed, Written, Received, Queued, Fetched
  <2> QED BY <2>3 DEF Ordered
<1> QED BY <1>4, <1>5, <1>6, <1>7 DEF PipeInv

\* RowsInv: whatever is lost on the way, in whatever order fetchers, writer and
\* starts interleave, the rows of a payload type never repeat their neighbour
\* and never go back in the history of their source.
THEOREM RowsFollowTheirSources == FetchersSpec => []RowsInv
<1>1. ASSUME PipeInv PROVE RowsInv
  <2>1. RowsFollowSource
    <3> SUFFICES ASSUME NEW k \in AllKinds
                 PROVE  \E at \in [DOMAIN rows[k] -> DOMAIN past[k]] :
                          /\ \A i \in DOMAIN rows[k] : rows[k][i] = past[k][at[i]]
                          /\ \A i, j \in DOMAIN rows[k] : i < j => at[i] < at[j]
      BY DEF RowsFollowSource
    <3>1. PICK m, t, c, at : Placed(k, m, t, c, at)
      BY <1>1 DEF PipeInv, Ordered
    <3>2. /\ past[k] \in Seq(Payloads) /\ DOMAIN past[k] = 1 .. Len(past[k]) /\ Len(past[k]) \in Nat
          /\ rows[k] \in Seq(Payloads) /\ DOMAIN rows[k] = 1 .. Len(rows[k])
      BY <1>1 DEF PipeInv, FetchersTypeOK
    <3>3. m \in 0 .. Len(past[k]) /\ t \in 0 .. m /\ at \in [DOMAIN rows[k] -> 1 .. t] /\ Written(k, at)
      BY <3>1, <3>2 DEF Placed
    <3>4. 1 .. t \subseteq DOMAIN past[k]
      BY <3>2, <3>3
    <3>5. at \in [DOMAIN rows[k] -> DOMAIN past[k]]
      BY <3>3, <3>4
    <3> QED BY <3>2, <3>3, <3>5 DEF Written
  <2> QED BY <1>1, <2>1 DEF PipeInv, RowsInv
<1> QED BY <1>1, PipeInit, PipeNext, PTL DEF FetchersSpec

=============================================================================
