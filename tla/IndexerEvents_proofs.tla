------------------------ MODULE IndexerEvents_proofs ------------------------
(***************************************************************************)
(* Proofs about IndexerEvents for every chain, every channel and page size, *)
(* and every bound: its types, the unity of a pegout's rows, and that the   *)
(* database implements EventLedger.                                         *)
(***************************************************************************)
EXTENDS IndexerEvents, FiniteSetTheorems, TLAPS

(* What the refinement rests on: nothing on its way to the database is ahead *)
(* of the chain, and a handler has taken the branch of its event.            *)
OnChain(c) ==
  /\ height[c] <= Len(Chain[c])
  /\ cursor[c] <= height[c]
  /\ \A i \in 1 .. Len(page[c]) : page[c][i] <= height[c]
  /\ \A i \in 1 .. Len(txChan[c]) : txChan[c][i] <= height[c]

ChainInv == \A c \in Contracts : OnChain(c)

RawInv == \A i \in 1 .. Len(rawChan) : rawChan[i] \in Raised

WorkerInv ==
  \A e \in Events :
    /\ worker[e] # None => e \in Raised
    /\ worker[e] \in {"query", "create"} => e \in PegoutEvents
    /\ worker[e] = "key" => e \in KeyEvents

WayInv == ChainInv /\ RawInv /\ WorkerInv

\* An answer of the chain, newest first, and where the next request begins.
LEMMA SortedAnswer ==
  ASSUME NEW lt \in Nat \ {0}
  PROVE  /\ Sorted(Answer(lt)) \in Seq(Nat \ {0})
         /\ \A i \in 1 .. Len(Sorted(Answer(lt))) : Sorted(Answer(lt))[i] <= lt
         /\ NextLt(Sorted(Answer(lt))) \in Nat
         /\ NextLt(Sorted(Answer(lt))) <= lt
<1> DEFINE first == IF lt > Limit THEN lt - Limit + 1 ELSE 1
           n == lt - first + 1
           ans == [k \in 1 .. n |-> first + k - 1]
           txs == [i \in 1 .. n |-> first + (n - i + 1) - 1]
<1>1. first \in Nat \ {0} /\ n \in Nat \ {0} /\ n = lt + 1 - first
  BY EventsAssumption
<1>2. Answer(lt) = ans
  BY DEF Answer
<1> HIDE DEF first, n
<1>3. ans \in Seq(Nat \ {0}) /\ Len(ans) = n
  BY <1>1
<1>4. Sorted(Answer(lt)) = txs
  <2>1. Sorted(Answer(lt)) = [i \in 1 .. n |-> ans[(n - i) + 1]]
    BY <1>2, <1>3 DEF Sorted, Reverse
  <2>2. ASSUME NEW i \in 1 .. n PROVE ans[(n - i) + 1] = first + (n - i + 1) - 1
    BY <1>1
  <2> QED BY <2>1, <2>2, Zenon
<1>5. txs \in Seq(Nat \ {0}) /\ Len(txs) = n
  <2>1. ASSUME NEW i \in 1 .. n PROVE txs[i] \in Nat \ {0}
    BY <1>1
  <2> QED BY <1>1, <2>1
<1>6. ASSUME NEW i \in 1 .. n PROVE txs[i] <= lt
  BY <1>1
<1>7. NextLt(txs) = first - 1
  BY <1>1, <1>5 DEF NextLt, Last
<1> HIDE DEF txs
<1> QED BY <1>1, <1>4, <1>5, <1>6, <1>7

-----------------------------------------------------------------------------
(* Type correctness.                                                        *)

LEMMA RaisedMembers ==
  \A e : e \in Raised <=> e # None /\ \E c \in Contracts : \E k \in 1 .. height[c] : e = Chain[c][k]
BY DEF Raised

\* What the filter takes from the channel is the event of a transaction so far.
LEMMA FilteredIsRaised ==
  ASSUME TypeOK, ChainInv, NEW c \in Contracts, txChan[c] # <<>>,
         Chain[c][Head(txChan[c])] # None
  PROVE  Chain[c][Head(txChan[c])] \in Events \cap Raised
<1>1. txChan[c] \in Seq(Nat \ {0}) /\ Len(txChan[c]) \in Nat /\ height[c] \in Nat
  BY DEF TypeOK
<1>2. Head(txChan[c]) = txChan[c][1] /\ 1 \in 1 .. Len(txChan[c])
  BY <1>1
<1>3. Head(txChan[c]) \in Nat \ {0} /\ Head(txChan[c]) <= height[c] /\ height[c] <= Len(Chain[c])
  BY <1>1, <1>2 DEF ChainInv, OnChain
<1>4. Head(txChan[c]) \in 1 .. height[c]
  BY <1>1, <1>3
<1>5. Chain[c] \in Seq(Events \cup {None})
  BY EventsAssumption
<1>6. Chain[c][Head(txChan[c])] \in Events
  BY <1>1, <1>3, <1>4, <1>5
<1> QED BY <1>4, <1>6, RaisedMembers

\* A running collector has begun after its first transaction.
Begun == \A c \in Contracts : collector[c] = "running" => next[c] # 0

TypeInv == TypeOK /\ Begun

LEMMA TypeInit == Init => TypeInv
<1> SUFFICES ASSUME Init PROVE TypeInv
  OBVIOUS
<1>1. /\ height \in [Contracts -> Nat] /\ cursor \in [Contracts -> Nat]
      /\ next \in [Contracts -> Nat]
  BY DEF Init, Zero
<1>2. /\ page \in [Contracts -> Seq(Nat \ {0})]
      /\ txChan \in [Contracts -> Seq(Nat \ {0})]
  <2>1. <<>> \in Seq(Nat \ {0})
    OBVIOUS
  <2> QED BY <2>1 DEF Init, Empty
<1>3. collector \in [Contracts -> {"new", "running", "dead"}] /\ Begun
  BY DEF Init, AllNew, Begun
<1>4. worker \in [Events -> {"tontx", "parse", "query", "create", "key", None}]
  BY DEF Init, NoWorkers
<1> QED BY <1>1, <1>2, <1>3, <1>4, EventsAssumption DEF Init, TypeInv, TypeOK

LEMMA TypeCollect == ASSUME TypeInv, ChainInv, NEW c \in Contracts, Collect(c) PROVE TypeInv'
<1> USE DEF dispatch, database, bounds
<1>0. TypeOK /\ Begun
  BY DEF TypeInv
<1>1. CASE StartCollector(c)
  <2>1. TypeOK'
    <3>1. collector' \in [Contracts -> {"new", "running", "dead"}]
      BY <1>0, <1>1 DEF StartCollector, TypeOK
    <3>2. cursor' \in [Contracts -> Nat] /\ next' \in [Contracts -> Nat]
      BY <1>0, <1>1 DEF StartCollector, TypeOK
    <3> QED BY <1>0, <1>1, <3>1, <3>2 DEF StartCollector, TypeOK
  <2>2. Begun'
    <3>1. height[c] + 1 # 0 /\ next'[c] = height[c] + 1
      BY <1>0, <1>1 DEF StartCollector, TypeOK
    <3>2. \A b \in Contracts \ {c} : next'[b] = next[b] /\ collector'[b] = collector[b]
      BY <1>0, <1>1 DEF StartCollector, TypeOK
    <3> QED BY <1>0, <3>1, <3>2 DEF Begun
  <2> QED BY <2>1, <2>2 DEF TypeInv
<1>2. CASE CollectorDies(c)
  <2>1. TypeOK'
    BY <1>0, <1>2, EventsAssumption DEF CollectorDies, TypeOK
  <2>2. Begun'
    BY <1>0, <1>2 DEF CollectorDies, TypeOK, Begun
  <2> QED BY <2>1, <2>2 DEF TypeInv
<1>3. CASE Fetch(c)
  <2>1. cursor[c] \in Nat \ {0}
    BY <1>0, <1>3 DEF Fetch, TypeOK
  <2>2. /\ page' = [page EXCEPT ![c] = Sorted(Answer(cursor[c]))]
        /\ cursor' = [cursor EXCEPT ![c] = NextLt(Sorted(Answer(cursor[c])))]
    BY <1>3 DEF Fetch
  <2>3. page' \in [Contracts -> Seq(Nat \ {0})] /\ cursor' \in [Contracts -> Nat]
    BY <1>0, <2>1, <2>2, SortedAnswer DEF TypeOK
  <2> QED BY <1>0, <1>3, <2>3 DEF Fetch, TypeInv, TypeOK, Begun
<1>4. CASE ForwardFetched(c)
  <2>1. Head(page[c]) \in Nat \ {0} /\ Tail(page[c]) \in Seq(Nat \ {0})
    BY <1>0, <1>4 DEF ForwardFetched, TypeOK
  <2>2. Append(txChan[c], Head(page[c])) \in Seq(Nat \ {0})
    BY <1>0, <2>1 DEF TypeOK
  <2> QED BY <1>0, <1>4, <2>1, <2>2 DEF ForwardFetched, TypeInv, TypeOK, Begun
<1>5. CASE ForwardSubscribed(c)
  <2>1. next[c] \in Nat \ {0}
    BY <1>0, <1>5 DEF ForwardSubscribed, TypeOK, Begun
  <2>2. Append(txChan[c], next[c]) \in Seq(Nat \ {0})
    BY <1>0, <2>1 DEF TypeOK
  <2>3. TypeOK'
    <3>1. txChan' \in [Contracts -> Seq(Nat \ {0})]
      BY <1>0, <1>5, <2>2 DEF ForwardSubscribed, TypeOK
    <3>2. next' \in [Contracts -> Nat]
      BY <1>0, <1>5, <2>1 DEF ForwardSubscribed, TypeOK
    <3> QED BY <1>0, <1>5, <3>1, <3>2 DEF ForwardSubscribed, TypeOK
  <2>4. Begun'
    <3>1. next'[c] # 0
      BY <1>0, <1>5, <2>1 DEF ForwardSubscribed, TypeOK
    <3>2. \A b \in Contracts \ {c} : next'[b] = next[b]
      BY <1>0, <1>5 DEF ForwardSubscribed, TypeOK
    <3>3. collector' = collector
      BY <1>5 DEF ForwardSubscribed
    <3> QED BY <1>0, <3>1, <3>2, <3>3 DEF Begun
  <2> QED BY <2>3, <2>4 DEF TypeInv
<1>6. CASE Filter(c)
  <2>1. Tail(txChan[c]) \in Seq(Nat \ {0})
    BY <1>0, <1>6 DEF Filter, TypeOK
  <2>2. rawChan' \in Seq(Events)
    <3>1. rawChan \in Seq(Events)
      BY <1>0 DEF TypeOK
    <3>2. CASE rawChan' = rawChan
      BY <3>1, <3>2
    <3>3. CASE /\ Chain[c][Head(txChan[c])] # None
               /\ rawChan' = Append(rawChan, Chain[c][Head(txChan[c])])
      <4>1. Chain[c][Head(txChan[c])] \in Events
        BY <1>0, <1>6, <3>3, FilteredIsRaised DEF Filter
      <4> QED BY <3>1, <3>3, <4>1
    <3> QED BY <1>6, <3>2, <3>3 DEF Filter
  <2> QED BY <1>0, <1>6, <2>1, <2>2 DEF Filter, TypeInv, TypeOK, Begun
<1> QED BY <1>1, <1>2, <1>3, <1>4, <1>5, <1>6 DEF Collect

LEMMA TypeHandle == ASSUME TypeInv, WorkerInv, NEW e \in Events, Handle(e) PROVE TypeInv'
<1> USE DEF collect, database, bounds
<1>0. TypeOK /\ Begun
  BY DEF TypeInv
<1>1. UNCHANGED <<height, collector, cursor, page, next, txChan, rawChan, restarts>>
  BY DEF Handle, WriteTonTx, Parse, QueryPegout, CreatePegout, CreateInternalKey, HandlerFails
<1>2. /\ worker' \in [Events -> {"tontx", "parse", "query", "create", "key", None}]
      /\ done' \subseteq Events
  <2>1. CASE WriteTonTx(e) \/ CreatePegout(e) \/ CreateInternalKey(e)
    BY <1>0, <2>1 DEF WriteTonTx, CreatePegout, CreateInternalKey, HandlerReturns, TypeOK
  <2>2. CASE Parse(e)
    BY <1>0, <2>2 DEF Parse, HandlerReturns, TypeOK
  <2>3. CASE QueryPegout(e) \/ HandlerFails(e)
    BY <1>0, <2>3 DEF QueryPegout, HandlerFails, HandlerReturns, TypeOK
  <2> QED BY <2>1, <2>2, <2>3 DEF Handle
<1>3. /\ tonTxs' \subseteq Events
      /\ pegouts' \subseteq PegoutEvents
      /\ rows' \subseteq PegoutEvents \cup KeyEvents
  <2>1. CASE WriteTonTx(e) \/ Parse(e) \/ QueryPegout(e) \/ HandlerFails(e)
    BY <1>0, <2>1 DEF WriteTonTx, Parse, QueryPegout, HandlerFails, TypeOK
  <2>2. CASE CreatePegout(e)
    <3>1. e \in PegoutEvents
      BY <2>2 DEF CreatePegout, WorkerInv
    <3> QED BY <1>0, <2>2, <3>1 DEF CreatePegout, TypeOK
  <2>3. CASE CreateInternalKey(e)
    <3>1. e \in KeyEvents
      BY <2>3 DEF CreateInternalKey, WorkerInv
    <3> QED BY <1>0, <2>3, <3>1 DEF CreateInternalKey, TypeOK
  <2> QED BY <2>1, <2>2, <2>3 DEF Handle
<1>4. failed' \subseteq Events /\ losses' \in 0 .. MaxLosses
  <2>1. CASE HandlerFails(e)
    BY <1>0, <2>1, EventsAssumption DEF HandlerFails, TypeOK
  <2>2. CASE ~(HandlerFails(e))
    BY <1>0, <2>2 DEF Handle, WriteTonTx, Parse, QueryPegout, CreatePegout,
                      CreateInternalKey, TypeOK
  <2> QED BY <2>1, <2>2
<1> QED BY <1>0, <1>1, <1>2, <1>3, <1>4 DEF TypeInv, TypeOK, Begun

LEMMA TypeOthers ==
  ASSUME TypeInv,
         (\E c \in Contracts : NewTransaction(c)) \/ Dispatch \/ Restart \/ UNCHANGED vars
  PROVE  TypeInv'
<1>0. TypeOK /\ Begun
  BY DEF TypeInv
<1>1. ASSUME NEW c \in Contracts, NewTransaction(c) PROVE TypeInv'
  BY <1>0, <1>1 DEF NewTransaction, TypeInv, TypeOK, Begun, collect, dispatch, database, bounds
<1>2. CASE Dispatch
  <2>1. Head(rawChan) \in Events /\ Tail(rawChan) \in Seq(Events)
    BY <1>0, <1>2 DEF Dispatch, TypeOK
  <2> QED BY <1>0, <1>2, <2>1 DEF Dispatch, TypeInv, TypeOK, Begun, collect, database, bounds
<1>3. CASE Restart
  <2>1. /\ cursor' \in [Contracts -> Nat] /\ next' \in [Contracts -> Nat]
    BY <1>3 DEF Restart, Zero
  <2>2. /\ page' \in [Contracts -> Seq(Nat \ {0})]
        /\ txChan' \in [Contracts -> Seq(Nat \ {0})]
    <3>1. <<>> \in Seq(Nat \ {0})
      OBVIOUS
    <3> QED BY <1>3, <3>1 DEF Restart, Empty
  <2>3. collector' \in [Contracts -> {"new", "running", "dead"}] /\ Begun'
    BY <1>3 DEF Restart, AllNew, Begun
  <2>4. worker' \in [Events -> {"tontx", "parse", "query", "create", "key", None}]
    BY <1>3 DEF Restart, NoWorkers
  <2>5. /\ rawChan' = <<>> /\ done' = {} /\ failed' = {}
        /\ UNCHANGED <<height, tonTxs, pegouts, rows, losses>>
        /\ restarts < MaxRestarts /\ restarts' = restarts + 1
    BY <1>3 DEF Restart, database
  <2>6. rawChan' \in Seq(Events) /\ restarts' \in 0 .. MaxRestarts
    BY <1>0, <2>5, EventsAssumption DEF TypeOK
  <2> QED BY <1>0, <2>1, <2>2, <2>3, <2>4, <2>5, <2>6 DEF TypeInv, TypeOK
<1>4. CASE UNCHANGED vars
  BY <1>0, <1>4 DEF vars, TypeInv, TypeOK, Begun, collect, dispatch, database, bounds
<1> QED BY <1>1, <1>2, <1>3, <1>4

-----------------------------------------------------------------------------
(* The way to the database.                                                 *)

LEMMA RaisedGrows ==
  ASSUME TypeOK, TypeOK', \A c \in Contracts : height[c] <= height'[c]
  PROVE  Raised \subseteq Raised'
<1> SUFFICES ASSUME NEW e \in Raised PROVE e \in Raised'
  OBVIOUS
<1>1. PICK c \in Contracts : \E k \in 1 .. height[c] : e = Chain[c][k]
  BY RaisedMembers
<1>2. PICK k \in 1 .. height[c] : e = Chain[c][k]
  BY <1>1
<1>3. height[c] \in Nat /\ height'[c] \in Nat /\ height[c] <= height'[c]
  BY DEF TypeOK
<1>4. k \in 1 .. height'[c]
  BY <1>3
<1>5. e # None
  BY RaisedMembers
<1> QED BY <1>2, <1>4, <1>5 DEF Raised

LEMMA RaisedStays == ASSUME height' = height PROVE Raised' = Raised
BY DEF Raised

LEMMA WayInit == Init => WayInv
<1> SUFFICES ASSUME Init PROVE WayInv
  OBVIOUS
<1>1. ASSUME NEW c \in Contracts PROVE OnChain(c)
  <2>1. /\ height[c] = 0 /\ cursor[c] = 0 /\ page[c] = <<>> /\ txChan[c] = <<>>
    BY DEF Init, Zero, Empty
  <2>2. Chain[c] \in Seq(Events \cup {None})
    BY EventsAssumption
  <2> QED BY <2>1, <2>2 DEF OnChain
<1>2. RawInv
  BY DEF Init, RawInv
<1>3. WorkerInv
  BY EventsAssumption DEF Init, NoWorkers, WorkerInv
<1> QED BY <1>1, <1>2, <1>3 DEF WayInv, ChainInv

LEMMA OnChainUntouched ==
  ASSUME NEW c \in Contracts, OnChain(c), height'[c] = height[c],
         cursor'[c] = cursor[c], page'[c] = page[c], txChan'[c] = txChan[c]
  PROVE  OnChain(c)'
BY DEF OnChain

LEMMA ChainCollect ==
  ASSUME TypeInv, ChainInv, NEW c \in Contracts, Collect(c)
  PROVE  ChainInv'
<1>0. TypeOK /\ OnChain(c) /\ height' = height
  BY DEF TypeInv, ChainInv, Collect, StartCollector, CollectorDies, Fetch, ForwardFetched,
         ForwardSubscribed, Filter
<1>1. ASSUME NEW b \in Contracts \ {c} PROVE OnChain(b)'
  <2>1. /\ cursor'[b] = cursor[b] /\ page'[b] = page[b] /\ txChan'[b] = txChan[b]
    BY <1>0 DEF TypeOK, Collect, StartCollector, CollectorDies, Fetch, ForwardFetched,
           ForwardSubscribed, Filter
  <2> QED BY <1>0, <2>1, OnChainUntouched DEF ChainInv
<1>2. OnChain(c)'
  <2>0. /\ height[c] \in Nat /\ cursor[c] \in Nat
        /\ page[c] \in Seq(Nat \ {0}) /\ txChan[c] \in Seq(Nat \ {0})
    BY <1>0 DEF TypeOK
  <2>1. CASE StartCollector(c)
    <3>1. cursor'[c] = height[c] /\ page' = page /\ txChan' = txChan
      BY <1>0, <2>1 DEF StartCollector, TypeOK
    <3> QED BY <1>0, <2>0, <3>1 DEF OnChain
  <2>2. CASE CollectorDies(c)
    BY <1>0, <2>2, OnChainUntouched DEF CollectorDies
  <2>3. CASE Fetch(c)
    <3>1. cursor[c] \in Nat \ {0} /\ cursor[c] <= height[c]
      BY <1>0, <2>0, <2>3 DEF Fetch, OnChain
    <3>2. /\ page'[c] = Sorted(Answer(cursor[c]))
          /\ cursor'[c] = NextLt(Sorted(Answer(cursor[c])))
          /\ txChan' = txChan
      BY <1>0, <2>3 DEF Fetch, TypeOK
    <3>3. /\ page'[c] \in Seq(Nat \ {0})
          /\ \A i \in 1 .. Len(page'[c]) : page'[c][i] <= cursor[c]
          /\ cursor'[c] \in Nat /\ cursor'[c] <= cursor[c]
      BY <3>1, <3>2, SortedAnswer
    <3>4. \A i \in 1 .. Len(page'[c]) : page'[c][i] <= height[c]
      BY <2>0, <3>1, <3>3
    <3>5. cursor'[c] <= height[c]
      BY <2>0, <3>1, <3>3
    <3> QED BY <1>0, <3>2, <3>4, <3>5 DEF OnChain
  <2>4. CASE ForwardFetched(c)
    <3>1. /\ page'[c] = Tail(page[c]) /\ txChan'[c] = Append(txChan[c], Head(page[c]))
          /\ cursor' = cursor /\ page[c] # <<>>
      BY <1>0, <2>4 DEF ForwardFetched, TypeOK
    <3>2. \A i \in 1 .. Len(page'[c]) : page'[c][i] = page[c][i + 1] /\ i + 1 \in 1 .. Len(page[c])
      BY <2>0, <3>1
    <3>3. \A i \in 1 .. Len(page'[c]) : page'[c][i] <= height[c]
      BY <1>0, <3>2 DEF OnChain
    <3>4. Head(page[c]) \in Nat \ {0} /\ Head(page[c]) <= height[c]
      BY <1>0, <2>0, <3>1 DEF OnChain
    <3>5. \A i \in 1 .. Len(txChan'[c]) :
             txChan'[c][i] = Head(page[c]) \/ (i \in 1 .. Len(txChan[c]) /\ txChan'[c][i] = txChan[c][i])
      BY <2>0, <3>1, <3>4
    <3>6. \A i \in 1 .. Len(txChan'[c]) : txChan'[c][i] <= height[c]
      BY <1>0, <3>4, <3>5 DEF OnChain
    <3> QED BY <1>0, <3>1, <3>3, <3>6 DEF OnChain
  <2>5. CASE ForwardSubscribed(c)
    <3>1. /\ txChan'[c] = Append(txChan[c], next[c])
          /\ cursor' = cursor /\ page' = page /\ next[c] <= height[c]
      BY <1>0, <2>5 DEF ForwardSubscribed, TypeOK
    <3>2. \A i \in 1 .. Len(txChan'[c]) :
             txChan'[c][i] = next[c] \/ (i \in 1 .. Len(txChan[c]) /\ txChan'[c][i] = txChan[c][i])
      BY <2>0, <3>1
    <3>3. \A i \in 1 .. Len(txChan'[c]) : txChan'[c][i] <= height[c]
      BY <1>0, <3>1, <3>2 DEF OnChain
    <3> QED BY <1>0, <3>1, <3>3 DEF OnChain
  <2>6. CASE Filter(c)
    <3>1. /\ txChan'[c] = Tail(txChan[c]) /\ txChan[c] # <<>>
          /\ cursor' = cursor /\ page' = page
      BY <1>0, <2>6 DEF Filter, TypeOK
    <3>2. \A i \in 1 .. Len(txChan'[c]) :
             txChan'[c][i] = txChan[c][i + 1] /\ i + 1 \in 1 .. Len(txChan[c])
      BY <2>0, <3>1
    <3>3. \A i \in 1 .. Len(txChan'[c]) : txChan'[c][i] <= height[c]
      BY <1>0, <3>2 DEF OnChain
    <3> QED BY <1>0, <3>1, <3>3 DEF OnChain
  <2> QED BY <2>1, <2>2, <2>3, <2>4, <2>5, <2>6 DEF Collect
<1> QED BY <1>1, <1>2 DEF ChainInv

LEMMA WayCollect ==
  ASSUME TypeInv, WayInv, NEW c \in Contracts, Collect(c)
  PROVE  WayInv'
<1>0. TypeOK /\ ChainInv /\ RawInv /\ WorkerInv /\ rawChan \in Seq(Events)
  BY DEF TypeInv, TypeOK, WayInv
<1>1. height' = height /\ worker' = worker
  BY DEF Collect, StartCollector, CollectorDies, Fetch, ForwardFetched, ForwardSubscribed,
         Filter, dispatch
<1>2. Raised' = Raised
  BY <1>1, RaisedStays
<1>3. WorkerInv'
  BY <1>0, <1>1, <1>2 DEF WorkerInv
<1>4. RawInv'
  <2>1. CASE rawChan' = rawChan
    BY <1>0, <1>2, <2>1 DEF RawInv
  <2>2. CASE rawChan' # rawChan
    <3>1. /\ txChan[c] # <<>> /\ Chain[c][Head(txChan[c])] # None
          /\ rawChan' = Append(rawChan, Chain[c][Head(txChan[c])])
      BY <2>2 DEF Collect, StartCollector, CollectorDies, Fetch, ForwardFetched,
             ForwardSubscribed, Filter, dispatch
    <3>2. Chain[c][Head(txChan[c])] \in Raised
      BY <1>0, <3>1, FilteredIsRaised
    <3>3. \A i \in 1 .. Len(rawChan') :
             \/ rawChan'[i] = Chain[c][Head(txChan[c])]
             \/ i \in 1 .. Len(rawChan) /\ rawChan'[i] = rawChan[i]
      BY <1>0, <3>1
    <3> QED BY <1>0, <1>2, <3>2, <3>3 DEF RawInv
  <2> QED BY <2>1, <2>2
<1> QED BY <1>0, <1>3, <1>4, ChainCollect DEF WayInv

LEMMA ChainUntouched ==
  ASSUME ChainInv, UNCHANGED <<height, cursor, page, txChan>>
  PROVE  ChainInv'
BY DEF ChainInv, OnChain

LEMMA WayHandle == ASSUME TypeInv, WayInv, NEW e \in Events, Handle(e) PROVE WayInv'
<1>0. TypeOK /\ ChainInv /\ RawInv /\ WorkerInv
  BY DEF TypeInv, WayInv
<1>1. UNCHANGED <<height, cursor, page, txChan, rawChan>>
  BY DEF Handle, WriteTonTx, Parse, QueryPegout, CreatePegout, CreateInternalKey, HandlerFails,
         collect
<1>2. Raised' = Raised
  BY <1>1, RaisedStays
<1>3. /\ worker[e] # None /\ e \in Raised
  BY <1>0, EventsAssumption DEF Handle, WriteTonTx, Parse, QueryPegout, CreatePegout,
         CreateInternalKey, HandlerFails, WorkerInv
<1>4. /\ worker'[e] \in {"query", "create"} => e \in PegoutEvents
      /\ worker'[e] = "key" => e \in KeyEvents
  <2>1. CASE Parse(e)
    BY <1>0, <2>1, EventsAssumption DEF Parse, HandlerReturns, TypeOK
  <2>2. CASE QueryPegout(e)
    BY <1>0, <2>2, EventsAssumption DEF QueryPegout, HandlerReturns, TypeOK, WorkerInv
  <2>3. CASE WriteTonTx(e) \/ CreatePegout(e) \/ CreateInternalKey(e) \/ HandlerFails(e)
    BY <1>0, <2>3, EventsAssumption DEF WriteTonTx, CreatePegout, CreateInternalKey,
           HandlerFails, HandlerReturns, TypeOK
  <2> QED BY <2>1, <2>2, <2>3 DEF Handle
<1>5. \A f \in Events \ {e} : worker'[f] = worker[f]
  <2>1. \E step \in {"parse", "query", "key", "create", None} : worker' = [worker EXCEPT ![e] = step]
    BY DEF Handle, WriteTonTx, Parse, QueryPegout, CreatePegout, CreateInternalKey,
           HandlerFails, HandlerReturns
  <2> QED BY <1>0, <2>1 DEF TypeOK
<1>6. WorkerInv'
  BY <1>0, <1>2, <1>3, <1>4, <1>5 DEF WorkerInv
<1>7. RawInv'
  BY <1>0, <1>1, <1>2 DEF RawInv
<1> QED BY <1>0, <1>1, <1>6, <1>7, ChainUntouched DEF WayInv

LEMMA WayNewTransaction ==
  ASSUME TypeInv, TypeInv', WayInv, NEW c \in Contracts, NewTransaction(c)
  PROVE  WayInv'
<1>0. TypeOK /\ TypeOK' /\ ChainInv /\ RawInv /\ WorkerInv
  BY DEF TypeInv, WayInv
<1>1. /\ UNCHANGED <<cursor, page, txChan, rawChan, worker>>
      /\ height[c] < Len(Chain[c]) /\ height'[c] = height[c] + 1
      /\ \A b \in Contracts \ {c} : height'[b] = height[b]
  BY <1>0 DEF NewTransaction, TypeOK, collect, dispatch
<1>2. ASSUME NEW b \in Contracts
      PROVE  height[b] <= height'[b] /\ height[b] \in Nat /\ height'[b] \in Nat
  <2>1. height[b] \in Nat /\ height'[b] \in Nat
    BY <1>0 DEF TypeOK
  <2>2. CASE b = c
    BY <1>1, <2>1, <2>2
  <2>3. CASE b # c
    BY <1>1, <2>1, <2>3
  <2> QED BY <2>1, <2>2, <2>3
<1>3. Raised \subseteq Raised'
  BY <1>0, <1>2, RaisedGrows
<1>4. ASSUME NEW b \in Contracts PROVE OnChain(b)'
  <2>0. /\ Chain[b] \in Seq(Events \cup {None}) /\ cursor[b] \in Nat
        /\ page[b] \in Seq(Nat \ {0}) /\ txChan[b] \in Seq(Nat \ {0})
    BY <1>0, EventsAssumption DEF TypeOK
  <2>1. height'[b] <= Len(Chain[b])
    <3>1. height[b] <= Len(Chain[b])
      BY <1>0 DEF ChainInv, OnChain
    <3>2. Len(Chain[b]) \in Nat
      BY <2>0
    <3>3. CASE b = c
      BY <1>1, <1>2, <3>2, <3>3
    <3>4. CASE b # c
      BY <1>1, <3>1, <3>4
    <3> QED BY <3>3, <3>4
  <2>2. cursor[b] <= height'[b]
    <3>1. cursor[b] <= height[b] /\ cursor[b] \in Nat
      BY <1>0, <2>0 DEF ChainInv, OnChain
    <3> QED BY <1>2, <3>1
  <2>3. ASSUME NEW i \in 1 .. Len(page[b]) PROVE page[b][i] <= height'[b]
    <3>1. page[b][i] <= height[b] /\ page[b][i] \in Nat
      BY <1>0, <2>0 DEF ChainInv, OnChain
    <3> QED BY <1>2, <3>1
  <2>4. ASSUME NEW i \in 1 .. Len(txChan[b]) PROVE txChan[b][i] <= height'[b]
    <3>1. txChan[b][i] <= height[b] /\ txChan[b][i] \in Nat
      BY <1>0, <2>0 DEF ChainInv, OnChain
    <3> QED BY <1>2, <3>1
  <2> QED BY <1>1, <2>1, <2>2, <2>3, <2>4 DEF OnChain
<1>5. RawInv' /\ WorkerInv'
  BY <1>0, <1>1, <1>3 DEF RawInv, WorkerInv
<1> QED BY <1>4, <1>5 DEF WayInv, ChainInv

LEMMA WayDispatch == ASSUME TypeInv, WayInv, Dispatch PROVE WayInv'
<1>0. /\ TypeOK /\ ChainInv /\ RawInv /\ WorkerInv /\ rawChan \in Seq(Events) /\ rawChan # <<>>
  BY DEF TypeInv, TypeOK, WayInv, Dispatch
<1>1. /\ UNCHANGED <<height, cursor, page, txChan>>
      /\ rawChan' = Tail(rawChan)
      /\ worker' = [worker EXCEPT ![Head(rawChan)] = "tontx"]
  BY DEF Dispatch, collect
<1>2. Raised' = Raised
  BY <1>1, RaisedStays
<1>3. Head(rawChan) \in Events /\ Head(rawChan) \in Raised
  BY <1>0 DEF RawInv
<1>4. \A i \in 1 .. Len(rawChan') : rawChan'[i] = rawChan[i + 1] /\ i + 1 \in 1 .. Len(rawChan)
  BY <1>0, <1>1
<1>5. RawInv'
  BY <1>0, <1>2, <1>4 DEF RawInv
<1>6. WorkerInv'
  <2>1. worker'[Head(rawChan)] = "tontx" /\ \A f \in Events \ {Head(rawChan)} : worker'[f] = worker[f]
    BY <1>0, <1>1, <1>3 DEF TypeOK
  <2> QED BY <1>0, <1>2, <1>3, <2>1 DEF WorkerInv
<1> QED BY <1>0, <1>1, <1>5, <1>6, ChainUntouched DEF WayInv

LEMMA WayRestart == ASSUME TypeInv, WayInv, Restart PROVE WayInv'
<1>1. ASSUME NEW c \in Contracts PROVE OnChain(c)'
  <2>1. /\ height' = height /\ cursor'[c] = 0 /\ page'[c] = <<>> /\ txChan'[c] = <<>>
    BY DEF Restart, Zero, Empty
  <2>2. height[c] \in Nat /\ height[c] <= Len(Chain[c])
    BY DEF TypeInv, TypeOK, WayInv, ChainInv, OnChain
  <2> QED BY <2>1, <2>2 DEF OnChain
<1>2. RawInv'
  BY DEF Restart, RawInv
<1>3. WorkerInv'
  BY EventsAssumption DEF Restart, NoWorkers, WorkerInv
<1> QED BY <1>1, <1>2, <1>3 DEF WayInv, ChainInv

LEMMA WayStutter == ASSUME WayInv, UNCHANGED vars PROVE WayInv'
<1>1. UNCHANGED <<height, cursor, page, txChan, rawChan, worker>>
  BY DEF vars, collect, dispatch
<1>2. Raised' = Raised
  BY <1>1, RaisedStays
<1> QED BY <1>1, <1>2, ChainUntouched DEF WayInv, RawInv, WorkerInv

LEMMA Step == ASSUME TypeInv, WayInv, [Next]_vars PROVE TypeInv' /\ WayInv'
<1>0. ChainInv /\ WorkerInv
  BY DEF WayInv
<1>1. ASSUME NEW c \in Contracts, NewTransaction(c) PROVE TypeInv' /\ WayInv'
  BY <1>1, TypeOthers, WayNewTransaction
<1>2. ASSUME NEW c \in Contracts, Collect(c) PROVE TypeInv' /\ WayInv'
  BY <1>0, <1>2, TypeCollect, WayCollect
<1>3. CASE Dispatch
  BY <1>3, TypeOthers, WayDispatch
<1>4. ASSUME NEW e \in Events, Handle(e) PROVE TypeInv' /\ WayInv'
  BY <1>0, <1>4, TypeHandle, WayHandle
<1>5. CASE Restart
  BY <1>5, TypeOthers, WayRestart
<1>6. CASE UNCHANGED vars
  BY <1>6, TypeOthers, WayStutter
<1> QED BY <1>1, <1>2, <1>3, <1>4, <1>5, <1>6 DEF Next

LEMMA Always == Spec => [](TypeInv /\ WayInv)
BY TypeInit, WayInit, Step, PTL DEF Spec

\* Channels, pages, handlers and tables keep their types: no handler creates a
\* row of the other kind of event, and no position leaves the chain.
THEOREM TypeCorrect == Spec => []TypeOK
<1>1. TypeInv => TypeOK
  BY DEF TypeInv
<1> QED BY <1>1, Always, PTL

-----------------------------------------------------------------------------
(* A pegout and the row of its event.                                       *)

LEMMA WholeStep ==
  ASSUME TypeInv, WayInv, PegoutsAreWhole, [Next]_vars
  PROVE  PegoutsAreWhole'
<1>1. CASE UNCHANGED <<pegouts, rows>>
  BY <1>1 DEF PegoutsAreWhole
<1>2. ASSUME NEW e \in Events, CreatePegout(e) PROVE PegoutsAreWhole'
  <2>1. e \in PegoutEvents
    BY <1>2 DEF CreatePegout, WayInv, WorkerInv
  <2> QED BY <1>2, <2>1 DEF CreatePegout, PegoutsAreWhole
<1>3. ASSUME NEW e \in Events, CreateInternalKey(e) PROVE PegoutsAreWhole'
  <2>1. e \notin PegoutEvents
    BY <1>3, EventsAssumption DEF CreateInternalKey, WayInv, WorkerInv
  <2> QED BY <1>3, <2>1 DEF CreateInternalKey, PegoutsAreWhole
<1>4. ASSUME NEW e \in Events, Handle(e), ~CreatePegout(e), ~CreateInternalKey(e)
      PROVE  UNCHANGED <<pegouts, rows>>
  BY <1>4 DEF Handle, WriteTonTx, Parse, QueryPegout, HandlerFails, database
<1>5. ASSUME NEW c \in Contracts, NewTransaction(c) \/ Collect(c)
      PROVE  UNCHANGED <<pegouts, rows>>
  BY <1>5 DEF NewTransaction, Collect, StartCollector, CollectorDies, Fetch, ForwardFetched,
         ForwardSubscribed, Filter, database
<1>6. ASSUME Dispatch \/ Restart \/ UNCHANGED vars PROVE UNCHANGED <<pegouts, rows>>
  BY <1>6 DEF Dispatch, Restart, vars, database
<1> QED BY <1>1, <1>2, <1>3, <1>4, <1>5, <1>6 DEF Next

\* PegoutsAreWhole: in no order of events, failures and restarts does a pegout
\* row exist without the row of its burn or reinit, or the other way round.
THEOREM PegoutsStayWhole == Spec => []PegoutsAreWhole
<1>1. Init => PegoutsAreWhole
  BY DEF Init, PegoutsAreWhole
<1> QED BY <1>1, Always, WholeStep, PTL DEF Spec

-----------------------------------------------------------------------------
(* The database implements the ledger.                                      *)

LEMMA LedgerStarts == Init => Ledger!Init
<1> SUFFICES ASSUME Init PROVE Ledger!Init
  OBVIOUS
<1>1. \A c \in Contracts : height[c] = 0
  BY DEF Init, Zero
<1>2. Raised = {}
  BY <1>1 DEF Raised
<1>3. Indexed = {}
  BY DEF Init, Indexed
<1> QED BY <1>2, <1>3 DEF Ledger!Init

\* A transaction raises its event, if it carries one that is new.
LEMMA LedgerRaises ==
  ASSUME TypeInv, WayInv, TypeInv', NEW c \in Contracts, NewTransaction(c)
  PROVE  [Ledger!Next]_Ledger!vars
<1>0. TypeOK /\ TypeOK' /\ ChainInv
  BY DEF TypeInv, WayInv
<1> DEFINE e == Chain[c][height[c] + 1]
<1>1. /\ height[c] < Len(Chain[c]) /\ height[c] \in Nat
      /\ height'[c] = height[c] + 1
      /\ \A b \in Contracts \ {c} : height'[b] = height[b]
  BY <1>0 DEF NewTransaction, TypeOK
<1>2. Chain[c] \in Seq(Events \cup {None})
  BY EventsAssumption
<1>3. e \in Events \cup {None}
  BY <1>1, <1>2
<1>4. ASSUME NEW f PROVE f \in Raised' <=> f \in Raised \/ (f = e /\ f # None)
  <2>1. f \in Raised' <=> f # None /\ \E b \in Contracts : \E k \in 1 .. height'[b] : f = Chain[b][k]
    BY DEF Raised
  <2>2. f \in Raised <=> f # None /\ \E b \in Contracts : \E k \in 1 .. height[b] : f = Chain[b][k]
    BY DEF Raised
  <2>3. 1 .. height'[c] = (1 .. height[c]) \cup {height[c] + 1}
    BY <1>1
  <2>4. (\E k \in 1 .. height'[c] : f = Chain[c][k]) <=>
        (\E k \in 1 .. height[c] : f = Chain[c][k]) \/ f = e
    BY <2>3
  <2> HIDE DEF e
  <2> QED BY <1>1, <2>1, <2>2, <2>4
<1>5. Indexed' = Indexed
  BY DEF NewTransaction, Indexed, database
<1> HIDE DEF e
<1>6. CASE e = None \/ e \in Raised
  <2>1. Raised' = Raised
    BY <1>4, <1>6
  <2> QED BY <1>5, <2>1 DEF Ledger!vars
<1>7. CASE e # None /\ e \notin Raised
  <2>1. Raised' = Raised \cup {e}
    BY <1>4, <1>7
  <2> QED BY <1>3, <1>5, <1>7, <2>1 DEF Ledger!Next, Ledger!Raise
<1> QED BY <1>6, <1>7

\* The handler of an event records that event, whole, or nothing.
LEMMA LedgerRecords ==
  ASSUME TypeInv, WayInv, NEW e \in Events, Handle(e)
  PROVE  [Ledger!Next]_Ledger!vars
<1>1. height' = height
  BY DEF Handle, WriteTonTx, Parse, QueryPegout, CreatePegout, CreateInternalKey, HandlerFails
<1>2. Raised' = Raised
  BY <1>1, RaisedStays
<1>3. e \in Raised
  BY EventsAssumption DEF WayInv, WorkerInv, Handle, WriteTonTx, Parse, QueryPegout,
     CreatePegout, CreateInternalKey, HandlerFails
<1>4. Indexed' = Indexed \/ Indexed' = Indexed \cup {e}
  <2>1. tonTxs' \in {tonTxs, tonTxs \cup {e}} /\ rows' \in {rows, rows \cup {e}}
    BY DEF Handle, WriteTonTx, Parse, QueryPegout, CreatePegout, CreateInternalKey,
       HandlerFails, database
  <2> QED BY <2>1 DEF Indexed
<1>5. CASE Indexed' = Indexed
  BY <1>2, <1>5 DEF Ledger!vars
<1>6. CASE Indexed' # Indexed
  <2>1. Indexed' = Indexed \cup {e} /\ e \notin Indexed
    BY <1>4, <1>6
  <2> QED BY <1>2, <1>3, <2>1 DEF Ledger!Next, Ledger!Record
<1> QED BY <1>5, <1>6

LEMMA LedgerStutters ==
  ASSUME (\E c \in Contracts : Collect(c)) \/ Dispatch \/ Restart \/ UNCHANGED vars
  PROVE  UNCHANGED Ledger!vars
<1>1. UNCHANGED <<height, tonTxs, rows>>
  BY DEF Collect, StartCollector, CollectorDies, Fetch, ForwardFetched, ForwardSubscribed,
     Filter, Dispatch, Restart, vars, database
<1> QED BY <1>1, RaisedStays DEF Indexed, Ledger!vars

\* LedgerSpec: every behaviour of the collectors, channels and handlers, with
\* their failures and restarts, is one of the ledger: events enter the database
\* whole, once they were raised, and for good.
THEOREM DatabaseIsLedger == Spec => LedgerSpec
<1>1. ASSUME TypeInv, WayInv, TypeInv', [Next]_vars
      PROVE  [Ledger!Next]_Ledger!vars
  <2>1. ASSUME NEW c \in Contracts, NewTransaction(c) PROVE [Ledger!Next]_Ledger!vars
    BY <1>1, <2>1, LedgerRaises
  <2>2. ASSUME NEW e \in Events, Handle(e) PROVE [Ledger!Next]_Ledger!vars
    BY <1>1, <2>2, LedgerRecords
  <2> QED BY <1>1, <2>1, <2>2, LedgerStutters DEF Next
<1> QED BY <1>1, LedgerStarts, Always, PTL DEF Spec, LedgerSpec, Ledger!Spec
-----------------------------------------------------------------------------
(* What a handler leaves behind.                                            *)

\* A handler that went past its first step has written the transaction's row.
TonTxInv == \A e \in Events : worker[e] \notin {None, "tontx"} => e \in tonTxs

LEMMA TonTxStep == ASSUME TypeInv, TonTxInv, [Next]_vars PROVE TonTxInv'
<1>0. TypeOK
  BY DEF TypeInv
<1>1. ASSUME NEW e \in Events, Handle(e) PROVE TonTxInv'
  <2>1. \E step \in {"parse", "query", "key", "create", None} : worker' = [worker EXCEPT ![e] = step]
    BY <1>1 DEF Handle, WriteTonTx, Parse, QueryPegout, CreatePegout, CreateInternalKey,
           HandlerFails, HandlerReturns
  <2>2. \A f \in Events \ {e} : worker'[f] = worker[f]
    BY <1>0, <2>1 DEF TypeOK
  <2>3. tonTxs \subseteq tonTxs'
    BY <1>1 DEF Handle, WriteTonTx, Parse, QueryPegout, CreatePegout, CreateInternalKey,
           HandlerFails, database
  <2>4. worker'[e] \notin {None, "tontx"} => e \in tonTxs'
    <3>1. CASE WriteTonTx(e)
      BY <3>1 DEF WriteTonTx
    <3>2. CASE Parse(e) \/ QueryPegout(e)
      <4>1. worker[e] \in {"parse", "query"}
        BY <3>2 DEF Parse, QueryPegout
      <4> QED BY <2>3, <4>1, EventsAssumption DEF TonTxInv
    <3>3. CASE CreatePegout(e) \/ CreateInternalKey(e) \/ HandlerFails(e)
      BY <1>0, <3>3 DEF CreatePegout, CreateInternalKey, HandlerFails, HandlerReturns, TypeOK
    <3> QED BY <1>1, <3>1, <3>2, <3>3 DEF Handle
  <2> QED BY <2>2, <2>3, <2>4 DEF TonTxInv
<1>2. CASE Dispatch
  <2>1. /\ \A f \in Events : worker'[f] = worker[f] \/ worker'[f] = "tontx"
        /\ tonTxs' = tonTxs
    BY <1>0, <1>2 DEF Dispatch, TypeOK, database
  <2> QED BY <2>1 DEF TonTxInv
<1>3. CASE Restart
  BY <1>3 DEF Restart, NoWorkers, TonTxInv
<1>4. ASSUME NEW c \in Contracts, NewTransaction(c) \/ Collect(c)
      PROVE  UNCHANGED <<worker, tonTxs>>
  BY <1>4 DEF NewTransaction, Collect, StartCollector, CollectorDies, Fetch, ForwardFetched,
         ForwardSubscribed, Filter, dispatch, database
<1>5. CASE UNCHANGED <<worker, tonTxs>>
  BY <1>5 DEF TonTxInv
<1> QED BY <1>1, <1>2, <1>3, <1>4, <1>5 DEF Next, vars, dispatch, database

\* Where a handler returns without a failed call, its event is indexed: a
\* pegout that exists, or stands in the way, is the one of this event or has its
\* address.
LEMMA HandledStep ==
  ASSUME TypeInv, WayInv, TonTxInv, PegoutsAreWhole, HandledIsAccounted,
         [Next]_vars
  PROVE  HandledIsAccounted'
<1>0. TypeOK /\ WorkerInv
  BY DEF TypeInv, WayInv
<1>1. ASSUME NEW e \in Events, Handle(e) PROVE HandledIsAccounted'
  <2>1. done' \ failed' \subseteq (done \ failed) \cup {e}
    BY <1>1 DEF Handle, WriteTonTx, Parse, QueryPegout, CreatePegout, CreateInternalKey,
           HandlerFails, HandlerReturns
  <2>2. tonTxs \subseteq tonTxs' /\ rows \subseteq rows' /\ pegouts \subseteq pegouts'
    BY <1>1 DEF Handle, WriteTonTx, Parse, QueryPegout, CreatePegout, CreateInternalKey,
           HandlerFails, database
  <2>3. Indexed \subseteq Indexed' /\ Shadowed \subseteq Shadowed'
    BY <2>2 DEF Indexed, Shadowed
  <2>4. e \in (done' \ failed') \ (done \ failed) => e \in Indexed' \cup Shadowed'
    <3> SUFFICES ASSUME e \in (done' \ failed') \ (done \ failed)
                 PROVE  e \in Indexed' \cup Shadowed'
      OBVIOUS
    <3>1. CASE WriteTonTx(e)
      BY <3>1 DEF WriteTonTx
    <3>2. CASE Parse(e)
      <4>1. e \notin PegoutEvents \cup KeyEvents
        BY <3>2 DEF Parse
      <4>2. e \in tonTxs
        BY <3>2, EventsAssumption DEF Parse, TonTxInv
      <4> QED BY <2>2, <4>1, <4>2 DEF Indexed
    <3>3. CASE QueryPegout(e)
      <4>1. PegoutExists(e)
        BY <3>3 DEF QueryPegout
      <4>2. PICK f \in pegouts : Addr[f] = Addr[e]
        BY <4>1 DEF PegoutExists
      <4>3. e \in PegoutEvents /\ f \in PegoutEvents
        BY <1>0, <3>3, <4>2 DEF QueryPegout, WorkerInv, TypeOK
      <4>4. CASE f = e
        BY <2>2, <4>2, <4>3, <4>4 DEF PegoutsAreWhole, Indexed
      <4>5. CASE f # e
        BY <2>3, <4>2, <4>3, <4>5 DEF Shadowed
      <4> QED BY <4>4, <4>5
    <3>4. CASE CreatePegout(e)
      <4>1. e \in PegoutEvents
        BY <1>0, <3>4 DEF CreatePegout, WorkerInv
      <4>2. CASE Conflict(e)
        <5>1. e \in rows \/ \E f \in pegouts : Addr[f] = Addr[e]
          BY <4>2 DEF Conflict
        <5>2. e \in rows \/ e \in Shadowed
          BY <4>1, <5>1 DEF PegoutsAreWhole, Shadowed
        <5> QED BY <2>2, <2>3, <5>2 DEF Indexed
      <4>3. CASE ~Conflict(e)
        BY <3>4, <4>3 DEF CreatePegout, Indexed
      <4> QED BY <4>2, <4>3
    <3>5. CASE CreateInternalKey(e)
      BY <3>5 DEF CreateInternalKey, Indexed
    <3>6. CASE HandlerFails(e)
      BY <3>6 DEF HandlerFails
    <3> QED BY <1>1, <3>1, <3>2, <3>3, <3>4, <3>5, <3>6 DEF Handle
  <2> QED BY <2>1, <2>3, <2>4 DEF HandledIsAccounted
<1>2. CASE Restart
  BY <1>2 DEF Restart, HandledIsAccounted
<1>3. ASSUME Dispatch \/ (\E c \in Contracts : NewTransaction(c) \/ Collect(c)) \/ UNCHANGED vars
      PROVE  UNCHANGED <<done, failed, tonTxs, rows, pegouts>>
  BY <1>3 DEF Dispatch, NewTransaction, Collect, StartCollector, CollectorDies, Fetch,
         ForwardFetched, ForwardSubscribed, Filter, dispatch, database, vars
<1>4. CASE UNCHANGED <<done, failed, tonTxs, rows, pegouts>>
  BY <1>4 DEF HandledIsAccounted, Indexed, Shadowed
<1> QED BY <1>1, <1>2, <1>3, <1>4 DEF Next

\* EventsInv: in every state of the database, whatever addresses the pegouts
\* have, an event that was handled without a failed call has its rows, or those
\* of another pegout with the same address, or none, keep it out for good.
THEOREM EventsStayIndexed == Spec => []EventsInv
<1>1. Init => TonTxInv /\ PegoutsAreWhole /\ HandledIsAccounted
  BY DEF Init, NoWorkers, TonTxInv, PegoutsAreWhole, HandledIsAccounted
<1>2. ASSUME TypeInv, WayInv, TonTxInv, PegoutsAreWhole, HandledIsAccounted, [Next]_vars
      PROVE  TonTxInv' /\ PegoutsAreWhole' /\ HandledIsAccounted'
  BY <1>2, TonTxStep, WholeStep, HandledStep
<1>3. TypeInv /\ PegoutsAreWhole /\ HandledIsAccounted => EventsInv
  BY DEF TypeInv, EventsInv
<1> QED BY <1>1, <1>2, <1>3, Always, PTL DEF Spec
-----------------------------------------------------------------------------
(* One place for every event.                                               *)

Distinct(s) == \A i, j \in 1 .. Len(s) : s[i] = s[j] => i = j

LEMMA HeadTail ==
  ASSUME NEW S, NEW s \in Seq(S), s # <<>>, Distinct(s)
  PROVE  /\ ToSet(Tail(s)) = ToSet(s) \ {Head(s)}
         /\ Head(s) \in ToSet(s)
         /\ Distinct(Tail(s))
<1>1. /\ Len(s) \in Nat \ {0} /\ Tail(s) \in Seq(S) /\ Len(Tail(s)) = Len(s) - 1
      /\ Head(s) = s[1]
      /\ \A i \in 1 .. Len(s) - 1 : Tail(s)[i] = s[i + 1]
  OBVIOUS
<1>2. /\ ToSet(s) = {s[i] : i \in 1 .. Len(s)}
      /\ ToSet(Tail(s)) = {Tail(s)[i] : i \in 1 .. Len(s) - 1}
  <2>1. DOMAIN s = 1 .. Len(s)
    OBVIOUS
  <2>2. DOMAIN Tail(s) = 1 .. Len(s) - 1
    BY <1>1
  <2> QED BY <2>1, <2>2, Zenon DEF ToSet
<1>3. ASSUME NEW x \in ToSet(Tail(s)) PROVE x \in ToSet(s) \ {Head(s)}
  <2>1. PICK i \in 1 .. Len(s) - 1 : x = Tail(s)[i]
    BY <1>2
  <2>2. x = s[i + 1] /\ i + 1 \in 1 .. Len(s) /\ i + 1 # 1 /\ 1 \in 1 .. Len(s)
    BY <1>1, <2>1
  <2>3. x # s[1]
    BY <2>2 DEF Distinct
  <2> QED BY <1>1, <1>2, <2>2, <2>3
<1>4. ASSUME NEW x \in ToSet(s) \ {Head(s)} PROVE x \in ToSet(Tail(s))
  <2>1. PICK i \in 1 .. Len(s) : x = s[i]
    BY <1>2
  <2>2. i # 1
    BY <1>1, <2>1
  <2>3. i - 1 \in 1 .. Len(s) - 1 /\ (i - 1) + 1 = i
    BY <1>1, <2>2
  <2>4. x = Tail(s)[i - 1]
    BY <1>1, <2>1, <2>3
  <2> QED BY <1>2, <2>3, <2>4
<1>5. Distinct(Tail(s))
  <2> SUFFICES ASSUME NEW i \in 1 .. Len(s) - 1, NEW j \in 1 .. Len(s) - 1, Tail(s)[i] = Tail(s)[j]
               PROVE  i = j
    BY <1>1 DEF Distinct
  <2>1. i + 1 \in 1 .. Len(s) /\ j + 1 \in 1 .. Len(s) /\ s[i + 1] = s[j + 1]
    BY <1>1
  <2>2. i + 1 = j + 1
    BY <2>1 DEF Distinct
  <2> QED BY <2>2
<1>6. Head(s) \in ToSet(s)
  BY <1>1, <1>2
<1> QED BY <1>3, <1>4, <1>5, <1>6

LEMMA Appended ==
  ASSUME NEW S, NEW s \in Seq(S), NEW x \in S
  PROVE  /\ ToSet(Append(s, x)) = ToSet(s) \cup {x}
         /\ Distinct(s) /\ x \notin ToSet(s) => Distinct(Append(s, x))
<1>1. /\ Len(s) \in Nat /\ Append(s, x) \in Seq(S) /\ Len(Append(s, x)) = Len(s) + 1
      /\ \A i \in 1 .. Len(s) : Append(s, x)[i] = s[i]
      /\ Append(s, x)[Len(s) + 1] = x
  OBVIOUS
<1>2. /\ ToSet(s) = {s[i] : i \in 1 .. Len(s)}
      /\ ToSet(Append(s, x)) = {Append(s, x)[i] : i \in 1 .. Len(s) + 1}
  BY <1>1 DEF ToSet
<1>3. 1 .. Len(s) + 1 = (1 .. Len(s)) \cup {Len(s) + 1} /\ Len(s) + 1 \notin 1 .. Len(s)
  BY <1>1
<1>4. ToSet(Append(s, x)) = ToSet(s) \cup {x}
  BY <1>1, <1>2, <1>3
<1>5. ASSUME Distinct(s), x \notin ToSet(s) PROVE Distinct(Append(s, x))
  <2> SUFFICES ASSUME NEW i \in 1 .. Len(s) + 1, NEW j \in 1 .. Len(s) + 1,
                      Append(s, x)[i] = Append(s, x)[j]
               PROVE  i = j
    BY <1>1 DEF Distinct
  <2>1. CASE i \in 1 .. Len(s) /\ j \in 1 .. Len(s)
    BY <1>1, <1>5, <2>1 DEF Distinct
  <2>2. CASE i = Len(s) + 1 /\ j \in 1 .. Len(s)
    BY <1>1, <1>2, <1>5, <2>2
  <2>3. CASE j = Len(s) + 1 /\ i \in 1 .. Len(s)
    BY <1>1, <1>2, <1>5, <2>3
  <2> QED BY <1>3, <2>1, <2>2, <2>3
<1> QED BY <1>4, <1>5

\* Where the positions of a collector are: the cursor is behind the page and
\* the channel, and they are behind the subscription.
Between(c, k) == cursor[c] < k /\ k < next[c]

Walk(c) ==
  /\ cursor[c] < next[c]
  /\ next[c] <= height[c] + 1
  /\ \A k \in ToSet(page[c]) \cup ToSet(txChan[c]) : Between(c, k)
  /\ ToSet(page[c]) \cap ToSet(txChan[c]) = {}
  /\ Distinct(page[c]) /\ Distinct(txChan[c])

WalkInv ==
  \A c \in Contracts :
    IF collector[c] = "running" THEN Walk(c) ELSE page[c] = <<>> /\ txChan[c] = <<>>

\* The k-th transaction left the collector, and an event is past the filter.
Passed(c, k) ==
  /\ collector[c] = "running"
  /\ Between(c, k)
  /\ k \notin ToSet(page[c]) \cup ToSet(txChan[c])

Beyond(e) == e \in ToSet(rawChan) \/ worker[e] # None \/ e \in done

\* What is past the filter has left its collector, and the other way round.
BeyondInv ==
  \A e \in Events : Beyond(e) =>
    \E c \in Contracts : \E k \in 1 .. height[c] : Chain[c][k] = e /\ Passed(c, k)

PassedInv ==
  \A c \in Contracts : \A k \in 1 .. height[c] :
    Chain[c][k] # None /\ Passed(c, k) => Beyond(Chain[c][k])

\* Past the filter an event is in the channel, with its handler, or done.
OnceInv ==
  /\ Distinct(rawChan)
  /\ \A e \in ToSet(rawChan) : worker[e] = None /\ e \notin done
  /\ \A e \in done : worker[e] = None

PlaceInv == WalkInv /\ BeyondInv /\ PassedInv /\ OnceInv
LEMMA PlaceInit == Init => PlaceInv
<1> SUFFICES ASSUME Init PROVE PlaceInv
  OBVIOUS
<1>1. WalkInv
  BY DEF Init, AllNew, Empty, WalkInv
<1>2. \A e \in Events : ~Beyond(e)
  BY DEF Init, NoWorkers, Beyond, ToSet
<1>4. PassedInv
  BY DEF Init, AllNew, PassedInv, Passed
<1>5. OnceInv
  BY DEF Init, OnceInv, Distinct, ToSet
<1> QED BY <1>1, <1>2, <1>4, <1>5 DEF PlaceInv, BeyondInv

\* A step of one collector moves its own positions only.
LEMMA OthersWalk ==
  ASSUME NEW b \in Contracts, collector'[b] = collector[b], cursor'[b] = cursor[b],
         page'[b] = page[b], next'[b] = next[b], txChan'[b] = txChan[b], height'[b] = height[b]
  PROVE  /\ Walk(b)' <=> Walk(b)
         /\ \A k : Passed(b, k)' <=> Passed(b, k)
BY DEF Walk, Passed, Between

\* Positions that stay on their way neither enter nor leave what is past it.
LEMMA SamePassed ==
  ASSUME BeyondInv, PassedInv, height' = height,
         UNCHANGED dispatch,
         \A c \in Contracts : \A k \in 1 .. height[c] : Passed(c, k)' <=> Passed(c, k)
  PROVE  BeyondInv' /\ PassedInv'
<1>1. \A e : Beyond(e)' <=> Beyond(e)
  BY DEF Beyond, dispatch
<1> QED BY <1>1 DEF BeyondInv, PassedInv

LEMMA OnceStays == ASSUME OnceInv, UNCHANGED <<rawChan, worker, done>> PROVE OnceInv'
BY DEF OnceInv

LEMMA OneCollects ==
  ASSUME TypeInv, NEW c \in Contracts, Collect(c)
  PROVE  /\ height' = height
         /\ \A b \in Contracts \ {c} :
              /\ collector'[b] = collector[b] /\ cursor'[b] = cursor[b] /\ page'[b] = page[b]
              /\ next'[b] = next[b] /\ txChan'[b] = txChan[b] /\ height'[b] = height[b]
BY DEF TypeInv, TypeOK, Collect, StartCollector, CollectorDies, Fetch, ForwardFetched,
       ForwardSubscribed, Filter

LEMMA WalkTypes ==
  ASSUME TypeInv, NEW c \in Contracts
  PROVE  /\ height[c] \in Nat /\ cursor[c] \in Nat /\ next[c] \in Nat
         /\ page[c] \in Seq(Nat \ {0}) /\ txChan[c] \in Seq(Nat \ {0})
         /\ ToSet(page[c]) \subseteq Nat \ {0} /\ ToSet(txChan[c]) \subseteq Nat \ {0}
<1>1. /\ height[c] \in Nat /\ cursor[c] \in Nat /\ next[c] \in Nat
      /\ page[c] \in Seq(Nat \ {0}) /\ txChan[c] \in Seq(Nat \ {0})
  BY DEF TypeInv, TypeOK
<1>2. ASSUME NEW s \in Seq(Nat \ {0}) PROVE ToSet(s) \subseteq Nat \ {0}
  BY DEF ToSet
<1> QED BY <1>1, <1>2

\* The collector starts where the account stands: everything so far is behind
\* the cursor and everything later is subscribed to.
LEMMA PlaceStart ==
  ASSUME TypeInv, TypeInv', PlaceInv, NEW c \in Contracts, StartCollector(c)
  PROVE  PlaceInv'
<1>0. WalkInv /\ BeyondInv /\ PassedInv /\ OnceInv /\ Collect(c)
  BY DEF PlaceInv, Collect
<1>1. /\ collector[c] = "new" /\ collector'[c] = "running" /\ page'[c] = <<>> /\ txChan'[c] = <<>>
      /\ cursor'[c] = height[c] /\ next'[c] = height[c] + 1 /\ height' = height
      /\ UNCHANGED dispatch
  BY <1>0 DEF StartCollector, TypeInv, TypeOK, WalkInv
<1>2. height[c] \in Nat
  BY WalkTypes
<1>3. ToSet(page'[c]) = {} /\ ToSet(txChan'[c]) = {} /\ Distinct(<<>>)
  BY <1>1 DEF ToSet, Distinct
<1>4. Walk(c)'
  BY <1>1, <1>2, <1>3 DEF Walk
<1>5. WalkInv'
  BY <1>0, <1>1, <1>4, OneCollects, OthersWalk DEF WalkInv
<1>6. \A k \in 1 .. height[c] : ~Passed(c, k)' /\ ~Passed(c, k)
  BY <1>1, <1>2 DEF Passed, Between
<1>7. ASSUME NEW b \in Contracts, NEW k \in 1 .. height[b] PROVE Passed(b, k)' <=> Passed(b, k)
  BY <1>0, <1>6, OneCollects, OthersWalk
<1>8. BeyondInv' /\ PassedInv'
  BY <1>0, <1>1, <1>7, SamePassed
<1> QED BY <1>0, <1>1, <1>5, <1>8, OnceStays DEF PlaceInv, dispatch

LEMMA PlaceDies ==
  ASSUME TypeInv, PlaceInv, NEW c \in Contracts, CollectorDies(c)
  PROVE  PlaceInv'
<1>0. WalkInv /\ BeyondInv /\ PassedInv /\ OnceInv /\ Collect(c)
  BY DEF PlaceInv, Collect
<1>1. /\ collector[c] = "new" /\ collector'[c] = "dead" /\ UNCHANGED <<page, txChan>>
      /\ height' = height /\ UNCHANGED dispatch
  BY <1>0 DEF CollectorDies, TypeInv, TypeOK
<1>5. WalkInv'
  BY <1>0, <1>1, OneCollects, OthersWalk DEF WalkInv
<1>6. \A k \in 1 .. height[c] : ~Passed(c, k)' /\ ~Passed(c, k)
  BY <1>1 DEF Passed
<1>7. ASSUME NEW b \in Contracts, NEW k \in 1 .. height[b] PROVE Passed(b, k)' <=> Passed(b, k)
  BY <1>0, <1>6, OneCollects, OthersWalk
<1>8. BeyondInv' /\ PassedInv'
  BY <1>0, <1>1, <1>7, SamePassed
<1> QED BY <1>0, <1>1, <1>5, <1>8, OnceStays DEF PlaceInv, dispatch

\* A page is what was just behind the cursor.
LEMMA AnswerSet ==
  ASSUME NEW lt \in Nat \ {0}
  PROVE  /\ Distinct(Sorted(Answer(lt)))
         /\ ToSet(Sorted(Answer(lt))) = {k \in 1 .. lt : NextLt(Sorted(Answer(lt))) < k}
<1> DEFINE first == IF lt > Limit THEN lt - Limit + 1 ELSE 1
           n == lt - first + 1
           ans == [k \in 1 .. n |-> first + k - 1]
           txs == [i \in 1 .. n |-> first + (n - i + 1) - 1]
<1>1. first \in Nat \ {0} /\ n \in Nat \ {0} /\ n = lt + 1 - first
  BY EventsAssumption
<1>2. Answer(lt) = ans
  BY DEF Answer
<1> HIDE DEF first, n
<1>3. ans \in Seq(Nat \ {0}) /\ Len(ans) = n
  BY <1>1
<1>4. Sorted(Answer(lt)) = txs
  <2>1. Sorted(Answer(lt)) = [i \in 1 .. n |-> ans[(n - i) + 1]]
    BY <1>2, <1>3 DEF Sorted, Reverse
  <2>2. ASSUME NEW i \in 1 .. n PROVE ans[(n - i) + 1] = first + (n - i + 1) - 1
    BY <1>1
  <2> QED BY <2>1, <2>2, Zenon
<1>5. txs \in Seq(Nat \ {0}) /\ Len(txs) = n
  <2>1. ASSUME NEW i \in 1 .. n PROVE txs[i] \in Nat \ {0}
    BY <1>1
  <2> QED BY <1>1, <2>1
<1>6. NextLt(txs) = first - 1
  BY <1>1, <1>5 DEF NextLt, Last
<1>7. \A i \in 1 .. n : txs[i] = lt + 1 - i
  BY <1>1
<1>8. ToSet(txs) = {txs[i] : i \in 1 .. n}
  BY DEF ToSet
<1> HIDE DEF txs
<1>9. Distinct(txs)
  BY <1>1, <1>5, <1>7 DEF Distinct
<1>10. ASSUME NEW k \in ToSet(txs) PROVE k \in 1 .. lt /\ first - 1 < k
  <2>1. PICK i \in 1 .. n : k = txs[i]
    BY <1>8
  <2>2. k = lt + 1 - i
    BY <1>7, <2>1
  <2> QED BY <1>1, <2>2
<1>11. ASSUME NEW k \in 1 .. lt, first - 1 < k PROVE k \in ToSet(txs)
  <2>1. lt + 1 - k \in 1 .. n /\ k = lt + 1 - (lt + 1 - k)
    BY <1>1, <1>11
  <2>2. k = txs[lt + 1 - k]
    BY <1>7, <2>1
  <2> QED BY <1>8, <2>1, <2>2
<1> QED BY <1>4, <1>6, <1>9, <1>10, <1>11

LEMMA PlaceFetch ==
  ASSUME TypeInv, TypeInv', PlaceInv, NEW c \in Contracts, Fetch(c)
  PROVE  PlaceInv'
<1>0. WalkInv /\ BeyondInv /\ PassedInv /\ OnceInv /\ Collect(c)
  BY DEF PlaceInv, Collect
<1>1. /\ collector[c] = "running" /\ collector' = collector /\ page[c] = <<>> /\ cursor[c] > 0
      /\ page'[c] = Sorted(Answer(cursor[c])) /\ cursor'[c] = NextLt(Sorted(Answer(cursor[c])))
      /\ next' = next /\ txChan' = txChan /\ height' = height
      /\ UNCHANGED dispatch
  BY <1>0 DEF Fetch, TypeInv, TypeOK
<1>2. /\ cursor[c] \in Nat \ {0} /\ next[c] \in Nat /\ height[c] \in Nat
      /\ ToSet(txChan[c]) \subseteq Nat
  BY <1>1, WalkTypes
<1>3. /\ cursor'[c] \in Nat /\ cursor'[c] <= cursor[c]
      /\ Distinct(page'[c])
      /\ ToSet(page'[c]) = {k \in 1 .. cursor[c] : cursor'[c] < k}
  BY <1>1, <1>2, SortedAnswer, AnswerSet
<1>4. Walk(c) /\ ToSet(page[c]) = {}
  BY <1>0, <1>1 DEF WalkInv, ToSet
<1>5. Walk(c)'
  <2>1. cursor'[c] < next[c] /\ next[c] <= height[c] + 1 /\ Distinct(txChan[c])
    BY <1>2, <1>3, <1>4 DEF Walk
  <2>2. \A k \in ToSet(page'[c]) : cursor'[c] < k /\ k < next[c]
    BY <1>2, <1>3, <1>4 DEF Walk
  <2>3. \A k \in ToSet(txChan[c]) : k \in Nat /\ cursor[c] < k /\ k < next[c]
    BY <1>2, <1>4 DEF Walk, Between
  <2>4. \A k \in ToSet(txChan[c]) : cursor'[c] < k /\ k \notin ToSet(page'[c])
    BY <1>2, <1>3, <2>3
  <2> QED BY <1>1, <1>3, <2>1, <2>2, <2>3, <2>4 DEF Walk, Between
<1>6. WalkInv'
  BY <1>0, <1>1, <1>5, OneCollects, OthersWalk DEF WalkInv
<1>7. ASSUME NEW b \in Contracts, NEW k \in 1 .. height[b] PROVE Passed(b, k)' <=> Passed(b, k)
  <2>1. CASE b # c
    BY <1>0, <2>1, OneCollects, OthersWalk
  <2>2. CASE b = c
    <3>1. cursor'[c] < k /\ k \notin ToSet(page'[c]) <=> cursor[c] < k
      BY <1>2, <1>3, <2>2
    <3> QED BY <1>1, <1>4, <2>2, <3>1 DEF Passed, Between
  <2> QED BY <2>1, <2>2
<1>8. BeyondInv' /\ PassedInv'
  BY <1>0, <1>1, <1>7, SamePassed
<1> QED BY <1>0, <1>1, <1>6, <1>8, OnceStays DEF PlaceInv, dispatch

LEMMA PlaceForwardFetched ==
  ASSUME TypeInv, TypeInv', PlaceInv, NEW c \in Contracts, ForwardFetched(c)
  PROVE  PlaceInv'
<1>0. WalkInv /\ BeyondInv /\ PassedInv /\ OnceInv /\ Collect(c)
  BY DEF PlaceInv, Collect
<1>1. /\ collector' = collector /\ page[c] # <<>>
      /\ page'[c] = Tail(page[c]) /\ txChan'[c] = Append(txChan[c], Head(page[c]))
      /\ next' = next /\ cursor' = cursor /\ height' = height
      /\ UNCHANGED dispatch
  BY <1>0 DEF ForwardFetched, TypeInv, TypeOK
<1>2. collector[c] = "running" /\ Walk(c)
  BY <1>0, <1>1 DEF WalkInv
<1>3. /\ page[c] \in Seq(Nat \ {0}) /\ txChan[c] \in Seq(Nat \ {0})
      /\ Distinct(page[c]) /\ Distinct(txChan[c])
  BY <1>2, WalkTypes DEF Walk
<1>4. /\ ToSet(page'[c]) = ToSet(page[c]) \ {Head(page[c])}
      /\ Head(page[c]) \in ToSet(page[c]) /\ Distinct(page'[c])
  BY <1>1, <1>3, HeadTail
<1>5. Head(page[c]) \in Nat \ {0} /\ Head(page[c]) \notin ToSet(txChan[c])
  BY <1>2, <1>4, WalkTypes DEF Walk
<1>6. /\ ToSet(txChan'[c]) = ToSet(txChan[c]) \cup {Head(page[c])}
      /\ Distinct(txChan'[c])
  BY <1>1, <1>3, <1>5, Appended
<1>7. Walk(c)'
  BY <1>1, <1>2, <1>4, <1>6 DEF Walk, Between
<1>8. WalkInv'
  BY <1>0, <1>1, <1>2, <1>7, OneCollects, OthersWalk DEF WalkInv
<1>9. ASSUME NEW b \in Contracts, NEW k \in 1 .. height[b] PROVE Passed(b, k)' <=> Passed(b, k)
  <2>1. CASE b # c
    BY <1>0, <2>1, OneCollects, OthersWalk
  <2>2. CASE b = c
    <3>1. ToSet(page'[c]) \cup ToSet(txChan'[c]) = ToSet(page[c]) \cup ToSet(txChan[c])
      BY <1>4, <1>6
    <3> QED BY <1>1, <2>2, <3>1 DEF Passed, Between
  <2> QED BY <2>1, <2>2
<1>10. BeyondInv' /\ PassedInv'
  BY <1>0, <1>1, <1>9, SamePassed
<1> QED BY <1>0, <1>1, <1>8, <1>10, OnceStays DEF PlaceInv, dispatch

LEMMA PlaceForwardSubscribed ==
  ASSUME TypeInv, TypeInv', PlaceInv, NEW c \in Contracts, ForwardSubscribed(c)
  PROVE  PlaceInv'
<1>0. WalkInv /\ BeyondInv /\ PassedInv /\ OnceInv /\ Collect(c)
  BY DEF PlaceInv, Collect
<1>1. /\ collector[c] = "running" /\ collector' = collector /\ next[c] <= height[c]
      /\ next'[c] = next[c] + 1 /\ txChan'[c] = Append(txChan[c], next[c])
      /\ page' = page /\ cursor' = cursor /\ height' = height
      /\ UNCHANGED dispatch
  BY <1>0 DEF ForwardSubscribed, TypeInv, TypeOK
<1>2. Walk(c)
  BY <1>0, <1>1 DEF WalkInv
<1>3. /\ page[c] \in Seq(Nat \ {0}) /\ txChan[c] \in Seq(Nat \ {0})
      /\ ToSet(page[c]) \subseteq Nat /\ ToSet(txChan[c]) \subseteq Nat
      /\ cursor[c] \in Nat /\ next[c] \in Nat /\ height[c] \in Nat
  BY WalkTypes
<1>4. next[c] \in Nat \ {0} /\ cursor[c] < next[c]
  BY <1>2, <1>3 DEF Walk
<1>5. \A k \in ToSet(page[c]) \cup ToSet(txChan[c]) : k \in Nat /\ cursor[c] < k /\ k < next[c]
  BY <1>2, <1>3 DEF Walk, Between
<1>6. next[c] \notin ToSet(page[c]) \cup ToSet(txChan[c])
  BY <1>4, <1>5
<1>7. /\ ToSet(txChan'[c]) = ToSet(txChan[c]) \cup {next[c]}
      /\ Distinct(txChan'[c])
  BY <1>1, <1>2, <1>3, <1>4, <1>6, Appended DEF Walk
<1>8. Walk(c)'
  <2>1. \A k \in ToSet(page[c]) \cup ToSet(txChan'[c]) : cursor[c] < k /\ k < next[c] + 1
    BY <1>3, <1>4, <1>5, <1>7
  <2>2. cursor[c] < next[c] + 1 /\ next[c] + 1 <= height[c] + 1
    BY <1>1, <1>3, <1>4
  <2> QED BY <1>1, <1>2, <1>6, <1>7, <2>1, <2>2 DEF Walk, Between
<1>9. WalkInv'
  BY <1>0, <1>1, <1>8, OneCollects, OthersWalk DEF WalkInv
<1>10. ASSUME NEW b \in Contracts, NEW k \in 1 .. height[b] PROVE Passed(b, k)' <=> Passed(b, k)
  <2>1. CASE b # c
    BY <1>0, <2>1, OneCollects, OthersWalk
  <2>2. CASE b = c
    <3>1. k < next[c] <=> k < next[c] + 1 /\ k # next[c]
      BY <1>3
    <3> QED BY <1>1, <1>7, <2>2, <3>1 DEF Passed, Between
  <2> QED BY <2>1, <2>2
<1>11. BeyondInv' /\ PassedInv'
  BY <1>0, <1>1, <1>10, SamePassed
<1> QED BY <1>0, <1>1, <1>9, <1>11, OnceStays DEF PlaceInv, dispatch
LEMMA ChainEvents ==
  ASSUME WayInv, TypeInv, NEW c \in Contracts, NEW k \in 1 .. height[c], Chain[c][k] # None
  PROVE  Chain[c][k] \in Events
<1>1. height[c] \in Nat /\ height[c] <= Len(Chain[c]) /\ Chain[c] \in Seq(Events \cup {None})
  BY EventsAssumption, WalkTypes DEF WayInv, ChainInv, OnChain
<1>2. k \in 1 .. Len(Chain[c])
  BY <1>1
<1> QED BY <1>1, <1>2

\* The filter lets an event pass, or drops a transaction without one.
LEMMA PlaceFilter ==
  ASSUME TypeInv, TypeInv', WayInv, PlaceInv, NEW c \in Contracts, Filter(c)
  PROVE  PlaceInv'
<1>0. WalkInv /\ BeyondInv /\ PassedInv /\ OnceInv /\ Collect(c) /\ TypeOK /\ ChainInv
  BY DEF PlaceInv, Collect, TypeInv, WayInv
<1>1. /\ collector' = collector /\ txChan[c] # <<>>
      /\ txChan'[c] = Tail(txChan[c])
      /\ next' = next /\ cursor' = cursor /\ page' = page /\ height' = height
      /\ worker' = worker /\ done' = done
  BY <1>0 DEF Filter, TypeOK
<1> PICK h \in Nat \ {0} : h = Head(txChan[c])
  BY <1>1, WalkTypes
<1> DEFINE e == Chain[c][h]
<1>2. IF e = None THEN rawChan' = rawChan ELSE rawChan' = Append(rawChan, e)
  BY DEF Filter
<1>3. collector[c] = "running" /\ Walk(c)
  BY <1>0, <1>1 DEF WalkInv
<1>4. /\ txChan[c] \in Seq(Nat \ {0}) /\ Distinct(txChan[c])
  BY <1>3, WalkTypes DEF Walk
<1>5. /\ ToSet(txChan'[c]) = ToSet(txChan[c]) \ {h}
      /\ h \in ToSet(txChan[c]) /\ Distinct(txChan'[c])
  BY <1>1, <1>4, HeadTail
<1>6. Walk(c)'
  BY <1>1, <1>3, <1>5 DEF Walk, Between
<1>7. WalkInv'
  BY <1>0, <1>1, <1>3, <1>6, OneCollects, OthersWalk DEF WalkInv
<1>8. /\ h \in Nat \ {0} /\ h \in 1 .. height[c] /\ 1 .. height[c] \subseteq 1 .. Len(Chain[c])
  <2>1. /\ h = txChan[c][1] /\ 1 \in 1 .. Len(txChan[c]) /\ height[c] \in Nat
        /\ Chain[c] \in Seq(Events \cup {None})
    BY <1>1, <1>4, WalkTypes, EventsAssumption
  <2>2. h \in Nat \ {0} /\ h <= height[c] /\ height[c] <= Len(Chain[c])
    BY <1>0, <1>4, <2>1 DEF ChainInv, OnChain
  <2> QED BY <2>1, <2>2
<1>9. ~Passed(c, h) /\ Passed(c, h)'
  <2>1. Between(c, h) /\ h \notin ToSet(page[c])
    BY <1>3, <1>5 DEF Walk
  <2> QED BY <1>1, <1>3, <1>5, <2>1 DEF Passed, Between
<1>10. ASSUME NEW b \in Contracts, NEW k \in 1 .. height[b], b # c \/ k # h
       PROVE  Passed(b, k)' <=> Passed(b, k)
  <2>1. CASE b # c
    BY <1>0, <2>1, OneCollects, OthersWalk
  <2>2. CASE b = c
    <3>1. k \in ToSet(txChan'[c]) <=> k \in ToSet(txChan[c])
      BY <1>5, <1>10, <2>2
    <3> QED BY <1>1, <2>2, <3>1 DEF Passed, Between
  <2> QED BY <2>1, <2>2
<1>11. rawChan \in Seq(Events)
  BY <1>0 DEF TypeOK
<1>12. CASE e = None
  <2>1. rawChan' = rawChan
    BY <1>2, <1>12
  <2>2. \A f : Beyond(f)' <=> Beyond(f)
    BY <1>1, <2>1 DEF Beyond
  <2>3. BeyondInv'
    <3> SUFFICES ASSUME NEW f \in Events, Beyond(f)
                 PROVE  \E b \in Contracts : \E k \in 1 .. height[b] : Chain[b][k] = f /\ Passed(b, k)'
      BY <1>1, <2>2 DEF BeyondInv
    <3>0. PICK b \in Contracts : \E k \in 1 .. height[b] : Chain[b][k] = f /\ Passed(b, k)
      BY <1>0 DEF BeyondInv
    <3>1. PICK k \in 1 .. height[b] : Chain[b][k] = f /\ Passed(b, k)
      BY <3>0
    <3>2. b # c \/ k # h
      BY <1>9, <3>1
    <3> QED BY <1>10, <3>1, <3>2
  <2>4. PassedInv'
    <3> SUFFICES ASSUME NEW b \in Contracts, NEW k \in 1 .. height[b], Chain[b][k] # None, Passed(b, k)'
                 PROVE  Beyond(Chain[b][k])
      BY <1>1, <2>2 DEF PassedInv
    <3>1. b # c \/ k # h
      BY <1>12
    <3> QED BY <1>0, <1>10, <3>1 DEF PassedInv
  <2>5. OnceInv'
    BY <1>0, <1>1, <2>1, OnceStays
  <2> QED BY <1>7, <2>3, <2>4, <2>5 DEF PlaceInv
<1>13. CASE e # None
  <2>1. rawChan' = Append(rawChan, e)
    BY <1>2, <1>13
  <2>2. e \in Events
    BY <1>8, <1>13, EventsAssumption
  <2>3. ~Beyond(e)
    <3> SUFFICES ASSUME Beyond(e) PROVE FALSE
      OBVIOUS
    <3>0. PICK b \in Contracts : \E k \in 1 .. height[b] : Chain[b][k] = e /\ Passed(b, k)
      BY <1>0, <2>2 DEF BeyondInv
    <3>1. PICK k \in 1 .. height[b] : Chain[b][k] = e /\ Passed(b, k)
      BY <3>0
    <3>2. height[b] \in Nat /\ height[b] <= Len(Chain[b]) /\ Len(Chain[b]) \in Nat
      BY <1>0, EventsAssumption, WalkTypes DEF ChainInv, OnChain
    <3>3. k \in 1 .. Len(Chain[b])
      BY <3>2
    <3>4. b = c /\ k = h
      BY <1>8, <1>13, <3>1, <3>3, OccursOnce
    <3> QED BY <1>9, <3>1, <3>4
  <2> HIDE DEF e
  <2>4. ToSet(rawChan') = ToSet(rawChan) \cup {e} /\ (e \notin ToSet(rawChan) /\ Distinct(rawChan) => Distinct(rawChan'))
    BY <1>11, <2>1, <2>2, Appended
  <2>5. OnceInv'
    BY <1>0, <1>1, <2>3, <2>4 DEF OnceInv, Beyond
  <2>6. \A f : Beyond(f)' <=> Beyond(f) \/ f = e
    BY <1>1, <2>4 DEF Beyond
  <2>7. BeyondInv'
    <3> SUFFICES ASSUME NEW f \in Events, Beyond(f) \/ f = e
                 PROVE  \E b \in Contracts : \E k \in 1 .. height[b] : Chain[b][k] = f /\ Passed(b, k)'
      BY <1>1, <2>6 DEF BeyondInv
    <3>1. CASE f = e
      BY <1>8, <1>9, <3>1 DEF e
    <3>2. CASE Beyond(f)
      <4>0. PICK b \in Contracts : \E k \in 1 .. height[b] : Chain[b][k] = f /\ Passed(b, k)
        BY <1>0, <3>2 DEF BeyondInv
      <4>1. PICK k \in 1 .. height[b] : Chain[b][k] = f /\ Passed(b, k)
        BY <4>0
      <4>2. b # c \/ k # h
        BY <1>9, <4>1
      <4> QED BY <1>10, <4>1, <4>2
    <3> QED BY <3>1, <3>2
  <2>8. PassedInv'
    <3> SUFFICES ASSUME NEW b \in Contracts, NEW k \in 1 .. height[b], Chain[b][k] # None, Passed(b, k)'
                 PROVE  Beyond(Chain[b][k]) \/ Chain[b][k] = e
      BY <1>1, <2>6 DEF PassedInv
    <3>1. CASE b = c /\ k = h
      BY <3>1 DEF e
    <3>2. CASE b # c \/ k # h
      BY <1>0, <1>10, <3>2 DEF PassedInv
    <3> QED BY <3>1, <3>2
  <2> QED BY <1>7, <2>5, <2>7, <2>8 DEF PlaceInv
<1> QED BY <1>12, <1>13

\* A new transaction is subscribed to, or will be fetched: no event of it is past
\* the filter yet.
LEMMA PlaceNewTransaction ==
  ASSUME TypeInv, TypeInv', PlaceInv, NEW c \in Contracts, NewTransaction(c)
  PROVE  PlaceInv'
<1>0. WalkInv /\ BeyondInv /\ PassedInv /\ OnceInv
  BY DEF PlaceInv
<1>1. /\ UNCHANGED <<collector, cursor, page, next, txChan, dispatch>>
      /\ height'[c] = height[c] + 1
      /\ \A b \in Contracts \ {c} : height'[b] = height[b]
  BY DEF NewTransaction, collect, TypeInv, TypeOK
<1>2. \A b : \A k : Passed(b, k)' <=> Passed(b, k)
  BY <1>1 DEF Passed, Between
<1>3. \A e : Beyond(e)' <=> Beyond(e)
  BY <1>1 DEF Beyond, dispatch
<1>4. ASSUME NEW b \in Contracts PROVE 1 .. height[b] \subseteq 1 .. height'[b]
  <2>1. height[b] \in Nat
    BY WalkTypes
  <2> QED BY <1>1, <2>1
<1>5. WalkInv'
  <2>1. ASSUME NEW b \in Contracts, collector[b] = "running" PROVE Walk(b)'
    <3>1. Walk(b)
      BY <1>0, <2>1 DEF WalkInv
    <3>2. height[b] \in Nat /\ next[b] \in Nat /\ height'[b] \in {height[b], height[b] + 1}
      BY <1>1, WalkTypes
    <3>3. next[b] <= height'[b] + 1
      BY <3>1, <3>2 DEF Walk
    <3> QED BY <1>1, <3>1, <3>3 DEF Walk, Between
  <2> QED BY <1>0, <1>1, <2>1 DEF WalkInv
<1>6. BeyondInv'
  BY <1>0, <1>2, <1>3, <1>4 DEF BeyondInv
<1>7. PassedInv'
  <2> SUFFICES ASSUME NEW b \in Contracts, NEW k \in 1 .. height'[b], Chain[b][k] # None, Passed(b, k)
               PROVE  Beyond(Chain[b][k])
    BY <1>2, <1>3 DEF PassedInv
  <2>1. Walk(b)
    BY <1>0 DEF Passed, WalkInv
  <2>2. k < next[b] /\ next[b] <= height[b] + 1 /\ next[b] \in Nat /\ height[b] \in Nat /\ height'[b] \in Nat
    <3>1. next[b] \in Nat /\ height[b] \in Nat
      BY WalkTypes
    <3>2. k < next[b]
      BY DEF Passed, Between
    <3>3. next[b] <= height[b] + 1
      BY <2>1 DEF Walk
    <3>4. height'[b] \in Nat
      BY DEF TypeInv, TypeOK
    <3> QED BY <3>1, <3>2, <3>3, <3>4
  <2>3. k \in 1 .. height[b]
    BY <2>2
  <2> QED BY <1>0, <2>3 DEF PassedInv
<1>8. OnceInv'
  BY <1>0, <1>1, OnceStays DEF dispatch
<1> QED BY <1>5, <1>6, <1>7, <1>8 DEF PlaceInv

\* From the channel to a handler, and from there to the end.
LEMMA PlaceDispatch ==
  ASSUME TypeInv, WayInv, PlaceInv, Dispatch
  PROVE  PlaceInv'
<1>0. WalkInv /\ BeyondInv /\ PassedInv /\ OnceInv /\ TypeOK
  BY DEF PlaceInv, TypeInv
<1> DEFINE e == Head(rawChan)
<1>1. /\ UNCHANGED <<height, collector, cursor, page, next, txChan, done>>
      /\ rawChan # <<>> /\ rawChan' = Tail(rawChan) /\ rawChan \in Seq(Events)
      /\ worker' = [worker EXCEPT ![e] = "tontx"]
  BY <1>0 DEF Dispatch, collect, TypeOK
<1>2. /\ ToSet(rawChan') = ToSet(rawChan) \ {e} /\ e \in ToSet(rawChan) /\ Distinct(rawChan')
  BY <1>0, <1>1, HeadTail DEF OnceInv
<1>3. e \in Events
  BY <1>1
<1> HIDE DEF e
<1>4. worker'[e] = "tontx" /\ \A f \in Events \ {e} : worker'[f] = worker[f]
  BY <1>0, <1>1, <1>3 DEF TypeOK
<1>5. ASSUME NEW f \in Events PROVE Beyond(f)' <=> Beyond(f)
  <2>1. CASE f = e
    BY <1>2, <1>4, <2>1, EventsAssumption DEF Beyond
  <2>2. CASE f # e
    BY <1>1, <1>2, <1>4, <2>2 DEF Beyond
  <2> QED BY <2>1, <2>2
<1>6. WalkInv' /\ \A b, k : Passed(b, k)' <=> Passed(b, k)
  BY <1>0, <1>1 DEF WalkInv, Walk, Passed, Between
<1>7. BeyondInv'
  BY <1>0, <1>1, <1>5, <1>6 DEF BeyondInv
<1>8. PassedInv'
  BY <1>0, <1>1, <1>5, <1>6, ChainEvents DEF PassedInv
<1>9. OnceInv'
  <2>1. ToSet(rawChan) \subseteq Events /\ done \subseteq Events
    BY <1>0, <1>1 DEF ToSet, TypeOK
  <2>2. ASSUME NEW f \in ToSet(rawChan') PROVE worker'[f] = None /\ f \notin done'
    BY <1>0, <1>1, <1>2, <1>4, <2>1, <2>2 DEF OnceInv
  <2>3. ASSUME NEW f \in done PROVE worker'[f] = None
    BY <1>0, <1>2, <1>4, <2>1, <2>3 DEF OnceInv
  <2> QED BY <1>1, <1>2, <2>2, <2>3 DEF OnceInv
<1> QED BY <1>6, <1>7, <1>8, <1>9 DEF PlaceInv

LEMMA PlaceHandle ==
  ASSUME TypeInv, WayInv, PlaceInv, NEW e \in Events, Handle(e)
  PROVE  PlaceInv'
<1>0. WalkInv /\ BeyondInv /\ PassedInv /\ OnceInv /\ TypeOK
  BY DEF PlaceInv, TypeInv
<1>1. UNCHANGED <<height, collector, cursor, page, next, txChan, rawChan>>
  BY DEF Handle, WriteTonTx, Parse, QueryPegout, CreatePegout, CreateInternalKey, HandlerFails,
         collect
<1>2. worker[e] # None
  BY EventsAssumption DEF Handle, WriteTonTx, Parse, QueryPegout, CreatePegout, CreateInternalKey,
         HandlerFails
<1>3. \/ \E step \in {"parse", "query", "key", "create"} :
           worker' = [worker EXCEPT ![e] = step] /\ done' = done
      \/ worker' = [worker EXCEPT ![e] = None] /\ done' = done \cup {e}
  BY DEF Handle, WriteTonTx, Parse, QueryPegout, CreatePegout, CreateInternalKey,
         HandlerFails, HandlerReturns
<1>4. \A f \in Events \ {e} : worker'[f] = worker[f]
  BY <1>0, <1>3 DEF TypeOK
<1>5. \/ worker'[e] # None /\ done' = done
      \/ worker'[e] = None /\ done' = done \cup {e}
  BY <1>0, <1>3, EventsAssumption DEF TypeOK
<1>6. ASSUME NEW f \in Events PROVE Beyond(f)' <=> Beyond(f)
  BY <1>1, <1>2, <1>4, <1>5 DEF Beyond
<1>7. WalkInv' /\ \A b, k : Passed(b, k)' <=> Passed(b, k)
  BY <1>0, <1>1 DEF WalkInv, Walk, Passed, Between
<1>8. BeyondInv'
  BY <1>0, <1>1, <1>6, <1>7 DEF BeyondInv
<1>10. PassedInv'
  BY <1>0, <1>1, <1>6, <1>7, ChainEvents DEF PassedInv
<1>11. OnceInv'
  <2>1. ToSet(rawChan) \subseteq Events /\ done \subseteq Events
    BY <1>0 DEF ToSet, TypeOK
  <2>2. e \notin ToSet(rawChan) /\ e \notin done
    BY <1>0, <1>2 DEF OnceInv
  <2>3. ASSUME NEW f \in ToSet(rawChan') PROVE worker'[f] = None /\ f \notin done'
    BY <1>0, <1>1, <1>4, <1>5, <2>1, <2>2, <2>3 DEF OnceInv
  <2>4. ASSUME NEW f \in done' PROVE worker'[f] = None
    BY <1>0, <1>4, <1>5, <2>1, <2>2, <2>4 DEF OnceInv
  <2> QED BY <1>0, <1>1, <2>3, <2>4 DEF OnceInv
<1> QED BY <1>7, <1>8, <1>10, <1>11 DEF PlaceInv

LEMMA PlaceRestart == ASSUME TypeInv, Restart PROVE PlaceInv'
<1>1. /\ collector' = AllNew /\ page' = Empty /\ txChan' = Empty /\ rawChan' = <<>>
      /\ worker' = NoWorkers /\ done' = {} /\ height' = height
  BY DEF Restart
<1>2. WalkInv'
  BY <1>1 DEF AllNew, Empty, WalkInv
<1>3. \A e \in Events : ~Beyond(e)'
  BY <1>1 DEF NoWorkers, Beyond, ToSet
<1>4. PassedInv'
  BY <1>1 DEF AllNew, PassedInv, Passed
<1>5. OnceInv'
  BY <1>1 DEF OnceInv, Distinct, ToSet
<1> QED BY <1>2, <1>3, <1>4, <1>5 DEF PlaceInv, BeyondInv

LEMMA PlaceStutter == ASSUME PlaceInv, UNCHANGED vars PROVE PlaceInv'
<1>1. UNCHANGED <<height, collector, cursor, page, next, txChan, rawChan, worker, done>>
  BY DEF vars, collect, dispatch
<1> QED BY <1>1 DEF PlaceInv, WalkInv, Walk, BeyondInv, PassedInv, OnceInv, Passed, Between, Beyond

LEMMA PlaceStep ==
  ASSUME TypeInv, TypeInv', WayInv, PlaceInv, [Next]_vars
  PROVE  PlaceInv'
<1>1. ASSUME NEW c \in Contracts, Collect(c) PROVE PlaceInv'
  BY <1>1, PlaceStart, PlaceDies, PlaceFetch, PlaceForwardFetched, PlaceForwardSubscribed,
     PlaceFilter DEF Collect
<1>2. ASSUME NEW c \in Contracts, NewTransaction(c) PROVE PlaceInv'
  BY <1>2, PlaceNewTransaction
<1>3. ASSUME NEW e \in Events, Handle(e) PROVE PlaceInv'
  BY <1>3, PlaceHandle
<1> QED BY <1>1, <1>2, <1>3, PlaceDispatch, PlaceRestart, PlaceStutter DEF Next

\* The stages that a transaction with an event is at are exactly one.
LEMMA OneStage ==
  ASSUME TypeInv, WayInv, PlaceInv, NEW c \in Contracts, collector[c] = "running",
         NEW k \in 1 .. height[c], Chain[c][k] # None
  PROVE  \E s : Stages(c, k) = {s}
<1>0. WalkInv /\ BeyondInv /\ PassedInv /\ OnceInv /\ Walk(c)
  BY DEF PlaceInv, WalkInv
<1> DEFINE e == Chain[c][k]
<1>1. /\ cursor[c] \in Nat /\ next[c] \in Nat /\ cursor[c] < next[c] /\ k \in Nat
      /\ height[c] \in Nat /\ height[c] <= Len(Chain[c]) /\ k \in 1 .. Len(Chain[c])
  <2>1. /\ cursor[c] \in Nat /\ next[c] \in Nat /\ height[c] \in Nat
    BY WalkTypes
  <2>2. height[c] <= Len(Chain[c]) /\ Len(Chain[c]) \in Nat /\ cursor[c] < next[c]
    BY <1>0, EventsAssumption DEF WayInv, ChainInv, OnChain, Walk
  <2> QED BY <2>1, <2>2
<1>2. e \in Events
  BY <1>1, EventsAssumption
<1>3. k \in ToSet(page[c]) \cup ToSet(txChan[c]) => cursor[c] < k /\ k < next[c]
  BY <1>0 DEF Walk, Between
<1>4. k \notin ToSet(page[c]) \cap ToSet(txChan[c])
  BY <1>0 DEF Walk
<1>5. Passed(c, k) <=> Beyond(e)
  <2>1. ASSUME Beyond(e) PROVE Passed(c, k)
    <3>0. PICK b \in Contracts : \E l \in 1 .. height[b] : Chain[b][l] = e /\ Passed(b, l)
      BY <1>0, <1>2, <2>1 DEF BeyondInv
    <3>1. PICK l \in 1 .. height[b] : Chain[b][l] = e /\ Passed(b, l)
      BY <3>0
    <3>2. height[b] \in Nat /\ height[b] <= Len(Chain[b]) /\ Len(Chain[b]) \in Nat
      BY EventsAssumption, WalkTypes DEF WayInv, ChainInv, OnChain
    <3>3. l \in 1 .. Len(Chain[b])
      BY <3>2
    <3>4. b = c /\ l = k
      BY <1>1, <3>1, <3>3, OccursOnce
    <3> QED BY <3>1, <3>4
  <2>2. ASSUME Passed(c, k) PROVE Beyond(e)
    BY <1>0, <2>2 DEF PassedInv
  <2> QED BY <2>1, <2>2
<1>6. Passed(c, k) <=> ~(k <= cursor[c]) /\ ~(k >= next[c]) /\ k \notin ToSet(page[c]) /\ k \notin ToSet(txChan[c])
  BY <1>1 DEF Passed, Between
<1>7. Beyond(e) <=> e \in ToSet(rawChan) \/ worker[e] # None \/ e \in done
  BY DEF Beyond
<1>8. /\ ~(e \in ToSet(rawChan) /\ worker[e] # None)
      /\ ~(e \in ToSet(rawChan) /\ e \in done)
      /\ ~(worker[e] # None /\ e \in done)
  BY <1>0 DEF OnceInv
<1>9. /\ k <= cursor[c] => ~(k >= next[c])
      /\ k \in ToSet(page[c]) \cup ToSet(txChan[c]) => ~(k <= cursor[c]) /\ ~(k >= next[c])
  BY <1>1, <1>3
<1> DEFINE atFetch == k <= cursor[c]
           atPage == k \in ToSet(page[c])
           atSub == k >= next[c]
           atChan == k \in ToSet(txChan[c])
           atRaw == e \in ToSet(rawChan)
           atWork == worker[e] # None
           atDone == e \in done
<1>10. Stages(c, k) =
        {s \in {"fetch", "page", "subscribe", "channel"} :
           \/ s = "fetch" /\ atFetch
           \/ s = "page" /\ atPage
           \/ s = "subscribe" /\ atSub
           \/ s = "channel" /\ atChan}
        \cup {s \in {"raw", "worker", "done"} :
           \/ s = "raw" /\ atRaw
           \/ s = "worker" /\ atWork
           \/ s = "done" /\ atDone}
  BY Zenon DEF Stages
<1> HIDE DEF atFetch, atPage, atSub, atChan, atRaw, atWork, atDone
<1>11. ASSUME NEW s
       PROVE  s \in Stages(c, k) <=>
                \/ s = "fetch" /\ atFetch
                \/ s = "page" /\ atPage
                \/ s = "subscribe" /\ atSub
                \/ s = "channel" /\ atChan
                \/ s = "raw" /\ atRaw
                \/ s = "worker" /\ atWork
                \/ s = "done" /\ atDone
  BY <1>10
<1>12. /\ atFetch => ~atPage /\ ~atSub /\ ~atChan /\ ~Passed(c, k)
       /\ atPage => ~atSub /\ ~atChan /\ ~Passed(c, k)
       /\ atSub => ~atChan /\ ~Passed(c, k)
       /\ atChan => ~Passed(c, k)
       /\ atFetch \/ atPage \/ atSub \/ atChan \/ Passed(c, k)
  BY <1>4, <1>6, <1>9, Zenon DEF atFetch, atPage, atSub, atChan
<1>13. /\ atRaw \/ atWork \/ atDone <=> Passed(c, k)
       /\ atRaw => ~atWork /\ ~atDone
       /\ atWork => ~atDone
  BY <1>5, <1>7, <1>8, Zenon DEF atRaw, atWork, atDone
<1>14. CASE atFetch
  <2>1. Stages(c, k) = {"fetch"}
    BY <1>11, <1>12, <1>13, <1>14
  <2> QED BY <2>1
<1>15. CASE atPage
  <2>1. Stages(c, k) = {"page"}
    BY <1>11, <1>12, <1>13, <1>15
  <2> QED BY <2>1
<1>16. CASE atSub
  <2>1. Stages(c, k) = {"subscribe"}
    BY <1>11, <1>12, <1>13, <1>16
  <2> QED BY <2>1
<1>17. CASE atChan
  <2>1. Stages(c, k) = {"channel"}
    BY <1>11, <1>12, <1>13, <1>17
  <2> QED BY <2>1
<1>18. CASE Passed(c, k)
  <2>0. ~atFetch /\ ~atPage /\ ~atSub /\ ~atChan
    BY <1>12, <1>18
  <2>1. Stages(c, k) = {"raw"} \/ Stages(c, k) = {"worker"} \/ Stages(c, k) = {"done"}
    BY <1>11, <1>13, <1>18, <2>0
  <2> QED BY <2>1
<1> QED BY <1>12, <1>14, <1>15, <1>16, <1>17, <1>18

\* EveryEventIsInOnePlace: with any page size, any channel capacity and any
\* number of handlers, the backward walk and the subscription miss no event
\* between them and hand none over twice.
THEOREM OneForEvery == Spec => []EveryEventIsInOnePlace
<1>1. ASSUME TypeInv, WayInv, PlaceInv PROVE EveryEventIsInOnePlace
  <2> SUFFICES ASSUME NEW c \in Contracts, collector[c] = "running",
                      NEW k \in 1 .. height[c], Chain[c][k] # None
               PROVE  Cardinality(Stages(c, k)) = 1
    BY DEF EveryEventIsInOnePlace
  <2>1. PICK s : Stages(c, k) = {s}
    BY <1>1, OneStage
  <2> QED BY <2>1, FS_Singleton
<1>2. ASSUME TypeInv, WayInv, PlaceInv, [Next]_vars
      PROVE  PlaceInv'
  BY <1>2, Step, PlaceStep
<1> QED BY <1>1, <1>2, PlaceInit, Always, PTL DEF Spec
=============================================================================
