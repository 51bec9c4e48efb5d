--------------------------- MODULE IndexerEvents ---------------------------
(***************************************************************************)
(* From the contracts' transactions to rows of the indexer's database.  Per *)
(* contract a fetcher walks the transactions backwards from where the       *)
(* account stood at the start, a subscriber follows those that come after,  *)
(* and a filter passes on what they carry; one dispatcher handles every     *)
(* event in a goroutine of its own (indexer/internal/events, tontx, pegout; *)
(* lib/pkg/ton/tonclient).  Nothing of this is kept: a restart walks the    *)
(* whole chain again, and an event that failed comes back only then.        *)
(*                                                                          *)
(* A transaction carries one event or none.  Mint events are the subject of *)
(* IndexerMint.                                                             *)
(***************************************************************************)
EXTENDS Integers, Sequences, SequencesExt, FiniteSets

CONSTANTS Events,       \* the events of all contracts
          Contracts,    \* the contracts whose events are collected
          Chain,        \* Chain[c]: the transactions of c, an event or None each
          PegoutEvents, \* burn and reinit events
          KeyEvents,    \* DKG completed events; all others have an unknown id
          Addr,         \* Addr[e]: the pegout's address, for PegoutEvents
          NoAddr,       \* the TON address "none"
          Limit,        \* transactions per request of the fetcher
          TxChanSize,   \* capacity of a collector's txChan
          RawChanSize,  \* capacity of rawEventChan
          Workers,      \* limit of the dispatcher's errgroup
          MaxLosses,    \* bound: calls that fail
          MaxRestarts,  \* bound: restarts
          None

ASSUME EventsAssumption ==
  /\ IsFiniteSet(Events)
  /\ Chain \in [Contracts -> Seq(Events \cup {None})]
  /\ PegoutEvents \subseteq Events
  /\ KeyEvents \subseteq Events \ PegoutEvents
  /\ {Limit, TxChanSize, RawChanSize, Workers} \subseteq Nat \ {0}
  /\ MaxLosses \in Nat
  /\ MaxRestarts \in Nat
  /\ None \notin Events
  /\ None \notin {"tontx", "parse", "query", "create", "key"}

\* An event is one message of one transaction.
ASSUME OccursOnce ==
  \A c, d \in Contracts : \A k \in 1 .. Len(Chain[c]), l \in 1 .. Len(Chain[d]) :
    Chain[c][k] = Chain[d][l] /\ Chain[c][k] # None => c = d /\ k = l

VARIABLES
  height,     \* height[c]: number of transactions of c so far
  collector,  \* collector[c]: "new", "running", or "dead" if it could not start
  cursor,     \* cursor[c]: TxFetcher.lt, as a position in the chain
  page,       \* page[c]: transactions fetched and not yet in the channel
  next,       \* next[c]: the transaction the subscription delivers next
  txChan,     \* txChan[c]: transactions on their way to the filter
  rawChan,    \* rawEventChan
  worker,     \* worker[e]: what the goroutine of e does next, or None
  done,       \* history: events whose handler returned in this run
  failed,     \* history: those among them for which a call failed
  tonTxs,     \* events whose transaction has a row
  pegouts,    \* events that created a row of Pegout
  rows,       \* events with a row of Burn, Reinit or InternalKey
  losses,     \* calls that failed so far
  restarts    \* restarts so far

collect == <<collector, cursor, page, next, txChan>>
dispatch == <<rawChan, worker, done, failed>>
database == <<tonTxs, pegouts, rows>>
bounds == <<losses, restarts>>
vars == <<height, collect, dispatch, database, bounds>>

-----------------------------------------------------------------------------
Raised == (UNION {{Chain[c][k] : k \in 1 .. height[c]} : c \in Contracts}) \ {None}

NoWorkers == [e \in Events |-> None]
Zero == [c \in Contracts |-> 0]
Empty == [c \in Contracts |-> <<>>]
AllNew == [c \in Contracts |-> "new"]

Init ==
  /\ height = Zero
  /\ collector = AllNew
  /\ cursor = Zero
  /\ page = Empty
  /\ next = Zero
  /\ txChan = Empty
  /\ rawChan = <<>>
  /\ worker = NoWorkers
  /\ done = {}
  /\ failed = {}
  /\ tonTxs = {}
  /\ pegouts = {}
  /\ rows = {}
  /\ losses = 0
  /\ restarts = 0

NewTransaction(c) ==
  /\ height[c] < Len(Chain[c])
  /\ height' = [height EXCEPT ![c] = @ + 1]
  /\ UNCHANGED <<collect, dispatch, database, bounds>>

-----------------------------------------------------------------------------
(* The collector of a contract.                                             *)

\* Mutant: the subscriber reads the account again, after the fetcher did.
StartCollectorLate(c) ==
  /\ collector[c] = "new"
  /\ collector' = [collector EXCEPT ![c] = "running"]
  /\ cursor' = [cursor EXCEPT ![c] = IF height[c] > 0 THEN height[c] - 1 ELSE 0]
  /\ next' = [next EXCEPT ![c] = height[c] + 1]
  /\ UNCHANGED <<height, page, txChan, dispatch, database, bounds>>

\* The account is read once: the fetcher begins at its last transaction and
\* the subscriber after it.
StartCollector(c) ==
  /\ collector[c] = "new"
  /\ collector' = [collector EXCEPT ![c] = "running"]
  /\ cursor' = [cursor EXCEPT ![c] = height[c]]
  /\ next' = [next EXCEPT ![c] = height[c] + 1]
  /\ UNCHANGED <<height, page, txChan, dispatch, database, bounds>>

\* EventService.Work does not look at the error: the others go on.
CollectorDies(c) ==
  /\ collector[c] = "new"
  /\ losses < MaxLosses
  /\ losses' = losses + 1
  /\ collector' = [collector EXCEPT ![c] = "dead"]
  /\ UNCHANGED <<height, cursor, page, next, txChan, dispatch, database, restarts>>

\* A request answers with the Limit transactions that end at lt, the oldest
\* first; they are sorted with the newest first, and the last one says where
\* the next request begins.  A request that fails is repeated.
Answer(lt) ==
  LET first == IF lt > Limit THEN lt - Limit + 1 ELSE 1
  IN [k \in 1 .. lt - first + 1 |-> first + k - 1]

\* Mutant: the order of the answer is kept.
SortedAsIs(txs) == txs

Sorted(txs) == Reverse(txs)
NextLt(txs) == Last(txs) - 1

Fetch(c) ==
  /\ collector[c] = "running"
  /\ page[c] = <<>>
  /\ cursor[c] > 0
  /\ LET txs == Sorted(Answer(cursor[c]))
     IN /\ page' = [page EXCEPT ![c] = txs]
        /\ cursor' = [cursor EXCEPT ![c] = NextLt(txs)]
  /\ UNCHANGED <<height, collector, next, txChan, dispatch, database, bounds>>

\* Both writers wait for room in the channel.
Room(c) == Len(txChan[c]) < TxChanSize

ForwardFetched(c) ==
  /\ page[c] # <<>>
  /\ Room(c)
  /\ page' = [page EXCEPT ![c] = Tail(@)]
  /\ txChan' = [txChan EXCEPT ![c] = Append(@, Head(page[c]))]
  /\ UNCHANGED <<height, collector, cursor, next, dispatch, database, bounds>>

ForwardSubscribed(c) ==
  /\ collector[c] = "running"
  /\ next[c] <= height[c]
  /\ Room(c)
  /\ next' = [next EXCEPT ![c] = @ + 1]
  /\ txChan' = [txChan EXCEPT ![c] = Append(@, next[c])]
  /\ UNCHANGED <<height, collector, cursor, page, dispatch, database, bounds>>

\* A transaction without an external message leads to nothing.
Filter(c) ==
  /\ txChan[c] # <<>>
  /\ LET e == Chain[c][Head(txChan[c])]
     IN IF e = None THEN UNCHANGED rawChan
        ELSE Len(rawChan) < RawChanSize /\ rawChan' = Append(rawChan, e)
  /\ txChan' = [txChan EXCEPT ![c] = Tail(@)]
  /\ UNCHANGED <<height, collector, cursor, page, next, worker, done, failed, database, bounds>>

-----------------------------------------------------------------------------
(* The dispatcher and the goroutine of an event.                            *)

Busy == {e \in Events : worker[e] # None}

Dispatch ==
  /\ rawChan # <<>>
  /\ Cardinality(Busy) < Workers
  /\ rawChan' = Tail(rawChan)
  /\ worker' = [worker EXCEPT ![Head(rawChan)] = "tontx"]
  /\ UNCHANGED <<height, collect, done, failed, database, bounds>>

HandlerReturns(e) ==
  /\ worker' = [worker EXCEPT ![e] = None]
  /\ done' = done \cup {e}

\* The row is created, or the one of an earlier run is read.
WriteTonTx(e) ==
  /\ worker[e] = "tontx"
  /\ tonTxs' = tonTxs \cup {e}
  /\ worker' = [worker EXCEPT ![e] = "parse"]
  /\ UNCHANGED <<height, collect, rawChan, done, failed, pegouts, rows, bounds>>

\* Anything but a burn, a reinit or a completed DKG is of no interest.
Parse(e) ==
  /\ worker[e] = "parse"
  /\ CASE e \in PegoutEvents -> worker' = [worker EXCEPT ![e] = "query"] /\ UNCHANGED done
       [] e \in KeyEvents    -> worker' = [worker EXCEPT ![e] = "key"] /\ UNCHANGED done
       [] OTHER              -> HandlerReturns(e)
  /\ UNCHANGED <<height, collect, rawChan, failed, database, bounds>>

\* The query asks for "0:" when there is no address, and rows without an
\* address hold "".
PegoutExists(e) == \E f \in pegouts : Addr[f] = Addr[e] /\ Addr[e] # NoAddr

QueryPegout(e) ==
  /\ worker[e] = "query"
  /\ IF PegoutExists(e) THEN HandlerReturns(e)
     ELSE worker' = [worker EXCEPT ![e] = "create"] /\ UNCHANGED done
  /\ UNCHANGED <<height, collect, rawChan, failed, database, bounds>>

\* Pegout.addr is unique, "" as well, and so are the edges of a transaction.
Conflict(e) == e \in rows \/ \E f \in pegouts : Addr[f] = Addr[e]

\* Pegout and Burn or Reinit in one database transaction.
CreatePegout(e) ==
  /\ worker[e] = "create"
  /\ HandlerReturns(e)
  /\ IF Conflict(e) THEN UNCHANGED <<pegouts, rows>>
     ELSE pegouts' = pegouts \cup {e} /\ rows' = rows \cup {e}
  /\ UNCHANGED <<height, collect, rawChan, failed, tonTxs, bounds>>

\* The key of a replayed event is there already and the insert fails.
CreateInternalKey(e) ==
  /\ worker[e] = "key"
  /\ HandlerReturns(e)
  /\ rows' = rows \cup {e}
  /\ UNCHANGED <<height, collect, rawChan, failed, tonTxs, pegouts, bounds>>

\* Mutants: the pegout is created before the transaction begins; a failing
\* handler deletes what its event had created.
HandlerFailsHalfway(e) ==
  /\ worker[e] # None
  /\ losses < MaxLosses
  /\ losses' = losses + 1
  /\ HandlerReturns(e)
  /\ failed' = failed \cup {e}
  /\ pegouts' = IF worker[e] = "create" THEN pegouts \cup {e} ELSE pegouts
  /\ UNCHANGED <<height, collect, rawChan, tonTxs, rows, restarts>>
HandlerUndoes(e) ==
  /\ worker[e] # None
  /\ losses < MaxLosses
  /\ losses' = losses + 1
  /\ HandlerReturns(e)
  /\ failed' = failed \cup {e}
  /\ pegouts' = pegouts \ {e}
  /\ rows' = rows \ {e}
  /\ tonTxs' = tonTxs \ {e}
  /\ UNCHANGED <<height, collect, rawChan, restarts>>

\* A query, an insert or a commit fails: the error is logged, or lost when it
\* is the commit's, and the event is not handled again in this run.
HandlerFails(e) ==
  /\ worker[e] # None
  /\ losses < MaxLosses
  /\ losses' = losses + 1
  /\ HandlerReturns(e)
  /\ failed' = failed \cup {e}
  /\ UNCHANGED <<height, collect, rawChan, database, restarts>>

-----------------------------------------------------------------------------
Restart ==
  /\ restarts < MaxRestarts
  /\ restarts' = restarts + 1
  /\ collector' = AllNew
  /\ cursor' = Zero
  /\ page' = Empty
  /\ next' = Zero
  /\ txChan' = Empty
  /\ rawChan' = <<>>
  /\ worker' = NoWorkers
  /\ done' = {}
  /\ failed' = {}
  /\ UNCHANGED <<height, database, losses>>

Collect(c) ==
  \/ StartCollector(c)
  \/ CollectorDies(c)
  \/ Fetch(c)
  \/ ForwardFetched(c)
  \/ ForwardSubscribed(c)
  \/ Filter(c)

Handle(e) ==
  \/ WriteTonTx(e)
  \/ Parse(e)
  \/ QueryPegout(e)
  \/ CreatePegout(e)
  \/ CreateInternalKey(e)
  \/ HandlerFails(e)

Next ==
  \/ \E c \in Contracts : NewTransaction(c) \/ Collect(c)
  \/ Dispatch
  \/ \E e \in Events : Handle(e)
  \/ Restart

\* Every goroutine goes on; nothing makes the chain grow or the process stop.
Fairness ==
  /\ \A c \in Contracts :
       /\ WF_vars(StartCollector(c) \/ CollectorDies(c))
       /\ WF_vars(Fetch(c) \/ ForwardFetched(c))
       /\ SF_vars(ForwardFetched(c))
       /\ SF_vars(ForwardSubscribed(c))
       /\ SF_vars(Filter(c))
  /\ WF_vars(Dispatch)
  /\ \A e \in Events : WF_vars(Handle(e))

Spec == Init /\ [][Next]_vars
FairSpec == Spec /\ Fairness

-----------------------------------------------------------------------------
(* Properties.                                                              *)

Indexed == {e \in Events : e \in rows \/ (e \notin PegoutEvents \cup KeyEvents /\ e \in tonTxs)}

TypeOK ==
  /\ height \in [Contracts -> Nat]
  /\ collector \in [Contracts -> {"new", "running", "dead"}]
  /\ cursor \in [Contracts -> Nat]
  /\ page \in [Contracts -> Seq(Nat \ {0})]
  /\ next \in [Contracts -> Nat]
  /\ txChan \in [Contracts -> Seq(Nat \ {0})]
  /\ rawChan \in Seq(Events)
  /\ worker \in [Events -> {"tontx", "parse", "query", "create", "key", None}]
  /\ done \subseteq Events
  /\ failed \subseteq Events
  /\ tonTxs \subseteq Events
  /\ pegouts \subseteq PegoutEvents
  /\ rows \subseteq PegoutEvents \cup KeyEvents
  /\ losses \in 0 .. MaxLosses
  /\ restarts \in 0 .. MaxRestarts

\* Where the k-th transaction of a running collector is: still to be fetched or
\* subscribed to, on a page, in the channel, or past the filter.
Stages(c, k) ==
  {s \in {"fetch", "page", "subscribe", "channel"} :
     \/ s = "fetch" /\ k <= cursor[c]
     \/ s = "page" /\ k \in ToSet(page[c])
     \/ s = "subscribe" /\ k >= next[c]
     \/ s = "channel" /\ k \in ToSet(txChan[c])}
  \cup (IF Chain[c][k] = None THEN {} ELSE
  {s \in {"raw", "worker", "done"} :
     \/ s = "raw" /\ Chain[c][k] \in ToSet(rawChan)
     \/ s = "worker" /\ worker[Chain[c][k]] # None
     \/ s = "done" /\ Chain[c][k] \in done})

\* Backward walk, subscription, filter and dispatcher together lose no event and
\* handle none twice in one run: every event is at exactly one place.
EveryEventIsInOnePlace ==
  \A c \in Contracts : collector[c] = "running" =>
    \A k \in 1 .. height[c] :
      Chain[c][k] # None => Cardinality(Stages(c, k)) = 1

\* A pegout row is never without the burn or reinit row of its event, nor the
\* other way round: writeBurn and writeReinit take a pegout that exists as the
\* sign that they have nothing left to do.
PegoutsAreWhole == pegouts = rows \cap PegoutEvents

\* Pegouts whose address is another row's.  None is an address as well: of the
\* pegouts without one, one has a row.
Shadowed == {e \in PegoutEvents : \E f \in pegouts \ {e} : Addr[f] = Addr[e]}

\* An event whose handler returned, and for which no call failed, is in the
\* database, unless the row of another pegout is in its way.
HandledIsAccounted == done \ failed \subseteq Indexed \cup Shadowed

\* What every state of the database satisfies on its own.
EventsInv == TypeOK /\ PegoutsAreWhole /\ HandledIsAccounted

\* The database implements the ledger: events enter it whole, once raised, and
\* never leave it.
Ledger == INSTANCE EventLedger WITH
  Events <- Events, raised <- Raised, ledger <- Indexed
LedgerSpec == Ledger!Spec

\* As long as no call fails and no pegout's row is in the way of another's, it
\* also keeps the promise to know every event.
LedgerIsKept == [](losses = 0 /\ Shadowed \cap Raised = {}) => Ledger!Fairness
=============================================================================
