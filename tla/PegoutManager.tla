--------------------------- MODULE PegoutManager ---------------------------
(***************************************************************************)
(* The indexer's pegout manager (indexer/internal/pegoutmanager): one loop  *)
(* builds the Bitcoin transaction of a pegout from what its contract holds, *)
(* the other one sends it until the Bitcoin node knows it.  Each loop works *)
(* through a batch of rows in parallel and starts the next one when all of  *)
(* them are done.  The loops share the table; rows change hands by status.  *)
(*                                                                          *)
(* A transaction id is the number its 32 bytes write, so that bytes.Compare *)
(* is <; a signature is the id of the input it is for.  The chain of        *)
(* pegouts is Depends: a pegout spends the change of another one, or of     *)
(* nothing that is not in a block already.                                  *)
(***************************************************************************)
EXTENDS Integers, Sequences, SequencesExt, FiniteSets, FiniteSetsExt

CONSTANTS Pegouts,
          Inputs,       \* Inputs[p]: transaction ids of the inputs of p
          Depends,      \* Depends[p]: the pegout whose change p spends, or None
          Refusable,    \* pegouts the node may refuse
          Limit,        \* pegoutQueryLimit
          MaxLosses,    \* bound: calls without an answer, failed updates
          MaxEvictions, \* bound: transactions the node drops from its mempool
          MaxRestarts,  \* bound: restarts of the indexer
          None

ASSUME PegoutManagerAssumption ==
  /\ IsFiniteSet(Pegouts)
  /\ \A p \in Pegouts : IsFiniteSet(Inputs[p]) /\ Inputs[p] \subseteq Nat /\ Inputs[p] # {}
  /\ Depends \in [Pegouts -> Pegouts \cup {None}]
  /\ Refusable \subseteq Pegouts
  /\ Limit \in Nat \ {0}
  /\ {MaxLosses, MaxEvictions, MaxRestarts} \subseteq Nat
  /\ None \notin Pegouts \cup Nat
  /\ None \notin {"SIGNING", "SIGNED", "CONFIRMED", "lookup", "send"}

VARIABLES
  sigs,      \* sigs[p]: signatures in the contract of p by index, None if not active
  chain,     \* chain[p]: "unknown", "mempool" or "block", as the node sees it
  known,     \* history: transactions the node has ever accepted
  old,       \* pegouts whose event is older than twoWeeks
  refused,   \* pegouts with an unspendable output above the node's maximum
  status,    \* status[p]: Pegout.status, None before the event is indexed
  raw,       \* raw[p]: Pegout.bitcoin_tx_raw, None when empty
  hash,      \* hash[p]: Pegout.bitcoin_block_hash: "" or "block"
  toSign,    \* rows of the signing cycle still to be handled
  block,     \* the state of the contracts that cycle reads
  toSend,    \* toSend[p]: what the signed cycle does with p next, or None
  excluded,  \* excludedSignedPegoutIDs
  losses,
  evictions,
  restarts

world == <<sigs, chain, known, old, refused>>
table == <<status, raw, hash>>
cycles == <<toSign, block, toSend, excluded>>
bounds == <<losses, evictions, restarts>>
vars == <<world, table, cycles, bounds>>

-----------------------------------------------------------------------------
(* Contracts and Bitcoin.                                                   *)

Count(p) == Cardinality(Inputs[p])
Indices(p) == 0 .. Count(p) - 1

\* The input the oracles sign under an index: BuildTaprootSigningHashes puts an
\* input behind all the smaller ones.
SignedInput(p, i) == CHOOSE t \in Inputs[p] : Cardinality({u \in Inputs[p] : u < t}) = i

Init ==
  /\ sigs = [p \in Pegouts |-> None]
  /\ chain = [p \in Pegouts |-> "unknown"]
  /\ known = {}
  /\ old = {}
  /\ refused \in SUBSET Refusable
  /\ status = [p \in Pegouts |-> None]
  /\ raw = [p \in Pegouts |-> None]
  /\ hash = [p \in Pegouts |-> ""]
  /\ toSign = {}
  /\ block = sigs
  /\ toSend = [p \in Pegouts |-> None]
  /\ excluded = {}
  /\ losses = 0
  /\ evictions = 0
  /\ restarts = 0

EventWritten(p) ==
  /\ status[p] = None
  /\ status' = [status EXCEPT ![p] = "SIGNING"]
  /\ UNCHANGED <<world, raw, hash, cycles, bounds>>

Deploy(p) ==
  /\ sigs[p] = None
  /\ sigs' = [sigs EXCEPT ![p] = <<>>]
  /\ UNCHANGED <<chain, known, old, refused, table, cycles, bounds>>

Sign(p) ==
  /\ sigs[p] # None
  /\ \E i \in Indices(p) \ DOMAIN sigs[p] :
       sigs' = [sigs EXCEPT ![p] = [j \in DOMAIN @ \cup {i} |->
                                     IF j = i THEN SignedInput(p, i) ELSE @[j]]]
  /\ UNCHANGED <<chain, known, old, refused, table, cycles, bounds>>

GrowOld(p) ==
  /\ status[p] # None
  /\ old' = old \cup {p}
  /\ UNCHANGED <<sigs, chain, known, refused, table, cycles, bounds>>

ParentIn(p, S) == Depends[p] # None => chain[Depends[p]] \in S

Mine(p) ==
  /\ chain[p] = "mempool"
  /\ ParentIn(p, {"block"})
  /\ chain' = [chain EXCEPT ![p] = "block"]
  /\ UNCHANGED <<sigs, known, old, refused, table, cycles, bounds>>

\* A dropped transaction takes those that spend it along.
Evict(p) ==
  /\ chain[p] = "mempool"
  /\ evictions < MaxEvictions
  /\ evictions' = evictions + 1
  /\ chain' = [q \in Pegouts |-> IF q = p \/ (Depends[q] = p /\ chain[q] = "mempool")
                                 THEN "unknown" ELSE chain[q]]
  /\ UNCHANGED <<sigs, known, old, refused, table, cycles, losses, restarts>>

-----------------------------------------------------------------------------
(* The loop over pegouts that are being signed.                             *)

Rows(s) == {p \in Pegouts : status[p] = s}

\* There is no order in the query: at the limit, any Limit rows.
Batches(S) == IF Cardinality(S) <= Limit THEN {S} ELSE kSubset(Limit, S)

QuerySigning ==
  /\ toSign = {}
  /\ Rows("SIGNING") # {}
  /\ toSign' \in Batches(Rows("SIGNING"))
  /\ block' = sigs
  /\ UNCHANGED <<world, table, toSend, excluded, bounds>>

\* Mutant: the ids are compared as they are displayed, last byte first.
DisplayedInputs(p) ==
  LET displayed(t) == (t % 10) * 10 + t \div 10
  IN SetToSortSeq(Inputs[p], LAMBDA t, u : displayed(t) < displayed(u))

\* The order in which buildPegoutTx counts the inputs.
SortedInputs(p) ==
  CHOOSE f \in [1 .. Count(p) -> Inputs[p]] :
    \A i, j \in 1 .. Count(p) : i < j => f[i] < f[j]

\* Mutant: signatures are counted from one.
BuildFromOne(p, s) ==
  IF ~(1 .. Count(p) \subseteq DOMAIN s) THEN None
  ELSE [i \in 1 .. Count(p) |-> <<SortedInputs(p)[i], s[i]>>]

\* The signature of the i-th input is the one stored under the index i - 1;
\* without it no transaction is built.
Build(p, s) ==
  IF ~(Indices(p) \subseteq DOMAIN s) THEN None
  ELSE [i \in 1 .. Count(p) |-> <<SortedInputs(p)[i], s[i - 1]>>]

ASSUME NoneAssumption ==
  \A p \in Pegouts :
    /\ \A s \in SUBSET Indices(p) : None \notin [s -> Inputs[p]]
    /\ None \notin [1 .. Count(p) -> Inputs[p] \X Inputs[p]]

HandleSigning(p) ==
  /\ p \in toSign
  /\ toSign' = toSign \ {p}
  /\ LET tx == IF block[p] = None THEN None ELSE Build(p, block[p])
     IN IF tx = None THEN UNCHANGED <<status, raw>>
        ELSE /\ status' = [status EXCEPT ![p] = "SIGNED"]
             /\ raw' = [raw EXCEPT ![p] = tx]
  /\ UNCHANGED <<world, hash, block, toSend, excluded, bounds>>

\* A call to the contract or the update fails.
HandleSigningFails(p) ==
  /\ p \in toSign
  /\ losses < MaxLosses
  /\ losses' = losses + 1
  /\ toSign' = toSign \ {p}
  /\ UNCHANGED <<world, table, block, toSend, excluded, evictions, restarts>>

-----------------------------------------------------------------------------
(* The loop over signed pegouts.                                            *)

\* Mutant: every pegout with a transaction is looked up again.
AnyWithTransaction == {p \in Pegouts : raw[p] # None} \ excluded

Pending == Rows("SIGNED") \ excluded

QuerySigned ==
  /\ \A p \in Pegouts : toSend[p] = None
  /\ Pending # {}
  /\ \E batch \in Batches(Pending) :
       toSend' = [p \in Pegouts |-> IF p \in batch THEN "lookup" ELSE None]
  /\ UNCHANGED <<world, table, toSign, block, excluded, bounds>>

\* Mutant: any answer will do.
FoundAlways(p) == chain[p] \in {"unknown", "mempool", "block"}

\* GetRawTransactionVerbose answers for the mempool as well.
Found(p) == chain[p] # "unknown"

Lookup(p) ==
  /\ toSend[p] = "lookup"
  /\ IF Found(p)
     THEN /\ status' = [status EXCEPT ![p] = "CONFIRMED"]
          /\ hash' = [hash EXCEPT ![p] = IF chain[p] = "block" THEN "block" ELSE ""]
          /\ toSend' = [toSend EXCEPT ![p] = None]
     ELSE /\ toSend' = [toSend EXCEPT ![p] = "send"]
          /\ UNCHANGED <<status, hash>>
  /\ UNCHANGED <<world, raw, toSign, block, excluded, bounds>>

\* No answer counts as "not known".
LookupFails(p) ==
  /\ toSend[p] = "lookup"
  /\ losses < MaxLosses
  /\ losses' = losses + 1
  /\ toSend' = [toSend EXCEPT ![p] = "send"]
  /\ UNCHANGED <<world, table, toSign, block, excluded, evictions, restarts>>

UpdateFails(p) ==
  /\ toSend[p] = "lookup"
  /\ Found(p)
  /\ losses < MaxLosses
  /\ losses' = losses + 1
  /\ toSend' = [toSend EXCEPT ![p] = None]
  /\ UNCHANGED <<world, table, toSign, block, excluded, evictions, restarts>>

Accept(p) ==
  /\ chain[p] = "unknown"
  /\ ParentIn(p, {"mempool", "block"})
  /\ p \notin refused
  /\ chain' = [chain EXCEPT ![p] = "mempool"]
  /\ known' = known \cup {p}

SendAccepted(p) ==
  /\ toSend[p] = "send"
  /\ Accept(p)
  /\ toSend' = [toSend EXCEPT ![p] = None]
  /\ UNCHANGED <<sigs, old, refused, table, toSign, block, excluded, bounds>>

\* The node knows the transaction and says so.
SendKnown(p) ==
  /\ toSend[p] = "send"
  /\ chain[p] # "unknown"
  /\ toSend' = [toSend EXCEPT ![p] = None]
  /\ UNCHANGED <<world, table, toSign, block, excluded, bounds>>

\* The node misses an input: it does not know it yet, or the transaction is in a
\* block and what it paid is spent.
InputsMissing(p) == ~ParentIn(p, {"mempool", "block"}) \/ chain[p] = "block"

\* Either that, or an output burns more than the node allows.
SendRefused(p) ==
  /\ toSend[p] = "send"
  /\ InputsMissing(p) \/ p \in refused
  /\ excluded' = IF p \in old THEN excluded \cup {p} ELSE excluded
  /\ toSend' = [toSend EXCEPT ![p] = None]
  /\ UNCHANGED <<world, table, toSign, block, bounds>>

\* The request is lost, or the answer to one that was accepted.
SendFails(p) ==
  /\ toSend[p] = "send"
  /\ losses < MaxLosses
  /\ losses' = losses + 1
  /\ toSend' = [toSend EXCEPT ![p] = None]
  /\ \/ UNCHANGED <<chain, known>>
     \/ Accept(p)
  /\ UNCHANGED <<sigs, old, refused, table, toSign, block, excluded, evictions, restarts>>

Restart ==
  /\ restarts < MaxRestarts
  /\ restarts' = restarts + 1
  /\ toSign' = {}
  /\ toSend' = [p \in Pegouts |-> None]
  /\ excluded' = {}
  /\ UNCHANGED <<world, table, block, losses, evictions>>

-----------------------------------------------------------------------------
Outside(p) == EventWritten(p) \/ Deploy(p) \/ Sign(p) \/ GrowOld(p) \/ Mine(p) \/ Evict(p)

Signing(p) == HandleSigning(p) \/ HandleSigningFails(p)

Sending(p) ==
  \/ Lookup(p)
  \/ LookupFails(p)
  \/ UpdateFails(p)
  \/ SendAccepted(p)
  \/ SendKnown(p)
  \/ SendRefused(p)
  \/ SendFails(p)

Next ==
  \/ \E p \in Pegouts : Outside(p) \/ Signing(p) \/ Sending(p)
  \/ QuerySigning
  \/ QuerySigned
  \/ Restart

\* Both loops go on, and so does every goroutine of a batch.
Fairness ==
  /\ WF_vars(QuerySigning)
  /\ WF_vars(QuerySigned)
  /\ \A p \in Pegouts : WF_vars(Signing(p)) /\ WF_vars(Sending(p))

Spec == Init /\ [][Next]_vars
FairSpec == Spec /\ Fairness

-----------------------------------------------------------------------------
(* Properties.                                                              *)

TypeOK ==
  /\ \A p \in Pegouts :
       sigs[p] = None \/ (DOMAIN sigs[p] \subseteq Indices(p) /\ sigs[p] \in [DOMAIN sigs[p] -> Inputs[p]])
  /\ chain \in [Pegouts -> {"unknown", "mempool", "block"}]
  /\ known \subseteq Pegouts
  /\ old \subseteq Pegouts
  /\ refused \subseteq Pegouts
  /\ status \in [Pegouts -> {None, "SIGNING", "SIGNED", "CONFIRMED"}]
  /\ \A p \in Pegouts : raw[p] = None \/ DOMAIN raw[p] = 1 .. Count(p)
  /\ hash \in [Pegouts -> {"", "block"}]
  /\ toSign \subseteq Rows("SIGNING")
  /\ \A p \in Pegouts : block[p] # None => /\ sigs[p] # None
                                           /\ DOMAIN block[p] \subseteq DOMAIN sigs[p]
                                           /\ block[p] = Restrict(sigs[p], DOMAIN block[p])
  /\ toSend \in [Pegouts -> {None, "lookup", "send"}]
  /\ excluded \subseteq Rows("SIGNED")
  /\ losses \in 0 .. MaxLosses
  /\ evictions \in 0 .. MaxEvictions
  /\ restarts \in 0 .. MaxRestarts

\* The transaction the indexer keeps and sends spends every input of the pegout
\* with that input's own signature: the indices under which the oracles sign,
\* in the order of their sort, are those under which the indexer, after a sort of
\* its own, looks the signatures up.
StoredIsSigned ==
  \A p \in Pegouts : status[p] \in {"SIGNED", "CONFIRMED"} =>
    /\ raw[p] # None
    /\ {raw[p][i] : i \in 1 .. Count(p)} = {<<t, t>> : t \in Inputs[p]}

\* Two loops that write rows by id never take a pegout back, and never replace a
\* transaction that may be on its way.
Rank(s) == CASE s = None -> 0 [] s = "SIGNING" -> 1 [] s = "SIGNED" -> 2 [] s = "CONFIRMED" -> 3
StatusAdvances ==
  [][\A p \in Pegouts :
       /\ Rank(status'[p]) >= Rank(status[p])
       /\ raw[p] # None => raw'[p] = raw[p]
       /\ status[p] = "CONFIRMED" => hash'[p] = hash[p]]_vars

\* A pegout is confirmed only when the Bitcoin node has accepted its transaction,
\* and what it accepted was complete.
ConfirmedWasAccepted ==
  \A p \in Pegouts : /\ status[p] = "CONFIRMED" => p \in known
                     /\ p \in known => raw[p] # None

\* The block of a pegout and its confirmation are one update: no row that is
\* still to be confirmed has a block, which is what other services rely on.
SignedHasNoBlock == \A p \in Pegouts : hash[p] # "" => status[p] = "CONFIRMED"

\* As long as no lookup goes unanswered, only pegouts the node does not know are
\* given up.
ExcludedIsUnknown == losses = 0 => \A p \in excluded : chain[p] = "unknown"

\* What every state of the rows and the node satisfies on its own.
PegoutsInv ==
  /\ TypeOK
  /\ ConfirmedWasAccepted
  /\ SignedHasNoBlock
  /\ ExcludedIsUnknown

\* Every pegout that is signed is confirmed in the end, in whatever order a chain
\* of pegouts is sent and whatever answers are lost, if no transaction is evicted
\* or refused and none of the pegouts is unsigned or given up.
Signed(p) == sigs[p] # None /\ DOMAIN sigs[p] = Indices(p)
PegoutsAreConfirmed ==
  \A p \in Pegouts :
    (status[p] # None /\ Signed(p))
      ~> (status[p] = "CONFIRMED"
          \/ evictions > 0
          \/ \E q \in Pegouts : ~Signed(q) \/ status[q] = None \/ q \in excluded \cup refused)
=============================================================================
