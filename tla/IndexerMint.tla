---------------------------- MODULE IndexerMint ----------------------------
(***************************************************************************)
(* The indexer's mint rows (indexer/internal/mintservice): the goroutine    *)
(* of the pending cycle with its batch sender, the goroutine of the refund  *)
(* cycle, the event writer's writeMint, the CreatePegin mutation and the    *)
(* table of internal keys.  All of them write the same row without looking  *)
(* at the status they replace.  Bitcoin, the teleport contract and the      *)
(* replay of events after a restart are the environment.                    *)
(*                                                                          *)
(* Internal keys are numbered in the order of their CompletedAt; 0 is no    *)
(* key.  A deposit message carries nothing but its deposit.                 *)
(***************************************************************************)
EXTENDS Integers, Sequences, FiniteSets

CONSTANTS Deposits,     \* Bitcoin transactions that pay to a pegin address
          Small,        \* those below the contract's minimum amount
          QueueSize,    \* capacity of BatchSender.messagesForSending
          BatchSize,    \* messages that use up maxBatchSize
          Capacities,   \* values of GetMessageCapacity
          Reclaim,      \* whether depositors may take a deposit back
          MaxKeys,      \* bound: number of internal keys
          MaxEvictions, \* bound: deposits that leave the mempool unconfirmed
          MaxLosses,    \* bound: events and deposit messages lost
          MaxRestarts,  \* bound: restarts of the indexer
          None          \* no row, nothing under way

ASSUME MintAssumption ==
  /\ IsFiniteSet(Deposits)
  /\ Small \subseteq Deposits
  /\ QueueSize \in Nat \ {0}
  /\ BatchSize \in Nat \ {0}
  /\ Capacities \subseteq Int
  /\ Reclaim \in BOOLEAN
  /\ MaxKeys \in Nat \ {0}
  /\ MaxEvictions \in Nat
  /\ MaxLosses \in Nat
  /\ MaxRestarts \in Nat
  /\ None \notin {"PENDING", "SUCCESS", "REFUND", "REFUNDED"}
  /\ None \notin {"update", "create"}

VARIABLES
  epoch,      \* the teleport contract's current internal key
  paid,       \* paid[d]: the key d was paid to, 0 while it is not seen
  confirmed,  \* deposits in a block at or below the light client's last one
  spent,      \* deposits whose output is spent, also in the mempool
  away,       \* unconfirmed deposits the Bitcoin node does not know at present
  evicted,    \* deposits that have ever been away
  active,     \* deposits whose pegin contract is active: they are minted
  msgs,       \* deposit messages under way to the teleport contract
  losses,     \* losses so far
  restarts,   \* restarts so far
  feed,       \* mint events the dispatcher has yet to handle in this run
  keyFeed,    \* DKG completed events it has yet to handle in this run
  mint,       \* mint[d]: the status of d's row, or None
  peginKey,   \* peginKey[d]: Pegin.InternalKey of d's row, 0 if empty
  keys,       \* the rows of InternalKey
  writer,     \* writer[d]: the way writeMint takes after its query, or None
  creating,   \* deposits whose CreatePegin found no row and is not committed
  cycle,      \* where the pending cycle is
  todo,       \* rows it has read and not handled
  seen,       \* the contracts active at its block
  ripe,       \* the deposits its last confirmed height covers
  latest,     \* its latestInternalKey
  queue,      \* BatchSender.messagesForSending
  toRefund,   \* rows the refund cycle has read and not looked up
  gone        \* rows it found without an unspent output and has not written

mempool == <<away, evicted>>
chain == <<epoch, paid, confirmed, spent, mempool, active, msgs>>
bounds == <<losses, restarts>>
events == <<feed, keyFeed, writer>>
rows == <<mint, peginKey, keys, creating>>
pending == <<cycle, todo, seen, ripe, latest, queue>>
refund == <<toRefund, gone>>
vars == <<chain, bounds, events, rows, pending, refund>>

-----------------------------------------------------------------------------
Status == {"PENDING", "SUCCESS", "REFUND", "REFUNDED"}
Keys == 1 .. MaxKeys

\* Mutant: ordered the other way round.
OldestKey == IF keys = {} THEN 0 ELSE CHOOSE k \in keys : \A j \in keys : j >= k

\* The first row by descending completed_at, or nil.
LatestKey == IF keys = {} THEN 0 ELSE CHOOSE k \in keys : \A j \in keys : j <= k

Rows(s) == {d \in Deposits : mint[d] = s}

Init ==
  /\ epoch = 1
  /\ paid = [d \in Deposits |-> 0]
  /\ confirmed = {}
  /\ spent = {}
  /\ away = {}
  /\ evicted = {}
  /\ active = {}
  /\ msgs = {}
  /\ losses = 0
  /\ restarts = 0
  /\ feed = {}
  /\ keyFeed = {1}
  /\ mint = [d \in Deposits |-> None]
  /\ peginKey = [d \in Deposits |-> 0]
  /\ keys = {}
  /\ writer = [d \in Deposits |-> None]
  /\ creating = {}
  /\ cycle = "idle"
  /\ todo = {}
  /\ seen = {}
  /\ ripe = {}
  /\ latest = 0
  /\ queue = <<>>
  /\ toRefund = {}
  /\ gone = {}

-----------------------------------------------------------------------------
(* Bitcoin and the teleport contract.                                       *)

\* A depositor may have asked for the address before the key was replaced.
Pay(d, k) ==
  /\ paid[d] = 0
  /\ k \in 1 .. epoch
  /\ paid' = [paid EXCEPT ![d] = k]
  /\ UNCHANGED <<epoch, confirmed, spent, mempool, active, msgs, bounds, events, rows, pending, refund>>

Confirm(d) ==
  /\ paid[d] # 0
  /\ d \notin confirmed \cup away
  /\ confirmed' = confirmed \cup {d}
  /\ UNCHANGED <<epoch, paid, spent, mempool, active, msgs, bounds, events, rows, pending, refund>>

\* A conflicting transaction takes its place, or its fee is too low.
Evict(d) ==
  /\ paid[d] # 0
  /\ d \notin confirmed \cup evicted
  /\ Cardinality(evicted) < MaxEvictions
  /\ away' = away \cup {d}
  /\ evicted' = evicted \cup {d}
  /\ UNCHANGED <<epoch, paid, confirmed, spent, active, msgs, bounds, events, rows, pending, refund>>

Rebroadcast(d) ==
  /\ d \in away
  /\ away' = away \ {d}
  /\ UNCHANGED <<epoch, paid, confirmed, spent, evicted, active, msgs, bounds, events, rows, pending, refund>>

\* By the contract's signers when it is minted, else by the depositor's
\* recovery key.
Spend(d) ==
  /\ d \in confirmed \ spent
  /\ d \in active \/ Reclaim
  /\ spent' = spent \cup {d}
  /\ UNCHANGED <<epoch, paid, confirmed, mempool, active, msgs, bounds, events, rows, pending, refund>>

Acceptable(d) ==
  /\ d \in confirmed
  /\ d \notin spent \cup active \cup Small
  /\ paid[d] = epoch

AcceptDeposit(d) ==
  /\ d \in msgs
  /\ Acceptable(d)
  /\ msgs' = msgs \ {d}
  /\ active' = active \cup {d}
  /\ feed' = feed \cup {d}
  /\ UNCHANGED <<epoch, paid, confirmed, spent, mempool, bounds, keyFeed, writer, rows, pending, refund>>

RefuseDeposit(d) ==
  /\ d \in msgs
  /\ ~Acceptable(d)
  /\ msgs' = msgs \ {d}
  /\ UNCHANGED <<epoch, paid, confirmed, spent, mempool, active, bounds, events, rows, pending, refund>>

LoseDeposit(d) ==
  /\ d \in msgs
  /\ losses < MaxLosses
  /\ losses' = losses + 1
  /\ msgs' = msgs \ {d}
  /\ UNCHANGED <<epoch, paid, confirmed, spent, mempool, active, restarts, events, rows, pending, refund>>

\* A message of somebody else: depositors may send their proof themselves.
DepositByOthers(d) ==
  /\ Acceptable(d)
  /\ d \notin msgs
  /\ msgs' = msgs \cup {d}
  /\ UNCHANGED <<epoch, paid, confirmed, spent, mempool, active, bounds, events, rows, pending, refund>>

\* A DKG completes: the contract takes the new key.
Rotate ==
  /\ epoch < MaxKeys
  /\ epoch' = epoch + 1
  /\ keyFeed' = keyFeed \cup {epoch + 1}
  /\ UNCHANGED <<paid, confirmed, spent, mempool, active, msgs, bounds, feed, writer, rows, pending, refund>>

-----------------------------------------------------------------------------
(* The event writer.  An event that fails is gone until the next start of   *)
(* the indexer, which reads all of the contracts' transactions again.       *)

\* The query of writeMint: its error is dropped and means no row.
QueryExistingPegin(d) ==
  /\ d \in feed
  /\ writer[d] = None
  /\ feed' = feed \ {d}
  /\ writer' = [writer EXCEPT ![d] = IF mint[d] # None THEN "update" ELSE "create"]
  /\ UNCHANGED <<chain, bounds, keyFeed, rows, pending, refund>>

UpdateMint(d) ==
  /\ writer[d] = "update"
  /\ mint' = [mint EXCEPT ![d] = "SUCCESS"]
  /\ writer' = [writer EXCEPT ![d] = None]
  /\ UNCHANGED <<chain, bounds, feed, keyFeed, peginKey, keys, creating, pending, refund>>

\* bitcoin_tx_id is unique: with a row of CreatePegin in the way the
\* transaction is rolled back and the event is lost.
CreateMint(d) ==
  /\ writer[d] = "create"
  /\ mint' = IF mint[d] = None THEN [mint EXCEPT ![d] = "SUCCESS"] ELSE mint
  /\ writer' = [writer EXCEPT ![d] = None]
  /\ UNCHANGED <<chain, bounds, feed, keyFeed, peginKey, keys, creating, pending, refund>>

WriteFails(d) ==
  /\ writer[d] # None
  /\ losses < MaxLosses
  /\ losses' = losses + 1
  /\ writer' = [writer EXCEPT ![d] = None]
  /\ UNCHANGED <<chain, restarts, feed, keyFeed, rows, pending, refund>>

WriteInternalKey(k) ==
  /\ k \in keyFeed
  /\ keyFeed' = keyFeed \ {k}
  /\ keys' = keys \cup {k}
  /\ UNCHANGED <<chain, bounds, feed, writer, mint, peginKey, creating, pending, refund>>

-----------------------------------------------------------------------------
(* CreatePegin: the request's database transaction.                         *)

PeginIsNew(d) ==
  /\ paid[d] # 0
  /\ d \notin away
  /\ mint[d] = None
  /\ d \notin creating
  /\ creating' = creating \cup {d}
  /\ UNCHANGED <<chain, bounds, events, mint, peginKey, keys, pending, refund>>

\* One of the transaction's outputs pays to a script with an internal key of
\* the table; the recovery keys to try are given or read from the receiver's
\* contract and fit.
OutputIsFound(d) == paid[d] \in keys

\* Mutant: bitcoin_tx_id is not unique, the row of the event is hidden.
CreatePeginAgain(d) ==
  /\ d \in creating
  /\ creating' = creating \ {d}
  /\ OutputIsFound(d)
  /\ mint' = [mint EXCEPT ![d] = IF d \in Small \/ paid[d] # LatestKey
                                  THEN "REFUND" ELSE "PENDING"]
  /\ peginKey' = [peginKey EXCEPT ![d] = paid[d]]
  /\ UNCHANGED <<chain, bounds, events, keys, pending, refund>>

CreatePegin(d) ==
  /\ d \in creating
  /\ creating' = creating \ {d}
  /\ IF OutputIsFound(d) /\ mint[d] = None
     THEN /\ mint' = [mint EXCEPT ![d] = IF d \in Small \/ paid[d] # LatestKey
                                         THEN "REFUND" ELSE "PENDING"]
          /\ peginKey' = [peginKey EXCEPT ![d] = paid[d]]
     ELSE UNCHANGED <<mint, peginKey>>
  /\ UNCHANGED <<chain, bounds, events, keys, pending, refund>>

-----------------------------------------------------------------------------
(* The pending cycle.                                                       *)

\* What a cycle read goes out of scope when it ends.
EndCycle ==
  /\ cycle' = "idle"
  /\ todo' = {}
  /\ seen' = {}
  /\ ripe' = {}
  /\ latest' = 0

QueryPendingMints ==
  /\ cycle = "idle"
  /\ Rows("PENDING") # {}
  /\ todo' = Rows("PENDING")
  /\ cycle' = "block"
  /\ UNCHANGED <<chain, bounds, events, rows, seen, ripe, latest, queue, refund>>

ReadBlock ==
  /\ cycle = "block"
  /\ seen' = active
  /\ cycle' = "keys"
  /\ UNCHANGED <<chain, bounds, events, rows, todo, ripe, latest, queue, refund>>

\* The height of the last confirmed block and the latest key.
ReadHeightAndKey ==
  /\ cycle = "keys"
  /\ ripe' = confirmed
  /\ latest' = LatestKey
  /\ cycle' = "handle"
  /\ UNCHANGED <<chain, bounds, events, rows, todo, seen, queue, refund>>

\* One of the calls before the rows are handled returns an error.
CycleFails ==
  /\ cycle \in {"block", "keys"}
  /\ losses < MaxLosses
  /\ losses' = losses + 1
  /\ EndCycle
  /\ UNCHANGED <<chain, restarts, events, rows, queue, refund>>

\* The state of d's pegin contract at the cycle's block.
PeginIsActive(d) == d \in seen

\* Mutant: the confirmations are taken for the mint.
NewStatusByHeight(d) ==
  IF d \in ripe THEN "SUCCESS"
  ELSE IF latest = 0 \/ peginKey[d] \notin keys \/ peginKey[d] # latest THEN "REFUND"
  ELSE "PENDING"

\* handlePendingMint's answer for a row, "PENDING" if the row stays as it is.
NewStatus(d) ==
  IF PeginIsActive(d) THEN "SUCCESS"
  ELSE IF latest = 0 \/ peginKey[d] \notin keys \/ peginKey[d] # latest THEN "REFUND"
  ELSE "PENDING"

SettlePendingMint(d) ==
  /\ cycle = "handle"
  /\ d \in todo
  /\ NewStatus(d) # "PENDING"
  /\ todo' = todo \ {d}
  /\ mint' = [mint EXCEPT ![d] = NewStatus(d)]
  /\ UNCHANGED <<chain, bounds, events, peginKey, keys, creating, cycle, seen, ripe, latest, queue, refund>>

\* handleUnconfirmedMint; a full queue drops the message.
Enqueued(d) == IF Len(queue) < QueueSize THEN Append(queue, d) ELSE queue

\* The transaction is mined, and at most as high as the light client's block.
ConfirmationsAchieved(d) == d \in ripe

HandleUnconfirmedMint(d) ==
  /\ cycle = "handle"
  /\ d \in todo
  /\ NewStatus(d) = "PENDING"
  /\ todo' = todo \ {d}
  /\ queue' = IF ConfirmationsAchieved(d) THEN Enqueued(d) ELSE queue
  /\ UNCHANGED <<chain, bounds, events, rows, cycle, seen, ripe, latest, refund>>

\* A call to TON, Bitcoin or the database fails: the row waits for the next cycle.
HandlingFails(d) ==
  /\ cycle = "handle"
  /\ d \in todo
  /\ losses < MaxLosses
  /\ losses' = losses + 1
  /\ todo' = todo \ {d}
  /\ UNCHANGED <<chain, restarts, events, rows, cycle, seen, ripe, latest, queue, refund>>

\* Mutant: one message more is kept back.
TakenOneLess(k, capacity) == k + 1 < capacity /\ k % BatchSize # 0

\* Send counts every message against the capacity, and takes out of the
\* channel but does not send the one at which the capacity or the size is used
\* up.  The count is not reset, so that later ones are not sent either.
Taken(k, capacity) == k < capacity /\ k % BatchSize # 0

Sent(capacity) == {queue[k] : k \in {j \in 1 .. Len(queue) : Taken(j, capacity)}}

Send(capacity) ==
  /\ cycle = "handle"
  /\ todo = {}
  /\ msgs' = msgs \cup Sent(capacity)
  /\ queue' = <<>>
  /\ IF Sent(capacity) = {} THEN EndCycle
     ELSE cycle' = "wait" /\ UNCHANGED <<todo, seen, ripe, latest>>
  /\ UNCHANGED <<epoch, paid, confirmed, spent, mempool, active, bounds, events, rows, refund>>

\* GetMessageCapacity fails: the messages stay in the channel.
SendFails ==
  /\ cycle = "handle"
  /\ todo = {}
  /\ losses < MaxLosses
  /\ losses' = losses + 1
  /\ EndCycle
  /\ UNCHANGED <<chain, restarts, events, rows, queue, refund>>

\* waitForDeposit asks ten times for the pegin contract of MintInfo.TxHash.
\* That is the hash of the transaction's block, whose contract does not exist:
\* the wait ends by running out, and no row is settled in it.
WaitForDeposit ==
  /\ cycle = "wait"
  /\ EndCycle
  /\ UNCHANGED <<chain, bounds, events, rows, queue, refund>>

-----------------------------------------------------------------------------
(* The refund cycle.                                                        *)

QueryRefundMints ==
  /\ toRefund = {}
  /\ gone = {}
  /\ Rows("REFUND") # {}
  /\ toRefund' = Rows("REFUND")
  /\ UNCHANGED <<chain, bounds, events, rows, pending, gone>>

\* GetTxOut, with the mempool: nil for an output that is spent, and for one of
\* a transaction the node does not know.
TxOutIsNil(d) == d \in spent \cup away

LookUpTxOut(d) ==
  /\ d \in toRefund
  /\ toRefund' = toRefund \ {d}
  /\ gone' = IF TxOutIsNil(d) THEN gone \cup {d} ELSE gone
  /\ UNCHANGED <<chain, bounds, events, rows, pending>>

SettleRefundMint(d) ==
  /\ d \in gone
  /\ gone' = gone \ {d}
  /\ mint' = [mint EXCEPT ![d] = "REFUNDED"]
  /\ UNCHANGED <<chain, bounds, events, peginKey, keys, creating, pending, toRefund>>

-----------------------------------------------------------------------------
Restart ==
  /\ restarts < MaxRestarts
  /\ restarts' = restarts + 1
  /\ feed' = active
  /\ keyFeed' = 1 .. epoch
  /\ writer' = [d \in Deposits |-> None]
  /\ creating' = {}
  /\ EndCycle
  /\ queue' = <<>>
  /\ toRefund' = {}
  /\ gone' = {}
  /\ UNCHANGED <<chain, losses, mint, peginKey, keys>>

World(d) ==
  \/ \E k \in Keys : Pay(d, k)
  \/ Confirm(d)
  \/ Evict(d)
  \/ Rebroadcast(d)
  \/ Spend(d)
  \/ AcceptDeposit(d)
  \/ RefuseDeposit(d)
  \/ LoseDeposit(d)
  \/ DepositByOthers(d)

EventWriter(d) ==
  \/ QueryExistingPegin(d)
  \/ UpdateMint(d)
  \/ CreateMint(d)
  \/ WriteFails(d)

Resolver(d) == PeginIsNew(d) \/ CreatePegin(d)

PendingCycle ==
  \/ QueryPendingMints
  \/ ReadBlock
  \/ ReadHeightAndKey
  \/ CycleFails
  \/ \E d \in Deposits : SettlePendingMint(d) \/ HandleUnconfirmedMint(d) \/ HandlingFails(d)
  \/ \E c \in Capacities : Send(c)
  \/ SendFails
  \/ WaitForDeposit

RefundCycle ==
  \/ QueryRefundMints
  \/ \E d \in Deposits : LookUpTxOut(d) \/ SettleRefundMint(d)

Next ==
  \/ \E d \in Deposits : World(d) \/ EventWriter(d) \/ Resolver(d)
  \/ Rotate
  \/ \E k \in Keys : WriteInternalKey(k)
  \/ PendingCycle
  \/ RefundCycle
  \/ Restart

\* The goroutines go on by themselves; blocks are mined and relayed, and the
\* contract answers messages.  Nobody has to pay, to rotate keys, to spend or to
\* bring back a transaction that has left the mempool.
Fairness ==
  /\ \A d \in Deposits :
       /\ WF_vars(Confirm(d))
       /\ WF_vars(AcceptDeposit(d) \/ RefuseDeposit(d))
       /\ WF_vars(QueryExistingPegin(d) \/ UpdateMint(d) \/ CreateMint(d))
       /\ WF_vars(CreatePegin(d))
  /\ \A k \in Keys : WF_vars(WriteInternalKey(k))
  /\ WF_vars(PendingCycle)
  /\ WF_vars(RefundCycle)

Spec == Init /\ [][Next]_vars
FairSpec == Spec /\ Fairness

-----------------------------------------------------------------------------
(* Properties.                                                              *)

TypeOK ==
  /\ epoch \in Keys
  /\ paid \in [Deposits -> 0 .. MaxKeys]
  /\ confirmed \subseteq Deposits
  /\ spent \subseteq Deposits
  /\ away \subseteq Deposits
  /\ evicted \subseteq Deposits /\ Cardinality(evicted) <= MaxEvictions
  /\ active \subseteq Deposits
  /\ msgs \subseteq Deposits
  /\ losses \in 0 .. MaxLosses
  /\ restarts \in 0 .. MaxRestarts
  /\ feed \subseteq Deposits
  /\ keyFeed \subseteq Keys
  /\ mint \in [Deposits -> Status \cup {None}]
  /\ peginKey \in [Deposits -> 0 .. MaxKeys]
  /\ keys \subseteq Keys
  /\ writer \in [Deposits -> {"update", "create", None}]
  /\ creating \subseteq Deposits
  /\ cycle \in {"idle", "block", "keys", "handle", "wait"}
  /\ todo \subseteq Deposits
  /\ seen \subseteq Deposits
  /\ ripe \subseteq Deposits
  /\ latest \in 0 .. MaxKeys
  /\ queue \in Seq(Deposits) /\ Len(queue) <= QueueSize
  /\ toRefund \subseteq Deposits
  /\ gone \subseteq Deposits

\* A row says SUCCESS only of a deposit the contract has minted, whichever of
\* the three writers of that status wrote it, at whatever block it had read.
SuccessIsBacked == \A d \in Deposits : mint[d] = "SUCCESS" => d \in active

\* A row is given up for a refund only when the deposit is too small or when a
\* key that follows its own is on record: rows of internal keys arrive in any
\* order, and a key that is not written yet must not turn its deposits away.
RefundIsJustified ==
  \A d \in Deposits : mint[d] \in {"REFUND", "REFUNDED"} =>
     d \in Small \/ \E k \in keys : k > paid[d]

\* A row says REFUNDED only of a deposit whose output was spent, or which once
\* was not in the mempool.  The client says of the answer that closes the row
\* "it means the UTXO is spent", and a few lines above "spent or not found".
RefundedIsGone == \A d \in Deposits : mint[d] = "REFUNDED" => d \in spent \cup evicted

\* While the key a deposit was paid to is the contract's, no order of the
\* writers takes back its SUCCESS, although updateMintStatus does not look at the
\* status it replaces and a cycle's rows, block and key are old when it writes.
SuccessIsFinal ==
  [][\A d \in Deposits : paid[d] = epoch /\ mint[d] = "SUCCESS" => mint'[d] = "SUCCESS"]_vars

\* What every state of the rows satisfies on its own.
MintInv == TypeOK /\ SuccessIsBacked /\ RefundedIsGone

\* Every confirmed deposit with a pending row is settled in the end, although
\* the queue drops messages when it is full, the sender drops one at every
\* limit, and messages, events and cycles fail; as long as no depositor takes a
\* deposit back, whose row stays pending and takes up room in every batch.  A row
\* that waits for a refund is closed once the output is spent.
RowsAreSettled ==
  \A d \in Deposits :
    /\ (mint[d] = "PENDING" /\ d \in confirmed)
         ~> (mint[d] # "PENDING" \/ ~(spent \subseteq active))
    /\ (mint[d] = "REFUND" /\ d \in spent) ~> (mint[d] # "REFUND")
=============================================================================
