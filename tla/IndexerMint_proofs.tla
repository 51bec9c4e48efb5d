------------------------- MODULE IndexerMint_proofs -------------------------
(***************************************************************************)
(* Proofs about IndexerMint for every set of deposits, every queue, batch   *)
(* and capacity, and every bound.                                           *)
(***************************************************************************)
EXTENDS IndexerMint, FiniteSetTheorems, WellFoundedInduction, TLAPS

USE DEF mempool

\* The row by descending completed_at is the greatest key: among the distances
\* of the keys to the bound there is a least one.
LEMMA LatestKeyIsGreatest ==
  ASSUME keys \subseteq Keys, keys # {}
  PROVE  LatestKey \in keys /\ \A j \in keys : j <= LatestKey
<1> DEFINE T == {MaxKeys - k : k \in keys}
<1>1. T \subseteq Nat /\ T # {}
  <2>1. ASSUME NEW k \in keys PROVE MaxKeys - k \in Nat
    BY MintAssumption DEF Keys
  <2> QED BY <2>1
<1>2. PICK x \in T : \A y \in T : <<y, x>> \notin OpToRel(<, Nat)
  <2> HIDE DEF T
  <2> QED BY <1>1, NatLessThanWellFounded, WFMin, Zenon
<1>3. PICK k \in keys : x = MaxKeys - k
  OBVIOUS
<1>4. ASSUME NEW j \in keys PROVE j <= k
  <2>1. MaxKeys - j \in T
    OBVIOUS
  <2>2. ~(MaxKeys - j < x)
    <3> HIDE DEF T
    <3> QED BY <1>1, <1>2, <2>1 DEF OpToRel
  <2> QED BY <1>3, <2>2, MintAssumption DEF Keys
<1> QED BY <1>4 DEF LatestKey

LEMMA LatestKeyType ==
  ASSUME keys \subseteq Keys
  PROVE  LatestKey \in 0 .. MaxKeys
<1>1. CASE keys = {}
  BY <1>1, MintAssumption DEF LatestKey
<1>2. CASE keys # {}
  <2>1. LatestKey \in keys
    BY <1>2, LatestKeyIsGreatest
  <2> QED BY <2>1, MintAssumption DEF Keys
<1> QED BY <1>1, <1>2

-----------------------------------------------------------------------------
(* Type correctness.                                                        *)

LEMMA TypeInit == Init => TypeOK
BY MintAssumption, FS_EmptySet DEF Init, TypeOK, Keys

LEMMA TypeWorld == ASSUME TypeOK, NEW d \in Deposits, World(d) PROVE TypeOK'
<1>1. ASSUME NEW k \in Keys, Pay(d, k) PROVE TypeOK'
  <2>1. paid' \in [Deposits -> 0 .. MaxKeys]
    BY <1>1, MintAssumption DEF Pay, TypeOK, Keys
  <2> QED BY <1>1, <2>1 DEF Pay, TypeOK, bounds, events, rows, pending, refund
<1>2. CASE Confirm(d)
  BY <1>2 DEF Confirm, TypeOK, bounds, events, rows, pending, refund
<1>8. CASE Evict(d)
  <2>1. evicted \in SUBSET Deposits /\ IsFiniteSet(evicted) /\ d \notin evicted
    BY <1>8, MintAssumption, FS_Subset DEF Evict, TypeOK
  <2>2. Cardinality(evicted \cup {d}) = Cardinality(evicted) + 1 /\ Cardinality(evicted) \in Nat
    BY <2>1, FS_AddElement, FS_CardinalityType
  <2>3. Cardinality(evicted') <= MaxEvictions
    BY <1>8, <2>2, MintAssumption DEF Evict
  <2> QED BY <1>8, <2>3 DEF Evict, TypeOK, bounds, events, rows, pending, refund
<1>9. CASE Rebroadcast(d)
  BY <1>9 DEF Rebroadcast, TypeOK, bounds, events, rows, pending, refund
<1>3. CASE Spend(d)
  BY <1>3 DEF Spend, TypeOK, bounds, events, rows, pending, refund
<1>4. CASE AcceptDeposit(d)
  BY <1>4 DEF AcceptDeposit, TypeOK, bounds, events, rows, pending, refund
<1>5. CASE RefuseDeposit(d)
  BY <1>5 DEF RefuseDeposit, TypeOK, bounds, events, rows, pending, refund
<1>6. CASE LoseDeposit(d)
  BY <1>6, MintAssumption DEF LoseDeposit, TypeOK, bounds, events, rows, pending, refund
<1>7. CASE DepositByOthers(d)
  BY <1>7 DEF DepositByOthers, TypeOK, bounds, events, rows, pending, refund
<1> QED BY <1>1, <1>2, <1>3, <1>4, <1>5, <1>6, <1>7, <1>8, <1>9 DEF World

LEMMA TypeEventWriter == ASSUME TypeOK, NEW d \in Deposits, EventWriter(d) PROVE TypeOK'
<1>1. CASE QueryExistingPegin(d)
  BY <1>1 DEF QueryExistingPegin, TypeOK, chain, bounds, rows, pending, refund
<1>2. CASE UpdateMint(d)
  BY <1>2 DEF UpdateMint, Status, TypeOK, chain, bounds, pending, refund
<1>3. CASE CreateMint(d)
  BY <1>3 DEF CreateMint, Status, TypeOK, chain, bounds, pending, refund
<1>4. CASE WriteFails(d)
  BY <1>4, MintAssumption DEF WriteFails, TypeOK, chain, rows, pending, refund
<1> QED BY <1>1, <1>2, <1>3, <1>4 DEF EventWriter

LEMMA TypeResolver == ASSUME TypeOK, NEW d \in Deposits, Resolver(d) PROVE TypeOK'
<1>1. CASE PeginIsNew(d)
  BY <1>1 DEF PeginIsNew, TypeOK, chain, bounds, events, pending, refund
<1>2. CASE CreatePegin(d)
  <2>1. mint' \in [Deposits -> Status \cup {None}]
    BY <1>2 DEF CreatePegin, TypeOK, Status
  <2>2. peginKey' \in [Deposits -> 0 .. MaxKeys]
    BY <1>2 DEF CreatePegin, TypeOK
  <2> QED BY <1>2, <2>1, <2>2 DEF CreatePegin, TypeOK, chain, bounds, events, pending, refund
<1> QED BY <1>1, <1>2 DEF Resolver

LEMMA TypeOthers ==
  ASSUME TypeOK, Rotate \/ \E k \in Keys : WriteInternalKey(k)
  PROVE  TypeOK'
<1>1. CASE Rotate
  BY <1>1, MintAssumption DEF Rotate, TypeOK, Keys, bounds, rows, pending, refund
<1>2. ASSUME NEW k \in Keys, WriteInternalKey(k) PROVE TypeOK'
  BY <1>2 DEF WriteInternalKey, TypeOK, chain, bounds, pending, refund
<1> QED BY <1>1, <1>2

LEMMA TypeEndCycle ==
  ASSUME EndCycle
  PROVE  /\ cycle' = "idle" /\ todo' = {} /\ seen' = {} /\ ripe' = {}
         /\ latest' \in 0 .. MaxKeys
BY MintAssumption DEF EndCycle

LEMMA NewStatusType == ASSUME NEW d \in Deposits PROVE NewStatus(d) \in Status
BY DEF NewStatus, Status

LEMMA TypePendingCycle == ASSUME TypeOK, PendingCycle PROVE TypeOK'
<1> USE MintAssumption DEF chain, bounds, events, rows, refund
<1>1. CASE QueryPendingMints
  BY <1>1 DEF QueryPendingMints, TypeOK, Rows
<1>2. CASE ReadBlock
  BY <1>2 DEF ReadBlock, TypeOK
<1>3. CASE ReadHeightAndKey
  <2>1. latest' \in 0 .. MaxKeys
    BY <1>3, LatestKeyType DEF ReadHeightAndKey, TypeOK
  <2> QED BY <1>3, <2>1 DEF ReadHeightAndKey, TypeOK
<1>4. CASE CycleFails
  BY <1>4, TypeEndCycle DEF CycleFails, TypeOK
<1>5. ASSUME NEW d \in Deposits, SettlePendingMint(d) PROVE TypeOK'
  <2>1. mint' \in [Deposits -> Status \cup {None}]
    BY <1>5, NewStatusType DEF SettlePendingMint, TypeOK
  <2> QED BY <1>5, <2>1 DEF SettlePendingMint, TypeOK
<1>6. ASSUME NEW d \in Deposits, HandleUnconfirmedMint(d) PROVE TypeOK'
  <2>1. queue' \in Seq(Deposits) /\ Len(queue') <= QueueSize
    <3>1. queue \in Seq(Deposits) /\ Len(queue) <= QueueSize
      BY DEF TypeOK
    <3>2. queue' = queue \/ (queue' = Append(queue, d) /\ Len(queue) < QueueSize)
      BY <1>6 DEF HandleUnconfirmedMint, Enqueued
    <3> QED BY <3>1, <3>2
  <2> QED BY <1>6, <2>1 DEF HandleUnconfirmedMint, TypeOK
<1>7. ASSUME NEW d \in Deposits, HandlingFails(d) PROVE TypeOK'
  BY <1>7 DEF HandlingFails, TypeOK
<1>8. ASSUME NEW c \in Capacities, Send(c) PROVE TypeOK'
  <2>1. Sent(c) \subseteq Deposits
    <3>1. queue \in Seq(Deposits)
      BY DEF TypeOK
    <3>2. \A k \in 1 .. Len(queue) : queue[k] \in Deposits
      BY <3>1
    <3> QED BY <3>2 DEF Sent
  <2>2. queue' \in Seq(Deposits) /\ Len(queue') <= QueueSize
    BY <1>8 DEF Send
  <2>3. /\ cycle' \in {"idle", "block", "keys", "handle", "wait"}
        /\ todo' \subseteq Deposits /\ seen' \subseteq Deposits /\ ripe' \subseteq Deposits
        /\ latest' \in 0 .. MaxKeys
    BY <1>8, TypeEndCycle DEF Send, TypeOK
  <2> QED BY <1>8, <2>1, <2>2, <2>3 DEF Send, TypeOK
<1>9. CASE SendFails
  BY <1>9, TypeEndCycle DEF SendFails, TypeOK
<1>10. CASE WaitForDeposit
  BY <1>10, TypeEndCycle DEF WaitForDeposit, TypeOK
<1> QED BY <1>1, <1>2, <1>3, <1>4, <1>5, <1>6, <1>7, <1>8, <1>9, <1>10 DEF PendingCycle

LEMMA TypeRefundCycle == ASSUME TypeOK, RefundCycle PROVE TypeOK'
<1>1. CASE QueryRefundMints
  BY <1>1 DEF QueryRefundMints, TypeOK, Rows, chain, bounds, events, rows, pending
<1>2. ASSUME NEW d \in Deposits, LookUpTxOut(d) PROVE TypeOK'
  BY <1>2 DEF LookUpTxOut, TypeOK, chain, bounds, events, rows, pending
<1>3. ASSUME NEW d \in Deposits, SettleRefundMint(d) PROVE TypeOK'
  BY <1>3 DEF SettleRefundMint, Status, TypeOK, chain, bounds, events, pending
<1> QED BY <1>1, <1>2, <1>3 DEF RefundCycle

LEMMA TypeRestart == ASSUME TypeOK, Restart PROVE TypeOK'
<1>1. 1 .. epoch \subseteq Keys
  BY MintAssumption DEF TypeOK, Keys
<1>2. queue' \in Seq(Deposits) /\ Len(queue') <= QueueSize
  BY MintAssumption DEF Restart
<1> QED BY <1>1, <1>2, TypeEndCycle, MintAssumption DEF Restart, TypeOK, chain

LEMMA TypeStutter == TypeOK /\ UNCHANGED vars => TypeOK'
BY DEF TypeOK, vars, chain, bounds, events, rows, pending, refund

LEMMA TypeNext == TypeOK /\ [Next]_vars => TypeOK'
BY TypeWorld, TypeEventWriter, TypeResolver, TypeOthers, TypePendingCycle,
   TypeRefundCycle, TypeRestart, TypeStutter DEF Next

\* Rows, cycles, queue and the environment keep their types: the latest key is a
\* key or none, and the queue never exceeds its channel.
THEOREM TypeCorrect == Spec => []TypeOK
BY TypeInit, TypeNext, PTL DEF Spec

-----------------------------------------------------------------------------
(* What a row says of the chain.                                            *)

\* Whoever is about to write SUCCESS has it from the contract, and whoever is
\* about to write REFUNDED has not been given the output by the node, however
\* long ago; and the contract mints nothing below the minimum.
BackedInv ==
  /\ feed \subseteq active
  /\ seen \subseteq active
  /\ \A d \in Deposits : writer[d] # None => d \in active
  /\ active \cap Small = {}
  /\ away \subseteq evicted
  /\ gone \subseteq spent \cup evicted
  /\ SuccessIsBacked
  /\ RefundedIsGone

LEMMA BackedInit == Init => BackedInv
BY MintAssumption DEF Init, BackedInv, SuccessIsBacked, RefundedIsGone

LEMMA BackedStep ==
  ASSUME TypeOK, BackedInv, Next
  PROVE  BackedInv'
<1> USE MintAssumption DEF BackedInv, SuccessIsBacked, RefundedIsGone, TypeOK
<1>1. ASSUME NEW d \in Deposits, World(d) PROVE BackedInv'
  <2> USE DEF bounds, events, rows, pending, refund
  <2>1. ASSUME NEW k \in Keys, Pay(d, k) PROVE BackedInv'
    BY <2>1 DEF Pay
  <2>2. CASE Confirm(d)
    BY <2>2 DEF Confirm
  <2>3. CASE Spend(d) \/ Evict(d) \/ Rebroadcast(d)
    BY <2>3 DEF Spend, Evict, Rebroadcast
  <2>4. CASE AcceptDeposit(d)
    BY <2>4 DEF AcceptDeposit, Acceptable
  <2>5. CASE RefuseDeposit(d) \/ LoseDeposit(d) \/ DepositByOthers(d)
    BY <2>5 DEF RefuseDeposit, LoseDeposit, DepositByOthers
  <2> QED BY <1>1, <2>1, <2>2, <2>3, <2>4, <2>5 DEF World
<1>2. ASSUME NEW d \in Deposits, EventWriter(d) PROVE BackedInv'
  <2> USE DEF chain, rows, pending, refund
  <2>1. CASE QueryExistingPegin(d)
    BY <2>1 DEF QueryExistingPegin
  <2>2. CASE UpdateMint(d)
    BY <2>2 DEF UpdateMint
  <2>3. CASE CreateMint(d)
    BY <2>3 DEF CreateMint
  <2>4. CASE WriteFails(d)
    BY <2>4 DEF WriteFails
  <2> QED BY <1>2, <2>1, <2>2, <2>3, <2>4 DEF EventWriter
<1>3. ASSUME NEW d \in Deposits, Resolver(d) PROVE BackedInv'
  <2> USE DEF chain, events, pending, refund
  <2>1. CASE PeginIsNew(d)
    BY <2>1 DEF PeginIsNew
  <2>2. CASE CreatePegin(d)
    BY <2>2 DEF CreatePegin
  <2> QED BY <1>3, <2>1, <2>2 DEF Resolver
<1>4. CASE Rotate \/ \E k \in Keys : WriteInternalKey(k)
  BY <1>4 DEF Rotate, WriteInternalKey, chain, rows, pending, refund
<1>5. CASE PendingCycle
  <2> USE DEF chain, events, rows, refund
  <2>1. CASE QueryPendingMints \/ ReadBlock \/ ReadHeightAndKey
    BY <2>1 DEF QueryPendingMints, ReadBlock, ReadHeightAndKey
  <2>2. CASE CycleFails \/ SendFails \/ WaitForDeposit
    BY <2>2 DEF CycleFails, SendFails, WaitForDeposit, EndCycle
  <2>3. ASSUME NEW d \in Deposits, SettlePendingMint(d) PROVE BackedInv'
    <3>1. NewStatus(d) \in {"SUCCESS", "REFUND", "PENDING"} /\ (NewStatus(d) = "SUCCESS" => d \in seen)
      BY DEF NewStatus, PeginIsActive
    <3> QED BY <2>3, <3>1 DEF SettlePendingMint
  <2>4. ASSUME NEW d \in Deposits, HandleUnconfirmedMint(d) \/ HandlingFails(d) PROVE BackedInv'
    BY <2>4 DEF HandleUnconfirmedMint, HandlingFails
  <2>5. ASSUME NEW c \in Capacities, Send(c) PROVE BackedInv'
    BY <2>5 DEF Send, EndCycle
  <2> QED BY <1>5, <2>1, <2>2, <2>3, <2>4, <2>5 DEF PendingCycle
<1>6. CASE RefundCycle
  <2> USE DEF chain, events, pending, rows
  <2>1. CASE QueryRefundMints
    BY <2>1 DEF QueryRefundMints
  <2>2. ASSUME NEW d \in Deposits, LookUpTxOut(d) \/ SettleRefundMint(d) PROVE BackedInv'
    BY <2>2 DEF LookUpTxOut, TxOutIsNil, SettleRefundMint
  <2> QED BY <1>6, <2>1, <2>2 DEF RefundCycle
<1>7. CASE Restart
  BY <1>7 DEF Restart, EndCycle, chain
<1> QED BY <1>1, <1>2, <1>3, <1>4, <1>5, <1>6, <1>7 DEF Next

LEMMA BackedStutter == BackedInv /\ UNCHANGED vars => BackedInv'
BY DEF BackedInv, SuccessIsBacked, RefundedIsGone, vars, chain, events, rows, pending, refund

LEMMA BackedAlways == Spec => [](TypeOK /\ BackedInv)
<1>1. TypeOK /\ BackedInv /\ [Next]_vars => BackedInv'
  BY BackedStep, BackedStutter
<1> QED BY TypeInit, TypeNext, BackedInit, <1>1, PTL DEF Spec

\* MintInv: types; SUCCESS was minted, and REFUNDED is spent or has once left the
\* mempool, whichever writer wrote it and at whatever block it had read.
THEOREM RowsAreBacked == Spec => []MintInv
<1>1. TypeOK /\ BackedInv => MintInv
  BY DEF BackedInv, MintInv
<1> QED BY BackedAlways, <1>1, PTL

-----------------------------------------------------------------------------
(* Refunds.                                                                 *)

\* A row that CreatePegin has made; a refund that is due.  Neither changes, as
\* nobody pays twice and keys are never deleted.
Adopted(d) == paid[d] \in keys /\ peginKey[d] = paid[d]
Justified(d) == paid[d] # 0 /\ (d \in Small \/ \E k \in keys : k > paid[d])

RefundInv ==
  /\ \A d \in Deposits : mint[d] = "PENDING" \/ d \in todo => Adopted(d)
  /\ cycle = "handle" => \A d \in todo : latest \in keys /\ paid[d] <= latest
  /\ \A d \in Deposits :
       mint[d] \in {"REFUND", "REFUNDED"} \/ d \in toRefund \cup gone => Justified(d)

LEMMA RefundInit == Init => RefundInv
BY MintAssumption DEF Init, RefundInv

\* Most steps write no row, and leave alone what the cycles hold or drop it.
LEMMA RefundQuiet ==
  ASSUME TypeOK, RefundInv, UNCHANGED <<mint, peginKey>>,
         keys \subseteq keys', keys' \subseteq Keys,
         \A d \in Deposits : paid[d] # 0 => paid'[d] = paid[d],
         todo' \subseteq todo, toRefund' \cup gone' \subseteq toRefund \cup gone,
         cycle' = "handle" => todo' = {} \/ (cycle = "handle" /\ latest' = latest)
  PROVE  RefundInv'
<1>0. \A d \in Deposits : Adopted(d) => paid[d] # 0
  BY DEF Adopted, TypeOK, Keys
<1>1. \A d \in Deposits : (Adopted(d) => Adopted(d)') /\ (Justified(d) => Justified(d)')
  BY <1>0 DEF Adopted, Justified
<1>2. (\A d \in Deposits : mint[d] = "PENDING" \/ d \in todo => Adopted(d))'
  BY <1>1 DEF RefundInv
<1>3. (cycle = "handle" => \A d \in todo : latest \in keys /\ paid[d] <= latest)'
  <2> SUFFICES ASSUME cycle' = "handle", NEW d \in todo'
               PROVE  latest' \in keys' /\ paid'[d] <= latest'
    OBVIOUS
  <2>1. cycle = "handle" /\ latest' = latest /\ d \in todo /\ d \in Deposits
    BY DEF TypeOK
  <2>2. Adopted(d) /\ latest \in keys /\ paid[d] <= latest
    BY <2>1 DEF RefundInv
  <2> QED BY <1>0, <2>1, <2>2
<1>4. (\A d \in Deposits :
        mint[d] \in {"REFUND", "REFUNDED"} \/ d \in toRefund \cup gone => Justified(d))'
  BY <1>1 DEF RefundInv
<1> QED BY <1>2, <1>3, <1>4 DEF RefundInv

LEMMA RefundWorld == ASSUME TypeOK, RefundInv, NEW d \in Deposits, World(d) PROVE RefundInv'
<1>1. /\ UNCHANGED <<rows, pending, refund>>
      /\ \A e \in Deposits : paid[e] # 0 => paid'[e] = paid[e]
  <2> USE DEF bounds, events
  <2>1. ASSUME NEW k \in Keys, Pay(d, k) PROVE <1>1
    BY <2>1 DEF Pay, TypeOK
  <2> QED BY <2>1 DEF World, Confirm, Evict, Rebroadcast, Spend, AcceptDeposit, RefuseDeposit, LoseDeposit,
                      DepositByOthers
<1> QED BY <1>1, RefundQuiet DEF TypeOK, rows, pending, refund

LEMMA RefundEventWriter ==
  ASSUME TypeOK, RefundInv, NEW d \in Deposits, EventWriter(d)
  PROVE  RefundInv'
<1> USE DEF chain, rows, pending, refund
<1>1. CASE QueryExistingPegin(d) \/ WriteFails(d)
  BY <1>1, RefundQuiet DEF QueryExistingPegin, WriteFails, TypeOK
<1>2. CASE UpdateMint(d) \/ CreateMint(d)
  <2>1. /\ UNCHANGED <<paid, peginKey, keys, cycle, todo, latest, toRefund, gone>>
        /\ \A e \in Deposits : mint'[e] # mint[e] => mint'[e] = "SUCCESS"
    BY <1>2 DEF UpdateMint, CreateMint, TypeOK
  <2> QED BY <2>1 DEF RefundInv, Adopted, Justified
<1> QED BY <1>1, <1>2 DEF EventWriter

LEMMA RefundResolver ==
  ASSUME TypeOK, RefundInv, NEW d \in Deposits, Resolver(d)
  PROVE  RefundInv'
<1> USE DEF chain, events, pending, refund
<1>1. CASE PeginIsNew(d)
  BY <1>1, RefundQuiet DEF PeginIsNew, TypeOK
<1>2. CASE CreatePegin(d)
  <2>0. UNCHANGED <<paid, keys, cycle, todo, latest, toRefund, gone>>
    BY <1>2 DEF CreatePegin
  <2>1. CASE ~(OutputIsFound(d) /\ mint[d] = None)
    BY <1>2, <2>1, RefundQuiet DEF CreatePegin, TypeOK
  <2>2. CASE OutputIsFound(d) /\ mint[d] = None
    <3>1. /\ mint' = [mint EXCEPT ![d] = IF d \in Small \/ paid[d] # LatestKey
                                         THEN "REFUND" ELSE "PENDING"]
          /\ peginKey' = [peginKey EXCEPT ![d] = paid[d]]
      BY <1>2, <2>2 DEF CreatePegin
    <3>2. paid[d] \in keys /\ keys \subseteq Keys /\ paid[d] # 0
      BY <2>2 DEF OutputIsFound, TypeOK, Keys
    <3>3. LatestKey \in keys /\ paid[d] <= LatestKey
      BY <3>2, LatestKeyIsGreatest
    <3>4. /\ paid[d] \in Nat /\ LatestKey \in Nat
      <4> HIDE DEF LatestKey
      <4>1. paid[d] \in Keys /\ LatestKey \in Keys
        BY <3>2, <3>3
      <4>2. Keys \subseteq Nat
        BY MintAssumption DEF Keys
      <4> QED BY <4>1, <4>2
    <3>5. Adopted(d)' /\ (mint'[d] = "REFUND" => Justified(d)') /\ mint'[d] \in {"REFUND", "PENDING"}
      <4> HIDE DEF LatestKey
      <4>1. peginKey'[d] = paid[d]
        BY <3>1 DEF TypeOK
      <4>2. mint'[d] = IF d \in Small \/ paid[d] # LatestKey THEN "REFUND" ELSE "PENDING"
        BY <3>1 DEF TypeOK
      <4>3. Adopted(d)'
        BY <2>0, <3>2, <4>1 DEF Adopted
      <4>4. paid[d] # LatestKey => LatestKey > paid[d]
        BY <3>3, <3>4
      <4>5. mint'[d] = "REFUND" => Justified(d)'
        BY <2>0, <3>2, <3>3, <4>2, <4>4 DEF Justified
      <4> QED BY <4>2, <4>3, <4>5
    <3>6. \A e \in Deposits \ {d} : /\ mint'[e] = mint[e] /\ (Adopted(e) => Adopted(e)')
                                    /\ (Justified(e) => Justified(e)')
      BY <2>0, <3>1 DEF Adopted, Justified, TypeOK
    <3>7. Justified(d) => Justified(d)'
      BY <2>0 DEF Justified
    <3> QED BY <2>0, <3>5, <3>6, <3>7 DEF RefundInv
  <2> QED BY <2>1, <2>2
<1> QED BY <1>1, <1>2 DEF Resolver

LEMMA RefundPendingCycle == ASSUME TypeOK, RefundInv, PendingCycle PROVE RefundInv'
<1> USE DEF chain, events, rows, refund
<1>1. CASE QueryPendingMints
  BY <1>1 DEF QueryPendingMints, RefundInv, Rows, Adopted, Justified
<1>2. CASE ReadHeightAndKey
  <2>1. ASSUME NEW d \in todo PROVE LatestKey \in keys /\ paid[d] <= LatestKey
    <3>1. paid[d] \in keys /\ keys \subseteq Keys
      BY DEF RefundInv, Adopted, TypeOK
    <3> QED BY <3>1, LatestKeyIsGreatest
  <2>2. UNCHANGED <<paid, mint, peginKey, keys, todo, toRefund, gone>> /\ latest' = LatestKey
    BY <1>2 DEF ReadHeightAndKey
  <2> HIDE DEF LatestKey
  <2> QED BY <2>1, <2>2 DEF RefundInv, Adopted, Justified
<1>3. ASSUME NEW d \in Deposits, SettlePendingMint(d) PROVE RefundInv'
  <2>1. /\ UNCHANGED <<paid, peginKey, keys, cycle, latest, toRefund, gone>>
        /\ cycle = "handle" /\ d \in todo /\ todo' \subseteq todo
        /\ mint' = [mint EXCEPT ![d] = NewStatus(d)] /\ NewStatus(d) # "PENDING"
    BY <1>3 DEF SettlePendingMint
  <2>2. Adopted(d) /\ latest \in keys /\ paid[d] <= latest
    BY <2>1 DEF RefundInv
  <2>3. paid[d] \in Nat \ {0} /\ latest \in Nat \ {0}
    BY <2>2 DEF Adopted, TypeOK, Keys
  <2>4. NewStatus(d) = "SUCCESS" \/ (NewStatus(d) = "REFUND" /\ Justified(d))
    BY <2>1, <2>2, <2>3 DEF NewStatus, Adopted, Justified
  <2>5. \A e \in Deposits : (Adopted(e) <=> Adopted(e)') /\ (Justified(e) <=> Justified(e)')
    BY <2>1 DEF Adopted, Justified
  <2>6. \A e \in Deposits : mint'[e] = IF e = d THEN NewStatus(d) ELSE mint[e]
    BY <2>1 DEF TypeOK
  <2> QED BY <2>1, <2>4, <2>5, <2>6 DEF RefundInv
<1>4. CASE ReadBlock \/ CycleFails \/ SendFails \/ WaitForDeposit
  BY <1>4, RefundQuiet DEF ReadBlock, CycleFails, SendFails, WaitForDeposit, EndCycle, TypeOK
<1>5. ASSUME NEW d \in Deposits, HandleUnconfirmedMint(d) \/ HandlingFails(d) PROVE RefundInv'
  BY <1>5, RefundQuiet DEF HandleUnconfirmedMint, HandlingFails, TypeOK
<1>6. ASSUME NEW c \in Capacities, Send(c) PROVE RefundInv'
  <2>1. /\ UNCHANGED <<paid, mint, peginKey, keys, toRefund, gone>> /\ todo' \subseteq todo
        /\ cycle' # "handle"
    BY <1>6 DEF Send, EndCycle
  <2> QED BY <2>1, RefundQuiet DEF TypeOK
<1> QED BY <1>1, <1>2, <1>3, <1>4, <1>5, <1>6 DEF PendingCycle

LEMMA RefundRefundCycle == ASSUME TypeOK, RefundInv, RefundCycle PROVE RefundInv'
<1> USE DEF chain, events, pending, rows
<1>1. CASE QueryRefundMints
  BY <1>1 DEF QueryRefundMints, RefundInv, Rows, Adopted, Justified
<1>2. ASSUME NEW d \in Deposits, LookUpTxOut(d) PROVE RefundInv'
  BY <1>2, RefundQuiet DEF LookUpTxOut, TypeOK
<1>3. ASSUME NEW d \in Deposits, SettleRefundMint(d) PROVE RefundInv'
  BY <1>3 DEF SettleRefundMint, RefundInv, Adopted, Justified, TypeOK
<1> QED BY <1>1, <1>2, <1>3 DEF RefundCycle

LEMMA RefundNext == TypeOK /\ RefundInv /\ [Next]_vars => RefundInv'
<1> SUFFICES ASSUME TypeOK, RefundInv, [Next]_vars PROVE RefundInv'
  OBVIOUS
<1>1. CASE Rotate
  BY <1>1, RefundQuiet DEF Rotate, rows, pending, refund, TypeOK
<1>2. ASSUME NEW k \in Keys, WriteInternalKey(k) PROVE RefundInv'
  BY <1>2, RefundQuiet DEF WriteInternalKey, chain, pending, refund, TypeOK
<1>3. CASE Restart
  BY <1>3, RefundQuiet DEF Restart, EndCycle, chain, TypeOK
<1>4. CASE UNCHANGED vars
  BY <1>4, RefundQuiet DEF vars, chain, rows, pending, refund, TypeOK
<1> QED BY <1>1, <1>2, <1>3, <1>4, RefundWorld, RefundEventWriter, RefundResolver,
           RefundPendingCycle, RefundRefundCycle DEF Next

LEMMA RefundAlways == Spec => [](TypeOK /\ RefundInv)
BY TypeInit, TypeNext, RefundInit, RefundNext, PTL DEF Spec

\* RefundIsJustified: no order of keys, cycles and requests turns a deposit away
\* that is large enough and paid to the newest key on record.
THEOREM RefundsAreJustified == Spec => []RefundIsJustified
<1>1. TypeOK /\ RefundInv => RefundIsJustified
  BY DEF RefundInv, RefundIsJustified, Justified
<1> QED BY RefundAlways, <1>1, PTL

-----------------------------------------------------------------------------
(* Finality.                                                                *)

\* Only keys the contract has had are known to the indexer.
KeysInv == keys \cup keyFeed \subseteq 1 .. epoch

LEMMA KeysNext == TypeOK /\ KeysInv /\ [Next]_vars => KeysInv'
<1> SUFFICES ASSUME TypeOK, KeysInv, [Next]_vars PROVE KeysInv'
  OBVIOUS
<1>1. CASE Rotate
  BY <1>1 DEF Rotate, KeysInv, TypeOK, Keys, rows
<1>2. ASSUME NEW k \in Keys, WriteInternalKey(k) PROVE KeysInv'
  BY <1>2 DEF WriteInternalKey, KeysInv, chain
<1>3. CASE Restart
  BY <1>3 DEF Restart, KeysInv, chain
<1>4. ASSUME NEW d \in Deposits, World(d) PROVE UNCHANGED <<epoch, keys, keyFeed>>
  BY <1>4 DEF World, Pay, Confirm, Evict, Rebroadcast, Spend, AcceptDeposit, RefuseDeposit, LoseDeposit,
              DepositByOthers, events, rows
<1>5. ASSUME NEW d \in Deposits, EventWriter(d) \/ Resolver(d) PROVE UNCHANGED <<epoch, keys, keyFeed>>
  BY <1>5 DEF EventWriter, QueryExistingPegin, UpdateMint, CreateMint, WriteFails, Resolver,
              PeginIsNew, CreatePegin, chain, events, rows
<1>6. CASE PendingCycle
  <2>1. UNCHANGED <<epoch, keys, keyFeed>>
    BY <1>6 DEF PendingCycle, QueryPendingMints, ReadBlock, ReadHeightAndKey, CycleFails,
                SettlePendingMint, HandleUnconfirmedMint, HandlingFails, Send, SendFails,
                WaitForDeposit, chain, events, rows
  <2> QED BY <2>1 DEF KeysInv
<1>7. CASE RefundCycle
  <2>1. UNCHANGED <<epoch, keys, keyFeed>>
    BY <1>7 DEF RefundCycle, QueryRefundMints, LookUpTxOut, SettleRefundMint, chain, events, rows
  <2> QED BY <2>1 DEF KeysInv
<1>8. CASE UNCHANGED vars
  BY <1>8 DEF vars, chain, events, rows, KeysInv
<1> QED BY <1>1, <1>2, <1>3, <1>4, <1>5, <1>6, <1>7, <1>8 DEF Next, KeysInv

\* No refund is due of a deposit the contract has minted while its key is current.
LEMMA KeyIsCurrent ==
  ASSUME TypeOK, BackedInv, RefundInv, KeysInv,
         NEW d \in Deposits, paid[d] = epoch, mint[d] = "SUCCESS"
  PROVE  ~Justified(d)
<1>1. d \notin Small
  BY DEF BackedInv, SuccessIsBacked
<1>2. ASSUME NEW k \in keys, k > paid[d], paid[d] # 0 PROVE FALSE
  <2>1. k \in 1 .. epoch
    BY DEF KeysInv
  <2>2. epoch \in Nat
    BY DEF TypeOK, Keys
  <2> QED BY <1>2, <2>1, <2>2
<1> QED BY <1>1, <1>2 DEF Justified

LEMMA SuccessStays ==
  ASSUME TypeOK, BackedInv, RefundInv, KeysInv, Next,
         NEW d \in Deposits, paid[d] = epoch, mint[d] = "SUCCESS"
  PROVE  mint'[d] = "SUCCESS"
<1>1. ASSUME NEW e \in Deposits, World(e) PROVE mint'[d] = "SUCCESS"
  BY <1>1 DEF World, Pay, Confirm, Evict, Rebroadcast, Spend, AcceptDeposit, RefuseDeposit, LoseDeposit,
              DepositByOthers, rows
<1>2. ASSUME NEW e \in Deposits, EventWriter(e) \/ Resolver(e) PROVE mint'[d] = "SUCCESS"
  <2>1. None # "SUCCESS"
    BY MintAssumption
  <2> QED BY <1>2, <2>1 DEF EventWriter, QueryExistingPegin, UpdateMint, CreateMint,
        WriteFails, Resolver, PeginIsNew, CreatePegin, rows, TypeOK
<1>3. CASE PendingCycle
  <2>1. ASSUME NEW e \in Deposits, SettlePendingMint(e) PROVE mint'[d] = "SUCCESS"
    <3>1. mint' = [mint EXCEPT ![e] = NewStatus(e)] /\ cycle = "handle" /\ e \in todo
          /\ NewStatus(e) # "PENDING"
      BY <2>1 DEF SettlePendingMint
    <3>2. CASE e = d
      <4>1. Adopted(d) /\ latest \in keys /\ paid[d] <= latest
        BY <3>1, <3>2, KeyIsCurrent DEF RefundInv
      <4>2. latest = paid[d]
        <5>1. latest \in 1 .. epoch /\ epoch \in Nat
          BY <4>1 DEF KeysInv, TypeOK, Keys
        <5> QED BY <4>1, <5>1
      <4>3. NewStatus(d) # "REFUND"
        BY <4>1, <4>2 DEF NewStatus, Adopted, TypeOK, Keys
      <4>4. NewStatus(d) = "SUCCESS"
        BY <3>1, <3>2, <4>3 DEF NewStatus
      <4> QED BY <3>1, <3>2, <4>4 DEF TypeOK
    <3> QED BY <3>1, <3>2 DEF TypeOK
  <2> QED BY <1>3, <2>1 DEF PendingCycle, QueryPendingMints, ReadBlock, ReadHeightAndKey,
        CycleFails, HandleUnconfirmedMint, HandlingFails, Send, SendFails, WaitForDeposit, rows
<1>4. CASE RefundCycle
  <2>1. ASSUME NEW e \in Deposits, SettleRefundMint(e) PROVE e # d
    BY <2>1, KeyIsCurrent DEF SettleRefundMint, RefundInv
  <2>2. ASSUME NEW e \in Deposits, SettleRefundMint(e) PROVE mint'[d] = "SUCCESS"
    BY <2>1, <2>2 DEF SettleRefundMint, TypeOK
  <2> QED BY <1>4, <2>2 DEF RefundCycle, QueryRefundMints, LookUpTxOut, rows
<1>5. CASE Rotate \/ Restart \/ \E k \in Keys : WriteInternalKey(k)
  BY <1>5 DEF Rotate, Restart, WriteInternalKey, rows
<1> QED BY <1>1, <1>2, <1>3, <1>4, <1>5 DEF Next

\* SuccessIsFinal: while the key of a deposit is the contract's, none of the
\* writers takes back its SUCCESS.
THEOREM SuccessesAreFinal == Spec => SuccessIsFinal
<1>1. Init => KeysInv
  BY DEF Init, KeysInv
<1>2. /\ TypeOK /\ BackedInv /\ RefundInv /\ KeysInv /\ [Next]_vars
      => [\A d \in Deposits : paid[d] = epoch /\ mint[d] = "SUCCESS" => mint'[d] = "SUCCESS"]_vars
  BY SuccessStays
<1> QED BY <1>1, <1>2, BackedAlways, RefundAlways, KeysNext, PTL DEF Spec, SuccessIsFinal
=============================================================================
