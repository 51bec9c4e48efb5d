------------------------------ MODULE Relayer ------------------------------
(***************************************************************************)
(* The relayer (relayer/): a goroutine that carries Bitcoin block headers   *)
(* to the client contract on TON, another one that proves to the teleport   *)
(* contract that the last pegout is in a confirmed block.  Each wakes up    *)
(* every ten seconds, reads both chains call by call and sends at most one  *)
(* message, through a wallet that both share.                               *)
(*                                                                          *)
(* Blocks form a tree; the node follows one branch of it.  The contracts    *)
(* are external: they are modelled by what the relayer relies on.           *)
(***************************************************************************)
EXTENDS Integers, Sequences, FiniteSets, FiniteSetsExt

CONSTANTS Blocks,
          Genesis,
          Parent,       \* Parent[b]: the block before b
          Includes,     \* Includes[b]: pegouts with their transaction in b
          Pegouts,
          ConfirmationsNeeded,
          MaxMail,      \* bound: messages under way to a contract
          MaxReorgs,    \* bound: times the node changes the branch
          MaxLosses,    \* bound: calls that fail
          MaxRestarts,  \* bound: restarts of the relayer
          None

ASSUME RelayerAssumption ==
  /\ IsFiniteSet(Blocks)
  /\ Genesis \in Blocks
  /\ Parent \in [Blocks \ {Genesis} -> Blocks]
  /\ Includes \in [Blocks -> SUBSET Pegouts]
  /\ {ConfirmationsNeeded, MaxMail} \subseteq Nat \ {0}
  /\ {MaxReorgs, MaxLosses, MaxRestarts} \subseteq Nat
  /\ None \notin Blocks \cup Pegouts

VARIABLES
  tip,        \* the node's best block
  confirmed,  \* the client contract's last confirmed block
  candidates, \* the client contract's candidate blocks
  mail,       \* headers under way to the client contract
  last,       \* the teleport contract's LastPegoutTxID
  counter,    \* whether its PegoutChainCounter is above zero
  proofs,     \* proofs under way to the teleport contract
  block,      \* what the block relayer has read in this cycle, or None
  pegout,     \* what the pegout relayer has read in this cycle, or None
  seqno,      \* seqno[r]: the wallet's seqno that r read is still the current one
  calm,       \* history: calm[r]: no reorg since the cycle of r began
  reorgs,
  losses,
  restarts

chains == <<tip, confirmed, candidates, mail, last, counter, proofs>>
bounds == <<reorgs, losses, restarts>>
vars == <<chains, block, pegout, seqno, calm, bounds>>

-----------------------------------------------------------------------------
(* The chains.                                                              *)

Height[b \in Blocks] == IF b = Genesis THEN 0 ELSE Height[Parent[b]] + 1
Branch[b \in Blocks] == IF b = Genesis THEN {b} ELSE Branch[Parent[b]] \cup {b}

\* Every block has a height: its parents lead back to Genesis.
ASSUME TreeAssumption ==
  /\ Height \in [Blocks -> Nat]
  /\ \A b \in Blocks : Height[b] = IF b = Genesis THEN 0 ELSE Height[Parent[b]] + 1

At(h) == CHOOSE b \in Branch[tip] : Height[b] = h

Relayers == {"block", "pegout"}

Init ==
  /\ tip = Genesis
  /\ confirmed = Genesis
  /\ candidates = {}
  /\ mail = <<>>
  /\ last = None
  /\ counter = FALSE
  /\ proofs = <<>>
  /\ block = None
  /\ pegout = None
  /\ seqno = [r \in Relayers |-> FALSE]
  /\ calm = [r \in Relayers |-> TRUE]
  /\ reorgs = 0
  /\ losses = 0
  /\ restarts = 0

Mine ==
  /\ \E b \in Blocks \ {Genesis} : Parent[b] = tip /\ tip' = b
  /\ UNCHANGED <<confirmed, candidates, mail, last, counter, proofs, block, pegout, seqno, calm, bounds>>

\* What has as many confirmations as the contract asks for is not undone.
Reorg ==
  /\ reorgs < MaxReorgs
  /\ reorgs' = reorgs + 1
  /\ \E b \in Blocks :
       /\ Height[b] > Height[tip]
       /\ tip \notin Branch[b]
       /\ Max({Height[a] : a \in Branch[b] \cap Branch[tip]}) > Height[tip] - ConfirmationsNeeded
       /\ tip' = b
  /\ calm' = [r \in Relayers |-> FALSE]
  /\ UNCHANGED <<confirmed, candidates, mail, last, counter, proofs, block, pegout, seqno, losses, restarts>>

NewPegout(p) ==
  /\ p # last
  /\ ~ \E b \in Branch[tip] : p \in Includes[b]
  /\ last' = p
  /\ counter' = TRUE
  /\ UNCHANGED <<tip, confirmed, candidates, mail, proofs, block, pegout, seqno, calm, bounds>>

\* A header that follows a block the contract knows becomes a candidate; with it
\* the next block may have its confirmations, and other branches end.
AcceptHeader ==
  /\ mail # <<>>
  /\ mail' = Tail(mail)
  /\ LET b == Head(mail).block
         known == candidates \cup {confirmed}
         next == CHOOSE c \in Branch[b] : Height[c] = Height[confirmed] + 1
     IN IF b \in Branch[confirmed] \cup candidates \/ Parent[b] \notin known
        THEN UNCHANGED <<confirmed, candidates>>
        ELSE IF Height[b] - Height[confirmed] < ConfirmationsNeeded
        THEN candidates' = candidates \cup {b} /\ UNCHANGED confirmed
        ELSE /\ confirmed' = next
             /\ candidates' = {c \in candidates \cup {b} : next \in Branch[c]} \ {next}
  /\ UNCHANGED <<tip, last, counter, proofs, block, pegout, seqno, calm, bounds>>

AcceptProof ==
  /\ proofs # <<>>
  /\ proofs' = Tail(proofs)
  /\ LET m == Head(proofs)
     IN counter' = (counter /\ ~(m.pegout = last /\ m.block \in Branch[confirmed]))
  /\ UNCHANGED <<tip, confirmed, candidates, mail, last, block, pegout, seqno, calm, bounds>>

-----------------------------------------------------------------------------
(* A message goes through the wallet: its seqno is read, the message signed *)
(* and sent.  If the other relayer's message came first, the wallet takes    *)
(* no notice of it and the call fails.                                      *)

Begin(r) == calm' = [calm EXCEPT ![r] = TRUE]

ReadSeqno(r) == seqno' = [seqno EXCEPT ![r] = TRUE]
Send == seqno' = [s \in Relayers |-> FALSE]

-----------------------------------------------------------------------------
(* The block relayer.                                                       *)

ReadHeight ==
  /\ block = None
  /\ block' = [step |-> "confirmed", height |-> Height[tip]]
  /\ Begin("block")
  /\ UNCHANGED <<chains, pegout, seqno, bounds>>

\* Mutant: the newest block is left out.
WindowBehind(height, from) == Min({height - from - 1, ConfirmationsNeeded + 1})

Window(height, from) == Min({height - from, ConfirmationsNeeded + 1})

ReadConfirmed ==
  /\ block # None /\ block.step = "confirmed"
  /\ LET count == Window(block.height, Height[confirmed])
     IN block' = IF count <= 0 THEN None
                 ELSE [step |-> "registered", from |-> Height[confirmed], count |-> count]
  /\ UNCHANGED <<chains, pegout, seqno, calm, bounds>>

\* The storage has the headers of the last candidates of every branch, and
\* each header the hash of the one before.
Leaves == {c \in candidates : \A d \in candidates : Parent[d] # c}
Registered == Leaves \cup {Parent[c] : c \in candidates}

ReadRegistered ==
  /\ block # None /\ block.step = "registered"
  /\ block' = [step |-> "hashes", from |-> block.from, count |-> block.count,
               registered |-> Registered, hashes |-> <<>>]
  /\ UNCHANGED <<chains, pegout, seqno, calm, bounds>>

\* Mutant: the first hash asked for is that of the block after next.
AfterNext(view) == view.from + Len(view.hashes) + 2

NextHeight(view) == view.from + Len(view.hashes) + 1

\* One call per height; the call fails when the node's branch is too short.
ReadHash ==
  /\ block # None /\ block.step = "hashes"
  /\ Len(block.hashes) < block.count
  /\ block' = IF NextHeight(block) > Height[tip] THEN None
              ELSE [block EXCEPT !.hashes = Append(@, At(NextHeight(block)))]
  /\ UNCHANGED <<chains, pegout, seqno, calm, bounds>>

NotRegistered(view) == {k \in DOMAIN view.hashes : view.hashes[k] \notin view.registered}

ChooseHeader ==
  /\ block # None /\ block.step = "hashes"
  /\ Len(block.hashes) = block.count
  /\ IF NotRegistered(block) = {}
     THEN block' = None /\ UNCHANGED seqno
     ELSE /\ block' = [step |-> "send", header |-> block.hashes[Min(NotRegistered(block))]]
          /\ ReadSeqno("block")
  /\ UNCHANGED <<chains, pegout, calm, bounds>>

SendHeader ==
  /\ block # None /\ block.step = "send"
  /\ block' = None
  /\ IF seqno["block"]
     THEN /\ Len(mail) < MaxMail
          /\ mail' = Append(mail, [block |-> block.header, calm |-> calm["block"]])
          /\ Send
     ELSE UNCHANGED <<mail, seqno>>
  /\ UNCHANGED <<tip, confirmed, candidates, last, counter, proofs, pegout, calm, bounds>>

-----------------------------------------------------------------------------
(* The pegout relayer.                                                      *)

ReadStorage ==
  /\ pegout = None
  /\ counter
  /\ pegout' = [step |-> "block", pegout |-> last]
  /\ Begin("pegout")
  /\ UNCHANGED <<chains, block, seqno, bounds>>

Mined(p) == {b \in Branch[tip] : p \in Includes[b]}

ReadPegoutBlock ==
  /\ pegout # None /\ pegout.step = "block"
  /\ IF Mined(pegout.pegout) = {} THEN pegout' = None
     ELSE \E b \in Mined(pegout.pegout) :
            pegout' = [step |-> "confirmed", pegout |-> pegout.pegout, block |-> b]
  /\ UNCHANGED <<chains, block, seqno, calm, bounds>>

\* Mutants: a block is provable when the node has it; only when another one is
\* confirmed after it.
ProvableOnNode(b) == Height[b] <= Height[tip]
ProvableLater(b) == Height[b] < Height[confirmed]

Provable(b) == Height[b] <= Height[confirmed]

ReadLastConfirmed ==
  /\ pegout # None /\ pegout.step = "confirmed"
  /\ IF Provable(pegout.block)
     THEN pegout' = [pegout EXCEPT !.step = "send"] /\ ReadSeqno("pegout")
     ELSE pegout' = None /\ UNCHANGED seqno
  /\ UNCHANGED <<chains, block, calm, bounds>>

SendProof ==
  /\ pegout # None /\ pegout.step = "send"
  /\ pegout' = None
  /\ IF seqno["pegout"]
     THEN /\ Len(proofs) < MaxMail
          /\ proofs' = Append(proofs, [pegout |-> pegout.pegout, block |-> pegout.block, calm |-> calm["pegout"]])
          /\ Send
     ELSE UNCHANGED <<proofs, seqno>>
  /\ UNCHANGED <<tip, confirmed, candidates, mail, last, counter, block, calm, bounds>>

-----------------------------------------------------------------------------
\* An error ends the cycle, whatever call it came from.
CycleFails ==
  /\ losses < MaxLosses
  /\ losses' = losses + 1
  /\ \/ block # None /\ block' = None /\ UNCHANGED pegout
     \/ pegout # None /\ pegout' = None /\ UNCHANGED block
  /\ UNCHANGED <<chains, seqno, calm, reorgs, restarts>>

Restart ==
  /\ restarts < MaxRestarts
  /\ restarts' = restarts + 1
  /\ block' = None
  /\ pegout' = None
  /\ seqno' = [r \in Relayers |-> FALSE]
  /\ UNCHANGED <<chains, calm, reorgs, losses>>

RelayBlock ==
  \/ ReadHeight
  \/ ReadConfirmed
  \/ ReadRegistered
  \/ ReadHash
  \/ ChooseHeader
  \/ SendHeader

RelayPegout ==
  \/ ReadStorage
  \/ ReadPegoutBlock
  \/ ReadLastConfirmed
  \/ SendProof

Next ==
  \/ Mine
  \/ Reorg
  \/ \E p \in Pegouts : NewPegout(p)
  \/ AcceptHeader
  \/ AcceptProof
  \/ RelayBlock
  \/ RelayPegout
  \/ CycleFails
  \/ Restart

\* Both tickers go on and TON delivers messages; Bitcoin may stop at any block.
Fairness ==
  /\ WF_vars(RelayBlock)
  /\ WF_vars(RelayPegout)
  /\ WF_vars(AcceptHeader)
  /\ WF_vars(AcceptProof)

Spec == Init /\ [][Next]_vars
FairSpec == Spec /\ Fairness

-----------------------------------------------------------------------------
(* Properties.                                                              *)

BlockView ==
  [step : {"confirmed"}, height : Nat]
  \cup [step : {"registered"}, from : Nat, count : 1 .. ConfirmationsNeeded + 1]
  \cup [step : {"hashes"}, from : Nat, count : 1 .. ConfirmationsNeeded + 1,
         registered : SUBSET Blocks, hashes : Seq(Blocks)]
  \cup [step : {"send"}, header : Blocks]

PegoutView ==
  [step : {"block"}, pegout : Pegouts]
  \cup [step : {"confirmed", "send"}, pegout : Pegouts, block : Blocks]

TypeOK ==
  /\ tip \in Blocks
  /\ confirmed \in Blocks
  /\ candidates \subseteq Blocks
  /\ mail \in Seq([block : Blocks, calm : BOOLEAN])
  /\ last \in Pegouts \cup {None}
  /\ counter \in BOOLEAN
  /\ proofs \in Seq([pegout : Pegouts, block : Blocks, calm : BOOLEAN])
  /\ block \in BlockView \cup {None}
  /\ pegout \in PegoutView \cup {None}
  /\ seqno \in [Relayers -> BOOLEAN]
  /\ calm \in [Relayers -> BOOLEAN]
  /\ reorgs \in 0 .. MaxReorgs
  /\ losses \in 0 .. MaxLosses
  /\ restarts \in 0 .. MaxRestarts

\* No header is sent in vain: from three reads at different times the relayer
\* picks one that continues what the contract will know when it arrives, unless
\* a reorg happened meanwhile.
HeadersConnect ==
  \A i \in DOMAIN mail : mail[i].calm =>
    mail[i].block = Genesis
    \/ Parent[mail[i].block] \in Branch[confirmed] \cup candidates \cup {mail[k].block : k \in 1 .. i - 1}

\* What is under way to the client contract.
HeadersInv == TypeOK /\ HeadersConnect

\* A proof is sent only for a block that the contract has confirmed, although it
\* is chosen by comparing heights, unless a reorg happened meanwhile.
ProofsAreConfirmed ==
  \A i \in DOMAIN proofs : proofs[i].calm => proofs[i].block \in Branch[confirmed]

\* However far behind, through reorgs, lost calls, restarts and collisions in the
\* wallet, the contract catches up with Bitcoin as far as confirmations allow.
ContractFollows == <>[](Height[confirmed] >= Height[tip] - ConfirmationsNeeded + 1)

\* A pegout in a confirmed block is proven, unless a newer one takes its place.
PegoutIsProven ==
  \A p \in Pegouts :
    (counter /\ last = p /\ \E b \in Branch[confirmed] : p \in Includes[b])
      ~> (~counter \/ last # p)
=============================================================================
