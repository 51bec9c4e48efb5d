--------------------------- MODULE Relayer_proofs ---------------------------
(***************************************************************************)
(* Proofs about Relayer for every tree of blocks, every number of           *)
(* confirmations and every bound.                                           *)
(***************************************************************************)
EXTENDS Relayer, FiniteSetTheorems, WellFoundedInduction, TLAPS

-----------------------------------------------------------------------------
(* The inductive invariant.                                                 *)

\* TypeOK is not inductive: the pegout relayer starts from a counter alone, and the
\* hash of the block before every candidate is registered.
TypeInv == TypeOK /\ (counter => last # None) /\ Genesis \notin candidates

\* The contract knows the block b.
Known(b) == b \in Branch[confirmed] \cup candidates
Follows(b) == b = Genesis \/ Known(Parent[b])

\* The ancestors of b with as many confirmations under b as the contract asks for.
Deep(b) == {a \in Branch[b] : Height[a] + ConfirmationsNeeded <= Height[b] + 1}

\* Whatever branch the node is on, b is no higher than its best block, and what
\* b may confirm is on the node's branch.
Safe(b) == Height[b] <= Height[tip] /\ Deep(b) \subseteq Branch[tip]

ConfirmedInv ==
  /\ confirmed \in Branch[tip]
  /\ confirmed = Genesis \/ Height[confirmed] + ConfirmationsNeeded <= Height[tip] + 1

\* The candidates are the blocks of trees that grow from the confirmed block.
CandidatesInv ==
  \A c \in candidates :
    /\ Safe(c)
    /\ confirmed \in Branch[c] /\ c # confirmed
    /\ Parent[c] \in candidates \cup {confirmed}
    /\ Height[c] < Height[confirmed] + ConfirmationsNeeded

MailIsSafe == \A i \in DOMAIN mail : Safe(mail[i].block)

ChainInv == ConfirmedInv /\ CandidatesInv /\ MailIsSafe

\* What the block relayer has read, and what it still says of the contract as long
\* as the node stays on the branch.
WindowInv ==
  block # None /\ block.step \in {"registered", "hashes"} =>
    block.from <= Height[confirmed]

HashesInv ==
  block # None /\ block.step = "hashes" =>
    /\ \A k \in DOMAIN block.hashes : Safe(block.hashes[k])
    /\ \A x \in block.registered : Height[x] <= Height[tip]
    /\ calm["block"] =>
         /\ \A k \in DOMAIN block.hashes :
              block.hashes[k] \in Branch[tip] /\ Height[block.hashes[k]] = block.from + k
         /\ \A x \in block.registered \cap Branch[tip] : Known(x)

HeaderInv ==
  block # None /\ block.step = "send" =>
    /\ Safe(block.header)
    /\ calm["block"] => block.header \in Branch[tip] /\ Follows(block.header)

ReadsInv == WindowInv /\ HashesInv /\ HeaderInv

\* Of two headers under way, the one sent first confirms nothing that is beside
\* the other one's branch.
MailInv ==
  \A j \in DOMAIN mail : mail[j].calm =>
    /\ Follows(mail[j].block)
    /\ \A i \in 1 .. j - 1 : \A a \in Deep(mail[i].block) :
         Height[a] <= Height[mail[j].block] => a \in Branch[mail[j].block]

\* What the pegout relayer has read.
PegoutInv ==
  pegout # None /\ pegout.step \in {"confirmed", "send"} /\ calm["pegout"] =>
    /\ pegout.block \in Branch[tip]
    /\ pegout.step = "send" => pegout.block \in Branch[confirmed]

RelayInv == TypeInv /\ ChainInv /\ ReadsInv /\ MailInv /\ PegoutInv /\ ProofsAreConfirmed

-----------------------------------------------------------------------------
(* Least and greatest members.                                              *)

\* What is read lowest exists: a nonempty set of naturals has a least member.
LEMMA LeastExists ==
  ASSUME NEW S \in SUBSET Nat, S # {}
  PROVE  \E x \in S : \A y \in S : x <= y
<1> DEFINE R == StrictSubsetOrdering(Nat)
           T == {0 .. j : j \in S}
<1>1. IsWellFoundedOn(R, FiniteSubsetsOf(Nat))
  BY FS_StrictSubsetOrderingWellFounded
<1>2. T \subseteq FiniteSubsetsOf(Nat)
  <2>1. ASSUME NEW j \in S PROVE 0 .. j \in FiniteSubsetsOf(Nat)
    <3>1. IsFiniteSet(0 .. j)
      BY FS_Interval
    <3> QED BY <3>1 DEF FiniteSubsetsOf
  <2> QED BY <2>1
<1>3. \E X \in T : \A Y \in T : <<Y, X>> \notin R
  <2>1. T # {} OBVIOUS
  <2> HIDE DEF T, R
  <2> QED BY <1>1, <1>2, <2>1, WFMin, Zenon
<1>4. PICK x \in S : \A y \in S : <<0 .. y, 0 .. x>> \notin R
  BY <1>3
<1>5. ASSUME NEW y \in S, y < x PROVE FALSE
  <2> DEFINE a == 0 .. y
             b == 0 .. x
  <2>1. a \subseteq b /\ x \in b /\ x \notin a
    BY <1>5
  <2>2. a \subseteq b /\ a # b /\ <<a, b>> \in (SUBSET Nat) \X (SUBSET Nat)
    BY <2>1
  <2> HIDE DEF a, b
  <2>3. <<a, b>> \in StrictSubsetOrdering(Nat)
    BY <2>2 DEF StrictSubsetOrdering
  <2> QED BY <2>3, <1>4 DEF a, b
<1> QED BY <1>5

\* Min(S) is the least member of S.
LEMMA MinIsLeast ==
  ASSUME NEW S \in SUBSET Nat, S # {}
  PROVE  Min(S) \in S /\ \A y \in S : Min(S) <= y
BY LeastExists DEF Min

\* Max(S) is a member of S when S has a bound.
LEMMA MaxIsMember ==
  ASSUME NEW S \in SUBSET Nat, S # {}, NEW n \in Nat, \A x \in S : x <= n
  PROVE  Max(S) \in S
<1> DEFINE T == {n - x : x \in S}
<1>1. T \in SUBSET Nat /\ T # {}
  <2>1. \A x \in S : n - x \in Nat OBVIOUS
  <2> QED BY <2>1
<1>2. \E t \in T : \A u \in T : t <= u
  <2> HIDE DEF T
  <2> QED BY <1>1, LeastExists
<1>3. PICK x \in S : \A y \in S : n - x <= n - y
  BY <1>2
<1>4. \A y \in S : x >= y
  BY <1>3
<1> QED BY <1>4 DEF Max

-----------------------------------------------------------------------------
(* The tree.                                                                *)

\* Every block has a height, one above its parent's.
LEMMA HeightStep ==
  /\ Height[Genesis] = 0
  /\ \A b \in Blocks : Height[b] \in Nat
  /\ \A b \in Blocks \ {Genesis} :
       Parent[b] \in Blocks /\ Height[b] = Height[Parent[b]] + 1
<1>1. Genesis \in Blocks /\ Parent \in [Blocks \ {Genesis} -> Blocks]
  BY RelayerAssumption
<1>2. Height \in [Blocks -> Nat]
  BY TreeAssumption
<1>3. \A b \in Blocks : Height[b] = IF b = Genesis THEN 0 ELSE Height[Parent[b]] + 1
  BY TreeAssumption
<1>4. \A b \in Blocks : Height[b] \in Nat
  BY <1>2
<1> QED BY <1>1, <1>3, <1>4

\* What holds of Genesis and of every block after one it holds of, holds of all.
LEMMA TreeInduction ==
  ASSUME NEW S \in SUBSET Blocks, Genesis \in S,
         \A b \in Blocks \ {Genesis} : Parent[b] \in S => b \in S
  PROVE  S = Blocks
<1> SUFFICES ASSUME Blocks \ S # {} PROVE FALSE
  OBVIOUS
<1> DEFINE H == {Height[b] : b \in Blocks \ S}
<1>1. H \in SUBSET Nat /\ H # {}
  BY HeightStep
<1>2. \E h \in H : \A g \in H : h <= g
  <2> HIDE DEF H
  <2> QED BY <1>1, LeastExists
<1>3. PICK b \in Blocks \ S : \A c \in Blocks \ S : Height[b] <= Height[c]
  BY <1>2
<1>4. Parent[b] \in Blocks \ S /\ Height[b] = Height[Parent[b]] + 1
  BY HeightStep
<1>5. Height[b] <= Height[Parent[b]]
  BY <1>3, <1>4
<1> QED BY <1>4, <1>5, HeightStep

\* Branch is defined by its equation.
LEMMA BranchEquation ==
  /\ DOMAIN Branch = Blocks
  /\ \A b \in Blocks :
       Branch[b] = IF b = Genesis THEN {b} ELSE Branch[Parent[b]] \cup {b}
<1> DEFINE Closed(S) == \A x \in S \ {Genesis} : Parent[x] \in S
           B == [b \in Blocks |-> {a \in Blocks : \A S \in SUBSET Blocks : b \in S /\ Closed(S) => a \in S}]
           F(f) == [b \in Blocks |-> IF b = Genesis THEN {b} ELSE f[Parent[b]] \cup {b}]
<1>1. ASSUME NEW b \in Blocks
      PROVE  B[b] = IF b = Genesis THEN {b} ELSE B[Parent[b]] \cup {b}
  <2>1. CASE b = Genesis
    <3>1. {Genesis} \in SUBSET Blocks /\ Closed({Genesis})
      BY RelayerAssumption
    <3>2. B[b] = {b}
      BY <2>1, <3>1
    <3> QED BY <2>1, <3>2
  <2>2. CASE b # Genesis
    <3>1. Parent[b] \in Blocks
      BY <2>2, HeightStep
    <3>2. ASSUME NEW a \in B[Parent[b]] PROVE a \in B[b]
      <4>1. ASSUME NEW S \in SUBSET Blocks, b \in S, Closed(S) PROVE a \in S
        <5>1. Parent[b] \in S
          BY <2>2, <4>1
        <5> QED BY <3>1, <3>2, <4>1, <5>1
      <4>2. a \in Blocks
        BY <3>1, <3>2
      <4> QED BY <4>1, <4>2
    <3>3. b \in B[b] OBVIOUS
    <3>4. ASSUME NEW a \in B[b], a # b PROVE a \in B[Parent[b]]
      <4>1. ASSUME NEW S \in SUBSET Blocks, Parent[b] \in S, Closed(S) PROVE a \in S
        <5>1. Closed(S \cup {b})
          BY <4>1
        <5>2. S \cup {b} \in SUBSET Blocks /\ b \in S \cup {b} OBVIOUS
        <5>3. a \in S \cup {b}
          BY <3>4, <5>1, <5>2
        <5> QED BY <5>3, <3>4
      <4>2. a \in Blocks
        BY <3>4
      <4> QED BY <3>1, <4>1, <4>2
    <3>5. B[b] = B[Parent[b]] \cup {b}
      <4> HIDE DEF B
      <4> QED BY <3>2, <3>3, <3>4
    <3> QED BY <2>2, <3>5
  <2> QED BY <2>1, <2>2
<1>2. B = F(B)
  <2>1. B = [b \in Blocks |-> B[b]] OBVIOUS
  <2> HIDE DEF B
  <2> QED BY <1>1, <2>1
<1>3. Branch = F(Branch)
  <2>1. Branch = CHOOSE f : f = F(f)
    BY DEF Branch
  <2>2. \E f : f = F(f)
    <3> HIDE DEF B, F
    <3> QED BY <1>2
  <2> HIDE DEF F
  <2> QED BY <2>1, <2>2
<1> QED BY <1>3

LEMMA BranchStep ==
  /\ Branch[Genesis] = {Genesis}
  /\ \A b \in Blocks \ {Genesis} : Branch[b] = Branch[Parent[b]] \cup {b}
<1>1. Genesis \in Blocks
  BY RelayerAssumption
<1> QED BY <1>1, BranchEquation

\* A branch has blocks, Genesis and its own best block among them.
LEMMA BranchType ==
  \A b \in Blocks : Branch[b] \subseteq Blocks /\ Genesis \in Branch[b] /\ b \in Branch[b]
<1> DEFINE S == {b \in Blocks : Branch[b] \subseteq Blocks /\ Genesis \in Branch[b] /\ b \in Branch[b]}
<1>1. S \in SUBSET Blocks OBVIOUS
<1>2. Genesis \in S
  BY BranchStep, RelayerAssumption
<1>3. ASSUME NEW b \in Blocks \ {Genesis}, Parent[b] \in S PROVE b \in S
  BY <1>3, BranchStep
<1>4. S = Blocks
  <2> HIDE DEF S
  <2> QED BY <1>1, <1>2, <1>3, TreeInduction
<1> QED BY <1>4

\* A block that is on the branch of b is b or no higher than the block before b.
LEMMA BranchLower ==
  \A b \in Blocks : \A a \in Branch[b] : a = b \/ Height[a] < Height[b]
<1> DEFINE S == {b \in Blocks : \A a \in Branch[b] : a = b \/ Height[a] < Height[b]}
<1>1. S \in SUBSET Blocks OBVIOUS
<1>2. Genesis \in S
  BY BranchStep, RelayerAssumption
<1>3. ASSUME NEW b \in Blocks \ {Genesis}, Parent[b] \in S PROVE b \in S
  <2>1. Parent[b] \in Blocks /\ Height[b] = Height[Parent[b]] + 1
    BY HeightStep
  <2>2. ASSUME NEW a \in Branch[b], a # b PROVE Height[a] < Height[b]
    <3>1. a \in Branch[Parent[b]]
      BY <2>2, BranchStep
    <3>2. a = Parent[b] \/ Height[a] < Height[Parent[b]]
      BY <1>3, <3>1
    <3>3. a \in Blocks
      BY <2>1, <3>1, BranchType
    <3> QED BY <2>1, <3>2, <3>3, HeightStep
  <2> QED BY <2>2
<1>4. S = Blocks
  <2> HIDE DEF S
  <2> QED BY <1>1, <1>2, <1>3, TreeInduction
<1> QED BY <1>4

\* The branch of a block on a branch is a part of that branch.
LEMMA BranchPart ==
  ASSUME NEW c \in Blocks, NEW b \in Branch[c]
  PROVE  Branch[b] \subseteq Branch[c]
<1> DEFINE S == {d \in Blocks : \A x \in Branch[d] : Branch[x] \subseteq Branch[d]}
<1>1. S \in SUBSET Blocks OBVIOUS
<1>2. Genesis \in S
  BY BranchStep, RelayerAssumption
<1>3. ASSUME NEW d \in Blocks \ {Genesis}, Parent[d] \in S PROVE d \in S
  <2>1. Branch[d] = Branch[Parent[d]] \cup {d}
    BY BranchStep
  <2>2. \A x \in Branch[Parent[d]] : Branch[x] \subseteq Branch[Parent[d]]
    BY <1>3
  <2> QED BY <2>1, <2>2
<1>4. S = Blocks
  <2> HIDE DEF S
  <2> QED BY <1>1, <1>2, <1>3, TreeInduction
<1> QED BY <1>4

\* Of two blocks on one branch, the lower one is on the branch of the other.
LEMMA BranchLine ==
  ASSUME NEW b \in Blocks, NEW a \in Branch[b], NEW c \in Branch[b], Height[a] <= Height[c]
  PROVE  a \in Branch[c]
<1> DEFINE L(d) == \A x, y \in Branch[d] : Height[x] <= Height[y] => x \in Branch[y]
           S == {d \in Blocks : L(d)}
<1>1. S \in SUBSET Blocks OBVIOUS
<1>2. Genesis \in S
  BY BranchStep, RelayerAssumption
<1>3. ASSUME NEW d \in Blocks \ {Genesis}, Parent[d] \in S PROVE d \in S
  <2>1. Branch[d] = Branch[Parent[d]] \cup {d}
    BY BranchStep
  <2>2. ASSUME NEW x \in Branch[d], NEW y \in Branch[d], Height[x] <= Height[y]
        PROVE  x \in Branch[y]
    <3>1. CASE y = d
      BY <3>1
    <3>2. CASE y # d
      <4>1. y \in Branch[Parent[d]] /\ y \in Blocks /\ x \in Blocks
        BY <2>1, <3>2, BranchType
      <4>2. Height[y] < Height[d]
        BY <3>2, BranchLower
      <4>3. x # d
        BY <2>2, <4>1, <4>2, HeightStep
      <4> QED BY <1>3, <2>1, <2>2, <4>1, <4>3
    <3> QED BY <3>1, <3>2
  <2> QED BY <2>2
<1>4. S = Blocks
  <2> HIDE DEF S
  <2> QED BY <1>1, <1>2, <1>3, TreeInduction
<1> QED BY <1>4

\* A branch has one block at each height up to its own.
LEMMA BranchHasHeight ==
  ASSUME NEW b \in Blocks, NEW h \in 0 .. Height[b]
  PROVE  \E a \in Branch[b] : Height[a] = h
<1> DEFINE S == {d \in Blocks : \A k \in 0 .. Height[d] : \E a \in Branch[d] : Height[a] = k}
<1>1. S \in SUBSET Blocks OBVIOUS
<1>2. Genesis \in S
  <2>1. Genesis \in Blocks /\ Genesis \in Branch[Genesis] /\ Height[Genesis] = 0
    BY RelayerAssumption, BranchType, HeightStep
  <2> QED BY <2>1
<1>3. ASSUME NEW d \in Blocks \ {Genesis}, Parent[d] \in S PROVE d \in S
  <2>1. Branch[d] = Branch[Parent[d]] \cup {d}
    BY BranchStep
  <2>2. Parent[d] \in Blocks /\ Height[d] = Height[Parent[d]] + 1 /\ Height[Parent[d]] \in Nat
    BY HeightStep
  <2>3. ASSUME NEW k \in 0 .. Height[d] PROVE \E a \in Branch[d] : Height[a] = k
    <3>1. CASE k = Height[d]
      BY <2>1, <3>1
    <3>2. CASE k # Height[d]
      <4>1. k \in 0 .. Height[Parent[d]]
        BY <2>2, <3>2
      <4> QED BY <1>3, <2>1, <4>1
    <3> QED BY <3>1, <3>2
  <2> QED BY <2>3
<1>4. S = Blocks
  <2> HIDE DEF S
  <2> QED BY <1>1, <1>2, <1>3, TreeInduction
<1> QED BY <1>4

\* Two blocks of one branch at the same height are the same.
LEMMA BranchOneAtHeight ==
  ASSUME NEW b \in Blocks, NEW a \in Branch[b], NEW c \in Branch[b], Height[a] = Height[c]
  PROVE  a = c
<1>1. a \in Blocks /\ c \in Blocks /\ Height[a] \in Nat /\ Height[c] \in Nat
  BY BranchType, HeightStep
<1>2. a \in Branch[c]
  BY <1>1, BranchLine
<1> QED BY <1>1, <1>2, BranchLower

\* The block before one that is on a branch is on it too.
LEMMA BranchBefore ==
  ASSUME NEW b \in Blocks, NEW a \in Branch[b], a # Genesis
  PROVE  Parent[a] \in Branch[b]
<1>1. a \in Blocks \ {Genesis}
  BY BranchType
<1>2. Branch[a] \subseteq Branch[b]
  BY BranchPart
<1>3. Parent[a] \in Branch[Parent[a]]
  BY <1>1, HeightStep, BranchType
<1> QED BY <1>1, <1>2, <1>3, BranchStep

-----------------------------------------------------------------------------
(* Types.                                                                   *)

\* The block at a height of the node's branch.
LEMMA AtIsOnBranch ==
  ASSUME tip \in Blocks, NEW h \in 0 .. Height[tip]
  PROVE  At(h) \in Blocks /\ At(h) \in Branch[tip] /\ Height[At(h)] = h
<1>1. \E a \in Branch[tip] : Height[a] = h
  BY BranchHasHeight
<1>2. At(h) \in Branch[tip] /\ Height[At(h)] = h
  BY <1>1 DEF At
<1> QED BY <1>2, BranchType

\* What a cycle of the block relayer has read, by its step.
LEMMA BlockViewFields ==
  ASSUME NEW v \in BlockView
  PROVE  /\ v.step = "confirmed" => v.height \in Nat
         /\ v.step \in {"registered", "hashes"} =>
              v.from \in Nat /\ v.count \in 1 .. ConfirmationsNeeded + 1
         /\ v.step = "hashes" => v.registered \in SUBSET Blocks /\ v.hashes \in Seq(Blocks)
         /\ v.step = "send" => v.header \in Blocks
BY DEF BlockView

LEMMA PegoutViewFields ==
  ASSUME NEW v \in PegoutView
  PROVE  /\ v.pegout \in Pegouts
         /\ v.step \in {"confirmed", "send"} => v.block \in Blocks
BY DEF PegoutView

\* A window that is not empty has at most one block more than confirmations.
LEMMA WindowType ==
  ASSUME NEW height \in Nat, NEW from \in Nat, Window(height, from) > 0
  PROVE  Window(height, from) \in 1 .. ConfirmationsNeeded + 1
<1> DEFINE x == height - from
           y == ConfirmationsNeeded + 1
<1>1. x \in Int /\ y \in Int
  BY RelayerAssumption
<1>2. \E m \in {x, y} : \A n \in {x, y} : m <= n
  <2> HIDE DEF x, y
  <2> QED BY <1>1
<1>3. Min({x, y}) \in {x, y} /\ \A n \in {x, y} : Min({x, y}) <= n
  <2> HIDE DEF x, y
  <2> QED BY <1>2 DEF Min
<1>4. Min({x, y}) \in Int /\ Min({x, y}) <= y
  <2> HIDE DEF x, y
  <2> QED BY <1>1, <1>3
<1> QED BY <1>4 DEF Window

\* The block that gets confirmed with b.
NextOf(b) == CHOOSE c \in Branch[b] : Height[c] = Height[confirmed] + 1

LEMMA NextIsOnBranch ==
  ASSUME confirmed \in Blocks, NEW b \in Blocks,
         Height[b] - Height[confirmed] >= ConfirmationsNeeded
  PROVE  NextOf(b) \in Blocks /\ NextOf(b) \in Branch[b] /\ Height[NextOf(b)] = Height[confirmed] + 1
<1>1. Height[confirmed] + 1 \in 0 .. Height[b]
  BY HeightStep, RelayerAssumption
<1>2. \E c \in Branch[b] : Height[c] = Height[confirmed] + 1
  BY <1>1, BranchHasHeight
<1>3. NextOf(b) \in Branch[b] /\ Height[NextOf(b)] = Height[confirmed] + 1
  BY <1>2 DEF NextOf
<1> QED BY <1>3, BranchType

\* What the contract does with the header of b.
LEMMA AcceptCases ==
  ASSUME AcceptHeader, NEW b, b = Head(mail).block
  PROVE  \/ UNCHANGED <<confirmed, candidates>> /\ (b \in Branch[confirmed] \cup candidates \/ Parent[b] \notin candidates \cup {confirmed})
         \/ /\ b \notin Branch[confirmed] \cup candidates
            /\ Parent[b] \in candidates \cup {confirmed}
            /\ Height[b] - Height[confirmed] < ConfirmationsNeeded
            /\ candidates' = candidates \cup {b} /\ confirmed' = confirmed
         \/ /\ b \notin Branch[confirmed] \cup candidates
            /\ Parent[b] \in candidates \cup {confirmed}
            /\ ~(Height[b] - Height[confirmed] < ConfirmationsNeeded)
            /\ confirmed' = NextOf(b)
            /\ candidates' = {c \in candidates \cup {b} : NextOf(b) \in Branch[c]} \ {NextOf(b)}
BY DEF AcceptHeader, NextOf

\* A message that is taken from a queue was in it, the others move up by one.
LEMMA TailOfQueue ==
  ASSUME NEW T, NEW q \in Seq(T), q # <<>>
  PROVE  /\ Head(q) = q[1] /\ 1 \in DOMAIN q /\ Head(q) \in T
         /\ Tail(q) \in Seq(T)
         /\ \A i \in DOMAIN Tail(q) : i + 1 \in DOMAIN q /\ Tail(q)[i] = q[i + 1] /\ i \in Nat \ {0}
OBVIOUS

LEMMA AppendToQueue ==
  ASSUME NEW T, NEW q \in Seq(T), NEW x \in T
  PROVE  /\ Append(q, x) \in Seq(T)
         /\ \A i \in DOMAIN Append(q, x) :
              \/ i \in DOMAIN q /\ Append(q, x)[i] = q[i]
              \/ i = Len(q) + 1 /\ Append(q, x)[i] = x
         /\ \A i \in DOMAIN q : Append(q, x)[i] = q[i]
         /\ DOMAIN Append(q, x) = 1 .. Len(q) + 1
OBVIOUS

LEMMA InitTypeInv == Init => TypeInv
<1> SUFFICES ASSUME Init PROVE TypeInv
  OBVIOUS
<1>1. Genesis \in Blocks /\ 0 \in 0 .. MaxReorgs /\ 0 \in 0 .. MaxLosses /\ 0 \in 0 .. MaxRestarts
  BY RelayerAssumption
<1>2. mail = <<>> /\ proofs = <<>> /\ <<>> \in Seq([block : Blocks, calm : BOOLEAN])
      /\ <<>> \in Seq([pegout : Pegouts, block : Blocks, calm : BOOLEAN])
  BY DEF Init
<1> QED BY <1>1, <1>2 DEF Init, TypeInv, TypeOK

LEMMA MineType == TypeInv /\ Mine => TypeInv'
<1> SUFFICES ASSUME TypeInv, Mine PROVE TypeInv'
  OBVIOUS
<1> QED BY DEF TypeInv, TypeOK, Mine, bounds

LEMMA ReorgType == TypeInv /\ Reorg => TypeInv'
<1> SUFFICES ASSUME TypeInv, Reorg PROVE TypeInv'
  OBVIOUS
<1>1. tip' \in Blocks /\ calm' \in [Relayers -> BOOLEAN]
  BY DEF Reorg
<1>2. reorgs' \in 0 .. MaxReorgs
  BY RelayerAssumption DEF Reorg, TypeInv, TypeOK
<1> QED BY <1>1, <1>2 DEF TypeInv, TypeOK, Reorg

LEMMA AcceptHeaderType == TypeInv /\ AcceptHeader => TypeInv'
<1> SUFFICES ASSUME TypeInv, AcceptHeader PROVE TypeInv'
  OBVIOUS
<1> DEFINE T == [block : Blocks, calm : BOOLEAN]
<1>1. mail \in Seq(T) /\ mail # <<>> /\ mail' = Tail(mail)
  BY DEF AcceptHeader, TypeInv, TypeOK
<1>2. Head(mail) \in T /\ Tail(mail) \in Seq(T)
  <2> HIDE DEF T
  <2> QED BY <1>1, TailOfQueue
<1>3. PICK b : b = Head(mail).block
  OBVIOUS
<1>4. b \in Blocks
  BY <1>2, <1>3
<1>5. confirmed \in Blocks /\ candidates \subseteq Blocks
  BY DEF TypeInv, TypeOK
<1>6. confirmed' \in Blocks /\ candidates' \subseteq Blocks /\ Genesis \notin candidates'
  <2>1. \/ UNCHANGED <<confirmed, candidates>> /\ (b \in Branch[confirmed] \cup candidates \/ Parent[b] \notin candidates \cup {confirmed})
        \/ /\ b \notin Branch[confirmed] \cup candidates
           /\ Parent[b] \in candidates \cup {confirmed}
           /\ Height[b] - Height[confirmed] < ConfirmationsNeeded
           /\ candidates' = candidates \cup {b} /\ confirmed' = confirmed
        \/ /\ b \notin Branch[confirmed] \cup candidates
           /\ Parent[b] \in candidates \cup {confirmed}
           /\ ~(Height[b] - Height[confirmed] < ConfirmationsNeeded)
           /\ confirmed' = NextOf(b)
           /\ candidates' = {c \in candidates \cup {b} : NextOf(b) \in Branch[c]} \ {NextOf(b)}
    BY <1>3, AcceptCases
  <2>2. ~(Height[b] - Height[confirmed] < ConfirmationsNeeded) =>
          NextOf(b) \in Blocks
    <3>1. ~(Height[b] - Height[confirmed] < ConfirmationsNeeded) =>
            Height[b] - Height[confirmed] >= ConfirmationsNeeded
      BY <1>4, <1>5, HeightStep, RelayerAssumption
    <3> QED BY <3>1, <1>4, <1>5, NextIsOnBranch
  <2>3. Genesis \in Branch[confirmed] /\ Genesis \notin candidates
    BY <1>5, BranchType DEF TypeInv
  <2> QED BY <1>4, <1>5, <2>1, <2>2, <2>3
<1>7. mail' \in Seq([block : Blocks, calm : BOOLEAN])
  BY <1>1, <1>2
<1> QED BY <1>6, <1>7 DEF TypeInv, TypeOK, AcceptHeader, bounds

LEMMA AcceptProofType == TypeInv /\ AcceptProof => TypeInv'
<1> SUFFICES ASSUME TypeInv, AcceptProof PROVE TypeInv'
  OBVIOUS
<1> DEFINE T == [pegout : Pegouts, block : Blocks, calm : BOOLEAN]
<1>1. proofs \in Seq(T) /\ proofs # <<>> /\ proofs' = Tail(proofs)
  BY DEF AcceptProof, TypeInv, TypeOK
<1>2. Tail(proofs) \in Seq(T)
  <2> HIDE DEF T
  <2> QED BY <1>1, TailOfQueue
<1>3. counter' \in BOOLEAN /\ (counter' => counter)
  BY DEF AcceptProof, TypeInv, TypeOK
<1>4. proofs' \in Seq([pegout : Pegouts, block : Blocks, calm : BOOLEAN])
  BY <1>1, <1>2
<1> QED BY <1>3, <1>4 DEF TypeInv, TypeOK, AcceptProof, bounds

\* Steps that only read or write what the block relayer has: what remains to be
\* shown is what it has read then.
LEMMA ReadHeightType == TypeInv /\ ReadHeight => TypeInv'
<1> SUFFICES ASSUME TypeInv, ReadHeight PROVE TypeInv'
  OBVIOUS
<1>1. Height[tip] \in Nat
  BY HeightStep DEF TypeInv, TypeOK
<1>2. block' \in BlockView
  BY <1>1 DEF ReadHeight, BlockView
<1>3. calm' \in [Relayers -> BOOLEAN]
  BY DEF ReadHeight, Begin, TypeInv, TypeOK
<1> QED BY <1>2, <1>3 DEF TypeInv, TypeOK, ReadHeight, chains, bounds

LEMMA ReadConfirmedType == TypeInv /\ ReadConfirmed => TypeInv'
<1> SUFFICES ASSUME TypeInv, ReadConfirmed PROVE TypeInv'
  OBVIOUS
<1> DEFINE count == Window(block.height, Height[confirmed])
<1>1. Height[confirmed] \in Nat /\ block \in BlockView /\ block.step = "confirmed"
  BY HeightStep DEF TypeInv, TypeOK, ReadConfirmed
<1>2. block.height \in Nat
  BY <1>1, BlockViewFields
<1>3. count > 0 => count \in 1 .. ConfirmationsNeeded + 1
  BY <1>1, <1>2, WindowType
<1>4. count \in Int
  <2>1. block.height - Height[confirmed] \in Int /\ ConfirmationsNeeded + 1 \in Int
    BY <1>1, <1>2, RelayerAssumption
  <2>2. \A x, y \in Int : \E m \in {x, y} : \A n \in {x, y} : m <= n
    OBVIOUS
  <2>3. \A x, y \in Int : Min({x, y}) \in {x, y}
    BY <2>2 DEF Min
  <2> QED BY <2>1, <2>3 DEF Window
<1>5. block' = IF count <= 0 THEN None
               ELSE [step |-> "registered", from |-> Height[confirmed], count |-> count]
  BY DEF ReadConfirmed
<1>6. block' \in BlockView \cup {None}
  <2> HIDE DEF count
  <2>1. CASE count <= 0
    BY <1>5, <2>1
  <2>2. CASE ~(count <= 0)
    <3>1. count \in 1 .. ConfirmationsNeeded + 1
      BY <1>3, <1>4, <2>2
    <3>2. block' \in [step : {"registered"}, from : Nat, count : 1 .. ConfirmationsNeeded + 1]
      BY <1>1, <1>5, <2>2, <3>1
    <3> QED BY <3>2 DEF BlockView
  <2> QED BY <2>1, <2>2
<1> QED BY <1>6 DEF TypeInv, TypeOK, ReadConfirmed, chains, bounds

LEMMA ReadRegisteredType == TypeInv /\ ReadRegistered => TypeInv'
<1> SUFFICES ASSUME TypeInv, ReadRegistered PROVE TypeInv'
  OBVIOUS
<1>1. block \in BlockView /\ block.step = "registered"
  BY DEF TypeInv, TypeOK, ReadRegistered
<1>2. block.from \in Nat /\ block.count \in 1 .. ConfirmationsNeeded + 1
  BY <1>1, BlockViewFields
<1>3. Registered \in SUBSET Blocks
  <2>1. \A c \in candidates : c \in Blocks /\ Parent[c] \in Blocks
    BY HeightStep DEF TypeInv, TypeOK
  <2> QED BY <2>1 DEF Registered, Leaves
<1>4. block' = [step |-> "hashes", from |-> block.from, count |-> block.count,
                registered |-> Registered, hashes |-> <<>>]
  BY DEF ReadRegistered
<1>5. <<>> \in Seq(Blocks) OBVIOUS
<1>6. block' \in BlockView
  BY <1>2, <1>3, <1>4, <1>5 DEF BlockView
<1> QED BY <1>6 DEF TypeInv, TypeOK, ReadRegistered, chains, bounds

\* The hashes that were read and are not registered are some of those read.
LEMMA ChosenHeader ==
  ASSUME NEW v \in BlockView, v.step = "hashes", NotRegistered(v) # {}
  PROVE  /\ Min(NotRegistered(v)) \in DOMAIN v.hashes
         /\ Min(NotRegistered(v)) \in Nat
         /\ v.hashes[Min(NotRegistered(v))] \in Blocks
         /\ v.hashes[Min(NotRegistered(v))] \notin v.registered
         /\ \A k \in DOMAIN v.hashes : k < Min(NotRegistered(v)) => v.hashes[k] \in v.registered
<1>1. v.hashes \in Seq(Blocks)
  BY BlockViewFields
<1>2. DOMAIN v.hashes \subseteq Nat
  BY <1>1
<1>3. NotRegistered(v) \in SUBSET Nat
  BY <1>2 DEF NotRegistered
<1>4. /\ Min(NotRegistered(v)) \in NotRegistered(v)
      /\ \A y \in NotRegistered(v) : Min(NotRegistered(v)) <= y
  BY <1>3, MinIsLeast
<1> DEFINE m == Min(NotRegistered(v))
<1> HIDE DEF m
<1>5. m \in NotRegistered(v) /\ \A y \in NotRegistered(v) : m <= y
  BY <1>4 DEF m
<1>6. m \in DOMAIN v.hashes /\ m \in Nat /\ v.hashes[m] \notin v.registered
  BY <1>2, <1>5 DEF NotRegistered
<1>7. v.hashes[m] \in Blocks
  BY <1>1, <1>6
<1>8. ASSUME NEW k \in DOMAIN v.hashes, k < m PROVE v.hashes[k] \in v.registered
  <2>1. k \notin NotRegistered(v)
    BY <1>2, <1>5, <1>6, <1>8
  <2> QED BY <2>1 DEF NotRegistered
<1> QED BY <1>6, <1>7, <1>8 DEF m

\* One more hash of the node's branch, or the end of the cycle.
LEMMA ReadHashCases ==
  ASSUME TypeOK, ReadHash
  PROVE  \/ block' = None
         \/ /\ block \in BlockView /\ block.step = "hashes"
            /\ block.from \in Nat /\ block.count \in 1 .. ConfirmationsNeeded + 1
            /\ block.hashes \in Seq(Blocks)
            /\ NextHeight(block) \in 0 .. Height[tip]
            /\ NextHeight(block) = block.from + Len(block.hashes) + 1
            /\ block' = [block EXCEPT !.hashes = Append(@, At(NextHeight(block)))]
<1>1. block \in BlockView /\ block.step = "hashes"
  BY DEF TypeOK, ReadHash
<1>2. block.from \in Nat /\ block.count \in 1 .. ConfirmationsNeeded + 1 /\ block.hashes \in Seq(Blocks)
  BY <1>1, BlockViewFields
<1>3. Height[tip] \in Nat
  BY HeightStep DEF TypeOK
<1>4. Len(block.hashes) \in Nat
  BY <1>2
<1>5. NextHeight(block) = block.from + Len(block.hashes) + 1
  BY DEF NextHeight
<1>6. block' = IF NextHeight(block) > Height[tip] THEN None
               ELSE [block EXCEPT !.hashes = Append(@, At(NextHeight(block)))]
  BY DEF ReadHash
<1>7. CASE NextHeight(block) > Height[tip]
  BY <1>6, <1>7
<1>8. CASE ~(NextHeight(block) > Height[tip])
  <2>1. NextHeight(block) \in 0 .. Height[tip]
    BY <1>2, <1>3, <1>4, <1>5, <1>8
  <2>2. block' = [block EXCEPT !.hashes = Append(@, At(NextHeight(block)))]
    BY <1>6, <1>8
  <2> QED BY <1>1, <1>2, <1>5, <2>1, <2>2
<1> QED BY <1>7, <1>8

LEMMA ReadHashType == TypeInv /\ ReadHash => TypeInv'
<1> SUFFICES ASSUME TypeInv, ReadHash PROVE TypeInv'
  OBVIOUS
<1>1. TypeOK /\ tip \in Blocks
  BY DEF TypeInv, TypeOK
<1>2. CASE block' = None
  BY <1>2 DEF TypeInv, TypeOK, ReadHash, chains, bounds
<1>3. CASE block' # None
  <2>1. /\ block \in BlockView /\ block.step = "hashes"
        /\ block.from \in Nat /\ block.count \in 1 .. ConfirmationsNeeded + 1
        /\ block.hashes \in Seq(Blocks)
        /\ NextHeight(block) \in 0 .. Height[tip]
        /\ NextHeight(block) = block.from + Len(block.hashes) + 1
        /\ block' = [block EXCEPT !.hashes = Append(@, At(NextHeight(block)))]
    BY <1>1, <1>3, ReadHashCases
  <2>2. At(NextHeight(block)) \in Blocks
    BY <1>1, <2>1, AtIsOnBranch
  <2>3. PICK q : q = Append(block.hashes, At(NextHeight(block)))
    OBVIOUS
  <2>4. q \in Seq(Blocks)
    BY <2>1, <2>2, <2>3
  <2>5. block' = [block EXCEPT !.hashes = q]
    BY <2>1, <2>3
  <2>6. block \in [step : {"hashes"}, from : Nat, count : 1 .. ConfirmationsNeeded + 1,
                   registered : SUBSET Blocks, hashes : Seq(Blocks)]
    BY <2>1 DEF BlockView
  <2>7. block' \in [step : {"hashes"}, from : Nat, count : 1 .. ConfirmationsNeeded + 1,
                   registered : SUBSET Blocks, hashes : Seq(Blocks)]
    BY <2>4, <2>5, <2>6
  <2>8. block' \in BlockView
    BY <2>7 DEF BlockView
  <2> QED BY <2>8 DEF TypeInv, TypeOK, ReadHash, chains, bounds
<1> QED BY <1>2, <1>3

LEMMA ChooseHeaderType == TypeInv /\ ChooseHeader => TypeInv'
<1> SUFFICES ASSUME TypeInv, ChooseHeader PROVE TypeInv'
  OBVIOUS
<1>1. block \in BlockView /\ block.step = "hashes"
  BY DEF TypeInv, TypeOK, ChooseHeader
<1>2. seqno' \in [Relayers -> BOOLEAN]
  BY DEF ChooseHeader, ReadSeqno, TypeInv, TypeOK
<1>3. block' \in BlockView \cup {None}
  <2>1. CASE NotRegistered(block) = {}
    BY <2>1 DEF ChooseHeader
  <2>2. CASE NotRegistered(block) # {}
    <3>1. block.hashes[Min(NotRegistered(block))] \in Blocks
      BY <1>1, <2>2, ChosenHeader
    <3>2. block' = [step |-> "send", header |-> block.hashes[Min(NotRegistered(block))]]
      BY <2>2 DEF ChooseHeader
    <3> QED BY <3>1, <3>2 DEF BlockView
  <2> QED BY <2>1, <2>2
<1> QED BY <1>2, <1>3 DEF TypeInv, TypeOK, ChooseHeader, chains, bounds

LEMMA SendHeaderType == TypeInv /\ SendHeader => TypeInv'
<1> SUFFICES ASSUME TypeInv, SendHeader PROVE TypeInv'
  OBVIOUS
<1>1. block \in BlockView /\ block.step = "send"
  BY DEF TypeInv, TypeOK, SendHeader
<1>2. block.header \in Blocks
  BY <1>1, BlockViewFields
<1>3. seqno' \in [Relayers -> BOOLEAN]
  BY DEF SendHeader, Send, TypeInv, TypeOK
<1> DEFINE T == [block : Blocks, calm : BOOLEAN]
           m == [block |-> block.header, calm |-> calm["block"]]
<1>4. mail' \in Seq(T)
  <2>1. mail \in Seq(T)
    BY DEF TypeInv, TypeOK
  <2>2. calm["block"] \in BOOLEAN
    BY DEF TypeInv, TypeOK, Relayers
  <2>3. m \in T
    BY <1>2, <2>2
  <2>4. mail' = mail \/ mail' = Append(mail, m)
    BY DEF SendHeader
  <2> HIDE DEF T, m
  <2> QED BY <2>1, <2>3, <2>4, AppendToQueue
<1> QED BY <1>3, <1>4 DEF TypeInv, TypeOK, SendHeader, bounds

LEMMA ReadStorageType == TypeInv /\ ReadStorage => TypeInv'
<1> SUFFICES ASSUME TypeInv, ReadStorage PROVE TypeInv'
  OBVIOUS
<1>1. last \in Pegouts
  BY DEF TypeInv, TypeOK, ReadStorage
<1>2. pegout' \in PegoutView
  BY <1>1 DEF ReadStorage, PegoutView
<1>3. calm' \in [Relayers -> BOOLEAN]
  BY DEF ReadStorage, Begin, TypeInv, TypeOK
<1> QED BY <1>2, <1>3 DEF TypeInv, TypeOK, ReadStorage, chains, bounds

LEMMA ReadPegoutBlockType == TypeInv /\ ReadPegoutBlock => TypeInv'
<1> SUFFICES ASSUME TypeInv, ReadPegoutBlock PROVE TypeInv'
  OBVIOUS
<1>1. pegout \in PegoutView
  BY DEF TypeInv, TypeOK, ReadPegoutBlock
<1>2. pegout.pegout \in Pegouts
  BY <1>1, PegoutViewFields
<1>3. Mined(pegout.pegout) \subseteq Blocks
  BY BranchType DEF Mined, TypeInv, TypeOK
<1>4. pegout' \in PegoutView \cup {None}
  BY <1>2, <1>3 DEF ReadPegoutBlock, PegoutView
<1> QED BY <1>4 DEF TypeInv, TypeOK, ReadPegoutBlock, chains, bounds

LEMMA ReadLastConfirmedType == TypeInv /\ ReadLastConfirmed => TypeInv'
<1> SUFFICES ASSUME TypeInv, ReadLastConfirmed PROVE TypeInv'
  OBVIOUS
<1>1. pegout \in PegoutView /\ pegout.step = "confirmed"
  BY DEF TypeInv, TypeOK, ReadLastConfirmed
<1>2. pegout \in [step : {"confirmed", "send"}, pegout : Pegouts, block : Blocks]
  BY <1>1 DEF PegoutView
<1>3. pegout' = None \/ pegout' = [pegout EXCEPT !.step = "send"]
  BY DEF ReadLastConfirmed
<1>4. pegout' \in PegoutView \cup {None}
  BY <1>2, <1>3 DEF PegoutView
<1>5. seqno' \in [Relayers -> BOOLEAN]
  BY DEF ReadLastConfirmed, ReadSeqno, TypeInv, TypeOK
<1> QED BY <1>4, <1>5 DEF TypeInv, TypeOK, ReadLastConfirmed, chains, bounds

LEMMA SendProofType == TypeInv /\ SendProof => TypeInv'
<1> SUFFICES ASSUME TypeInv, SendProof PROVE TypeInv'
  OBVIOUS
<1>1. pegout \in PegoutView /\ pegout.step = "send"
  BY DEF TypeInv, TypeOK, SendProof
<1>2. pegout.pegout \in Pegouts /\ pegout.block \in Blocks
  BY <1>1, PegoutViewFields
<1>3. seqno' \in [Relayers -> BOOLEAN]
  BY DEF SendProof, Send, TypeInv, TypeOK
<1> DEFINE T == [pegout : Pegouts, block : Blocks, calm : BOOLEAN]
           m == [pegout |-> pegout.pegout, block |-> pegout.block, calm |-> calm["pegout"]]
<1>4. proofs' \in Seq(T)
  <2>1. proofs \in Seq(T)
    BY DEF TypeInv, TypeOK
  <2>2. calm["pegout"] \in BOOLEAN
    BY DEF TypeInv, TypeOK, Relayers
  <2>3. m \in T
    BY <1>2, <2>2
  <2>4. proofs' = proofs \/ proofs' = Append(proofs, m)
    BY DEF SendProof
  <2> HIDE DEF T, m
  <2> QED BY <2>1, <2>3, <2>4, AppendToQueue
<1> QED BY <1>3, <1>4 DEF TypeInv, TypeOK, SendProof, bounds

\* The other steps.
LEMMA OtherStepsType ==
  ASSUME TypeInv, (\E p \in Pegouts : NewPegout(p)) \/ CycleFails \/ Restart \/ UNCHANGED vars
  PROVE  TypeInv'
<1>1. CASE \E p \in Pegouts : NewPegout(p)
  BY <1>1, RelayerAssumption DEF TypeInv, TypeOK, NewPegout, bounds
<1>2. CASE CycleFails
  <2>1. losses' \in 0 .. MaxLosses
    BY <1>2, RelayerAssumption DEF CycleFails, TypeInv, TypeOK
  <2> QED BY <1>2, <2>1 DEF TypeInv, TypeOK, CycleFails, chains
<1>3. CASE Restart
  <2>1. restarts' \in 0 .. MaxRestarts
    BY <1>3, RelayerAssumption DEF Restart, TypeInv, TypeOK
  <2>2. seqno' \in [Relayers -> BOOLEAN]
    BY <1>3 DEF Restart
  <2> QED BY <1>3, <2>1, <2>2 DEF TypeInv, TypeOK, Restart, chains
<1>4. CASE UNCHANGED vars
  BY <1>4 DEF TypeInv, TypeOK, vars, chains, bounds
<1> QED BY <1>1, <1>2, <1>3, <1>4

LEMMA NextTypeInv == TypeInv /\ [Next]_vars => TypeInv'
BY MineType, ReorgType, AcceptHeaderType, AcceptProofType, ReadHeightType, ReadConfirmedType,
   ReadRegisteredType, ReadHashType, ChooseHeaderType, SendHeaderType, ReadStorageType,
   ReadPegoutBlockType, ReadLastConfirmedType, SendProofType, OtherStepsType
   DEF Next, RelayBlock, RelayPegout

-----------------------------------------------------------------------------
(* What the node's steps leave in place.                                    *)

LEMMA DeepOnBranch ==
  ASSUME NEW b \in Blocks
  PROVE  Deep(b) \subseteq Branch[b] /\ Deep(b) \subseteq Blocks
BY BranchType DEF Deep

\* However the node goes on, its best block gets no lower and what has the
\* contract's number of confirmations stays.
NodeMoves ==
  /\ tip' \in Blocks
  /\ Height[tip] <= Height[tip']
  /\ \A a \in Branch[tip] : Height[a] + ConfirmationsNeeded <= Height[tip] + 1 => a \in Branch[tip']

\* The new block is above all others of the branch.
LEMMA MineStep ==
  ASSUME TypeOK, Mine
  PROVE  /\ tip' \in Blocks
         /\ Height[tip'] = Height[tip] + 1
         /\ Branch[tip'] = Branch[tip] \cup {tip'}
<1>1. PICK b \in Blocks \ {Genesis} : Parent[b] = tip /\ tip' = b
  BY DEF Mine
<1> QED BY <1>1, HeightStep, BranchStep

\* A reorg leaves what is confirmed deep enough.
LEMMA ReorgMoves ==
  ASSUME TypeOK, Reorg
  PROVE  NodeMoves
<1>1. PICK b \in Blocks :
        /\ Height[b] > Height[tip]
        /\ tip \notin Branch[b]
        /\ Max({Height[a] : a \in Branch[b] \cap Branch[tip]}) > Height[tip] - ConfirmationsNeeded
        /\ tip' = b
  BY DEF Reorg
<1>2. tip \in Blocks /\ Height[tip] \in Nat /\ Height[b] \in Nat /\ ConfirmationsNeeded \in Nat
  BY HeightStep, RelayerAssumption DEF TypeOK
<1> DEFINE M == {Height[a] : a \in Branch[b] \cap Branch[tip]}
<1>3. M \in SUBSET Nat /\ M # {} /\ \A h \in M : h <= Height[tip]
  <2>1. Branch[tip] \subseteq Blocks /\ Genesis \in Branch[b] \cap Branch[tip]
    BY <1>2, BranchType
  <2>2. \A a \in Branch[tip] : Height[a] \in Nat /\ Height[a] <= Height[tip]
    BY <1>2, <2>1, BranchLower, HeightStep
  <2> QED BY <2>1, <2>2
<1>4. Max(M) \in M
  <2> HIDE DEF M
  <2> QED BY <1>2, <1>3, MaxIsMember
<1>5. PICK g \in Branch[b] \cap Branch[tip] : Height[g] > Height[tip] - ConfirmationsNeeded
  BY <1>1, <1>4
<1>6. ASSUME NEW a \in Branch[tip], Height[a] + ConfirmationsNeeded <= Height[tip] + 1
      PROVE  a \in Branch[b]
  <2>1. g \in Blocks /\ a \in Blocks
    BY <1>2, BranchType
  <2>2. Height[a] <= Height[g]
    BY <1>2, <1>5, <1>6, <2>1, HeightStep
  <2>3. a \in Branch[g]
    BY <1>2, <2>2, BranchLine
  <2>4. Branch[g] \subseteq Branch[b]
    BY BranchPart
  <2> QED BY <2>3, <2>4
<1>7. Height[tip] <= Height[b]
  BY <1>1, <1>2
<1> QED BY <1>1, <1>6, <1>7 DEF NodeMoves

\* Only the node's own steps move it.
LEMMA NodeStays ==
  ASSUME [Next]_vars
  PROVE  Mine \/ Reorg \/ tip' = tip
BY DEF Next, NewPegout, AcceptHeader, AcceptProof, RelayBlock, ReadHeight, ReadConfirmed,
       ReadRegistered, ReadHash, ChooseHeader, SendHeader, RelayPegout, ReadStorage,
       ReadPegoutBlock, ReadLastConfirmed, SendProof, CycleFails, Restart, vars, chains

LEMMA NodeStep ==
  ASSUME TypeOK, [Next]_vars
  PROVE  NodeMoves
<1>1. tip \in Blocks /\ Height[tip] \in Nat
  BY HeightStep DEF TypeOK
<1>2. CASE tip' = tip
  BY <1>1, <1>2 DEF NodeMoves
<1>3. CASE Mine
  <2>1. /\ tip' \in Blocks
        /\ Height[tip'] = Height[tip] + 1
        /\ Branch[tip'] = Branch[tip] \cup {tip'}
    BY <1>3, MineStep
  <2> QED BY <1>1, <2>1 DEF NodeMoves
<1> QED BY <1>2, <1>3, ReorgMoves, NodeStays

\* As long as the node does not change the branch, it only grows.
LEMMA BranchGrows ==
  ASSUME TypeOK, [Next]_vars, ~Reorg
  PROVE  Branch[tip] \subseteq Branch[tip']
<1>1. tip' = tip \/ Mine
  BY NodeStays
<1>2. Mine => Branch[tip'] = Branch[tip] \cup {tip'}
  BY MineStep
<1> QED BY <1>1, <1>2

\* What is safe stays so.
LEMMA SafeStays ==
  ASSUME TypeOK, [Next]_vars, NEW b \in Blocks, Safe(b)
  PROVE  Safe(b)'
<1>1. /\ tip' \in Blocks
      /\ Height[tip] <= Height[tip']
      /\ \A a \in Branch[tip] : Height[a] + ConfirmationsNeeded <= Height[tip] + 1 => a \in Branch[tip']
  BY NodeStep DEF NodeMoves
<1>2. Height[tip] \in Nat /\ Height[tip'] \in Nat /\ Height[b] \in Nat /\ ConfirmationsNeeded \in Nat
  BY <1>1, HeightStep, RelayerAssumption DEF TypeOK
<1>3. Height[b] <= Height[tip] /\ Deep(b) \subseteq Branch[tip]
  BY DEF Safe
<1>4. ASSUME NEW a \in Deep(b) PROVE a \in Branch[tip']
  <2>1. a \in Blocks /\ Height[a] + ConfirmationsNeeded <= Height[b] + 1
    BY DeepOnBranch DEF Deep
  <2>2. Height[a] + ConfirmationsNeeded <= Height[tip] + 1
    BY <1>2, <1>3, <2>1, HeightStep
  <2> QED BY <1>1, <1>3, <2>2
<1>5. Height[b] <= Height[tip']
  BY <1>1, <1>2, <1>3
<1>6. Deep(b) \subseteq Branch[tip']
  BY <1>4
<1> QED BY <1>5, <1>6 DEF Safe, Deep

\* Every block of the node's branch is safe.
LEMMA BranchIsSafe ==
  ASSUME tip \in Blocks, NEW a \in Branch[tip]
  PROVE  Safe(a)
<1>1. a \in Blocks /\ Branch[a] \subseteq Branch[tip]
  BY BranchType, BranchPart
<1>2. Height[a] <= Height[tip]
  BY <1>1, BranchLower, HeightStep
<1> QED BY <1>1, <1>2, DeepOnBranch DEF Safe

LEMMA ConfirmedNodeStep ==
  ASSUME TypeOK, ConfirmedInv, [Next]_vars, UNCHANGED confirmed
  PROVE  ConfirmedInv'
<1>1. /\ tip' \in Blocks
      /\ Height[tip] <= Height[tip']
      /\ \A a \in Branch[tip] : Height[a] + ConfirmationsNeeded <= Height[tip] + 1 => a \in Branch[tip']
  BY NodeStep DEF NodeMoves
<1>2. Height[tip] \in Nat /\ Height[tip'] \in Nat /\ Height[confirmed] \in Nat /\ ConfirmationsNeeded \in Nat
  BY <1>1, HeightStep, RelayerAssumption DEF TypeOK
<1>3. confirmed \in Branch[tip']
  BY <1>1, BranchType DEF ConfirmedInv
<1>4. confirmed = Genesis \/ Height[confirmed] + ConfirmationsNeeded <= Height[tip'] + 1
  BY <1>1, <1>2 DEF ConfirmedInv
<1> QED BY <1>3, <1>4 DEF ConfirmedInv

LEMMA CandidatesNodeStep ==
  ASSUME TypeOK, CandidatesInv, [Next]_vars, UNCHANGED <<confirmed, candidates>>
  PROVE  CandidatesInv'
<1>1. ASSUME NEW c \in candidates PROVE Safe(c)'
  <2>1. c \in Blocks /\ Safe(c)
    BY DEF TypeOK, CandidatesInv
  <2> QED BY <2>1, SafeStays
<1> QED BY <1>1 DEF CandidatesInv

-----------------------------------------------------------------------------
(* The contract takes a header.                                             *)

\* A candidate is above the confirmed block.
LEMMA CandidateIsAbove ==
  ASSUME TypeOK, CandidatesInv, NEW c \in candidates
  PROVE  /\ c \in Blocks /\ confirmed \in Branch[c] /\ c # confirmed
         /\ Height[confirmed] < Height[c] /\ Height[c] < Height[confirmed] + ConfirmationsNeeded
         /\ Parent[c] \in candidates \cup {confirmed}
<1>1. c \in Blocks /\ confirmed \in Branch[c] /\ c # confirmed
  BY DEF TypeOK, CandidatesInv
<1>2. Height[confirmed] < Height[c]
  BY <1>1, BranchLower
<1>3. Height[c] < Height[confirmed] + ConfirmationsNeeded /\ Parent[c] \in candidates \cup {confirmed}
  BY DEF CandidatesInv
<1> QED BY <1>1, <1>2, <1>3

\* A header that the contract takes grows out of the confirmed block, and is at
\* most its confirmations above it.
LEMMA TakenHeader ==
  ASSUME TypeInv, CandidatesInv, NEW b \in Blocks,
         b \notin Branch[confirmed] \cup candidates, Parent[b] \in candidates \cup {confirmed}
  PROVE  /\ b # Genesis /\ b # confirmed
         /\ confirmed \in Branch[b]
         /\ Height[b] <= Height[confirmed] + ConfirmationsNeeded
<1>1. confirmed \in Blocks /\ candidates \subseteq Blocks /\ TypeOK
  BY DEF TypeInv, TypeOK
<1>2. Genesis \in Branch[confirmed] /\ confirmed \in Branch[confirmed]
  BY <1>1, BranchType
<1>3. b # Genesis /\ b # confirmed
  BY <1>2
<1>4. Parent[b] \in Blocks /\ Height[b] = Height[Parent[b]] + 1 /\ Branch[b] = Branch[Parent[b]] \cup {b}
  BY <1>3, HeightStep, BranchStep
<1>5. Height[confirmed] \in Nat /\ Height[Parent[b]] \in Nat /\ ConfirmationsNeeded \in Nat /\ ConfirmationsNeeded >= 1
  BY <1>1, <1>4, HeightStep, RelayerAssumption
<1>6. CASE Parent[b] = confirmed
  BY <1>2, <1>3, <1>4, <1>5, <1>6
<1>7. CASE Parent[b] \in candidates
  <2>1. confirmed \in Branch[Parent[b]] /\ Height[Parent[b]] < Height[confirmed] + ConfirmationsNeeded
    BY <1>1, <1>7, CandidateIsAbove
  <2> QED BY <1>3, <1>4, <1>5, <2>1
<1> QED BY <1>6, <1>7

\* With b the block after the confirmed one has its confirmations: it is on the
\* node's branch, and the confirmed block before it.
LEMMA NextIsDeep ==
  ASSUME TypeInv, CandidatesInv, NEW b \in Blocks, Safe(b),
         b \notin Branch[confirmed] \cup candidates, Parent[b] \in candidates \cup {confirmed},
         ~(Height[b] - Height[confirmed] < ConfirmationsNeeded)
  PROVE  /\ NextOf(b) \in Blocks /\ NextOf(b) \in Deep(b) /\ NextOf(b) \in Branch[tip]
         /\ NextOf(b) \in Branch[b]
         /\ Height[NextOf(b)] = Height[confirmed] + 1
         /\ Height[b] = Height[confirmed] + ConfirmationsNeeded
         /\ confirmed \in Branch[NextOf(b)]
         /\ Branch[confirmed] \subseteq Branch[NextOf(b)]
<1>1. confirmed \in Blocks /\ tip \in Blocks
  BY DEF TypeInv, TypeOK
<1>2. /\ b # Genesis /\ b # confirmed
      /\ confirmed \in Branch[b]
      /\ Height[b] <= Height[confirmed] + ConfirmationsNeeded
  BY TakenHeader
<1>3. Height[confirmed] \in Nat /\ Height[b] \in Nat /\ ConfirmationsNeeded \in Nat /\ ConfirmationsNeeded >= 1
  BY <1>1, HeightStep, RelayerAssumption
<1>4. Height[b] = Height[confirmed] + ConfirmationsNeeded
  BY <1>2, <1>3
<1>5. Height[b] - Height[confirmed] >= ConfirmationsNeeded
  BY <1>3, <1>4
<1>6. NextOf(b) \in Blocks /\ NextOf(b) \in Branch[b] /\ Height[NextOf(b)] = Height[confirmed] + 1
  BY <1>1, <1>5, NextIsOnBranch
<1>7. NextOf(b) \in Deep(b)
  BY <1>3, <1>4, <1>6 DEF Deep
<1>8. NextOf(b) \in Branch[tip]
  BY <1>7 DEF Safe
<1>9. confirmed \in Branch[NextOf(b)]
  <2>1. Height[confirmed] <= Height[NextOf(b)]
    BY <1>3, <1>6
  <2> QED BY <1>2, <1>6, <2>1, BranchLine
<1>10. Branch[confirmed] \subseteq Branch[NextOf(b)]
  BY <1>6, <1>9, BranchPart
<1> QED BY <1>4, <1>6, <1>7, <1>8, <1>9, <1>10

\* What the contract knows it still knows after the next block is confirmed,
\* unless it is beside that block.
LEMMA KnownStays ==
  ASSUME TypeOK, CandidatesInv, NEW x \in Blocks, Known(x), NEW n \in Blocks,
         Height[n] = Height[confirmed] + 1, Branch[confirmed] \subseteq Branch[n],
         Height[n] <= Height[x] => n \in Branch[x],
         confirmed' = n, \A c \in candidates : n \in Branch[c] /\ c # n => c \in candidates'
  PROVE  Known(x)'
<1>1. n \in Branch[n] /\ confirmed \in Blocks
  BY BranchType DEF TypeOK
<1>2. CASE x \in Branch[confirmed]
  BY <1>2 DEF Known
<1>3. CASE x \in candidates
  <2>1. Height[confirmed] < Height[x]
    BY <1>3, CandidateIsAbove
  <2>2. Height[n] <= Height[x]
    BY <1>1, <2>1, HeightStep
  <2>3. n \in Branch[x]
    BY <2>2
  <2>4. x = n \/ x \in candidates'
    BY <1>3, <2>3
  <2> QED BY <1>1, <2>4 DEF Known
<1> QED BY <1>2, <1>3 DEF Known

\* AcceptHeader, by what becomes of the header.
AcceptIgnores == UNCHANGED <<confirmed, candidates>>
AcceptAdds(b) ==
  /\ b \notin Branch[confirmed] \cup candidates
  /\ Parent[b] \in candidates \cup {confirmed}
  /\ Height[b] - Height[confirmed] < ConfirmationsNeeded
  /\ candidates' = candidates \cup {b} /\ confirmed' = confirmed
AcceptConfirms(b) ==
  /\ b \notin Branch[confirmed] \cup candidates
  /\ Parent[b] \in candidates \cup {confirmed}
  /\ ~(Height[b] - Height[confirmed] < ConfirmationsNeeded)
  /\ confirmed' = NextOf(b)
  /\ candidates' = {c \in candidates \cup {b} : NextOf(b) \in Branch[c]} \ {NextOf(b)}

LEMMA AcceptStep ==
  ASSUME TypeInv, MailIsSafe, AcceptHeader
  PROVE  /\ mail \in Seq([block : Blocks, calm : BOOLEAN]) /\ mail # <<>> /\ mail' = Tail(mail)
         /\ tip' = tip
         /\ \E b \in Blocks : /\ b = mail[1].block /\ Safe(b)
                              /\ AcceptIgnores \/ AcceptAdds(b) \/ AcceptConfirms(b)
<1> DEFINE T == [block : Blocks, calm : BOOLEAN]
<1>1. mail \in Seq(T) /\ mail # <<>> /\ mail' = Tail(mail) /\ tip' = tip
  BY DEF AcceptHeader, TypeInv, TypeOK
<1>2. Head(mail) \in T /\ Head(mail) = mail[1] /\ 1 \in DOMAIN mail
  <2> HIDE DEF T
  <2> QED BY <1>1, TailOfQueue
<1>3. PICK b : b = Head(mail).block
  OBVIOUS
<1>4. b \in Blocks /\ b = mail[1].block
  BY <1>2, <1>3
<1>5. Safe(b)
  BY <1>2, <1>4 DEF MailIsSafe
<1>6. AcceptIgnores \/ AcceptAdds(b) \/ AcceptConfirms(b)
  <2>1. \/ UNCHANGED <<confirmed, candidates>> /\ (b \in Branch[confirmed] \cup candidates \/ Parent[b] \notin candidates \cup {confirmed})
        \/ /\ b \notin Branch[confirmed] \cup candidates
           /\ Parent[b] \in candidates \cup {confirmed}
           /\ Height[b] - Height[confirmed] < ConfirmationsNeeded
           /\ candidates' = candidates \cup {b} /\ confirmed' = confirmed
        \/ /\ b \notin Branch[confirmed] \cup candidates
           /\ Parent[b] \in candidates \cup {confirmed}
           /\ ~(Height[b] - Height[confirmed] < ConfirmationsNeeded)
           /\ confirmed' = NextOf(b)
           /\ candidates' = {c \in candidates \cup {b} : NextOf(b) \in Branch[c]} \ {NextOf(b)}
    BY <1>3, AcceptCases
  <2> QED BY <2>1, Zenon DEF AcceptIgnores, AcceptAdds, AcceptConfirms
<1> QED BY <1>1, <1>4, <1>5, <1>6

\* The confirmed block only moves up its branch.
LEMMA ConfirmedGrows ==
  ASSUME TypeInv, CandidatesInv, MailIsSafe, AcceptHeader
  PROVE  Branch[confirmed] \subseteq Branch[confirmed'] /\ Height[confirmed] <= Height[confirmed']
<1>1. PICK b \in Blocks : /\ b = mail[1].block /\ Safe(b)
                          /\ AcceptIgnores \/ AcceptAdds(b) \/ AcceptConfirms(b)
  BY AcceptStep
<1>2. Height[confirmed] \in Nat
  BY HeightStep DEF TypeInv, TypeOK
<1>3. CASE confirmed' = confirmed
  BY <1>2, <1>3
<1>4. CASE AcceptConfirms(b)
  <2>1. Branch[confirmed] \subseteq Branch[NextOf(b)] /\ Height[NextOf(b)] = Height[confirmed] + 1
    BY <1>1, <1>4, NextIsDeep DEF AcceptConfirms
  <2>2. confirmed' = NextOf(b)
    BY <1>4 DEF AcceptConfirms
  <2> QED BY <1>2, <2>1, <2>2
<1> QED BY <1>1, <1>3, <1>4 DEF AcceptIgnores, AcceptAdds

\* What the contract knows stays known when a header arrives, unless that header
\* confirms a block beside it.
LEMMA KnownAfterAccept ==
  ASSUME TypeInv, CandidatesInv, MailIsSafe, AcceptHeader, NEW x \in Blocks, Known(x),
         \A a \in Deep(mail[1].block) : Height[a] <= Height[x] => a \in Branch[x]
  PROVE  Known(x)'
<1>1. PICK b \in Blocks : /\ b = mail[1].block /\ Safe(b)
                          /\ AcceptIgnores \/ AcceptAdds(b) \/ AcceptConfirms(b)
  BY AcceptStep
<1>2. CASE AcceptIgnores
  BY <1>2 DEF AcceptIgnores, Known
<1>3. CASE AcceptAdds(b)
  BY <1>3 DEF AcceptAdds, Known
<1>4. CASE AcceptConfirms(b)
  <2>1. PICK n : n = NextOf(b)
    OBVIOUS
  <2>2. /\ n \in Blocks /\ n \in Deep(b) /\ Height[n] = Height[confirmed] + 1
        /\ Branch[confirmed] \subseteq Branch[n]
    BY <1>1, <1>4, <2>1, NextIsDeep DEF AcceptConfirms
  <2>3. Height[n] <= Height[x] => n \in Branch[x]
    BY <1>1, <2>2
  <2>4. confirmed' = n
    BY <1>4, <2>1 DEF AcceptConfirms
  <2>5. \A c \in candidates : n \in Branch[c] /\ c # n => c \in candidates'
    BY <1>4, <2>1 DEF AcceptConfirms
  <2>6. TypeOK
    BY DEF TypeInv
  <2> QED BY <2>2, <2>3, <2>4, <2>5, <2>6, KnownStays
<1> QED BY <1>1, <1>2, <1>3, <1>4

LEMMA AcceptConfirmed ==
  ASSUME TypeInv, ChainInv, AcceptHeader
  PROVE  ConfirmedInv'
<1> USE DEF ChainInv
<1>1. PICK b \in Blocks : /\ b = mail[1].block /\ Safe(b)
                          /\ AcceptIgnores \/ AcceptAdds(b) \/ AcceptConfirms(b)
  BY AcceptStep
<1>2. tip' = tip
  BY AcceptStep
<1>3. CASE confirmed' = confirmed
  BY <1>2, <1>3 DEF ConfirmedInv
<1>4. CASE AcceptConfirms(b)
  <2>1. PICK n : n = NextOf(b)
    OBVIOUS
  <2>2. /\ n \in Branch[tip] /\ Height[n] = Height[confirmed] + 1
        /\ Height[b] = Height[confirmed] + ConfirmationsNeeded
    BY <1>1, <1>4, <2>1, NextIsDeep DEF AcceptConfirms
  <2>3. Height[b] <= Height[tip]
    BY <1>1 DEF Safe
  <2>4. Height[confirmed] \in Nat /\ Height[tip] \in Nat /\ ConfirmationsNeeded \in Nat
    BY HeightStep, RelayerAssumption DEF TypeInv, TypeOK
  <2>5. Height[n] + ConfirmationsNeeded <= Height[tip] + 1
    BY <2>2, <2>3, <2>4
  <2>6. confirmed' = n
    BY <1>4, <2>1 DEF AcceptConfirms
  <2> QED BY <1>2, <2>2, <2>5, <2>6 DEF ConfirmedInv
<1> QED BY <1>1, <1>3, <1>4 DEF AcceptIgnores, AcceptAdds

LEMMA AcceptCandidates ==
  ASSUME TypeInv, ChainInv, AcceptHeader
  PROVE  CandidatesInv'
<1> USE DEF ChainInv
<1>1. PICK b \in Blocks : /\ b = mail[1].block /\ Safe(b)
                          /\ AcceptIgnores \/ AcceptAdds(b) \/ AcceptConfirms(b)
  BY AcceptStep
<1>2. tip' = tip /\ TypeOK /\ confirmed \in Blocks
  BY AcceptStep DEF TypeInv, TypeOK
<1>3. \A c : Safe(c) => Safe(c)'
  BY <1>2 DEF Safe, Deep
<1>4. \A c \in candidates : Safe(c)
  BY DEF CandidatesInv
<1>5. CASE AcceptIgnores
  BY <1>3, <1>5 DEF AcceptIgnores, CandidatesInv
<1>6. CASE AcceptAdds(b)
  <2>1. /\ b # Genesis /\ b # confirmed
        /\ confirmed \in Branch[b]
        /\ Height[b] <= Height[confirmed] + ConfirmationsNeeded
    BY <1>6, TakenHeader DEF AcceptAdds
  <2>2. Height[b] < Height[confirmed] + ConfirmationsNeeded
    BY <1>2, <1>6, HeightStep, RelayerAssumption DEF AcceptAdds
  <2>3. candidates' = candidates \cup {b} /\ confirmed' = confirmed /\ Parent[b] \in candidates \cup {confirmed}
    BY <1>6 DEF AcceptAdds
  <2> QED BY <1>1, <1>3, <2>1, <2>2, <2>3 DEF CandidatesInv
<1>7. CASE AcceptConfirms(b)
  <2>1. PICK n : n = NextOf(b)
    OBVIOUS
  <2>2. /\ n \in Blocks /\ Height[n] = Height[confirmed] + 1
        /\ Height[b] = Height[confirmed] + ConfirmationsNeeded
    BY <1>1, <1>7, <2>1, NextIsDeep DEF AcceptConfirms
  <2>3. confirmed' = n /\ candidates' = {c \in candidates \cup {b} : n \in Branch[c]} \ {n}
    BY <1>7, <2>1 DEF AcceptConfirms
  <2>4. b # Genesis
    BY <1>7, TakenHeader DEF AcceptConfirms
  <2>5. Height[confirmed] \in Nat /\ ConfirmationsNeeded \in Nat
    BY <1>2, HeightStep, RelayerAssumption
  <2>6. ASSUME NEW c \in candidates'
        PROVE  /\ Safe(c)'
               /\ n \in Branch[c] /\ c # n
               /\ Parent[c] \in candidates' \cup {n}
               /\ Height[c] < Height[n] + ConfirmationsNeeded
    <3>1. c \in candidates \cup {b} /\ n \in Branch[c] /\ c # n
      BY <2>3
    <3>2. c \in Blocks /\ c # Genesis /\ Height[c] \in Nat
      BY <1>2, <2>4, <3>1, HeightStep DEF TypeInv, TypeOK
    <3>3. Safe(c)'
      BY <1>1, <1>3, <1>4, <3>1
    <3>4. Height[c] <= Height[confirmed] + ConfirmationsNeeded
      <4>1. c \in candidates => Height[c] < Height[confirmed] + ConfirmationsNeeded
        BY DEF CandidatesInv
      <4> QED BY <2>2, <2>5, <3>1, <3>2, <4>1
    <3>5. Height[c] < Height[n] + ConfirmationsNeeded
      BY <2>2, <2>5, <3>2, <3>4
    <3>6. Parent[c] \in candidates \cup {confirmed}
      BY <1>7, <3>1 DEF AcceptConfirms, CandidatesInv
    <3>7. n \in Branch[Parent[c]]
      BY <3>1, <3>2, BranchStep
    <3>8. Parent[c] # confirmed
      <4>1. n \notin Branch[confirmed]
        BY <1>2, <2>2, <2>5, BranchLower
      <4> QED BY <3>7, <4>1
    <3>9. Parent[c] \in candidates' \cup {n}
      BY <2>3, <3>6, <3>7, <3>8
    <3> QED BY <3>1, <3>3, <3>5, <3>9
  <2> QED BY <2>3, <2>6 DEF CandidatesInv
<1> QED BY <1>1, <1>5, <1>6, <1>7

\* What is under way stays safe: headers that arrive leave the queue.
LEMMA AcceptMailIsSafe ==
  ASSUME TypeInv, ChainInv, AcceptHeader
  PROVE  MailIsSafe'
<1> DEFINE T == [block : Blocks, calm : BOOLEAN]
<1>1. mail \in Seq(T) /\ mail # <<>> /\ mail' = Tail(mail) /\ tip' = tip
  BY AcceptStep DEF ChainInv
<1>2. \A i \in DOMAIN Tail(mail) : i + 1 \in DOMAIN mail /\ Tail(mail)[i] = mail[i + 1] /\ i \in Nat \ {0}
  <2> HIDE DEF T
  <2> QED BY <1>1, TailOfQueue
<1>3. ASSUME NEW i \in DOMAIN mail' PROVE Safe(mail[i].block)'
  <2>1. i + 1 \in DOMAIN mail /\ mail'[i] = mail[i + 1]
    BY <1>1, <1>2
  <2>2. Safe(mail[i + 1].block)
    BY <2>1 DEF ChainInv, MailIsSafe
  <2>3. PICK c : c = mail[i + 1].block
    OBVIOUS
  <2>4. Safe(c)'
    BY <1>1, <2>2, <2>3 DEF Safe, Deep
  <2>5. mail'[i].block = c
    BY <2>1, <2>3
  <2> QED BY <2>4, <2>5 DEF Safe, Deep
<1> QED BY <1>3 DEF MailIsSafe

LEMMA AcceptMailInv ==
  ASSUME TypeInv, ChainInv, MailInv, AcceptHeader
  PROVE  MailInv'
<1> DEFINE T == [block : Blocks, calm : BOOLEAN]
<1>1. mail \in Seq(T) /\ mail # <<>> /\ mail' = Tail(mail) /\ tip' = tip
  BY AcceptStep DEF ChainInv
<1>2. \A i \in DOMAIN Tail(mail) : i + 1 \in DOMAIN mail /\ Tail(mail)[i] = mail[i + 1] /\ i \in Nat \ {0}
  <2> HIDE DEF T
  <2> QED BY <1>1, TailOfQueue
<1>3. 1 \in DOMAIN mail /\ \A k \in DOMAIN mail : mail[k].block \in Blocks
  <2>1. \A k \in DOMAIN mail : mail[k] \in T
    <3> HIDE DEF T
    <3> QED BY <1>1
  <2>2. 1 \in DOMAIN mail
    <3> HIDE DEF T
    <3> QED BY <1>1, TailOfQueue
  <2> QED BY <2>1, <2>2
<1>4. ASSUME NEW j \in DOMAIN mail', mail'[j].calm,
             NEW c, c = mail'[j].block
      PROVE  /\ Follows(c)'
             /\ \A i \in 1 .. j - 1 : \A a \in Deep(mail'[i].block) :
                  Height[a] <= Height[c] => a \in Branch[c]
  <2>1. j \in Nat \ {0} /\ j + 1 \in DOMAIN mail /\ mail'[j] = mail[j + 1]
    BY <1>1, <1>2
  <2>2. /\ Follows(mail[j + 1].block)
        /\ \A i \in 1 .. (j + 1) - 1 : \A a \in Deep(mail[i].block) :
             Height[a] <= Height[mail[j + 1].block] => a \in Branch[mail[j + 1].block]
    BY <1>4, <2>1 DEF MailInv
  <2>3. c = mail[j + 1].block /\ c \in Blocks
    <3>1. mail[j + 1].block \in Blocks
      BY <1>3, <2>1
    <3> QED BY <1>4, <2>1, <3>1
  <2>4. /\ Follows(c)
        /\ \A i \in 1 .. j : \A a \in Deep(mail[i].block) : Height[a] <= Height[c] => a \in Branch[c]
    BY <2>1, <2>2, <2>3
  <2>5. Follows(c)'
    <3>1. CASE c = Genesis
      BY <3>1 DEF Follows
    <3>2. CASE c # Genesis
      <4>1. PICK x : x = Parent[c]
        OBVIOUS
      <4>2. x \in Blocks /\ Known(x) /\ x \in Branch[c] /\ Height[c] = Height[x] + 1
        <5>1. x \in Blocks /\ Height[c] = Height[x] + 1
          BY <2>3, <3>2, <4>1, HeightStep
        <5>2. x \in Branch[c]
          BY <2>3, <3>2, <4>1, BranchBefore, BranchType
        <5> QED BY <2>4, <3>2, <4>1, <5>1, <5>2 DEF Follows
      <4>3. ASSUME NEW a \in Deep(mail[1].block), Height[a] <= Height[x] PROVE a \in Branch[x]
        <5>1. 1 \in DOMAIN mail /\ mail[1].block \in Blocks /\ 1 \in 1 .. j
          BY <1>3, <2>1
        <5>2. a \in Blocks
          BY <5>1, DeepOnBranch
        <5>3. Height[a] <= Height[c]
          BY <4>2, <4>3, <5>2, <2>3, HeightStep
        <5>4. a \in Branch[c]
          BY <2>4, <5>1, <5>3
        <5> QED BY <2>3, <4>2, <4>3, <5>4, BranchLine
      <4>4. Known(x)'
        BY <4>2, <4>3, KnownAfterAccept DEF ChainInv
      <4> QED BY <3>2, <4>1, <4>4 DEF Follows
    <3> QED BY <3>1, <3>2
  <2>6. ASSUME NEW i \in 1 .. j - 1, NEW a \in Deep(mail'[i].block), Height[a] <= Height[c]
        PROVE  a \in Branch[c]
    <3>1. i \in DOMAIN mail'
      BY <1>1, <2>1
    <3>2. mail'[i] = mail[i + 1] /\ i + 1 \in 1 .. j
      BY <1>1, <1>2, <2>1, <3>1
    <3> QED BY <2>4, <2>6, <3>2
  <2> QED BY <2>5, <2>6
<1>5. \A j \in DOMAIN mail' : mail'[j].calm =>
        /\ Follows(mail[j].block)'
        /\ \A i \in 1 .. j - 1 : \A a \in Deep(mail'[i].block) :
             Height[a] <= Height[mail'[j].block] => a \in Branch[mail'[j].block]
  BY <1>4 DEF Follows, Known
<1> QED BY <1>5 DEF MailInv, Deep

\* What the block relayer has read of the contract is still known there.
LEMMA KnownOnBranchStays ==
  ASSUME TypeInv, ChainInv, AcceptHeader, NEW x \in Branch[tip], Known(x)
  PROVE  Known(x)'
<1>1. PICK b \in Blocks : b = mail[1].block /\ Safe(b)
  BY AcceptStep DEF ChainInv
<1>2. tip \in Blocks /\ x \in Blocks
  BY BranchType DEF TypeInv, TypeOK
<1>3. ASSUME NEW a \in Deep(mail[1].block), Height[a] <= Height[x] PROVE a \in Branch[x]
  <2>1. a \in Branch[tip]
    BY <1>1 DEF Safe
  <2> QED BY <1>2, <1>3, <2>1, BranchLine
<1> QED BY <1>2, <1>3, KnownAfterAccept DEF ChainInv

LEMMA AcceptReadsInv ==
  ASSUME TypeInv, ChainInv, ReadsInv, AcceptHeader
  PROVE  ReadsInv'
<1>1. tip' = tip /\ block' = block /\ calm' = calm /\ tip \in Blocks
  BY DEF AcceptHeader, TypeInv, TypeOK
<1>2. \A c : Safe(c) => Safe(c)'
  BY <1>1 DEF Safe, Deep
<1>3. \A x \in Branch[tip] : Known(x) => Known(x)'
  BY KnownOnBranchStays
<1>4. WindowInv'
  <2>1. ASSUME block # None, block.step \in {"registered", "hashes"}
        PROVE  block.from <= Height[confirmed']
    <3>1. block \in BlockView
      BY <2>1 DEF TypeInv, TypeOK
    <3>2. block.from \in Nat
      BY <2>1, <3>1, BlockViewFields
    <3>3. block.from <= Height[confirmed]
      BY <2>1 DEF ReadsInv, WindowInv
    <3>4. TypeInv'
      BY AcceptHeaderType
    <3>5. Height[confirmed] \in Nat /\ Height[confirmed'] \in Nat
      BY <3>4, HeightStep DEF TypeInv, TypeOK
    <3>6. Height[confirmed] <= Height[confirmed']
      BY ConfirmedGrows DEF ChainInv
    <3> QED BY <3>2, <3>3, <3>5, <3>6
  <2> QED BY <1>1, <2>1 DEF WindowInv
<1>5. HashesInv'
  <2>1. ASSUME block # None, block.step = "hashes"
        PROVE  /\ \A k \in DOMAIN block.hashes : Safe(block.hashes[k])
               /\ \A x \in block.registered : Height[x] <= Height[tip]
               /\ calm["block"] =>
                    /\ \A k \in DOMAIN block.hashes :
                         block.hashes[k] \in Branch[tip] /\ Height[block.hashes[k]] = block.from + k
                    /\ \A x \in block.registered \cap Branch[tip] : Known(x)
    BY <2>1 DEF ReadsInv, HashesInv
  <2>2. ASSUME block # None, block.step = "hashes", NEW k \in DOMAIN block.hashes
        PROVE  Safe(block.hashes[k])'
    <3>1. Safe(block.hashes[k])
      BY <2>1, <2>2
    <3> QED BY <1>1, <3>1 DEF Safe, Deep
  <2>3. ASSUME block # None, block.step = "hashes", calm["block"],
               NEW x \in block.registered \cap Branch[tip]
        PROVE  Known(x)'
    <3>1. Known(x)
      BY <2>1, <2>3
    <3> QED BY <1>3, <3>1
  <2> QED BY <1>1, <2>1, <2>2, <2>3 DEF HashesInv
<1>6. HeaderInv'
  <2>1. ASSUME block # None, block.step = "send" PROVE Safe(block.header)'
    <3>1. Safe(block.header)
      BY <2>1 DEF ReadsInv, HeaderInv
    <3> QED BY <1>1, <3>1 DEF Safe, Deep
  <2>2. ASSUME block # None, block.step = "send", calm["block"]
        PROVE  block.header \in Branch[tip] /\ (block.header = Genesis \/ Known(Parent[block.header])')
    <3>1. block.header \in Branch[tip] /\ Follows(block.header)
      BY <2>2 DEF ReadsInv, HeaderInv
    <3>2. CASE block.header = Genesis
      BY <3>1, <3>2
    <3>3. CASE block.header # Genesis
      <4>1. PICK x : x = Parent[block.header]
        OBVIOUS
      <4>2. x \in Branch[tip] /\ Known(x)
        BY <1>1, <3>1, <3>3, <4>1, BranchBefore DEF Follows
      <4>3. Known(x)'
        BY <1>3, <4>2
      <4>4. x \in Branch[confirmed'] \cup candidates'
        BY <4>3 DEF Known
      <4>5. Known(Parent[block.header])'
        BY <1>1, <4>1, <4>4 DEF Known
      <4> QED BY <3>1, <4>5
    <3> QED BY <3>2, <3>3
  <2> QED BY <1>1, <2>1, <2>2 DEF HeaderInv, Follows
<1> QED BY <1>4, <1>5, <1>6 DEF ReadsInv

LEMMA AcceptPegoutInv ==
  ASSUME TypeInv, ChainInv, PegoutInv, AcceptHeader
  PROVE  PegoutInv'
<1>1. tip' = tip /\ pegout' = pegout /\ calm' = calm
  BY DEF AcceptHeader
<1>2. Branch[confirmed] \subseteq Branch[confirmed']
  BY ConfirmedGrows DEF ChainInv
<1> QED BY <1>1, <1>2 DEF PegoutInv

LEMMA AcceptProofsAreConfirmed ==
  ASSUME TypeInv, ChainInv, ProofsAreConfirmed, AcceptHeader
  PROVE  ProofsAreConfirmed'
<1>1. proofs' = proofs
  BY DEF AcceptHeader
<1>2. Branch[confirmed] \subseteq Branch[confirmed']
  BY ConfirmedGrows DEF ChainInv
<1> QED BY <1>1, <1>2 DEF ProofsAreConfirmed

-----------------------------------------------------------------------------
(* The steps of the node and of the other parts, for each part of the       *)
(* invariant.                                                               *)

\* Who writes what.
LEMMA ContractStays ==
  ASSUME [Next]_vars, ~AcceptHeader
  PROVE  UNCHANGED <<confirmed, candidates>>
BY DEF Next, Mine, Reorg, NewPegout, AcceptProof, RelayBlock, ReadHeight, ReadConfirmed,
       ReadRegistered, ReadHash, ChooseHeader, SendHeader, RelayPegout, ReadStorage,
       ReadPegoutBlock, ReadLastConfirmed, SendProof, CycleFails, Restart, vars, chains

LEMMA MailStays ==
  ASSUME [Next]_vars, ~AcceptHeader, ~SendHeader
  PROVE  mail' = mail
BY DEF Next, Mine, Reorg, NewPegout, AcceptProof, RelayBlock, ReadHeight, ReadConfirmed,
       ReadRegistered, ReadHash, ChooseHeader, RelayPegout, ReadStorage,
       ReadPegoutBlock, ReadLastConfirmed, SendProof, CycleFails, Restart, vars, chains

LEMMA ProofsStay ==
  ASSUME [Next]_vars, ~AcceptProof, ~SendProof
  PROVE  proofs' = proofs
BY DEF Next, Mine, Reorg, NewPegout, AcceptHeader, RelayBlock, ReadHeight, ReadConfirmed,
       ReadRegistered, ReadHash, ChooseHeader, SendHeader, RelayPegout, ReadStorage,
       ReadPegoutBlock, ReadLastConfirmed, CycleFails, Restart, vars, chains

LEMMA BlockStays ==
  ASSUME [Next]_vars, ~ReadHeight, ~ReadConfirmed, ~ReadRegistered, ~ReadHash, ~ChooseHeader
  PROVE  block' = block \/ block' = None
BY DEF Next, Mine, Reorg, NewPegout, AcceptHeader, AcceptProof, RelayBlock, SendHeader,
       RelayPegout, ReadStorage, ReadPegoutBlock, ReadLastConfirmed, SendProof, CycleFails,
       Restart, vars

LEMMA PegoutStays ==
  ASSUME [Next]_vars, ~ReadStorage, ~ReadPegoutBlock, ~ReadLastConfirmed
  PROVE  pegout' = pegout \/ pegout' = None
BY DEF Next, Mine, Reorg, NewPegout, AcceptHeader, AcceptProof, RelayBlock, ReadHeight,
       ReadConfirmed, ReadRegistered, ReadHash, ChooseHeader, SendHeader,
       RelayPegout, SendProof, CycleFails, Restart, vars

\* Only a cycle that begins is calm again, and a reorg ends the calm of both.
LEMMA CalmStays ==
  ASSUME TypeOK, [Next]_vars
  PROVE  /\ calm'["block"] => ~Reorg /\ (calm["block"] \/ ReadHeight)
         /\ calm'["pegout"] => ~Reorg /\ (calm["pegout"] \/ ReadStorage)
<1>1. calm \in [Relayers -> BOOLEAN] /\ "block" \in Relayers /\ "pegout" \in Relayers
  BY DEF TypeOK, Relayers
<1>2. Reorg => ~calm'["block"] /\ ~calm'["pegout"]
  BY <1>1 DEF Reorg
<1>3. ReadHeight => calm'["pegout"] = calm["pegout"]
  BY <1>1 DEF ReadHeight, Begin
<1>4. ReadStorage => calm'["block"] = calm["block"]
  BY <1>1 DEF ReadStorage, Begin
<1>5. calm' = calm \/ Reorg \/ ReadHeight \/ ReadStorage
  BY DEF Next, Mine, NewPegout, AcceptHeader, AcceptProof, RelayBlock,
         ReadConfirmed, ReadRegistered, ReadHash, ChooseHeader, SendHeader,
         RelayPegout, ReadPegoutBlock, ReadLastConfirmed, SendProof, CycleFails, Restart, vars
<1> QED BY <1>2, <1>3, <1>4, <1>5

\* Without a reorg, what is on the node's branch and no higher than its best block
\* was there before.
LEMMA BranchWasThere ==
  ASSUME TypeOK, [Next]_vars, ~Reorg, NEW x \in Branch[tip'], Height[x] <= Height[tip]
  PROVE  x \in Branch[tip]
<1>1. CASE tip' = tip
  BY <1>1
<1>2. CASE Mine
  <2>1. /\ tip' \in Blocks
        /\ Height[tip'] = Height[tip] + 1
        /\ Branch[tip'] = Branch[tip] \cup {tip'}
    BY <1>2, MineStep
  <2>2. Height[tip] \in Nat
    BY HeightStep DEF TypeOK
  <2> QED BY <2>1, <2>2
<1> QED BY <1>1, <1>2, NodeStays

\* What the block relayer has read stays true of both chains until it goes on.
LEMMA ReadsStay ==
  ASSUME TypeInv, ReadsInv, [Next]_vars, ~AcceptHeader, block' = block \/ block' = None
  PROVE  ReadsInv'
<1>1. UNCHANGED <<confirmed, candidates>> /\ TypeOK
  BY ContractStays DEF TypeInv
<1>2. CASE block' = None
  BY <1>2 DEF ReadsInv, WindowInv, HashesInv, HeaderInv
<1>3. CASE block' = block /\ block # None
  <2>1. calm'["block"] => ~Reorg /\ calm["block"]
    <3>1. ~ReadHeight
      BY <1>3 DEF ReadHeight
    <3> QED BY <1>1, <3>1, CalmStays
  <2>2. calm'["block"] => Branch[tip] \subseteq Branch[tip']
    BY <1>1, <2>1, BranchGrows
  <2>3. block \in BlockView
    BY <1>3 DEF TypeInv, TypeOK
  <2>4. WindowInv'
    BY <1>1, <1>3 DEF ReadsInv, WindowInv
  <2>5. HashesInv'
    <3>1. ASSUME block.step = "hashes"
          PROVE  /\ \A k \in DOMAIN block.hashes : Safe(block.hashes[k])
                 /\ \A x \in block.registered : Height[x] <= Height[tip]
                 /\ calm["block"] =>
                      /\ \A k \in DOMAIN block.hashes :
                           block.hashes[k] \in Branch[tip] /\ Height[block.hashes[k]] = block.from + k
                      /\ \A x \in block.registered \cap Branch[tip] : Known(x)
      BY <1>3, <3>1 DEF ReadsInv, HashesInv
    <3>2. ASSUME block.step = "hashes", NEW k \in DOMAIN block.hashes
          PROVE  Safe(block.hashes[k])'
      <4>1. PICK c : c = block.hashes[k]
        OBVIOUS
      <4>2. c \in Blocks
        BY <2>3, <3>2, <4>1, BlockViewFields
      <4>3. Safe(c)
        BY <3>1, <3>2, <4>1
      <4>4. Safe(c)'
        BY <1>1, <4>2, <4>3, SafeStays
      <4> QED BY <1>3, <4>1, <4>4 DEF Safe, Deep
    <3>3. ASSUME block.step = "hashes", NEW x \in block.registered
          PROVE  Height[x] <= Height[tip']
      <4>1. x \in Blocks
        BY <2>3, <3>3, BlockViewFields
      <4>2. Height[tip] <= Height[tip'] /\ tip' \in Blocks /\ tip \in Blocks
        BY <1>1, NodeStep DEF NodeMoves, TypeOK
      <4>3. Height[x] <= Height[tip]
        BY <3>1, <3>3
      <4>4. Height[x] \in Nat /\ Height[tip] \in Nat /\ Height[tip'] \in Nat
        BY <4>1, <4>2, HeightStep
      <4> QED BY <4>2, <4>3, <4>4
    <3>4. ASSUME block.step = "hashes", calm'["block"], NEW x \in block.registered \cap Branch[tip']
          PROVE  Known(x)'
      <4>1. x \in Branch[tip]
        BY <1>1, <2>1, <3>1, <3>4, BranchWasThere
      <4>2. Known(x)
        BY <2>1, <3>1, <3>4, <4>1
      <4> QED BY <1>1, <4>2 DEF Known
    <3>5. ASSUME block.step = "hashes", calm'["block"], NEW k \in DOMAIN block.hashes
          PROVE  block.hashes[k] \in Branch[tip'] /\ Height[block.hashes[k]] = block.from + k
      BY <2>1, <2>2, <3>1, <3>5
    <3> QED BY <1>3, <3>2, <3>3, <3>4, <3>5 DEF HashesInv
  <2>6. HeaderInv'
    <3>1. ASSUME block.step = "send"
          PROVE  Safe(block.header)'
      <4>1. PICK c : c = block.header
        OBVIOUS
      <4>2. c \in Blocks
        BY <2>3, <3>1, <4>1, BlockViewFields
      <4>3. Safe(c)
        BY <1>3, <3>1, <4>1 DEF ReadsInv, HeaderInv
      <4>4. Safe(c)'
        BY <1>1, <4>2, <4>3, SafeStays
      <4> QED BY <1>3, <4>1, <4>4 DEF Safe, Deep
    <3>2. ASSUME block.step = "send", calm'["block"]
          PROVE  block.header \in Branch[tip'] /\ Follows(block.header)'
      <4>1. block.header \in Branch[tip] /\ Follows(block.header)
        BY <1>3, <2>1, <3>2 DEF ReadsInv, HeaderInv
      <4>2. block.header \in Branch[tip']
        BY <2>2, <3>2, <4>1
      <4>3. Follows(block.header)'
        BY <1>1, <1>3, <4>1 DEF Follows, Known
      <4> QED BY <4>2, <4>3
    <3> QED BY <1>3, <3>1, <3>2 DEF HeaderInv
  <2> QED BY <2>4, <2>5, <2>6 DEF ReadsInv
<1> QED BY <1>2, <1>3

LEMMA ReadHeightReads == TypeInv /\ ReadHeight => ReadsInv'
<1> SUFFICES ASSUME TypeInv, ReadHeight PROVE ReadsInv'
  OBVIOUS
<1>1. block'.step = "confirmed"
  BY DEF ReadHeight
<1> QED BY <1>1 DEF ReadsInv, WindowInv, HashesInv, HeaderInv

LEMMA ReadConfirmedReads == TypeInv /\ ReadConfirmed => ReadsInv'
<1> SUFFICES ASSUME TypeInv, ReadConfirmed PROVE ReadsInv'
  OBVIOUS
<1>1. block' = None \/ (block'.step = "registered" /\ block'.from = Height[confirmed])
  BY DEF ReadConfirmed
<1>2. confirmed' = confirmed /\ Height[confirmed] \in Nat
  BY HeightStep DEF ReadConfirmed, chains, TypeInv, TypeOK
<1> QED BY <1>1, <1>2 DEF ReadsInv, WindowInv, HashesInv, HeaderInv

\* What is registered the contract knows.
LEMMA ReadRegisteredReads == TypeInv /\ ChainInv /\ ReadsInv /\ ReadRegistered => ReadsInv'
<1> SUFFICES ASSUME TypeInv, ChainInv, ReadsInv, ReadRegistered PROVE ReadsInv'
  OBVIOUS
<1>1. /\ block'.step = "hashes" /\ block'.from = block.from
      /\ block'.registered = Registered /\ block'.hashes = <<>>
      /\ UNCHANGED <<tip, confirmed, candidates>>
  BY DEF ReadRegistered, chains
<1>2. block.from <= Height[confirmed]
  BY DEF ReadsInv, WindowInv, ReadRegistered
<1>3. Registered \subseteq candidates \cup {confirmed}
  BY DEF Registered, Leaves, ChainInv, CandidatesInv
<1>4. tip \in Blocks /\ confirmed \in Blocks
  BY DEF TypeInv, TypeOK
<1>5. ASSUME NEW x \in Registered PROVE Height[x] <= Height[tip] /\ Known(x)
  <2>1. Known(x)
    BY <1>3, <1>4, BranchType DEF Known
  <2>2. Safe(x)
    BY <1>3, <1>4, BranchIsSafe DEF ChainInv, ConfirmedInv, CandidatesInv
  <2> QED BY <2>1, <2>2 DEF Safe
<1>6. DOMAIN block'.hashes = {}
  BY <1>1
<1>7. \A x : Known(x) => Known(x)'
  BY <1>1 DEF Known
<1> QED BY <1>1, <1>2, <1>5, <1>6, <1>7 DEF ReadsInv, WindowInv, HashesInv, HeaderInv

\* One hash more, of the node's branch.
LEMMA ReadHashReads == TypeInv /\ ReadsInv /\ ReadHash => ReadsInv'
<1> SUFFICES ASSUME TypeInv, ReadsInv, ReadHash PROVE ReadsInv'
  OBVIOUS
<1>1. UNCHANGED <<tip, confirmed, candidates, calm>> /\ TypeOK /\ tip \in Blocks
  BY DEF ReadHash, chains, TypeInv, TypeOK
<1>2. CASE block' = None
  BY <1>2 DEF ReadsInv, WindowInv, HashesInv, HeaderInv
<1>3. CASE block' # None
  <2>1. /\ block \in BlockView /\ block.step = "hashes"
        /\ block.from \in Nat /\ block.count \in 1 .. ConfirmationsNeeded + 1
        /\ block.hashes \in Seq(Blocks)
        /\ NextHeight(block) \in 0 .. Height[tip]
        /\ NextHeight(block) = block.from + Len(block.hashes) + 1
        /\ block' = [block EXCEPT !.hashes = Append(@, At(NextHeight(block)))]
    BY <1>1, <1>3, ReadHashCases
  <2>2. PICK c : c = At(NextHeight(block))
    OBVIOUS
  <2>3. c \in Blocks /\ c \in Branch[tip] /\ Height[c] = NextHeight(block)
    BY <1>1, <2>1, <2>2, AtIsOnBranch
  <2>4. Safe(c)
    BY <1>1, <2>3, BranchIsSafe
  <2>5. block \in [step : {"hashes"}, from : Nat, count : 1 .. ConfirmationsNeeded + 1,
                   registered : SUBSET Blocks, hashes : Seq(Blocks)]
    BY <2>1 DEF BlockView
  <2>6. PICK q : q = Append(block.hashes, c)
    OBVIOUS
  <2>7. /\ block'.step = "hashes" /\ block'.from = block.from
        /\ block'.registered = block.registered /\ block'.hashes = q
    BY <2>1, <2>2, <2>5, <2>6
  <2>8. \A k \in DOMAIN q : \/ k \in DOMAIN block.hashes /\ q[k] = block.hashes[k]
                            \/ k = Len(block.hashes) + 1 /\ q[k] = c
    BY <2>1, <2>3, <2>6, AppendToQueue
  <2>9. /\ block.from <= Height[confirmed]
        /\ \A k \in DOMAIN block.hashes : Safe(block.hashes[k])
        /\ \A x \in block.registered : Height[x] <= Height[tip]
        /\ calm["block"] =>
             /\ \A k \in DOMAIN block.hashes :
                  block.hashes[k] \in Branch[tip] /\ Height[block.hashes[k]] = block.from + k
             /\ \A x \in block.registered \cap Branch[tip] : Known(x)
    BY <1>1, <2>1 DEF ReadsInv, WindowInv, HashesInv, ReadHash
  <2>10. \A k \in DOMAIN q : Safe(q[k])
    BY <2>4, <2>8, <2>9
  <2>11. Height[c] = block.from + (Len(block.hashes) + 1) /\ Len(block.hashes) \in Nat
    BY <2>1, <2>3
  <2>12. calm["block"] => \A k \in DOMAIN q : q[k] \in Branch[tip] /\ Height[q[k]] = block.from + k
    BY <2>3, <2>8, <2>9, <2>11
  <2>13. /\ \A x : Known(x) => Known(x)'
         /\ \A k \in DOMAIN q : Safe(q[k])'
    BY <1>1, <2>10 DEF Known, Safe, Deep
  <2>14. WindowInv' /\ HeaderInv'
    BY <1>1, <2>7, <2>9 DEF WindowInv, HeaderInv
  <2>15. HashesInv'
    <3>1. \A k \in DOMAIN block'.hashes : Safe(block.hashes[k])'
      BY <2>7, <2>13 DEF Safe, Deep
    <3>2. calm'["block"] => \A x \in block'.registered \cap Branch[tip'] : Known(x)'
      BY <1>1, <2>7, <2>9, <2>13
    <3> QED BY <1>1, <2>7, <2>9, <2>12, <3>1, <3>2 DEF HashesInv
  <2> QED BY <2>14, <2>15 DEF ReadsInv
<1> QED BY <1>2, <1>3

\* The chosen header follows the one before it in the window, which is registered,
\* or the block from which the window starts.
LEMMA ChosenFollows ==
  ASSUME TypeInv, ChainInv, ReadsInv,
         block # None, block \in BlockView, block.step = "hashes", calm["block"],
         NotRegistered(block) # {}, NEW c, c = block.hashes[Min(NotRegistered(block))]
  PROVE  c \in Branch[tip] /\ Follows(c)
<1> DEFINE n == Min(NotRegistered(block))
<1>1. /\ n \in DOMAIN block.hashes
      /\ n \in Nat
      /\ block.hashes[n] \in Blocks
      /\ block.hashes[n] \notin block.registered
      /\ \A k \in DOMAIN block.hashes : k < n => block.hashes[k] \in block.registered
  BY ChosenHeader
<1>2. c = block.hashes[n]
  OBVIOUS
<1> HIDE DEF n
<1>3. /\ \A k \in DOMAIN block.hashes :
           block.hashes[k] \in Branch[tip] /\ Height[block.hashes[k]] = block.from + k
      /\ \A x \in block.registered \cap Branch[tip] : Known(x)
      /\ block.from <= Height[confirmed]
  BY DEF ReadsInv, HashesInv, WindowInv
<1>4. block.from \in Nat /\ block.hashes \in Seq(Blocks)
  BY BlockViewFields
<1>5. tip \in Blocks /\ confirmed \in Blocks /\ confirmed \in Branch[tip]
  BY DEF TypeInv, TypeOK, ChainInv, ConfirmedInv
<1>6. c \in Branch[tip] /\ c \in Blocks /\ Height[c] = block.from + n
  BY <1>1, <1>2, <1>3
<1>7. n >= 1
  BY <1>1, <1>4
<1>8. c # Genesis
  BY <1>1, <1>4, <1>6, <1>7, HeightStep
<1>9. PICK x : x = Parent[c]
  OBVIOUS
<1>10. x \in Branch[tip] /\ x \in Blocks /\ Height[c] = Height[x] + 1 /\ Height[x] \in Nat
  BY <1>5, <1>6, <1>8, <1>9, BranchBefore, HeightStep
<1>11. Height[x] = block.from + (n - 1)
  BY <1>1, <1>4, <1>6, <1>10
<1>12. CASE n = 1
  <2>1. Height[x] <= Height[confirmed]
    BY <1>3, <1>4, <1>11, <1>12
  <2>2. x \in Branch[confirmed]
    BY <1>5, <1>10, <2>1, BranchLine
  <2> QED BY <1>6, <1>9, <2>2 DEF Follows, Known
<1>13. CASE n # 1
  <2>1. n - 1 \in DOMAIN block.hashes /\ n - 1 < n
    BY <1>1, <1>4, <1>7, <1>13
  <2>2. PICK y : y = block.hashes[n - 1]
    OBVIOUS
  <2>3. y \in block.registered /\ y \in Branch[tip] /\ Height[y] = block.from + (n - 1)
    BY <1>1, <1>3, <2>1, <2>2
  <2>4. x = y
    BY <1>5, <1>10, <1>11, <2>3, BranchOneAtHeight
  <2>5. Known(x)
    BY <1>3, <2>3, <2>4
  <2> QED BY <1>6, <1>9, <2>5 DEF Follows
<1> QED BY <1>12, <1>13

LEMMA ChooseHeaderReads == TypeInv /\ ChainInv /\ ReadsInv /\ ChooseHeader => ReadsInv'
<1> SUFFICES ASSUME TypeInv, ChainInv, ReadsInv, ChooseHeader PROVE ReadsInv'
  OBVIOUS
<1>1. UNCHANGED <<tip, confirmed, candidates, calm>>
  BY DEF ChooseHeader, chains
<1>2. block # None /\ block \in BlockView /\ block.step = "hashes"
  BY DEF TypeInv, TypeOK, ChooseHeader
<1>3. CASE NotRegistered(block) = {}
  <2>1. block' = None
    BY <1>3 DEF ChooseHeader
  <2> QED BY <2>1 DEF ReadsInv, WindowInv, HashesInv, HeaderInv
<1>4. CASE NotRegistered(block) # {}
  <2>1. PICK c : c = block.hashes[Min(NotRegistered(block))]
    OBVIOUS
  <2>2. block' = [step |-> "send", header |-> c]
    BY <1>4, <2>1 DEF ChooseHeader
  <2>3. block'.step = "send" /\ block'.header = c
    BY <2>2
  <2>4. Safe(c)
    <3>1. Min(NotRegistered(block)) \in DOMAIN block.hashes
      BY <1>2, <1>4, ChosenHeader
    <3>2. \A k \in DOMAIN block.hashes : Safe(block.hashes[k])
      BY <1>2 DEF ReadsInv, HashesInv
    <3> QED BY <2>1, <3>1, <3>2
  <2>5. calm["block"] => c \in Branch[tip] /\ Follows(c)
    BY <1>2, <1>4, <2>1, ChosenFollows
  <2>6. Safe(block.header)'
    BY <1>1, <2>3, <2>4 DEF Safe, Deep
  <2>7. calm'["block"] => block'.header \in Branch[tip'] /\ Follows(block.header)'
    BY <1>1, <2>3, <2>5 DEF Follows, Known
  <2>8. HeaderInv'
    BY <2>6, <2>7 DEF HeaderInv
  <2> QED BY <2>3, <2>8 DEF ReadsInv, WindowInv, HashesInv
<1> QED BY <1>3, <1>4

LEMMA ReadsStep ==
  ASSUME TypeInv, ChainInv, ReadsInv, [Next]_vars
  PROVE  ReadsInv'
BY AcceptReadsInv, ReadsStay, BlockStays, ReadHeightReads, ReadConfirmedReads,
   ReadRegisteredReads, ReadHashReads, ChooseHeaderReads

-----------------------------------------------------------------------------
(* What is under way to the client contract.                                *)

\* The header that is sent, at the end of the queue.
LEMMA SendCases ==
  ASSUME TypeInv, ReadsInv, SendHeader
  PROVE  /\ UNCHANGED <<tip, confirmed, candidates>>
         /\ \/ mail' = mail
            \/ \E c \in Blocks :
                 /\ mail' = Append(mail, [block |-> c, calm |-> calm["block"]])
                 /\ Safe(c)
                 /\ calm["block"] => c \in Branch[tip] /\ Follows(c)
<1>1. UNCHANGED <<tip, confirmed, candidates>>
  BY DEF SendHeader
<1>2. block # None /\ block \in BlockView /\ block.step = "send"
  BY DEF SendHeader, TypeInv, TypeOK
<1>3. PICK c : c = block.header
  OBVIOUS
<1>4. c \in Blocks
  BY <1>2, <1>3, BlockViewFields
<1>5. Safe(c) /\ (calm["block"] => c \in Branch[tip] /\ Follows(c))
  BY <1>2, <1>3 DEF ReadsInv, HeaderInv
<1>6. mail' = mail \/ mail' = Append(mail, [block |-> c, calm |-> calm["block"]])
  BY <1>3 DEF SendHeader
<1> QED BY <1>1, <1>4, <1>5, <1>6

LEMMA MailIsSafeStep ==
  ASSUME TypeInv, ChainInv, ReadsInv, [Next]_vars
  PROVE  MailIsSafe'
<1> DEFINE T == [block : Blocks, calm : BOOLEAN]
<1>1. mail \in Seq(T) /\ TypeOK
  BY DEF TypeInv, TypeOK
<1>2. \A i \in DOMAIN mail : mail[i].block \in Blocks /\ Safe(mail[i].block)
  <2>1. \A i \in DOMAIN mail : mail[i] \in T
    <3> HIDE DEF T
    <3> QED BY <1>1
  <2> QED BY <2>1 DEF ChainInv, MailIsSafe
<1>3. CASE AcceptHeader
  BY <1>3, AcceptMailIsSafe
<1>4. CASE mail' = mail
  <2>1. ASSUME NEW i \in DOMAIN mail' PROVE Safe(mail[i].block)'
    <3>1. PICK c : c = mail[i].block
      OBVIOUS
    <3>2. c \in Blocks /\ Safe(c)
      BY <1>2, <1>4, <2>1, <3>1
    <3>3. Safe(c)'
      BY <1>1, <3>2, SafeStays
    <3> QED BY <1>4, <3>1, <3>3 DEF Safe, Deep
  <2> QED BY <2>1 DEF MailIsSafe
<1>5. CASE SendHeader
  <2>1. /\ UNCHANGED <<tip, confirmed, candidates>>
        /\ \/ mail' = mail
           \/ \E c \in Blocks :
                /\ mail' = Append(mail, [block |-> c, calm |-> calm["block"]])
                /\ Safe(c)
                /\ calm["block"] => c \in Branch[tip] /\ Follows(c)
    BY <1>5, SendCases
  <2>2. CASE mail' # mail
    <3>1. PICK c \in Blocks : mail' = Append(mail, [block |-> c, calm |-> calm["block"]]) /\ Safe(c)
      BY <2>1, <2>2
    <3>2. PICK m : m = [block |-> c, calm |-> calm["block"]]
      OBVIOUS
    <3>3. m \in T /\ m.block = c
      <4>1. calm["block"] \in BOOLEAN
        BY <1>1 DEF TypeOK, Relayers
      <4> QED BY <3>2, <4>1
    <3>4. \A i \in DOMAIN mail' : \/ i \in DOMAIN mail /\ mail'[i] = mail[i]
                                  \/ i = Len(mail) + 1 /\ mail'[i] = m
      <4> HIDE DEF T
      <4>1. mail' = Append(mail, m)
        BY <3>1, <3>2
      <4> QED BY <1>1, <3>3, <4>1, AppendToQueue
    <3>5. ASSUME NEW i \in DOMAIN mail' PROVE Safe(mail[i].block)'
      <4>1. PICK e : e = mail'[i].block
        OBVIOUS
      <4>2. Safe(e)
        BY <1>2, <3>1, <3>3, <3>4, <4>1
      <4> QED BY <2>1, <4>1, <4>2 DEF Safe, Deep
    <3> QED BY <3>5 DEF MailIsSafe
  <2> QED BY <1>4, <2>2
<1> QED BY <1>3, <1>4, <1>5, MailStays

\* A header that is sent follows what the contract knows, and what is under way
\* before it confirms only blocks of its branch.
LEMMA SendMailInv ==
  ASSUME TypeInv, ChainInv, ReadsInv, MailInv, SendHeader
  PROVE  MailInv'
<1> DEFINE T == [block : Blocks, calm : BOOLEAN]
<1>1. mail \in Seq(T) /\ tip \in Blocks
  BY DEF TypeInv, TypeOK
<1>2. /\ UNCHANGED <<tip, confirmed, candidates>>
      /\ \/ mail' = mail
         \/ \E c \in Blocks :
              /\ mail' = Append(mail, [block |-> c, calm |-> calm["block"]])
              /\ Safe(c)
              /\ calm["block"] => c \in Branch[tip] /\ Follows(c)
  BY SendCases
<1>3. \A x : Follows(x) => Follows(x)'
  BY <1>2 DEF Follows, Known
<1>4. CASE mail' = mail
  BY <1>2, <1>4 DEF MailInv, Follows, Known, Deep
<1>5. CASE mail' # mail
  <2>1. PICK c \in Blocks :
          /\ mail' = Append(mail, [block |-> c, calm |-> calm["block"]])
          /\ Safe(c)
          /\ calm["block"] => c \in Branch[tip] /\ Follows(c)
    BY <1>2, <1>5
  <2>2. PICK m : m = [block |-> c, calm |-> calm["block"]]
    OBVIOUS
  <2>3. m \in T /\ m.block = c /\ m.calm = calm["block"]
    <3>1. calm["block"] \in BOOLEAN
      BY DEF TypeInv, TypeOK, Relayers
    <3> QED BY <2>2, <3>1
  <2>4. /\ \A i \in DOMAIN mail' : \/ i \in DOMAIN mail /\ mail'[i] = mail[i]
                                   \/ i = Len(mail) + 1 /\ mail'[i] = m
        /\ \A i \in DOMAIN mail : mail'[i] = mail[i]
        /\ DOMAIN mail = 1 .. Len(mail) /\ Len(mail) \in Nat
    <3> HIDE DEF T
    <3>1. mail' = Append(mail, m)
      BY <2>1, <2>2
    <3> QED BY <1>1, <2>3, <3>1, AppendToQueue
  <2>5. ASSUME NEW j \in DOMAIN mail', mail'[j].calm, NEW e, e = mail'[j].block
        PROVE  /\ Follows(e)
               /\ \A i \in 1 .. j - 1 : \A a \in Deep(mail'[i].block) : Height[a] <= Height[e] => a \in Branch[e]
    <3>1. CASE j \in DOMAIN mail /\ mail'[j] = mail[j]
      <4>1. /\ Follows(e)
            /\ \A i \in 1 .. j - 1 : \A a \in Deep(mail[i].block) : Height[a] <= Height[e] => a \in Branch[e]
        BY <2>5, <3>1 DEF MailInv
      <4>2. \A i \in 1 .. j - 1 : mail'[i] = mail[i]
        BY <2>4, <3>1
      <4> QED BY <4>1, <4>2
    <3>2. CASE j = Len(mail) + 1 /\ mail'[j] = m
      <4>1. e = c /\ calm["block"]
        BY <2>3, <2>5, <3>2
      <4>2. c \in Branch[tip] /\ Follows(c)
        BY <2>1, <4>1
      <4>3. ASSUME NEW i \in 1 .. j - 1, NEW a \in Deep(mail'[i].block), Height[a] <= Height[c]
            PROVE  a \in Branch[c]
        <5>1. i \in DOMAIN mail /\ mail'[i] = mail[i]
          BY <2>4, <3>2
        <5>2. Safe(mail[i].block)
          BY <5>1 DEF ChainInv, MailIsSafe
        <5>3. a \in Branch[tip]
          BY <4>3, <5>1, <5>2 DEF Safe
        <5> QED BY <1>1, <4>2, <4>3, <5>3, BranchLine
      <4> QED BY <4>1, <4>2, <4>3
    <3> QED BY <2>4, <3>1, <3>2
  <2>6. \A j \in DOMAIN mail' : mail'[j].calm =>
          /\ Follows(mail[j].block)'
          /\ \A i \in 1 .. j - 1 : \A a \in Deep(mail'[i].block) :
               Height[a] <= Height[mail'[j].block] => a \in Branch[mail'[j].block]
    BY <1>2, <2>5 DEF Follows, Known
  <2> QED BY <2>6 DEF MailInv, Deep
<1> QED BY <1>4, <1>5

LEMMA MailStep ==
  ASSUME TypeInv, ChainInv, ReadsInv, MailInv, [Next]_vars
  PROVE  MailInv'
<1>1. CASE ~AcceptHeader /\ ~SendHeader
  <2>1. UNCHANGED <<mail, confirmed, candidates>>
    BY <1>1, MailStays, ContractStays
  <2> QED BY <2>1 DEF MailInv, Follows, Known, Deep
<1> QED BY <1>1, AcceptMailInv, SendMailInv

-----------------------------------------------------------------------------
(* The pegout relayer.                                                      *)

\* What it has read stays true until it goes on.
LEMMA PegoutStaysTrue ==
  ASSUME TypeInv, PegoutInv, [Next]_vars, ~AcceptHeader, pegout' = pegout \/ pegout' = None
  PROVE  PegoutInv'
<1>1. UNCHANGED confirmed /\ TypeOK
  BY ContractStays DEF TypeInv
<1>2. CASE pegout' = None
  BY <1>2 DEF PegoutInv
<1>3. CASE pegout' = pegout /\ pegout # None
  <2>1. calm'["pegout"] => ~Reorg /\ calm["pegout"]
    <3>1. ~ReadStorage
      BY <1>3 DEF ReadStorage
    <3> QED BY <1>1, <3>1, CalmStays
  <2>2. calm'["pegout"] => Branch[tip] \subseteq Branch[tip']
    BY <1>1, <2>1, BranchGrows
  <2> QED BY <1>1, <1>3, <2>1, <2>2 DEF PegoutInv
<1> QED BY <1>2, <1>3

LEMMA ReadStoragePegout == ReadStorage => PegoutInv'
<1> SUFFICES ASSUME ReadStorage PROVE PegoutInv'
  OBVIOUS
<1>1. pegout'.step = "block"
  BY DEF ReadStorage
<1> QED BY <1>1 DEF PegoutInv

LEMMA ReadPegoutBlockPegout == TypeInv /\ ReadPegoutBlock => PegoutInv'
<1> SUFFICES ASSUME TypeInv, ReadPegoutBlock PROVE PegoutInv'
  OBVIOUS
<1>1. tip' = tip
  BY DEF ReadPegoutBlock, chains
<1>2. CASE pegout' = None
  BY <1>2 DEF PegoutInv
<1>3. CASE pegout' # None
  <2>1. PICK b \in Mined(pegout.pegout) :
          pegout' = [step |-> "confirmed", pegout |-> pegout.pegout, block |-> b]
    BY <1>3 DEF ReadPegoutBlock
  <2>2. pegout'.step = "confirmed" /\ pegout'.block = b /\ b \in Branch[tip]
    BY <2>1 DEF Mined
  <2> QED BY <1>1, <2>2 DEF PegoutInv
<1> QED BY <1>2, <1>3

\* On one branch, what is no higher than the confirmed block is confirmed.
LEMMA ReadLastConfirmedPegout == TypeInv /\ ChainInv /\ PegoutInv /\ ReadLastConfirmed => PegoutInv'
<1> SUFFICES ASSUME TypeInv, ChainInv, PegoutInv, ReadLastConfirmed PROVE PegoutInv'
  OBVIOUS
<1>1. UNCHANGED <<tip, confirmed, calm>>
  BY DEF ReadLastConfirmed, chains
<1>2. tip \in Blocks /\ confirmed \in Branch[tip]
  BY DEF TypeInv, TypeOK, ChainInv, ConfirmedInv
<1>3. CASE pegout' = None
  BY <1>3 DEF PegoutInv
<1>4. CASE pegout' # None
  <2>1. /\ pegout # None /\ pegout \in PegoutView /\ pegout.step = "confirmed"
        /\ Height[pegout.block] <= Height[confirmed]
        /\ pegout' = [pegout EXCEPT !.step = "send"]
    BY <1>4 DEF ReadLastConfirmed, Provable, TypeInv, TypeOK
  <2>2. pegout \in [step : {"confirmed", "send"}, pegout : Pegouts, block : Blocks]
    BY <2>1 DEF PegoutView
  <2>3. pegout'.step = "send" /\ pegout'.block = pegout.block
    BY <2>1, <2>2
  <2>4. ASSUME calm["pegout"] PROVE pegout.block \in Branch[tip] /\ pegout.block \in Branch[confirmed]
    <3>1. pegout.block \in Branch[tip]
      BY <2>1, <2>4 DEF PegoutInv
    <3> QED BY <1>2, <2>1, <3>1, BranchLine
  <2> QED BY <1>1, <2>3, <2>4 DEF PegoutInv
<1> QED BY <1>3, <1>4

LEMMA PegoutStep ==
  ASSUME TypeInv, ChainInv, PegoutInv, [Next]_vars
  PROVE  PegoutInv'
BY AcceptPegoutInv, PegoutStaysTrue, PegoutStays, ReadStoragePegout, ReadPegoutBlockPegout,
   ReadLastConfirmedPegout

LEMMA ProofsStep ==
  ASSUME TypeInv, ChainInv, PegoutInv, ProofsAreConfirmed, [Next]_vars
  PROVE  ProofsAreConfirmed'
<1> DEFINE T == [pegout : Pegouts, block : Blocks, calm : BOOLEAN]
<1>1. proofs \in Seq(T)
  BY DEF TypeInv, TypeOK
<1>2. CASE ~AcceptHeader /\ ~AcceptProof /\ ~SendProof
  <2>1. UNCHANGED <<proofs, confirmed>>
    BY <1>2, ProofsStay, ContractStays
  <2> QED BY <2>1 DEF ProofsAreConfirmed
<1>3. CASE AcceptProof
  <2>1. proofs' = Tail(proofs) /\ proofs # <<>> /\ confirmed' = confirmed
    BY <1>3 DEF AcceptProof
  <2>2. \A i \in DOMAIN Tail(proofs) :
          i + 1 \in DOMAIN proofs /\ Tail(proofs)[i] = proofs[i + 1] /\ i \in Nat \ {0}
    <3> HIDE DEF T
    <3> QED BY <1>1, <2>1, TailOfQueue
  <2> QED BY <2>1, <2>2 DEF ProofsAreConfirmed
<1>4. CASE SendProof
  <2> DEFINE m == [pegout |-> pegout.pegout, block |-> pegout.block, calm |-> calm["pegout"]]
  <2>1. confirmed' = confirmed /\ (proofs' = proofs \/ proofs' = Append(proofs, m))
    BY <1>4 DEF SendProof
  <2>2. pegout # None /\ pegout.step = "send" /\ pegout \in PegoutView
    BY <1>4 DEF SendProof, TypeInv, TypeOK
  <2>3. m.calm => m.block \in Branch[confirmed]
    BY <2>2 DEF PegoutInv
  <2>4. m \in T
    <3>1. pegout.pegout \in Pegouts /\ pegout.block \in Blocks
      BY <2>2, PegoutViewFields
    <3>2. calm["pegout"] \in BOOLEAN
      BY DEF TypeInv, TypeOK, Relayers
    <3> QED BY <3>1, <3>2
  <2>5. CASE proofs' = proofs
    BY <2>1, <2>5 DEF ProofsAreConfirmed
  <2>6. CASE proofs' = Append(proofs, m)
    <3>1. \A i \in DOMAIN Append(proofs, m) :
            \/ i \in DOMAIN proofs /\ Append(proofs, m)[i] = proofs[i]
            \/ i = Len(proofs) + 1 /\ Append(proofs, m)[i] = m
      <4> HIDE DEF T, m
      <4> QED BY <1>1, <2>4, AppendToQueue
    <3> HIDE DEF m
    <3> QED BY <2>1, <2>3, <2>6, <3>1 DEF ProofsAreConfirmed
  <2> QED BY <2>1, <2>5, <2>6
<1> QED BY <1>2, <1>3, <1>4, AcceptProofsAreConfirmed

-----------------------------------------------------------------------------
(* The invariant.                                                           *)

LEMMA InitRelayInv == Init => RelayInv
<1> SUFFICES ASSUME Init PROVE RelayInv
  OBVIOUS
<1>1. TypeInv
  BY InitTypeInv
<1>2. ConfirmedInv
  <2>1. Genesis \in Branch[Genesis]
    BY RelayerAssumption, BranchType
  <2> QED BY <2>1 DEF Init, ConfirmedInv
<1>3. CandidatesInv
  BY DEF Init, CandidatesInv
<1>4. mail = <<>> /\ proofs = <<>> /\ DOMAIN mail = {} /\ DOMAIN proofs = {}
  BY DEF Init
<1>5. MailIsSafe /\ MailInv /\ ProofsAreConfirmed
  BY <1>4 DEF MailIsSafe, MailInv, ProofsAreConfirmed
<1>6. ReadsInv /\ PegoutInv
  BY DEF Init, ReadsInv, WindowInv, HashesInv, HeaderInv, PegoutInv
<1> QED BY <1>1, <1>2, <1>3, <1>5, <1>6 DEF RelayInv, ChainInv

LEMMA ChainStep ==
  ASSUME TypeInv, ChainInv, ReadsInv, [Next]_vars
  PROVE  ChainInv'
<1>1. TypeOK
  BY DEF TypeInv
<1>2. CASE AcceptHeader
  BY <1>2, AcceptConfirmed, AcceptCandidates, MailIsSafeStep DEF ChainInv
<1>3. CASE ~AcceptHeader
  BY <1>1, <1>3, ContractStays, ConfirmedNodeStep, CandidatesNodeStep, MailIsSafeStep DEF ChainInv
<1> QED BY <1>2, <1>3

LEMMA NextRelayInv == RelayInv /\ [Next]_vars => RelayInv'
BY NextTypeInv, ChainStep, ReadsStep, MailStep, PegoutStep, ProofsStep DEF RelayInv

LEMMA RelayInvariant == Spec => []RelayInv
BY InitRelayInv, NextRelayInv, PTL DEF Spec

\* A header under way, chosen from reads of both chains at different times, follows
\* what the client contract knows or will know from the headers sent before it,
\* unless a reorg happened meanwhile, for every tree of blocks.
THEOREM HeadersAlwaysConnect == Spec => []HeadersInv
<1>1. RelayInv => HeadersInv
  <2> SUFFICES ASSUME RelayInv PROVE HeadersInv
    OBVIOUS
  <2>1. TypeOK
    BY DEF RelayInv, TypeInv
  <2>2. HeadersConnect
    BY DEF RelayInv, MailInv, Follows, Known, HeadersConnect
  <2> QED BY <2>1, <2>2 DEF HeadersInv
<1> QED BY <1>1, RelayInvariant, PTL

\* A proof under way is of a block on the branch the client contract has confirmed,
\* unless a reorg happened while the relayer was reading.
THEOREM SentProofsAreConfirmed == Spec => []ProofsAreConfirmed
<1>1. RelayInv => ProofsAreConfirmed
  BY DEF RelayInv
<1> QED BY <1>1, RelayInvariant, PTL

=============================================================================
