--------------------------- MODULE OracleDkg_proofs ---------------------------
(***************************************************************************)
(* Proofs about OracleDkg for every set of oracles, every bound and every   *)
(* choice of faulty and restarted oracles.                                  *)
(***************************************************************************)
EXTENDS OracleDkg, FiniteSetTheorems, WellFoundedInduction, TLAPS

-----------------------------------------------------------------------------
(* The culprit helpers.                                                     *)

\* The loops of helpers.go that look for the first bad package find one: a
\* non-empty set of indices has a lowest element, because the intervals from
\* zero to its members have a minimal one under inclusion.
LEMMA LowestIdxIsMember ==
  ASSUME NEW S \in SUBSET Nat, S # {}
  PROVE  LowestIdx(S) \in S
<1> DEFINE R == StrictSubsetOrdering(Nat)
           T == {0 .. j : j \in S}
<1>1. IsWellFoundedOn(R, FiniteSubsetsOf(Nat))
  BY FS_StrictSubsetOrderingWellFounded
<1>2. T \subseteq FiniteSubsetsOf(Nat)
  <2>1. ASSUME NEW j \in S PROVE 0 .. j \in FiniteSubsetsOf(Nat)
    <3>1. IsFiniteSet(0 .. j)
      BY FS_Interval
    <3> QED BY <3>1 DEF FiniteSubsetsOf
  <2> QED BY <2>1
<1>3. \E X \in T : \A Y \in T : <<Y, X>> \notin R
  <2>1. T # {} OBVIOUS
  <2> HIDE DEF T, R
  <2> QED BY <1>1, <1>2, <2>1, WFMin, Zenon
<1>4. PICK x \in S : \A y \in S : <<0 .. y, 0 .. x>> \notin R
  BY <1>3
<1>5. ASSUME NEW y \in S, y < x PROVE FALSE
  <2> DEFINE a == 0 .. y
             b == 0 .. x
  <2>1. a \subseteq b /\ x \in b /\ x \notin a
    BY <1>5
  <2>2. a \subseteq b /\ a # b /\ <<a, b>> \in (SUBSET Nat) \X (SUBSET Nat)
    BY <2>1
  <2> HIDE DEF a, b
  <2>3. <<a, b>> \in StrictSubsetOrdering(Nat)
    BY <2>2 DEF StrictSubsetOrdering
  <2> QED BY <1>4, <2>3 DEF a, b
<1>6. \A y \in S : x <= y
  BY <1>5
<1> QED BY <1>6 DEF LowestIdx

\* Whom round two blames is a validator of the snapshot's mask.
LEMMA R1CulpritType ==
  ASSUME NEW d \in Dkg, R1Culprits(d) # {}
  PROVE  LowestIdx(R1Culprits(d)) \in Idx
<1>1. R1Culprits(d) \subseteq Idx
  BY DEF R1Culprits, Dkg
<1> QED BY <1>1, LowestIdxIsMember, DkgAssumption

\* Whom round three blames is a validator, or nobody.
LEMMA R3CulpritType ==
  ASSUME NEW d \in Dkg, NEW i \in Idx, NEW a
  PROVE  R3Culprit(i, d, a) \in Idx \cup {None}
<1>1. /\ R1Culprits(d) \subseteq Idx
      /\ Malformed(d) \subseteq Idx
      /\ Undecryptable(i, d, a) \subseteq Idx
      /\ WrongShares(i, d) \subseteq Idx
  BY DEF R1Culprits, Malformed, Undecryptable, WrongShares, Dkg
<1> QED BY <1>1, LowestIdxIsMember, DkgAssumption DEF R3Culprit

\* Whom claimCulpritByR3Mask blames is a validator, or nobody.
LEMMA CulpritByR3MaskType ==
  ASSUME NEW d \in Dkg, NEW i \in Idx
  PROVE  CulpritByR3Mask(i, d) \in Idx \cup {None}
<1> DEFINE recorded == {j \in Idx : j < MaxSigners(d) /\ d.r3[j] # None}
<1>1. recorded # {} => LowestIdx(recorded) \in Idx
  BY LowestIdxIsMember, DkgAssumption
<1> QED BY <1>1 DEF CulpritByR3Mask

-----------------------------------------------------------------------------
(* Types.                                                                   *)

Nested(a) == /\ a.r3 # None => a.r2 # None
             /\ a.r2 # None => a.r1 # None

\* TypeOK is not inductive: executeR3 writes into the round one artifact.
TypeInv == TypeOK /\ ArtifactsAreNested

\* What the contract stores of a well-formed message is a DKG record.
LEMMA AcceptedType ==
  ASSUME NEW d \in Dkg, NEW m \in Msg
  PROVE  Accepted(d, m) \in Dkg
<1>1. CASE m.type = "R1"
  <2>1. m.from \in Idx /\ m.r1 \in R1Package
    BY <1>1 DEF Msg, Round1Msg, Round2Msg, Round3Msg, ClaimMsg
  <2>2. [d.r1 EXCEPT ![m.from] = m.r1] \in PublicKey
    BY <2>1 DEF Dkg, PublicKey
  <2> QED BY <1>1, <2>1, <2>2 DEF Accepted, Dkg
<1>2. CASE m.type = "R2"
  <2>1. m.from \in Idx /\ m.r2 \in R2Package \cup {Garbage}
    BY <1>2 DEF Msg, Round1Msg, Round2Msg, Round3Msg, ClaimMsg
  <2>2. [d.r2 EXCEPT ![m.from] = m.r2] \in [Idx -> R2Package \cup {Garbage, None}]
    BY <2>1 DEF Dkg
  <2> QED BY <1>2, <2>1, <2>2 DEF Accepted, Dkg
<1>3. CASE m.type = "R3"
  <2>1. m.from \in Idx /\ m.pk \in PublicKey \cup {Garbage} /\ m.key \in Nat \cup {None}
    BY <1>3 DEF Msg, Round1Msg, Round2Msg, Round3Msg, ClaimMsg
  <2>2. /\ [d.r3 EXCEPT ![m.from] = m.pk] \in [Idx -> PublicKey \cup {Garbage, None}]
        /\ [d.keys EXCEPT ![m.from] = m.key] \in [Idx -> Nat \cup {None}]
    BY <2>1 DEF Dkg
  <2> QED BY <1>3, <2>1, <2>2 DEF Accepted, Dkg
<1>4. CASE m.type = "Claim"
  <2>1. m.from \in Idx /\ m.culprit \in Idx
    BY <1>4 DEF Msg, Round1Msg, Round2Msg, Round3Msg, ClaimMsg
  <2>2. [d.claims EXCEPT ![m.from] = m.culprit] \in [Idx -> Idx \cup {None}]
    BY <2>1 DEF Dkg
  <2> QED BY <1>4, <2>1, <2>2 DEF Accepted, Dkg
<1>5. m.type \in {"R1", "R2", "R3", "Claim"}
  BY DEF Msg, Round1Msg, Round2Msg, Round3Msg, ClaimMsg
<1> QED BY <1>1, <1>2, <1>3, <1>4, <1>5

LEMMA InitType == Init => TypeInv
<1> SUFFICES ASSUME Init PROVE TypeInv
  OBVIOUS
<1>1. NoneYet \in PublicKey
  BY DEF NoneYet, PublicKey
<1>2. NewDkg(0, {}) \in Dkg /\ dkg \in Dkg
  <2>1. 0 \in 0 .. MaxUntil
    BY DkgAssumption
  <2> QED BY <1>1, <2>1 DEF NewDkg, Dkg, NoneYet, PublicKey, Init, Finished, InProgress
<1>3. NoArtifacts \in Artifacts /\ Nested(NoArtifacts)
  BY DEF NoArtifacts, Artifacts, Nested
<1>4. TypeOK
  BY <1>2, <1>3 DEF Init, TypeOK, NoneYet
<1>5. ArtifactsAreNested
  BY DEF Init, ArtifactsAreNested, NoArtifacts, Honest
<1> QED BY <1>4, <1>5 DEF TypeInv

\* The parts of a step of the executor: what it holds on entry, what it keeps
\* in memory and on disk, what it leaves behind and what it sends.
LEMMA EnteredType ==
  ASSUME TypeInv, NEW i \in Honest
  PROVE  /\ EnteredArt(i) \in Artifacts
         /\ Nested(EnteredArt(i))
         /\ EnteredGen(i) \in Nat
         /\ snap[i] # None => snap[i] \in Dkg
<1>1. i \in Idx
  BY DEF Honest
<1> QED BY <1>1 DEF TypeInv, TypeOK, ArtifactsAreNested, EnteredArt, EnteredGen,
                    NoArtifacts, Artifacts, Nested

LEMMA LoadSessionType ==
  ASSUME TypeInv, NEW i \in Honest, LoadSession(i)
  PROVE  /\ misread' \in [Idx -> [Untils -> Nat]]
         /\ \A j \in Idx, u \in Untils : misread[j][u] <= misread'[j][u]
<1>1. i \in Idx /\ misread \in [Idx -> [Untils -> Nat]]
  BY DEF Honest, TypeInv, TypeOK
<1>2. CASE UNCHANGED misread
  BY <1>1, <1>2
<1>3. CASE ~UNCHANGED misread
  <2>1. misread' = [misread EXCEPT ![i][snap[i].until] = @ + 1]
    BY <1>3 DEF LoadSession
  <2>2. ASSUME NEW j \in Idx, NEW u \in Untils
        PROVE  misread'[j][u] \in Nat /\ misread[j][u] <= misread'[j][u]
    <3>1. misread[j][u] \in Nat /\ misread[j] \in [Untils -> Nat]
      BY <1>1
    <3>2. misread'[j][u] = IF j = i /\ u = snap[i].until
                             THEN misread[j][u] + 1 ELSE misread[j][u]
      BY <1>1, <2>1, <3>1
    <3> QED BY <3>1, <3>2
  <2>3. misread' \in [Idx -> [Untils -> Nat]]
    <3>1. ASSUME NEW j \in Idx PROVE misread'[j] \in [Untils -> Nat]
      <4>1. misread[j] \in [Untils -> Nat]
        BY <1>1
      <4>2. misread'[j] = IF j = i
              THEN [misread[i] EXCEPT ![snap[i].until] = @ + 1] ELSE misread[j]
        BY <1>1, <2>1
      <4>3. DOMAIN misread'[j] = Untils /\ misread'[j] = [u \in DOMAIN misread'[j] |-> misread'[j][u]]
        BY <1>1, <4>1, <4>2
      <4>4. \A u \in Untils : misread'[j][u] \in Nat
        BY <2>2
      <4> QED BY <4>3, <4>4
    <3>2. misread' = [j \in Idx |-> misread'[j]]
      BY <1>1, <2>1
    <3> QED BY <3>1, <3>2
  <2> QED BY <2>2, <2>3
<1> QED BY <1>2, <1>3

LEMMA EnterType ==
  ASSUME TypeInv, NEW i \in Honest, Enter(i)
  PROVE  /\ snap[i] \in Dkg
         /\ dkg' \in Dkg
         /\ snap' \in [Idx -> Dkg \cup {None}]
         /\ until' \in [Idx -> Nat]
         /\ signer' \in [Idx -> Nat \cup {None}]
         /\ sessions' \in [Idx -> [Untils -> Nat \cup {None}]]
         /\ crashes' \in Nat
         /\ lost' \in [Idx -> SUBSET Nat]
         /\ misread' \in [Idx -> [Untils -> Nat]]
<1>1. i \in Idx
  BY DEF Honest
<1>2. snap[i] \in Dkg /\ snap[i].until \in 0 .. MaxUntil
  BY <1>1 DEF Enter, Receive, TypeInv, TypeOK, Dkg
<1>3. SessionKey(i) \in Nat \cup {None}
  <2>1. IsNew(i) => snap[i].until \in Untils
    BY <1>1, <1>2, DkgAssumption DEF IsNew, TypeInv, TypeOK, Untils
  <2> QED BY <1>1, <2>1 DEF SessionKey, TypeInv, TypeOK
<1>4. sessions' \in [Idx -> [Untils -> Nat \cup {None}]]
  BY <1>1, <1>3 DEF Enter, TypeInv, TypeOK
<1>5. until' \in [Idx -> Nat] /\ signer' \in [Idx -> Nat \cup {None}]
  BY <1>1, <1>2, <1>3 DEF Enter, TypeInv, TypeOK
<1>6. snap' \in [Idx -> Dkg \cup {None}] /\ dkg' \in Dkg
  BY <1>1 DEF Enter, Receive, TypeInv, TypeOK
<1>7. misread' \in [Idx -> [Untils -> Nat]]
  BY LoadSessionType DEF Enter
<1> QED BY <1>2, <1>4, <1>5, <1>6, <1>7 DEF Enter, TypeInv, TypeOK

LEMMA LeaveType ==
  ASSUME TypeInv, NEW i \in Honest, NEW a \in Artifacts, Nested(a),
         art' = [art EXCEPT ![i] = a]
  PROVE  art' \in [Idx -> Artifacts] /\ ArtifactsAreNested'
<1>1. i \in Idx
  BY DEF Honest
<1> QED BY <1>1 DEF TypeInv, TypeOK, ArtifactsAreNested, Nested, Honest

LEMMA SendType ==
  ASSUME TypeInv, NEW i \in Idx, NEW m \in Msg, NEW c \in Idx \cup {None},
         Send(i, m, c)
  PROVE  net' \in SUBSET Msg /\ call' \in [Idx -> Call \cup {None}]
<1>1. m.type \in {"R1", "R2", "R3", "Claim"}
  BY DEF Msg, Round1Msg, Round2Msg, Round3Msg, ClaimMsg
<1>2. [type |-> m.type, culprit |-> c] \in Call
  BY <1>1 DEF Call
<1> QED BY <1>2 DEF Send, TypeInv, TypeOK

LEMMA NoSendType ==
  ASSUME TypeInv, NoSend
  PROVE  net' \in SUBSET Msg /\ call' \in [Idx -> Call \cup {None}]
BY DEF NoSend, TypeInv, TypeOK

LEMMA ClaimType ==
  ASSUME TypeInv, NEW i \in Idx, NEW d \in Dkg, NEW c \in Idx,
         ExecuteClaim(i, d, c)
  PROVE  net' \in SUBSET Msg /\ call' \in [Idx -> Call \cup {None}]
<1>1. [type |-> "Claim", from |-> i, until |-> d.until, culprit |-> c] \in Msg
  BY DEF Msg, ClaimMsg, Dkg
<1> QED BY <1>1, SendType, NoSendType DEF ExecuteClaim

LEMMA PubkeyPackageType ==
  ASSUME TypeInv, NEW i \in Honest, Enter(i), NEW pk \in PublicKey,
         SendPubkeyPackage(i, pk)
  PROVE  net' \in SUBSET Msg /\ call' \in [Idx -> Call \cup {None}]
<1>1. i \in Idx
  BY DEF Honest
<1>2. snap[i] \in Dkg /\ signer'[i] \in Nat \cup {None}
  BY <1>1, EnterType
<1>3. CulpritByR3Mask(i, snap[i]) \in Idx \cup {None}
  BY <1>1, <1>2, CulpritByR3MaskType
<1>4. [type |-> "R3", from |-> i, until |-> snap[i].until, pk |-> pk,
       key |-> signer'[i]] \in Msg
  BY <1>1, <1>2 DEF Msg, Round3Msg, Dkg
<1>5. CASE signer'[i] = None
  BY <1>5, NoSendType DEF SendPubkeyPackage
<1>6. CASE signer'[i] # None
  BY <1>1, <1>3, <1>4, <1>6, SendType DEF SendPubkeyPackage
<1> QED BY <1>5, <1>6

LEMMA GroupKeyType ==
  ASSUME NEW d \in Dkg, NEW i \in Idx, NEW a \in Artifacts, a.r2 # None
  PROVE  GroupKey(i, d, a) \in PublicKey
<1>1. a.r2.share \in Nat \cup {None}
  BY DEF Artifacts, R2Package
<1> QED BY <1>1 DEF GroupKey, Dkg, PublicKey, R1Package

\* Each way Execute can go leaves well-typed, nested artifacts behind.
LEMMA ExecuteType ==
  ASSUME TypeInv, NEW i \in Honest, Execute(i)
  PROVE  TypeInv'
<1>0. i \in Idx
  BY DEF Honest
<1> DEFINE a == EnteredArt(i)
           d == snap[i]
           Sends == net' \in SUBSET Msg /\ call' \in [Idx -> Call \cup {None}]
           Leaves == /\ art' \in [Idx -> Artifacts]
                     /\ ArtifactsAreNested'
                     /\ gen' \in [Idx -> Nat]
                     /\ secrets' \in [Idx -> SUBSET PublicKey]
<1>1. /\ a \in Artifacts
      /\ Nested(a)
      /\ EnteredGen(i) \in Nat
  BY EnteredType
<1> HIDE DEF a
<1>2. ASSUME Enter(i), Sends, Leaves
      PROVE  TypeInv'
  BY <1>2, EnterType DEF TypeInv, TypeOK
<1>3. ASSUME Leave(i, a), UNCHANGED secrets
      PROVE  Leaves
  <2>1. art' \in [Idx -> Artifacts] /\ ArtifactsAreNested'
    BY <1>1, <1>3, LeaveType DEF Leave
  <2>2. gen' \in [Idx -> Nat] /\ secrets' \in [Idx -> SUBSET PublicKey]
    BY <1>1, <1>3 DEF Leave, TypeInv, TypeOK
  <2> QED BY <2>1, <2>2
<1>4. CASE ExecuteFinished(i)
  <2>1. NoArtifacts \in Artifacts /\ Nested(NoArtifacts)
    BY DEF NoArtifacts, Artifacts, Nested
  <2>2. art' \in [Idx -> Artifacts] /\ ArtifactsAreNested'
    BY <1>4, <2>1, LeaveType DEF ExecuteFinished
  <2>3. Sends
    BY <1>4, NoSendType DEF ExecuteFinished
  <2> QED BY <1>0, <1>4, <2>2, <2>3
          DEF ExecuteFinished, Receive, disk, history, TypeInv, TypeOK
<1>5. CASE ExecuteWait(i)
  <2>1. Enter(i) /\ Leave(i, a) /\ NoSend /\ UNCHANGED secrets
    BY <1>5 DEF ExecuteWait, a
  <2>2. Sends
    BY <2>1, NoSendType
  <2> QED BY <1>2, <1>3, <2>1, <2>2
<1>6. CASE ExecuteR1(i)
  <2> DEFINE g == EnteredGen(i) + 1
             r1 == IF a.r1 # None THEN a.r1 ELSE [id |-> g, x25519 |-> g]
             m == [type |-> "R1", from |-> i, until |-> d.until, r1 |-> r1.id]
  <2>1. /\ Enter(i)
        /\ art' = [art EXCEPT ![i] = [a EXCEPT !.r1 = r1]]
        /\ gen' = [gen EXCEPT ![i] = IF a.r1 # None THEN EnteredGen(i) ELSE g]
        /\ Send(i, m, None)
        /\ UNCHANGED secrets
    BY <1>6 DEF ExecuteR1, a
  <2>2. r1 \in R1Artifact /\ g \in Nat
    BY <1>1 DEF Artifacts, R1Artifact
  <2>3. [a EXCEPT !.r1 = r1] \in Artifacts /\ Nested([a EXCEPT !.r1 = r1])
    <3>1. r1 # None
      BY <2>2, NilAssumption
    <3> QED BY <1>1, <2>2, <3>1 DEF Artifacts, Nested
  <2>4. d \in Dkg
    BY <2>1, EnterType
  <2>5. m \in Msg
    BY <1>0, <2>2, <2>4 DEF Msg, Round1Msg, R1Artifact, R1Package, Dkg
  <2>6. art' \in [Idx -> Artifacts] /\ ArtifactsAreNested'
    <3> HIDE DEF r1
    <3> QED BY <2>1, <2>3, LeaveType
  <2>7. Sends
    <3> HIDE DEF m
    <3> QED BY <1>0, <2>1, <2>5, SendType
  <2>8. gen' \in [Idx -> Nat] /\ secrets' \in [Idx -> SUBSET PublicKey]
    BY <1>1, <2>1, <2>2 DEF TypeInv, TypeOK
  <2> QED BY <1>2, <2>1, <2>6, <2>7, <2>8
<1>7. CASE ExecuteR2(i)
  <2> DEFINE r2 == IF a.r2 # None THEN a.r2
                   ELSE [key |-> a.r1.x25519, share |-> a.r1.id, seen |-> d.r1]
             b == [a EXCEPT !.r2 = r2]
             m == [type |-> "R2", from |-> i, until |-> d.until, r2 |-> r2]
  <2>1. /\ Enter(i)
        /\ a.r2 # None \/ a.r1 # None
        /\ Leave(i, b)
        /\ Send(i, m, None)
        /\ UNCHANGED secrets
    BY <1>7 DEF ExecuteR2, a
  <2>2. d \in Dkg
    BY <2>1, EnterType
  <2>3. r2 \in R2Package
    BY <1>1, <2>1, <2>2 DEF Artifacts, R1Artifact, R2Package, Dkg
  <2>4. b \in Artifacts /\ Nested(b)
    BY <1>1, <2>1, <2>3 DEF Artifacts, Nested
  <2>5. m \in Msg
    BY <1>0, <2>2, <2>3 DEF Msg, Round2Msg, Dkg
  <2>6. Sends
    <3> HIDE DEF m
    <3> QED BY <1>0, <2>1, <2>5, SendType
  <2>7. art' \in [Idx -> Artifacts] /\ ArtifactsAreNested'
    <3> HIDE DEF b
    <3> QED BY <2>1, <2>4, LeaveType DEF Leave
  <2>8. gen' \in [Idx -> Nat] /\ secrets' \in [Idx -> SUBSET PublicKey]
    BY <1>1, <2>1 DEF Leave, TypeInv, TypeOK
  <2> QED BY <1>2, <2>1, <2>6, <2>7, <2>8
<1>8. CASE ExecuteR2Claim(i)
  <2>1. /\ Enter(i) /\ Leave(i, a) /\ UNCHANGED secrets
        /\ R1Culprits(d) # {}
        /\ ExecuteClaim(i, d, LowestIdx(R1Culprits(d)))
    BY <1>8 DEF ExecuteR2Claim, a
  <2>2. d \in Dkg
    BY <2>1, EnterType
  <2>3. Sends
    BY <1>0, <2>1, <2>2, R1CulpritType, ClaimType
  <2> QED BY <1>2, <1>3, <2>1, <2>3
<1>9. CASE ExecuteR3(i)
  <2> DEFINE pk == GroupKey(i, d, a)
             b == [a EXCEPT !.r3 = pk, !.r1.x25519 = None]
  <2>1. /\ Enter(i)
        /\ a.r2 # None
        /\ Leave(i, b)
        /\ \/ StoreSecret(i, pk) /\ SendPubkeyPackage(i, pk)
           \/ NoSend /\ UNCHANGED secrets
    BY <1>9 DEF ExecuteR3, a
  <2>2. d \in Dkg
    BY <2>1, EnterType
  <2>3. pk \in PublicKey
    BY <1>0, <1>1, <2>1, <2>2, GroupKeyType
  <2> HIDE DEF pk
  <2>4. b \in Artifacts /\ Nested(b)
    <3>1. a.r1 \in R1Artifact
      BY <1>1, <2>1 DEF Artifacts, Nested
    <3>2. [a.r1 EXCEPT !.x25519 = None] \in R1Artifact
      BY <3>1 DEF R1Artifact
    <3>3. b = [a EXCEPT !.r3 = pk, !.r1 = [a.r1 EXCEPT !.x25519 = None]]
      BY <1>1, <3>1 DEF Artifacts, R1Artifact
    <3> QED BY <1>1, <2>1, <2>3, <3>2, <3>3, NilAssumption DEF Artifacts, Nested
  <2>5. art' \in [Idx -> Artifacts] /\ ArtifactsAreNested'
    <3> HIDE DEF b
    <3> QED BY <2>1, <2>4, LeaveType DEF Leave
  <2>6. gen' \in [Idx -> Nat]
    BY <1>1, <2>1 DEF Leave, TypeInv, TypeOK
  <2>7. secrets' \in [Idx -> SUBSET PublicKey]
    <3>1. secrets \in [Idx -> SUBSET PublicKey]
      BY DEF TypeInv, TypeOK
    <3>2. secrets[i] \cup {pk} \in SUBSET PublicKey
      BY <1>0, <2>3, <3>1
    <3>3. CASE StoreSecret(i, pk)
      BY <3>1, <3>2, <3>3 DEF StoreSecret
    <3>4. CASE UNCHANGED secrets
      BY <3>1, <3>4
    <3> QED BY <2>1, <3>3, <3>4
  <2>8. Sends
    BY <2>1, <2>3, PubkeyPackageType, NoSendType
  <2>9. Enter(i) /\ Leaves
    BY <2>1, <2>5, <2>6, <2>7
  <2> QED BY <1>2, <2>8, <2>9
<1>10. CASE ExecuteR3Again(i)
  <2>1. /\ Enter(i) /\ Leave(i, a) /\ UNCHANGED secrets
        /\ a.r3 # None
        /\ SendPubkeyPackage(i, a.r3)
    BY <1>10 DEF ExecuteR3Again, a
  <2>2. a.r3 \in PublicKey
    BY <1>1, <2>1 DEF Artifacts
  <2>3. Sends
    BY <2>1, <2>2, PubkeyPackageType
  <2> QED BY <1>2, <1>3, <2>1, <2>3
<1>11. CASE ExecuteR3Claim(i)
  <2>1. /\ Enter(i) /\ Leave(i, a) /\ UNCHANGED secrets
        /\ R3Culprit(i, d, a) # None
        /\ ExecuteClaim(i, d, R3Culprit(i, d, a))
    BY <1>11 DEF ExecuteR3Claim, a
  <2>2. d \in Dkg
    BY <2>1, EnterType
  <2>3. R3Culprit(i, d, a) \in Idx
    BY <1>0, <2>1, <2>2, R3CulpritType
  <2>4. Sends
    BY <1>0, <2>1, <2>2, <2>3, ClaimType
  <2> QED BY <1>2, <1>3, <2>1, <2>4
<1> QED BY <1>4, <1>5, <1>6, <1>7, <1>8, <1>9, <1>10, <1>11 DEF Execute

LEMMA FaultyMsgsType ==
  ASSUME TypeInv, NEW i \in Faulty
  PROVE  FaultyMsgs(i) \subseteq Msg
<1>0. i \in Idx
  BY DkgAssumption
<1> DEFINE u == dkg.until
           own == dkg.r1[i]
           R1s == [type : {"R1"}, from : {i}, until : {u}, r1 : {1, Garbage}]
           Packages == [key : {own} \cap Nat, share : {own, None} \ {Garbage},
                        seen : {dkg.r1}]
           R2s == [type : {"R2"}, from : {i}, until : {u}, r2 : Packages \cup {Garbage}]
           R3s == [type : {"R3"}, from : {i}, until : {u}, pk : {dkg.r1, Garbage},
                   key : {None}]
<1>1. u \in Nat /\ dkg.r1 \in PublicKey /\ own \in Nat \cup {Garbage, None}
  BY <1>0 DEF TypeInv, TypeOK, Dkg, PublicKey, R1Package
<1>2. R1s \subseteq Msg
  <2>1. R1s \subseteq Round1Msg
    BY <1>0, <1>1 DEF Round1Msg, R1Package
  <2> QED BY <2>1 DEF Msg
<1>3. R2s \subseteq Msg
  <2>1. Packages \subseteq R2Package
    BY <1>1 DEF R2Package
  <2> HIDE DEF Packages
  <2>2. R2s \subseteq Round2Msg
    BY <1>0, <1>1, <2>1 DEF Round2Msg
  <2> QED BY <2>2 DEF Msg
<1>4. R3s \subseteq Msg
  <2>1. R3s \subseteq Round3Msg
    BY <1>0, <1>1 DEF Round3Msg
  <2> QED BY <2>1 DEF Msg
<1>5. FaultyMsgs(i) = R1s \cup R2s \cup R3s
  BY DEF FaultyMsgs
<1> QED BY <1>2, <1>3, <1>4, <1>5

\* The remaining steps of an oracle.
LEMMA OracleType ==
  ASSUME TypeInv, NEW i \in Honest,
         \/ Fetch(i)
         \/ ExecuteStartFails(i)
         \/ ExecuteNoKeyInfo(i)
         \/ Return(i)
         \/ ReturnDifferentPubkey(i)
         \/ Crash(i)
  PROVE  TypeInv'
<1>0. i \in Idx
  BY DEF Honest
<1>1. NoArtifacts \in Artifacts /\ Nested(NoArtifacts)
  BY DEF NoArtifacts, Artifacts, Nested
<1>2. CASE Fetch(i)
  BY <1>0, <1>2 DEF Fetch, disk, history, TypeInv, TypeOK, ArtifactsAreNested
<1>3. CASE ExecuteStartFails(i)
  <2>1. art' \in [Idx -> Artifacts] /\ ArtifactsAreNested'
    BY <1>1, <1>3, LeaveType DEF ExecuteStartFails
  <2>2. misread' \in [Idx -> [Untils -> Nat]]
    BY <1>3, LoadSessionType DEF ExecuteStartFails
  <2> QED BY <1>0, <1>3, <2>1, <2>2
          DEF ExecuteStartFails, Receive, NoSend, disk, TypeInv, TypeOK
<1>4. CASE ExecuteNoKeyInfo(i)
  <2>1. /\ EnteredArt(i) \in Artifacts
        /\ Nested(EnteredArt(i))
        /\ EnteredGen(i) \in Nat
    BY EnteredType
  <2>2. art' \in [Idx -> Artifacts] /\ ArtifactsAreNested'
    BY <1>4, <2>1, LeaveType DEF ExecuteNoKeyInfo, Leave
  <2>3. gen' \in [Idx -> Nat] /\ secrets' \in [Idx -> SUBSET PublicKey]
    BY <1>4, <2>1 DEF ExecuteNoKeyInfo, Leave, TypeInv, TypeOK
  <2>4. net' \in SUBSET Msg /\ call' \in [Idx -> Call \cup {None}]
    BY <1>4, NoSendType DEF ExecuteNoKeyInfo
  <2>5. Enter(i)
    BY <1>4 DEF ExecuteNoKeyInfo
  <2> QED BY <2>2, <2>3, <2>4, <2>5, EnterType DEF TypeInv, TypeOK
<1>5. CASE Return(i)
  BY <1>0, <1>5 DEF Return, disk, history, TypeInv, TypeOK, ArtifactsAreNested
<1>6. CASE ReturnDifferentPubkey(i)
  <2>1. PICK m \in net :
          IF call[i].culprit = None
            THEN net' = net \ {m} /\ call' = [call EXCEPT ![i] = None]
            ELSE /\ net' = (net \ {m}) \cup
                             {[type |-> "Claim", from |-> i, until |-> m.until,
                               culprit |-> call[i].culprit]}
                 /\ call' = [call EXCEPT ![i] =
                               [type |-> "Claim", culprit |-> None]]
    BY <1>6 DEF ReturnDifferentPubkey
  <2>2. m \in Msg /\ m.until \in Nat
    BY DEF TypeInv, TypeOK, Msg, Round1Msg, Round2Msg, Round3Msg, ClaimMsg
  <2>3. call[i] \in Call
    BY <1>0, <1>6 DEF ReturnDifferentPubkey, TypeInv, TypeOK
  <2>4. net' \in SUBSET Msg
    <3>1. CASE call[i].culprit = None
      BY <2>1, <3>1 DEF TypeInv, TypeOK
    <3>2. CASE call[i].culprit # None
      <4>1. call[i].culprit \in Idx
        BY <2>3, <3>2 DEF Call
      <4>2. [type |-> "Claim", from |-> i, until |-> m.until,
             culprit |-> call[i].culprit] \in Msg
        BY <1>0, <2>2, <4>1 DEF Msg, ClaimMsg
      <4> QED BY <2>1, <3>2, <4>2 DEF TypeInv, TypeOK
    <3> QED BY <3>1, <3>2
  <2>5. [type |-> "Claim", culprit |-> None] \in Call
    BY DEF Call
  <2>6. call \in [Idx -> Call \cup {None}]
    BY DEF TypeInv, TypeOK
  <2>7. call' \in [Idx -> Call \cup {None}]
    BY <1>0, <2>1, <2>5, <2>6
  <2> QED BY <1>6, <2>4, <2>7
          DEF ReturnDifferentPubkey, disk, history, TypeInv, TypeOK, ArtifactsAreNested
<1>7. CASE Crash(i)
  <2>1. art' \in [Idx -> Artifacts] /\ ArtifactsAreNested'
    BY <1>1, <1>7, LeaveType DEF Crash
  <2>2. lost' \in [Idx -> SUBSET Nat] /\ until' \in [Idx -> Nat]
    BY <1>0, <1>7 DEF Crash, TypeInv, TypeOK
  <2> QED BY <1>0, <1>7, <2>1, <2>2 DEF Crash, disk, TypeInv, TypeOK
<1> QED BY <1>2, <1>3, <1>4, <1>5, <1>6, <1>7

\* The contract's steps and the faulty oracles'.
LEMMA ContractType ==
  ASSUME TypeInv,
         \/ StartDKG
         \/ \E m \in net : Deliver(m) \/ Expire(m)
         \/ \E i \in Faulty : FaultySend(i)
  PROVE  TypeInv'
<1>1. CASE StartDKG
  <2>1. PICK m \in SUBSET Idx : dkg' = NewDkg(dkg.until + 1, m)
    BY <1>1 DEF StartDKG
  <2>2. dkg.until + 1 \in 0 .. MaxUntil
    BY <1>1, DkgAssumption DEF StartDKG, TypeInv, TypeOK, Dkg
  <2>3. dkg' \in Dkg
    BY <2>1, <2>2 DEF NewDkg, Dkg, NoneYet, PublicKey, InProgress
  <2> QED BY <1>1, <2>3 DEF StartDKG, disk, history, TypeInv, TypeOK, ArtifactsAreNested
<1>2. CASE \E m \in net : Deliver(m)
  <2>1. PICK m \in net : Deliver(m)
    BY <1>2
  <2>2. dkg' \in Dkg
    BY <2>1, AcceptedType DEF Deliver, TypeInv, TypeOK
  <2> QED BY <2>1, <2>2 DEF Deliver, disk, history, TypeInv, TypeOK, ArtifactsAreNested
<1>3. CASE \E m \in net : Expire(m)
  BY <1>3 DEF Expire, disk, history, TypeInv, TypeOK, ArtifactsAreNested
<1>4. CASE \E i \in Faulty : FaultySend(i)
  <2>1. PICK i \in Faulty : FaultySend(i)
    BY <1>4
  <2>2. FaultyMsgs(i) \subseteq Msg
    BY FaultyMsgsType
  <2>3. dkg' \in Dkg
    BY <2>1, <2>2, AcceptedType DEF FaultySend, TypeInv, TypeOK
  <2> QED BY <2>1, <2>3 DEF FaultySend, disk, history, TypeInv, TypeOK, ArtifactsAreNested
<1> QED BY <1>1, <1>2, <1>3, <1>4

LEMMA NextType == TypeInv /\ [Next]_vars => TypeInv'
<1> SUFFICES ASSUME TypeInv, [Next]_vars PROVE TypeInv'
  OBVIOUS
<1>1. CASE UNCHANGED vars
  BY <1>1 DEF vars, TypeInv, TypeOK, ArtifactsAreNested
<1>2. CASE Next
  <2>1. ASSUME NEW i \in Honest, Execute(i) PROVE TypeInv'
    BY <2>1, ExecuteType
  <2> QED BY <1>2, <2>1, OracleType, ContractType DEF Next
<1> QED BY <1>1, <1>2

LEMMA TypeInvariant == Spec => []TypeInv
BY InitType, NextType, PTL DEF Spec

\* Every variable keeps its type, for any number of oracles, attempts and
\* restarts: no step reads a field of nil or an index outside the directory.
THEOREM TypeCorrect == Spec => []TypeOK
BY TypeInvariant, PTL DEF TypeInv

\* The artifacts of the executor stay nested (executeR3 and Cleanup).
THEOREM ArtifactsNested == Spec => []ArtifactsAreNested
BY TypeInvariant, PTL DEF TypeInv

-----------------------------------------------------------------------------
(* What a step of the executor does to a message, a key and an artifact.    *)

\* Every way out of Execute but FINISHED passes through OnStartNewDKG.
LEMMA ExecuteEnters ==
  ASSUME NEW i \in Honest, Execute(i) \/ ExecuteNoKeyInfo(i), ~ExecuteFinished(i)
  PROVE  Enter(i)
BY DEF Execute, ExecuteWait, ExecuteR1, ExecuteR2, ExecuteR2Claim, ExecuteR3,
       ExecuteR3Again, ExecuteR3Claim, ExecuteNoKeyInfo

\* The only public key package a step adds to the network carries the artifact
\* and the session key the step leaves in memory.
LEMMA NewPubkeyPackage ==
  ASSUME TypeInv, NEW i \in Honest, Execute(i) \/ ExecuteNoKeyInfo(i),
         NEW m \in net', m \notin net, m.type = "R3"
  PROVE  /\ Enter(i)
         /\ m.from = i
         /\ m.until = snap[i].until
         /\ m.key = signer'[i] /\ signer'[i] # None
         /\ m.pk = art'[i].r3
         /\ ExecuteR3(i) \/ ExecuteR3Again(i)
<1>0. i \in Idx
  BY DEF Honest
<1> DEFINE a == EnteredArt(i)
<1>1. a \in Artifacts
  BY EnteredType
<1>2. ASSUME NEW pk, SendPubkeyPackage(i, pk)
      PROVE  /\ m.from = i /\ m.until = snap[i].until /\ m.pk = pk
             /\ m.key = signer'[i] /\ signer'[i] # None
  BY <1>2 DEF SendPubkeyPackage, Send, NoSend
<1>3. ASSUME NEW c, ExecuteClaim(i, snap[i], c)
      PROVE  FALSE
  BY <1>3 DEF ExecuteClaim, Send, NoSend
<1>4. CASE ExecuteR3(i)
  <2> DEFINE pk == GroupKey(i, snap[i], a)
             b == [a EXCEPT !.r3 = pk, !.r1.x25519 = None]
  <2>1. SendPubkeyPackage(i, pk) /\ art' = [art EXCEPT ![i] = b] /\ Enter(i)
    BY <1>4 DEF ExecuteR3, Leave, NoSend
  <2>2. art'[i].r3 = pk
    BY <1>0, <1>1, <2>1 DEF TypeInv, TypeOK, Artifacts
  <2> QED BY <1>2, <1>4, <2>1, <2>2
<1>5. CASE ExecuteR3Again(i)
  <2>1. SendPubkeyPackage(i, a.r3) /\ art' = [art EXCEPT ![i] = a] /\ Enter(i)
    BY <1>5 DEF ExecuteR3Again, Leave
  <2>2. art'[i].r3 = a.r3
    BY <1>0, <2>1 DEF TypeInv, TypeOK
  <2> QED BY <1>2, <1>5, <2>1, <2>2
<1>6. CASE ~ExecuteR3(i) /\ ~ExecuteR3Again(i)
  <2>1. CASE ExecuteR1(i)
    BY <2>1 DEF ExecuteR1, Send
  <2>2. CASE ExecuteR2(i)
    BY <2>2 DEF ExecuteR2, Send
  <2>3. CASE ExecuteR2Claim(i) \/ ExecuteR3Claim(i)
    BY <1>3, <2>3 DEF ExecuteR2Claim, ExecuteR3Claim
  <2>4. CASE ExecuteFinished(i) \/ ExecuteWait(i) \/ ExecuteNoKeyInfo(i)
    BY <2>4 DEF ExecuteFinished, ExecuteWait, ExecuteNoKeyInfo, NoSend
  <2> QED BY <1>6, <2>1, <2>2, <2>3, <2>4 DEF Execute
<1> QED BY <1>4, <1>5, <1>6

\* What the contract changes in its record when it stores a message.
LEMMA AcceptedUntil ==
  ASSUME NEW d \in Dkg, NEW m \in Msg
  PROVE  /\ Accepted(d, m).until = d.until
         /\ \A j \in Idx :
              /\ Accepted(d, m).keys[j] # d.keys[j] =>
                   m.type = "R3" /\ m.from = j /\ Accepted(d, m).keys[j] = m.key
              /\ Accepted(d, m).r3[j] # d.r3[j] =>
                   m.type = "R3" /\ m.from = j /\ Accepted(d, m).r3[j] = m.pk
<1>1. m.type \in {"R1", "R2", "R3", "Claim"} /\ m.from \in Idx
  BY DEF Msg, Round1Msg, Round2Msg, Round3Msg, ClaimMsg
<1>2. CASE m.type = "R1"
  BY <1>2 DEF Accepted, Dkg
<1>3. CASE m.type = "R2"
  BY <1>3 DEF Accepted, Dkg
<1>4. CASE m.type = "R3"
  BY <1>1, <1>4 DEF Accepted, Dkg
<1>5. CASE m.type = "Claim"
  BY <1>5 DEF Accepted, Dkg
<1> QED BY <1>1, <1>2, <1>3, <1>4, <1>5

-----------------------------------------------------------------------------
(* The session key.                                                         *)

\* SessionKeyIsKept, with what leads to it: the executor never falls behind its
\* own snapshot or runs ahead of the contract, the signer it holds is the stored
\* key, and so is the key of a message under way unless it was replaced after a
\* load that failed.
SessionInv ==
  /\ \A i \in Honest :
       /\ until[i] <= dkg.until
       /\ snap[i] # None =>
            until[i] <= snap[i].until /\ snap[i].until <= dkg.until
       /\ signer[i] # None =>
            until[i] \in Untils /\ sessions[i][until[i]] = signer[i]
       /\ dkg.keys[i] # None =>
            /\ dkg.until \in Untils
            /\ sessions[i][dkg.until] = dkg.keys[i] \/ misread[i][dkg.until] > 0
  /\ \A m \in net : m.type = "R3" =>
       /\ m.from \in Honest
       /\ m.until \in Untils
       /\ m.key # None
       /\ sessions[m.from][m.until] = m.key \/ misread[m.from][m.until] > 0

LEMMA SessionInit == Init => SessionInv
<1> SUFFICES ASSUME Init PROVE SessionInv
  OBVIOUS
<1>1. dkg.until = 0 /\ dkg.keys = NoneYet
  BY DEF Init, NewDkg
<1> QED BY <1>1 DEF Init, SessionInv, NoneYet, Honest

\* NewSessionSigner: entering an attempt changes a key already stored only when
\* its load fails, and the signer it returns is the key stored under the
\* executor's Until.
LEMMA EnterSession ==
  ASSUME TypeInv, SessionInv, NEW i \in Honest, Enter(i)
  PROVE  /\ until'[i] = snap[i].until
         /\ snap[i].until <= dkg.until
         /\ signer'[i] # None =>
              until'[i] \in Untils /\ sessions'[i][until'[i]] = signer'[i]
         /\ \A j \in Honest, u \in Untils :
              sessions[j][u] # None =>
                sessions'[j][u] = sessions[j][u] \/ misread'[j][u] > 0
         /\ \A j \in Honest, u \in Untils :
              misread[j][u] > 0 => misread'[j][u] > 0
<1>0. i \in Idx /\ Honest \subseteq Idx
  BY DEF Honest
<1>1. snap[i] \in Dkg /\ snap[i] # None
  BY EnterType DEF Enter, Receive
<1>2. until[i] <= snap[i].until /\ snap[i].until <= dkg.until
  BY <1>1 DEF SessionInv
<1>3. until[i] \in Nat /\ snap[i].until \in 0 .. MaxUntil
  BY <1>0, <1>1 DEF TypeInv, TypeOK, Dkg
<1>4. until'[i] = snap[i].until
  <2>1. until'[i] = IF IsNew(i) THEN snap[i].until ELSE until[i]
    BY <1>0 DEF Enter, TypeInv, TypeOK
  <2> QED BY <1>2, <1>3, <2>1 DEF IsNew
<1>5. signer'[i] = SessionKey(i)
  BY <1>0 DEF Enter, TypeInv, TypeOK
<1>9. ASSUME NEW j \in Honest, NEW u \in Untils, misread[j][u] > 0
      PROVE  misread'[j][u] > 0
  <2>1. /\ misread[j][u] \in Nat /\ misread'[j][u] \in Nat
        /\ misread[j][u] <= misread'[j][u]
    BY <1>0, LoadSessionType DEF Enter, TypeInv, TypeOK
  <2> QED BY <1>9, <2>1
<1>6. CASE DrawsSession(i)
  <2>1. snap[i].until \in Untils
    BY <1>3, <1>6, DkgAssumption DEF DrawsSession, IsNew, Untils
  <2>2. sessions' = [sessions EXCEPT ![i][snap[i].until] = SessionKey(i)]
    BY <1>6 DEF Enter
  <2>3. sessions'[i][snap[i].until] = SessionKey(i)
    BY <1>0, <2>1, <2>2 DEF TypeInv, TypeOK
  <2>4. ASSUME NEW j \in Honest, NEW u \in Untils, sessions[j][u] # None
        PROVE  sessions'[j][u] = sessions[j][u] \/ misread'[j][u] > 0
    <3>1. CASE j = i /\ u = snap[i].until
      <4>1. misread' = [misread EXCEPT ![i][u] = @ + 1]
        BY <1>6, <2>4, <3>1 DEF DrawsSession, Enter, LoadSession
      <4>2. misread[i][u] \in Nat /\ misread'[i][u] = misread[i][u] + 1
        BY <1>0, <4>1 DEF TypeInv, TypeOK
      <4> QED BY <3>1, <4>2
    <3>2. CASE ~(j = i /\ u = snap[i].until)
      <4>1. sessions'[j][u] = sessions[j][u]
        BY <1>0, <2>1, <2>2, <3>2 DEF TypeInv, TypeOK
      <4> QED BY <4>1
    <3> QED BY <3>1, <3>2
  <2> QED BY <1>2, <1>4, <1>5, <1>9, <2>1, <2>3, <2>4
<1>7. CASE ~DrawsSession(i) /\ IsNew(i)
  <2>1. snap[i].until \in Untils
    BY <1>3, <1>7, DkgAssumption DEF IsNew, Untils
  <2>2. sessions' = sessions /\ SessionKey(i) = sessions[i][snap[i].until]
    BY <1>7 DEF Enter, SessionKey
  <2> QED BY <1>2, <1>4, <1>5, <1>9, <2>1, <2>2
<1>8. CASE ~IsNew(i)
  <2>1. sessions' = sessions /\ SessionKey(i) = signer[i]
    BY <1>8 DEF Enter, SessionKey, DrawsSession
  <2>2. until[i] = snap[i].until
    BY <1>2, <1>3, <1>8 DEF IsNew
  <2> QED BY <1>2, <1>4, <1>5, <1>9, <2>1, <2>2 DEF SessionInv
<1> QED BY <1>6, <1>7, <1>8

LEMMA SessionExecute ==
  ASSUME TypeInv, SessionInv, NEW i \in Honest,
         Execute(i) \/ ExecuteNoKeyInfo(i)
  PROVE  SessionInv'
<1>0. i \in Idx /\ Honest \subseteq Idx
  BY DEF Honest
<1>1. CASE ExecuteFinished(i)
  BY <1>0, <1>1 DEF ExecuteFinished, Receive, NoSend, disk, history, SessionInv,
                    TypeInv, TypeOK
<1>2. CASE ~ExecuteFinished(i)
  <2>1. Enter(i)
    BY <1>2, ExecuteEnters
  <2>2. /\ until'[i] = snap[i].until
        /\ snap[i].until <= dkg.until
        /\ signer'[i] # None =>
             until'[i] \in Untils /\ sessions'[i][until'[i]] = signer'[i]
    BY <2>1, EnterSession
  <2>3. ASSUME NEW j \in Honest, NEW u \in Untils, NEW k, k # None,
               sessions[j][u] = k \/ misread[j][u] > 0
        PROVE  sessions'[j][u] = k \/ misread'[j][u] > 0
    BY <2>1, <2>3, EnterSession
  <2>4. dkg' = dkg /\ snap'[i] = None
    BY <1>0, <2>1 DEF Enter, Receive, TypeInv, TypeOK
  <2>5. ASSUME NEW j \in Honest, j # i
        PROVE  /\ until'[j] = until[j] /\ snap'[j] = snap[j] /\ signer'[j] = signer[j]
               /\ sessions'[j] = sessions[j]
    BY <1>0, <2>1, <2>5 DEF Enter, Receive, TypeInv, TypeOK
  <2>6. ASSUME NEW j \in Honest
        PROVE  /\ until'[j] <= dkg'.until
               /\ snap'[j] # None =>
                    until'[j] <= snap'[j].until /\ snap'[j].until <= dkg'.until
    BY <2>2, <2>4, <2>5 DEF SessionInv
  <2>7. ASSUME NEW j \in Honest, signer'[j] # None
        PROVE  until'[j] \in Untils /\ sessions'[j][until'[j]] = signer'[j]
    <3>1. CASE j = i
      BY <2>2, <2>7, <3>1
    <3>2. CASE j # i
      BY <2>5, <2>7, <3>2 DEF SessionInv
    <3> QED BY <3>1, <3>2
  <2>8. ASSUME NEW j \in Honest, dkg'.keys[j] # None
        PROVE  /\ dkg'.until \in Untils
               /\ sessions'[j][dkg'.until] = dkg'.keys[j] \/ misread'[j][dkg'.until] > 0
    <3>1. /\ dkg.until \in Untils
          /\ sessions[j][dkg.until] = dkg.keys[j] \/ misread[j][dkg.until] > 0
      BY <2>4, <2>8 DEF SessionInv
    <3> QED BY <2>3, <2>4, <2>8, <3>1
  <2>9. ASSUME NEW m \in net', m.type = "R3"
        PROVE  /\ m.from \in Honest
               /\ m.until \in Untils
               /\ m.key # None
               /\ sessions'[m.from][m.until] = m.key \/ misread'[m.from][m.until] > 0
    <3>1. CASE m \in net
      <4>1. /\ m.from \in Honest /\ m.until \in Untils /\ m.key # None
            /\ sessions[m.from][m.until] = m.key \/ misread[m.from][m.until] > 0
        BY <2>9, <3>1 DEF SessionInv
      <4> QED BY <2>3, <4>1
    <3>2. CASE m \notin net
      <4>1. m.from = i /\ m.until = snap[i].until /\ m.key = signer'[i] /\ m.key # None
        BY <2>9, <3>2, NewPubkeyPackage
      <4> QED BY <2>2, <4>1
    <3> QED BY <3>1, <3>2
  <2> QED BY <2>6, <2>7, <2>8, <2>9 DEF SessionInv
<1> QED BY <1>1, <1>2

LEMMA SessionOracle ==
  ASSUME TypeInv, SessionInv, NEW i \in Honest,
         \/ Fetch(i)
         \/ ExecuteStartFails(i)
         \/ Return(i)
         \/ ReturnDifferentPubkey(i)
         \/ Crash(i)
  PROVE  SessionInv'
<1>0. i \in Idx /\ Honest \subseteq Idx
  BY DEF Honest
<1>1. dkg.until \in Nat
  BY DEF TypeInv, TypeOK, Dkg
<1>2. CASE Fetch(i)
  BY <1>0, <1>1, <1>2 DEF Fetch, disk, history, SessionInv, TypeInv, TypeOK
<1>3. CASE ExecuteStartFails(i)
  <2>1. ASSUME NEW j \in Honest, NEW u \in Untils, misread[j][u] > 0
        PROVE  misread'[j][u] > 0
    <3>1. /\ misread[j][u] \in Nat /\ misread'[j][u] \in Nat
          /\ misread[j][u] <= misread'[j][u]
      BY <1>0, <1>3, LoadSessionType DEF ExecuteStartFails, TypeInv, TypeOK
    <3> QED BY <2>1, <3>1
  <2> QED BY <1>0, <1>3, <2>1
          DEF ExecuteStartFails, Receive, NoSend, disk, SessionInv, TypeInv, TypeOK
<1>4. CASE Return(i)
  BY <1>4 DEF Return, disk, history, SessionInv
<1>5. CASE ReturnDifferentPubkey(i)
  <2>1. \A m \in net' : m.type = "R3" => m \in net
    BY <1>5 DEF ReturnDifferentPubkey
  <2> QED BY <1>5, <2>1 DEF ReturnDifferentPubkey, disk, history, SessionInv
<1>6. CASE Crash(i)
  BY <1>0, <1>1, <1>6 DEF Crash, disk, SessionInv, TypeInv, TypeOK
<1> QED BY <1>2, <1>3, <1>4, <1>5, <1>6

LEMMA SessionContract ==
  ASSUME TypeInv, SessionInv,
         \/ StartDKG
         \/ \E m \in net : Deliver(m) \/ Expire(m)
         \/ \E i \in Faulty : FaultySend(i)
  PROVE  SessionInv'
<1>0. Honest \subseteq Idx
  BY DEF Honest
<1>1. CASE StartDKG
  <2>1. dkg'.until = dkg.until + 1 /\ dkg'.keys = NoneYet
    BY <1>1 DEF StartDKG, NewDkg
  <2>2. \A j \in Honest : /\ until[j] \in Nat
                          /\ snap[j] # None => snap[j].until \in Nat
    BY <1>0 DEF TypeInv, TypeOK, Dkg
  <2>3. dkg.until \in Nat /\ net' = {}
    BY <1>1 DEF StartDKG, TypeInv, TypeOK, Dkg
  <2>4. \A j \in Honest : dkg'.keys[j] = None
    BY <1>0, <2>1 DEF NoneYet
  <2>5. UNCHANGED <<snap, until, signer, sessions>>
    BY <1>1 DEF StartDKG, disk, history
  <2>6. ASSUME NEW j \in Honest
        PROVE  /\ until'[j] <= dkg'.until
               /\ snap'[j] # None =>
                    until'[j] <= snap'[j].until /\ snap'[j].until <= dkg'.until
    <3>1. until[j] <= dkg.until /\ until[j] \in Nat
      BY <2>2 DEF SessionInv
    <3>2. snap[j] # None =>
            /\ until[j] <= snap[j].until /\ snap[j].until <= dkg.until
            /\ snap[j].until \in Nat
      BY <2>2 DEF SessionInv
    <3> QED BY <2>1, <2>3, <2>5, <3>1, <3>2
  <2>7. ASSUME NEW j \in Honest, signer'[j] # None
        PROVE  until'[j] \in Untils /\ sessions'[j][until'[j]] = signer'[j]
    BY <2>5, <2>7 DEF SessionInv
  <2> QED BY <2>3, <2>4, <2>6, <2>7 DEF SessionInv
<1>2. CASE \E m \in net : Deliver(m)
  <2>1. PICK m \in net : Deliver(m)
    BY <1>2
  <2>2. dkg'.until = dkg.until
    BY <2>1, AcceptedUntil DEF Deliver, TypeInv, TypeOK
  <2>3. ASSUME NEW j \in Honest, dkg'.keys[j] # None
        PROVE  /\ dkg.until \in Untils
               /\ sessions[j][dkg.until] = dkg'.keys[j] \/ misread[j][dkg.until] > 0
    <3>1. CASE dkg'.keys[j] = dkg.keys[j]
      BY <2>3, <3>1 DEF SessionInv
    <3>2. CASE dkg'.keys[j] # dkg.keys[j]
      <4>1. m.type = "R3" /\ m.from = j /\ dkg'.keys[j] = m.key
        BY <1>0, <2>1, <3>2, AcceptedUntil DEF Deliver, TypeInv, TypeOK
      <4>2. m.until = dkg.until
        BY <2>1 DEF Deliver, CanAccept
      <4> QED BY <4>1, <4>2 DEF SessionInv
    <3> QED BY <3>1, <3>2
  <2> QED BY <2>1, <2>2, <2>3 DEF Deliver, disk, history, SessionInv
<1>3. CASE \E m \in net : Expire(m)
  BY <1>3 DEF Expire, disk, history, SessionInv
<1>4. CASE \E i \in Faulty : FaultySend(i)
  <2>0. PICK i \in Faulty : FaultySend(i)
    BY <1>4
  <2>1. PICK m \in FaultyMsgs(i) : dkg' = Accepted(dkg, m)
    BY <2>0 DEF FaultySend
  <2>2. m \in Msg /\ m.from = i
    BY FaultyMsgsType DEF FaultyMsgs
  <2>3. dkg'.until = dkg.until /\ \A j \in Honest : dkg'.keys[j] = dkg.keys[j]
    BY <1>0, <2>1, <2>2, AcceptedUntil DEF Honest, TypeInv, TypeOK
  <2> QED BY <2>0, <2>3 DEF FaultySend, disk, history, SessionInv
<1> QED BY <1>1, <1>2, <1>3, <1>4

LEMMA SessionNext == TypeInv /\ SessionInv /\ [Next]_vars => SessionInv'
<1> SUFFICES ASSUME TypeInv, SessionInv, [Next]_vars PROVE SessionInv'
  OBVIOUS
<1>1. CASE UNCHANGED vars
  BY <1>1 DEF vars, SessionInv
<1>2. CASE Next
  BY <1>2, SessionExecute, SessionOracle, SessionContract DEF Next
<1> QED BY <1>1, <1>2

\* NewSessionSigner draws a key once per attempt: the key on record with the
\* contract is the stored one, whatever the restarts, resends, late messages and
\* stores that fail, unless the load of that key itself failed once.
THEOREM SessionKeyKept == Spec => []SessionKeyIsKept
<1>1. SessionInv => SessionKeyIsKept
  BY DEF SessionInv, SessionKeyIsKept
<1> QED BY <1>1, SessionInit, SessionNext, TypeInvariant, PTL DEF Spec

-----------------------------------------------------------------------------
(* The secret package.                                                      *)

\* RecordedKeyIsStored, with what leads to it: a secret package held in memory
\* and the key of every package under way are stored.
StoredInv ==
  /\ \A i \in Honest :
       /\ art[i].r3 # None => art[i].r3 \in secrets[i]
       /\ dkg.r3[i] # None => dkg.r3[i] \in secrets[i]
  /\ \A m \in net : m.type = "R3" =>
       m.from \in Honest /\ m.pk \in secrets[m.from]

LEMMA StoredInit == Init => StoredInv
<1> SUFFICES ASSUME Init PROVE StoredInv
  OBVIOUS
<1> QED BY DEF Init, NewDkg, StoredInv, NoneYet, NoArtifacts, Honest

\* Without store failures a step leaves no secret package behind unstored.
LEMMA ExecuteStores ==
  ASSUME StoreMayFail = FALSE, TypeInv, StoredInv, NEW i \in Honest,
         Execute(i) \/ ExecuteNoKeyInfo(i)
  PROVE  /\ \A j \in Honest : secrets[j] \subseteq secrets'[j]
         /\ \A j \in Honest : art'[j].r3 # None => art'[j].r3 \in secrets'[j]
         /\ ExecuteR3(i) => art'[i].r3 \in secrets'[i]
         /\ dkg' = dkg
<1>0. i \in Idx /\ Honest \subseteq Idx
  BY DEF Honest
<1> DEFINE a == EnteredArt(i)
<1>1. a \in Artifacts /\ (a.r3 # None => a.r3 \in secrets[i])
  <2>1. a.r3 # None => a.r3 \in secrets[i]
    BY DEF EnteredArt, NoArtifacts, StoredInv
  <2> QED BY <2>1, EnteredType
<1> HIDE DEF a
<1>2. ASSUME NEW b, art' = [art EXCEPT ![i] = b], b.r3 # None => b.r3 \in secrets[i],
             UNCHANGED secrets
      PROVE  /\ \A j \in Honest : secrets[j] \subseteq secrets'[j]
             /\ \A j \in Honest : art'[j].r3 # None => art'[j].r3 \in secrets'[j]
  BY <1>0, <1>2 DEF StoredInv, TypeInv, TypeOK
<1>3. dkg' = dkg
  BY DEF Execute, ExecuteFinished, ExecuteWait, ExecuteR1, ExecuteR2, ExecuteR2Claim,
         ExecuteR3, ExecuteR3Again, ExecuteR3Claim, ExecuteNoKeyInfo, Enter
<1>4. CASE ExecuteR3(i)
  <2> DEFINE pk == GroupKey(i, snap[i], a)
             b == [a EXCEPT !.r3 = pk, !.r1.x25519 = None]
  <2>1. StoreSecret(i, pk) /\ art' = [art EXCEPT ![i] = b]
    BY <1>4 DEF ExecuteR3, Leave, a
  <2>2. secrets' = [secrets EXCEPT ![i] = @ \cup {pk}]
    BY <2>1 DEF StoreSecret
  <2>3. b.r3 = pk
    BY <1>1 DEF Artifacts
  <2>4. art'[i].r3 = pk /\ pk \in secrets'[i]
    <3> HIDE DEF b, pk
    <3> QED BY <1>0, <2>1, <2>2, <2>3 DEF TypeInv, TypeOK
  <2>5. ASSUME NEW j \in Honest
        PROVE  /\ secrets[j] \subseteq secrets'[j]
               /\ art'[j].r3 # None => art'[j].r3 \in secrets'[j]
    <3> HIDE DEF b, pk
    <3>1. secrets[j] \subseteq secrets'[j]
      BY <1>0, <2>2 DEF TypeInv, TypeOK
    <3>2. j # i => art'[j] = art[j]
      BY <1>0, <2>1 DEF TypeInv, TypeOK
    <3> QED BY <2>4, <3>1, <3>2 DEF StoredInv
  <2> QED BY <1>3, <2>4, <2>5
<1>5. CASE ExecuteFinished(i)
  <2>1. NoArtifacts.r3 = None
    BY DEF NoArtifacts
  <2>2. art' = [art EXCEPT ![i] = NoArtifacts] /\ UNCHANGED secrets /\ ~ExecuteR3(i)
    BY <1>5 DEF ExecuteFinished, disk, ExecuteR3, OwesRound, Finished, Part2Finished
  <2> QED BY <1>2, <1>3, <2>1, <2>2
<1>6. CASE ExecuteR1(i)
  <2>1. PICK r1 : art' = [art EXCEPT ![i] = [a EXCEPT !.r1 = r1]]
    BY <1>6 DEF ExecuteR1, a
  <2>2. UNCHANGED secrets /\ ~ExecuteR3(i)
    BY <1>6 DEF ExecuteR1, ExecuteR3, OwesRound, InProgress, Part2Finished
  <2>3. [a EXCEPT !.r1 = r1].r3 = a.r3
    BY <1>1 DEF Artifacts
  <2> QED BY <1>1, <1>2, <1>3, <2>1, <2>2, <2>3
<1>7. CASE ExecuteR2(i)
  <2>1. PICK r2 : art' = [art EXCEPT ![i] = [a EXCEPT !.r2 = r2]]
    BY <1>7 DEF ExecuteR2, Leave, a
  <2>2. UNCHANGED secrets /\ ~ExecuteR3(i)
    BY <1>7 DEF ExecuteR2, ExecuteR3, OwesRound, Part1Finished, Part2Finished
  <2>3. [a EXCEPT !.r2 = r2].r3 = a.r3
    BY <1>1 DEF Artifacts
  <2> QED BY <1>1, <1>2, <1>3, <2>1, <2>2, <2>3
<1>8. CASE ~ExecuteR3(i) /\ ~ExecuteFinished(i) /\ ~ExecuteR1(i) /\ ~ExecuteR2(i)
  <2>1. art' = [art EXCEPT ![i] = a] /\ UNCHANGED secrets
    BY <1>8 DEF Execute, ExecuteWait, ExecuteR2Claim, ExecuteR3Again, ExecuteR3Claim,
                ExecuteNoKeyInfo, Leave, a
  <2> QED BY <1>1, <1>2, <1>3, <1>8, <2>1
<1> QED BY <1>4, <1>5, <1>6, <1>7, <1>8

LEMMA StoredNext ==
  ASSUME StoreMayFail = FALSE
  PROVE  TypeInv /\ StoredInv /\ [Next]_vars => StoredInv'
<1> SUFFICES ASSUME TypeInv, StoredInv, [Next]_vars PROVE StoredInv'
  OBVIOUS
<1>0. Honest \subseteq Idx
  BY DEF Honest
<1>1. CASE UNCHANGED vars
  BY <1>1 DEF vars, StoredInv
<1>2. ASSUME NEW i \in Honest, Execute(i) \/ ExecuteNoKeyInfo(i)
      PROVE  StoredInv'
  <2>1. /\ \A j \in Honest : secrets[j] \subseteq secrets'[j]
        /\ \A j \in Honest : art'[j].r3 # None => art'[j].r3 \in secrets'[j]
        /\ ExecuteR3(i) => art'[i].r3 \in secrets'[i]
        /\ dkg' = dkg
    BY <1>2, ExecuteStores
  <2>2. ASSUME NEW m \in net', m.type = "R3"
        PROVE  m.from \in Honest /\ m.pk \in secrets'[m.from]
    <3>1. CASE m \in net
      BY <2>1, <2>2, <3>1 DEF StoredInv
    <3>2. CASE m \notin net
      <4>1. m.from = i /\ m.pk = art'[i].r3 /\ (ExecuteR3(i) \/ ExecuteR3Again(i))
        BY <1>2, <2>2, <3>2, NewPubkeyPackage
      <4>2. ExecuteR3Again(i) => art'[i].r3 # None
        BY <1>0 DEF ExecuteR3Again, Leave, TypeInv, TypeOK
      <4> QED BY <2>1, <4>1, <4>2
    <3> QED BY <3>1, <3>2
  <2> QED BY <2>1, <2>2 DEF StoredInv
<1>3. ASSUME NEW i \in Honest,
             \/ Fetch(i)
             \/ ExecuteStartFails(i)
             \/ Return(i)
             \/ ReturnDifferentPubkey(i)
             \/ Crash(i)
      PROVE  StoredInv'
  <2>1. UNCHANGED <<dkg, secrets>>
    BY <1>3 DEF Fetch, ExecuteStartFails, Return, ReturnDifferentPubkey, Crash, disk
  <2>2. \A m \in net' : m.type = "R3" => m \in net
    BY <1>3 DEF Fetch, ExecuteStartFails, NoSend, Return, ReturnDifferentPubkey, Crash
  <2>3. \A j \in Honest : art'[j] = art[j] \/ art'[j].r3 = None
    BY <1>0, <1>3 DEF Fetch, ExecuteStartFails, Return, ReturnDifferentPubkey, Crash,
                      NoArtifacts, TypeInv, TypeOK
  <2> QED BY <2>1, <2>2, <2>3 DEF StoredInv
<1>4. CASE StartDKG
  BY <1>0, <1>4 DEF StartDKG, NewDkg, NoneYet, disk, StoredInv
<1>5. CASE \E m \in net : Deliver(m)
  <2>1. PICK m \in net : Deliver(m)
    BY <1>5
  <2>2. \A j \in Honest : dkg'.r3[j] # dkg.r3[j] =>
          m.type = "R3" /\ m.from = j /\ dkg'.r3[j] = m.pk
    BY <1>0, <2>1, AcceptedUntil DEF Deliver, TypeInv, TypeOK
  <2> QED BY <2>1, <2>2 DEF Deliver, disk, StoredInv
<1>6. CASE \E m \in net : Expire(m)
  BY <1>6 DEF Expire, disk, StoredInv
<1>7. CASE \E i \in Faulty : FaultySend(i)
  <2>1. PICK i \in Faulty : FaultySend(i)
    BY <1>7
  <2>2. PICK m \in FaultyMsgs(i) : dkg' = Accepted(dkg, m)
    BY <2>1 DEF FaultySend
  <2>3. m \in Msg /\ m.from = i
    BY FaultyMsgsType DEF FaultyMsgs
  <2>4. \A j \in Honest : dkg'.r3[j] = dkg.r3[j]
    BY <1>0, <2>2, <2>3, AcceptedUntil DEF Honest, TypeInv, TypeOK
  <2> QED BY <2>1, <2>4 DEF FaultySend, disk, StoredInv
<1> QED BY <1>1, <1>2, <1>3, <1>4, <1>5, <1>6, <1>7 DEF Next

\* executeR3 stores before it sends: as long as the keystore can be written, the
\* secret package of every recorded public key is on the disk of its owner, for
\* every number of oracles, attempts, faulty oracles, restarts, losses and
\* resends.  The assumption is necessary: with store failures the property is
\* false.
THEOREM RecordedKeyStored ==
  ASSUME StoreMayFail = FALSE
  PROVE  Spec => []RecordedKeyIsStored
<1>1. StoredInv => RecordedKeyIsStored
  BY DEF StoredInv, RecordedKeyIsStored
<1>2. TypeInv /\ StoredInv /\ [Next]_vars => StoredInv'
  BY StoredNext
<1> QED BY <1>1, <1>2, StoredInit, TypeInvariant, PTL DEF Spec

-----------------------------------------------------------------------------
(* The record and its snapshots.                                            *)

\* Every round two package the mask asks for is on record.
HasRound2(d) == d.state \in {Part2Finished, Finished}

\* s is what the record d was at an earlier moment of its attempt, or is a
\* record of an earlier attempt.
Earlier(s, d) ==
  s.until = d.until =>
    /\ s.mask = d.mask
    /\ s.state # InProgress => d.state # InProgress /\ s.r1 = d.r1
    /\ HasRound2(s) => HasRound2(d) /\ s.r2 = d.r2
    /\ s.state = Finished => d.state = Finished
    /\ \A j \in Idx : s.r3[j] # None => d.r3[j] # None

\* What the contract's rounds guarantee of a record.
Consistent(d) ==
  /\ d.until = 0 => d.state = Finished
  /\ d.until # 0 => Cardinality(d.mask) >= 2
  /\ d.state # InProgress => \A j \in d.mask : d.r1[j] # None
  /\ HasRound2(d) => \A j \in d.mask : d.r2[j] # None
  /\ \A j \in Idx :
       /\ d.r2[j] # None => d.state # InProgress
       /\ d.r2[j] \notin {None, Garbage} => d.r2[j].seen = d.r1
       /\ d.r3[j] # None => HasRound2(d)
  /\ \A j, k \in Idx : d.r3[j] # None /\ d.r3[k] # None => d.r3[j] = d.r3[k]

RecordInv ==
  /\ Consistent(dkg)
  /\ \A i \in Honest : snap[i] # None =>
       snap[i].until # 0 /\ Earlier(snap[i], dkg)

-----------------------------------------------------------------------------
(* The published key.                                                       *)

\* The key pk that oracle i publishes is the key of the round one packages on
\* record, and the shares it was computed from fit them.
KeyFits(d, i, pk) ==
  /\ HasRound2(d)
  /\ pk = d.r1
  /\ \A j \in d.mask \ {i} : d.r2[j] # Garbage /\ d.r2[j].share = d.r1[j]

\* The shares of package p were encrypted to the round one packages on record.
EncryptedTo(d, p) == d.state # InProgress /\ p.seen = d.r1

ArtifactsFit(d, i, a, u) ==
  /\ a.r1 # None =>
       /\ a.r1.x25519 \in {a.r1.id, None}
       /\ a.r1.x25519 = None => a.r3 # None
  /\ a.r2 # None => a.r2.key = a.r1.id /\ a.r2.share = a.r1.id
  /\ u = d.until =>
       /\ a.r2 # None => EncryptedTo(d, a.r2)
       /\ a.r3 # None => KeyFits(d, i, a.r3)

MessageFits(d, m) ==
  /\ m.from \in Honest
  /\ m.until <= d.until
  /\ m.type = "R2" => m.r2 \in R2Package
  /\ m.until = d.until =>
       /\ m.type = "R2" => EncryptedTo(d, m.r2)
       /\ m.type = "R3" => KeyFits(d, m.from, m.pk)

KeyInv ==
  /\ \A i \in Honest : ArtifactsFit(dkg, i, art[i], until[i])
  /\ \A i \in Honest : dkg.r3[i] # None => KeyFits(dkg, i, dkg.r3[i])
  /\ \A m \in net : MessageFits(dkg, m)

-----------------------------------------------------------------------------
(* Blame.                                                                   *)

\* The round one package of the attempt u that the artifacts a hold is id.
Holds(d, a, u, id) == u = d.until /\ a.r1 # None /\ a.r1.id = id

\* The round two package p was made with the secrets of that package.
MadeOf(d, a, u, p) ==
  p # Garbage /\ p.key = p.share /\ Holds(d, a, u, p.share)

\* Whatever an oracle has on record in the running attempt was made of the
\* artifacts it holds.
RecordIsOwn(d, j, a, u) ==
  /\ d.r1[j] # None => Holds(d, a, u, d.r1[j])
  /\ d.r2[j] # None => MadeOf(d, a, u, d.r2[j])

\* So is whatever it has under way.
MessageIsOwn(d, m, a, u) ==
  m.until = d.until =>
    /\ m.type = "R1" => Holds(d, a, u, m.r1)
    /\ m.type = "R2" => MadeOf(d, a, u, m.r2)

Keeps(i) == dkg.state # Finished /\ dkg.until \notin lost[i]

OwnInv ==
  \A i \in Honest : Keeps(i) =>
    /\ RecordIsOwn(dkg, i, art[i], until[i])
    /\ \A m \in net : m.from = i => MessageIsOwn(dkg, m, art[i], until[i])

Founded(i, c, u) == c \in Honest => u \in lost[i] \cup lost[c]

BlameInv ==
  /\ \A i \in Honest : dkg.claims[i] # None =>
       Founded(i, dkg.claims[i], dkg.until)
  /\ \A m \in net :
       m.type = "Claim" /\ m.until = dkg.until /\ dkg.state # Finished =>
         Founded(m.from, m.culprit, m.until)
  /\ \A i \in Honest :
       call[i] # None /\ call[i].culprit # None /\ until[i] = dkg.until =>
         dkg.r3[call[i].culprit] # None
  /\ \A m \in net :
       /\ call[m.from] # None => m.until <= until[m.from]
       /\ snap[m.from] # None => m.until <= snap[m.from].until

-----------------------------------------------------------------------------
(* What the contract does with a message it accepts.                        *)

\* How the record e differs from the record d in which a message m of each
\* kind was accepted.
Round1Accepted(d, m, e) ==
  /\ e.until = d.until /\ e.mask = d.mask
  /\ e.r1 = [d.r1 EXCEPT ![m.from] = m.r1]
  /\ e.r2 = d.r2 /\ e.r3 = d.r3 /\ e.claims = d.claims
  /\ d.state = InProgress
  /\ \/ e.state = InProgress
     \/ e.state = Part1Finished /\ \A j \in d.mask : e.r1[j] # None

Round2Accepted(d, m, e) ==
  /\ e.until = d.until /\ e.mask = d.mask
  /\ e.r2 = [d.r2 EXCEPT ![m.from] = m.r2]
  /\ e.r1 = d.r1 /\ e.r3 = d.r3 /\ e.claims = d.claims
  /\ d.state = Part1Finished
  /\ \/ e.state = Part1Finished
     \/ e.state = Part2Finished /\ \A j \in d.mask : e.r2[j] # None

Round3Accepted(d, m, e) ==
  /\ e.until = d.until /\ e.mask = d.mask
  /\ e.r3 = [d.r3 EXCEPT ![m.from] = m.pk]
  /\ e.r1 = d.r1 /\ e.r2 = d.r2 /\ e.claims = d.claims
  /\ d.state = Part2Finished
  /\ e.state \in {Part2Finished, Finished}
  /\ ~DifferentPubkeyPackages(d, m)

ClaimAccepted(d, m, e) ==
  /\ e.until = d.until /\ e.mask = d.mask
  /\ e.r1 = d.r1 /\ e.r2 = d.r2 /\ e.r3 = d.r3
  /\ e.claims = [d.claims EXCEPT ![m.from] = m.culprit]
  /\ e.state = d.state /\ d.state # Finished

LEMMA AcceptedRound1 ==
  ASSUME NEW d \in Dkg, NEW m \in Msg, CanAccept(d, m), m.type = "R1",
         NEW e, e = Accepted(d, m)
  PROVE  Round1Accepted(d, m, e)
<1>1. m.from \in Idx /\ m.r1 \in R1Package
  BY DEF Msg, Round1Msg, Round2Msg, Round3Msg, ClaimMsg
<1>2. m.r1 # None
  BY <1>1, DkgAssumption DEF R1Package
<1>3. d.state = InProgress
  BY DEF CanAccept
<1>4. /\ e.until = d.until /\ e.mask = d.mask
      /\ e.r1 = [d.r1 EXCEPT ![m.from] = m.r1]
      /\ e.r2 = d.r2 /\ e.r3 = d.r3 /\ e.claims = d.claims
      /\ e.state = IF \A j \in d.mask \ {m.from} : d.r1[j] # None
                     THEN Part1Finished ELSE d.state
  BY DEF Accepted, Dkg
<1>5. ASSUME \A j \in d.mask \ {m.from} : d.r1[j] # None
      PROVE  \A j \in d.mask : e.r1[j] # None
  <2>1. ASSUME NEW j \in d.mask PROVE e.r1[j] # None
    <3>1. j \in Idx /\ d.r1 \in [Idx -> R1Package \cup {None}]
      BY DEF Dkg, PublicKey
    <3>2. CASE j = m.from
      BY <1>2, <1>4, <3>1, <3>2
    <3>3. CASE j # m.from
      BY <1>4, <1>5, <3>1, <3>3
    <3> QED BY <3>2, <3>3
  <2> QED BY <2>1
<1>6. \/ e.state = InProgress
      \/ e.state = Part1Finished /\ \A j \in d.mask : e.r1[j] # None
  BY <1>3, <1>4, <1>5
<1> QED BY <1>3, <1>4, <1>6 DEF Round1Accepted

LEMMA AcceptedRound2 ==
  ASSUME NEW d \in Dkg, NEW m \in Msg, CanAccept(d, m), m.type = "R2",
         NEW e, e = Accepted(d, m)
  PROVE  Round2Accepted(d, m, e)
<1>1. m.from \in Idx /\ m.r2 \in R2Package \cup {Garbage}
  BY DEF Msg, Round1Msg, Round2Msg, Round3Msg, ClaimMsg
<1>2. m.r2 # None
  BY <1>1, NilAssumption, DkgAssumption
<1>3. d.state = Part1Finished
  BY DEF CanAccept
<1>4. /\ e.until = d.until /\ e.mask = d.mask
      /\ e.r2 = [d.r2 EXCEPT ![m.from] = m.r2]
      /\ e.r1 = d.r1 /\ e.r3 = d.r3 /\ e.claims = d.claims
      /\ e.state = IF \A j \in d.mask \ {m.from} : d.r2[j] # None
                     THEN Part2Finished ELSE d.state
  BY DEF Accepted, Dkg
<1>5. ASSUME \A j \in d.mask \ {m.from} : d.r2[j] # None
      PROVE  \A j \in d.mask : e.r2[j] # None
  <2>1. ASSUME NEW j \in d.mask PROVE e.r2[j] # None
    <3>1. j \in Idx /\ d.r2 \in [Idx -> R2Package \cup {Garbage, None}]
      BY DEF Dkg
    <3>2. CASE j = m.from
      BY <1>2, <1>4, <3>1, <3>2
    <3>3. CASE j # m.from
      BY <1>4, <1>5, <3>1, <3>3
    <3> QED BY <3>2, <3>3
  <2> QED BY <2>1
<1>6. \/ e.state = Part1Finished
      \/ e.state = Part2Finished /\ \A j \in d.mask : e.r2[j] # None
  BY <1>3, <1>4, <1>5
<1> QED BY <1>3, <1>4, <1>6 DEF Round2Accepted

LEMMA AcceptedRound3 ==
  ASSUME NEW d \in Dkg, NEW m \in Msg, CanAccept(d, m), m.type = "R3",
         NEW e, e = Accepted(d, m)
  PROVE  Round3Accepted(d, m, e)
BY DEF CanAccept, Accepted, Dkg, Round3Accepted

LEMMA AcceptedClaim ==
  ASSUME NEW d \in Dkg, NEW m \in Msg, CanAccept(d, m), m.type = "Claim",
         NEW e, e = Accepted(d, m)
  PROVE  ClaimAccepted(d, m, e)
BY DEF CanAccept, Accepted, Dkg, ClaimAccepted

LEMMA MsgType ==
  ASSUME NEW m \in Msg
  PROVE  /\ m.type \in {"R1", "R2", "R3", "Claim"}
         /\ m.from \in Idx /\ m.until \in Nat
         /\ m.type = "R1" => m.r1 \in R1Package
         /\ m.type = "R2" => m.r2 \in R2Package \cup {Garbage}
         /\ m.type = "R3" => m.pk \in PublicKey \cup {Garbage}
         /\ m.type = "Claim" => m.culprit \in Idx
BY DEF Msg, Round1Msg, Round2Msg, Round3Msg, ClaimMsg

\* The round two packages a message may carry so that the record stays
\* consistent.
Encrypted(d, m) ==
  m.type = "R2" /\ m.r2 # Garbage => m.r2.seen = d.r1

LEMMA AcceptedConsistent ==
  ASSUME NEW d \in Dkg, NEW m \in Msg, CanAccept(d, m), Consistent(d),
         Encrypted(d, m), NEW e, e = Accepted(d, m)
  PROVE  Consistent(e)
<1>0. /\ m.from \in Idx
      /\ d.r1 \in [Idx -> R1Package \cup {None}]
      /\ d.r2 \in [Idx -> R2Package \cup {Garbage, None}]
      /\ d.r3 \in [Idx -> PublicKey \cup {Garbage, None}]
      /\ d.mask \subseteq Idx
  BY MsgType DEF Dkg, PublicKey
<1>1. CASE m.type = "R1"
  <2>0. Round1Accepted(d, m, e)
    BY <1>1, AcceptedRound1
  <2>1. /\ e.until = d.until /\ e.mask = d.mask
        /\ e.r1 = [d.r1 EXCEPT ![m.from] = m.r1]
        /\ e.r2 = d.r2 /\ e.r3 = d.r3 /\ e.claims = d.claims
        /\ d.state = InProgress
        /\ \/ e.state = InProgress
           \/ e.state = Part1Finished /\ \A j \in d.mask : e.r1[j] # None
    BY <2>0 DEF Round1Accepted
  <2>2. \A j \in Idx : d.r2[j] = None /\ d.r3[j] = None
    BY <2>1 DEF Consistent, HasRound2, InProgress, Part2Finished, Finished
  <2> QED BY <2>1, <2>2 DEF Consistent, HasRound2, InProgress, Part1Finished,
                            Part2Finished, Finished
<1>2. CASE m.type = "R2"
  <2>0. Round2Accepted(d, m, e)
    BY <1>2, AcceptedRound2
  <2>1. /\ e.until = d.until /\ e.mask = d.mask
        /\ e.r2 = [d.r2 EXCEPT ![m.from] = m.r2]
        /\ e.r1 = d.r1 /\ e.r3 = d.r3
        /\ d.state = Part1Finished
        /\ \/ e.state = Part1Finished
           \/ e.state = Part2Finished /\ \A j \in d.mask : e.r2[j] # None
    BY <2>0 DEF Round2Accepted
  <2>2. \A j \in Idx : d.r3[j] = None
    BY <2>1 DEF Consistent, HasRound2, Part1Finished, Part2Finished, Finished
  <2>3. e.state # InProgress /\ (HasRound2(e) => \A j \in d.mask : e.r2[j] # None)
    BY <2>1 DEF HasRound2, InProgress, Part1Finished, Part2Finished, Finished
  <2>4. ASSUME NEW j \in Idx, e.r2[j] \notin {None, Garbage}
        PROVE  e.r2[j].seen = e.r1
    <3>1. CASE j = m.from
      BY <1>0, <1>2, <2>1, <2>4, <3>1 DEF Encrypted
    <3>2. CASE j # m.from
      BY <1>0, <2>1, <2>4, <3>2 DEF Consistent
    <3> QED BY <3>1, <3>2
  <2>5. d.until # 0 /\ d.state # InProgress
    BY <2>1 DEF Consistent, InProgress, Part1Finished, Finished
  <2> QED BY <2>1, <2>2, <2>3, <2>4, <2>5 DEF Consistent
<1>3. CASE m.type = "R3"
  <2>0. Round3Accepted(d, m, e)
    BY <1>3, AcceptedRound3
  <2>1. /\ e.until = d.until /\ e.mask = d.mask
        /\ e.r3 = [d.r3 EXCEPT ![m.from] = m.pk]
        /\ e.r1 = d.r1 /\ e.r2 = d.r2
        /\ d.state = Part2Finished
        /\ e.state \in {Part2Finished, Finished}
        /\ ~DifferentPubkeyPackages(d, m)
    BY <2>0 DEF Round3Accepted
  <2>2. /\ HasRound2(d) /\ HasRound2(e) /\ d.until # 0
        /\ d.state # InProgress /\ e.state # InProgress
    BY <2>1 DEF Consistent, HasRound2, InProgress, Part2Finished, Finished
  <2>3. \A j \in Idx : e.r3[j] # None =>
          e.r3[j] = m.pk \/ (e.r3[j] = d.r3[j] /\ d.r3[j] = m.pk)
    BY <1>0, <2>1 DEF DifferentPubkeyPackages
  <2> QED BY <2>1, <2>2, <2>3 DEF Consistent
<1>4. CASE m.type = "Claim"
  <2>0. ClaimAccepted(d, m, e)
    BY <1>4, AcceptedClaim
  <2>1. /\ e.until = d.until /\ e.mask = d.mask
        /\ e.r1 = d.r1 /\ e.r2 = d.r2 /\ e.r3 = d.r3
        /\ e.claims = [d.claims EXCEPT ![m.from] = m.culprit]
        /\ e.state = d.state /\ d.state # Finished
    BY <2>0 DEF ClaimAccepted
  <2>2. HasRound2(e) <=> HasRound2(d)
    BY <2>1 DEF HasRound2
  <2> QED BY <2>1, <2>2 DEF Consistent
<1> QED BY <1>1, <1>2, <1>3, <1>4, MsgType

\* What was earlier stays earlier, and a round that is over stays as it is.
LEMMA AcceptedLater ==
  ASSUME NEW d \in Dkg, NEW m \in Msg, CanAccept(d, m),
         NEW e, e = Accepted(d, m)
  PROVE  /\ e.until = d.until /\ e.mask = d.mask
         /\ d.state # Finished
         /\ d.state # InProgress => e.state # InProgress /\ e.r1 = d.r1
         /\ HasRound2(d) => HasRound2(e) /\ e.r2 = d.r2
         /\ \A j \in Idx : d.r3[j] # None => e.r3[j] # None
<1>0. m.from \in Idx /\ d.r3 \in [Idx -> PublicKey \cup {Garbage, None}]
  BY MsgType DEF Dkg
<1>1. CASE m.type = "R1"
  <2>0. Round1Accepted(d, m, e)
    BY <1>1, AcceptedRound1
  <2>1. /\ e.until = d.until /\ e.mask = d.mask
        /\ e.r2 = d.r2 /\ e.r3 = d.r3
        /\ d.state = InProgress
    BY <2>0 DEF Round1Accepted
  <2> QED BY <2>1 DEF HasRound2, InProgress, Part2Finished, Finished
<1>2. CASE m.type = "R2"
  <2>0. Round2Accepted(d, m, e)
    BY <1>2, AcceptedRound2
  <2>1. /\ e.until = d.until /\ e.mask = d.mask
        /\ e.r1 = d.r1 /\ e.r3 = d.r3
        /\ d.state = Part1Finished
        /\ e.state \in {Part1Finished, Part2Finished}
    BY <2>0 DEF Round2Accepted
  <2> QED BY <2>1 DEF HasRound2, InProgress, Part1Finished, Part2Finished, Finished
<1>3. CASE m.type = "R3"
  <2>0. Round3Accepted(d, m, e)
    BY <1>3, AcceptedRound3
  <2>1. /\ e.until = d.until /\ e.mask = d.mask
        /\ e.r3 = [d.r3 EXCEPT ![m.from] = m.pk]
        /\ e.r1 = d.r1 /\ e.r2 = d.r2
        /\ d.state = Part2Finished
        /\ e.state \in {Part2Finished, Finished}
        /\ ~DifferentPubkeyPackages(d, m)
    BY <2>0 DEF Round3Accepted
  <2>2. \A j \in Idx : d.r3[j] # None => e.r3[j] # None
    BY <1>0, <2>1 DEF DifferentPubkeyPackages
  <2> QED BY <2>1, <2>2 DEF HasRound2, InProgress, Part2Finished, Finished
<1>4. CASE m.type = "Claim"
  <2>1. ClaimAccepted(d, m, e)
    BY <1>4, AcceptedClaim
  <2> QED BY <2>1 DEF ClaimAccepted, HasRound2
<1> QED BY <1>1, <1>2, <1>3, <1>4, MsgType

LEMMA AcceptedEarlier ==
  ASSUME NEW d \in Dkg, NEW m \in Msg, CanAccept(d, m),
         NEW e, e = Accepted(d, m), NEW s, Earlier(s, d)
  PROVE  Earlier(s, e)
BY AcceptedLater DEF Earlier

\* The key, the artifacts and the messages that fit the record still fit it.
LEMMA AcceptedFits ==
  ASSUME NEW d \in Dkg, NEW m \in Msg, CanAccept(d, m), Consistent(d),
         NEW e, e = Accepted(d, m)
  PROVE  /\ \A i, pk : KeyFits(d, i, pk) => KeyFits(e, i, pk)
         /\ \A p : EncryptedTo(d, p) => EncryptedTo(e, p)
         /\ \A i, a, u : ArtifactsFit(d, i, a, u) => ArtifactsFit(e, i, a, u)
         /\ \A x : MessageFits(d, x) => MessageFits(e, x)
<1>1. /\ e.until = d.until /\ e.mask = d.mask
      /\ d.state # InProgress => e.state # InProgress /\ e.r1 = d.r1
      /\ HasRound2(d) => HasRound2(e) /\ e.r2 = d.r2 /\ d.state # InProgress
  BY AcceptedLater DEF HasRound2, InProgress, Part2Finished, Finished
<1>2. ASSUME NEW i, NEW pk, KeyFits(d, i, pk)
      PROVE  KeyFits(e, i, pk)
  <2>1. HasRound2(e) /\ e.r2 = d.r2 /\ e.r1 = d.r1 /\ e.mask = d.mask
    BY <1>1, <1>2 DEF KeyFits
  <2> QED BY <1>2, <2>1 DEF KeyFits
<1>3. ASSUME NEW p, EncryptedTo(d, p)
      PROVE  EncryptedTo(e, p)
  BY <1>1, <1>3 DEF EncryptedTo
<1>4. ASSUME NEW i, NEW a, NEW u, ArtifactsFit(d, i, a, u)
      PROVE  ArtifactsFit(e, i, a, u)
  <2>1. u = e.until =>
          /\ a.r2 # None => EncryptedTo(e, a.r2)
          /\ a.r3 # None => KeyFits(e, i, a.r3)
    BY <1>1, <1>2, <1>3, <1>4 DEF ArtifactsFit
  <2> QED BY <1>4, <2>1 DEF ArtifactsFit
<1>5. ASSUME NEW x, MessageFits(d, x)
      PROVE  MessageFits(e, x)
  BY <1>1, <1>2, <1>3, <1>5 DEF MessageFits
<1> QED BY <1>2, <1>3, <1>4, <1>5

\* A faulty oracle's package is one the record stays consistent with.
LEMMA FaultyEncrypted ==
  ASSUME TypeInv, NEW i \in Faulty, NEW m \in FaultyMsgs(i)
  PROVE  m \in Msg /\ m.from = i /\ m.type # "Claim" /\ Encrypted(dkg, m)
<1>1. m \in Msg
  BY FaultyMsgsType
<1> QED BY <1>1 DEF FaultyMsgs, Encrypted

-----------------------------------------------------------------------------
(* The record and its snapshots are consistent.                             *)

\* An oracle does not change the record, and the only snapshot it takes is the
\* record as it is.
LEMMA OracleKeepsRecord ==
  ASSUME TypeInv, NEW i \in Honest,
         \/ Fetch(i)
         \/ Execute(i)
         \/ ExecuteStartFails(i)
         \/ ExecuteNoKeyInfo(i)
         \/ Return(i)
         \/ ReturnDifferentPubkey(i)
         \/ Crash(i)
  PROVE  /\ dkg' = dkg
         /\ \A j \in Honest : \/ snap'[j] = None
                              \/ snap'[j] = snap[j]
                              \/ snap'[j] = dkg /\ dkg.until # 0
<1>0. i \in Idx /\ Honest \subseteq Idx
  BY DEF Honest
<1>1. CASE Fetch(i)
  BY <1>0, <1>1 DEF Fetch, TypeInv, TypeOK
<1>2. CASE Enter(i)
  BY <1>0, <1>2 DEF Enter, Receive, TypeInv, TypeOK
<1>3. CASE ExecuteFinished(i) \/ ExecuteStartFails(i)
  BY <1>0, <1>3 DEF ExecuteFinished, ExecuteStartFails, Receive, TypeInv, TypeOK
<1>4. CASE Return(i) \/ ReturnDifferentPubkey(i) \/ Crash(i)
  BY <1>0, <1>4 DEF Return, ReturnDifferentPubkey, Crash, TypeInv, TypeOK
<1> QED BY <1>1, <1>2, <1>3, <1>4, ExecuteEnters

LEMMA RecordInit == Init => RecordInv
<1> SUFFICES ASSUME Init PROVE RecordInv
  OBVIOUS
<1>1. /\ dkg.until = 0 /\ dkg.state = Finished /\ dkg.mask = {}
      /\ dkg.r2 = NoneYet /\ dkg.r3 = NoneYet
  BY DEF Init, NewDkg
<1>2. Consistent(dkg)
  BY <1>1 DEF Consistent, NoneYet
<1>3. \A i \in Honest : snap[i] = None
  BY DEF Init, NoneYet, Honest
<1> QED BY <1>2, <1>3 DEF RecordInv

LEMMA RecordNext ==
  TypeInv /\ SessionInv /\ RecordInv /\ KeyInv /\ [Next]_vars => RecordInv'
<1> SUFFICES ASSUME TypeInv, SessionInv, RecordInv, KeyInv, [Next]_vars
             PROVE  RecordInv'
  OBVIOUS
<1>0. Honest \subseteq Idx /\ dkg \in Dkg /\ dkg.until \in Nat
  BY DEF Honest, TypeInv, TypeOK, Dkg
<1>1. CASE UNCHANGED vars
  BY <1>1 DEF vars, RecordInv
<1>2. ASSUME NEW i \in Honest,
             \/ Fetch(i)
             \/ Execute(i)
             \/ ExecuteStartFails(i)
             \/ ExecuteNoKeyInfo(i)
             \/ Return(i)
             \/ ReturnDifferentPubkey(i)
             \/ Crash(i)
      PROVE  RecordInv'
  <2>1. /\ dkg' = dkg
        /\ \A j \in Honest : \/ snap'[j] = None
                             \/ snap'[j] = snap[j]
                             \/ snap'[j] = dkg /\ dkg.until # 0
    BY <1>2, OracleKeepsRecord
  <2>2. Earlier(dkg, dkg)
    BY DEF Earlier
  <2>3. ASSUME NEW j \in Honest, snap'[j] # None
        PROVE  snap'[j].until # 0 /\ Earlier(snap'[j], dkg)
    BY <2>1, <2>2, <2>3 DEF RecordInv
  <2> QED BY <2>1, <2>3 DEF RecordInv
<1>3. CASE StartDKG
  <2>1. PICK m \in SUBSET Idx :
          Cardinality(m) >= 2 /\ dkg' = NewDkg(dkg.until + 1, m)
    BY <1>3 DEF StartDKG
  <2>2. /\ dkg'.until = dkg.until + 1 /\ dkg'.state = InProgress /\ dkg'.mask = m
        /\ dkg'.r2 = NoneYet /\ dkg'.r3 = NoneYet
    BY <2>1 DEF NewDkg
  <2>3. Consistent(dkg')
    <3>1. dkg'.until # 0
      BY <1>0, <2>2
    <3>2. \A j \in Idx : dkg'.r2[j] = None /\ dkg'.r3[j] = None
      BY <2>2 DEF NoneYet
    <3>3. dkg'.state = InProgress /\ ~HasRound2(dkg')
      BY <2>2 DEF HasRound2, InProgress, Part2Finished, Finished
    <3> QED BY <2>1, <2>2, <3>1, <3>2, <3>3 DEF Consistent
  <2>4. ASSUME NEW j \in Honest, snap[j] # None
        PROVE  snap[j].until # 0 /\ snap[j].until # dkg'.until
    <3>1. snap[j].until \in Nat /\ snap[j].until <= dkg.until
      BY <1>0, <2>4 DEF SessionInv, TypeInv, TypeOK, Dkg
    <3> QED BY <1>0, <2>2, <2>4, <3>1 DEF RecordInv
  <2>5. snap' = snap
    BY <1>3 DEF StartDKG
  <2> QED BY <2>3, <2>4, <2>5 DEF RecordInv, Earlier
<1>4. ASSUME NEW m \in Msg, CanAccept(dkg, m), dkg' = Accepted(dkg, m),
             Encrypted(dkg, m), snap' = snap
      PROVE  RecordInv'
  <2>1. Consistent(dkg')
    BY <1>0, <1>4, AcceptedConsistent DEF RecordInv
  <2>2. \A j \in Honest : snap[j] # None => Earlier(snap[j], dkg')
    BY <1>0, <1>4, AcceptedEarlier DEF RecordInv
  <2> QED BY <1>4, <2>1, <2>2 DEF RecordInv
<1>5. CASE \E m \in net : Deliver(m)
  <2>1. PICK m \in net : Deliver(m)
    BY <1>5
  <2>2. /\ m \in Msg /\ CanAccept(dkg, m) /\ dkg' = Accepted(dkg, m)
        /\ snap' = snap /\ m.until = dkg.until
    BY <2>1 DEF Deliver, CanAccept, TypeInv, TypeOK
  <2>3. Encrypted(dkg, m)
    BY <2>1, <2>2 DEF KeyInv, MessageFits, EncryptedTo, Encrypted
  <2> QED BY <1>4, <2>2, <2>3
<1>6. CASE \E m \in net : Expire(m)
  BY <1>6 DEF Expire, RecordInv
<1>7. CASE \E i \in Faulty : FaultySend(i)
  <2>1. PICK i \in Faulty : FaultySend(i)
    BY <1>7
  <2>2. PICK m \in FaultyMsgs(i) : CanAccept(dkg, m) /\ dkg' = Accepted(dkg, m)
    BY <2>1 DEF FaultySend
  <2>3. m \in Msg /\ Encrypted(dkg, m)
    BY FaultyEncrypted
  <2>4. snap' = snap
    BY <2>1 DEF FaultySend
  <2> QED BY <1>4, <2>2, <2>3, <2>4
<1> QED BY <1>1, <1>2, <1>3, <1>5, <1>6, <1>7 DEF Next

-----------------------------------------------------------------------------
(* What a step of the executor leaves in memory and sends.                  *)

LEMMA R3CulpritIsBad ==
  ASSUME NEW d \in Dkg, NEW i \in Idx, NEW a
  PROVE  /\ R3Culprit(i, d, a) = None =>
              /\ R1Culprits(d) = {} /\ Malformed(d) = {}
              /\ Undecryptable(i, d, a) = {} /\ WrongShares(i, d) = {}
         /\ R3Culprit(i, d, a) # None =>
              R3Culprit(i, d, a) \in R1Culprits(d) \cup Malformed(d)
                \cup Undecryptable(i, d, a) \cup WrongShares(i, d)
<1>1. /\ R1Culprits(d) \subseteq Idx
      /\ Malformed(d) \subseteq Idx
      /\ Undecryptable(i, d, a) \subseteq Idx
      /\ WrongShares(i, d) \subseteq Idx
  BY DEF R1Culprits, Malformed, Undecryptable, WrongShares, Dkg
<1>2. \A S \in SUBSET Idx : S # {} => LowestIdx(S) \in S /\ LowestIdx(S) # None
  <2>1. ASSUME NEW S \in SUBSET Idx, S # {}
        PROVE  LowestIdx(S) \in S /\ LowestIdx(S) # None
    <3>1. S \in SUBSET Nat
      BY DkgAssumption
    <3>2. LowestIdx(S) \in S
      BY <2>1, <3>1, LowestIdxIsMember
    <3> QED BY <3>1, <3>2, DkgAssumption
  <2> QED BY <2>1
<1> HIDE DEF R1Culprits, Malformed, Undecryptable, WrongShares
<1>3. CASE R1Culprits(d) # {}
  BY <1>1, <1>2, <1>3 DEF R3Culprit
<1>4. CASE R1Culprits(d) = {} /\ Malformed(d) # {}
  BY <1>1, <1>2, <1>4 DEF R3Culprit
<1>5. CASE R1Culprits(d) = {} /\ Malformed(d) = {} /\ Undecryptable(i, d, a) # {}
  BY <1>1, <1>2, <1>5 DEF R3Culprit
<1>6. CASE /\ R1Culprits(d) = {} /\ Malformed(d) = {}
           /\ Undecryptable(i, d, a) = {} /\ WrongShares(i, d) # {}
  BY <1>1, <1>2, <1>6 DEF R3Culprit
<1>7. CASE /\ R1Culprits(d) = {} /\ Malformed(d) = {}
           /\ Undecryptable(i, d, a) = {} /\ WrongShares(i, d) = {}
  BY <1>7 DEF R3Culprit
<1> QED BY <1>3, <1>4, <1>5, <1>6, <1>7

\* A claim that names culprit c was made because of what the snapshot holds.
ClaimsBadRound1(i, c) ==
  /\ snap[i].state = Part1Finished
  /\ c \in R1Culprits(snap[i])

ClaimsBadRound2(i, c) ==
  LET d == snap[i]
      a == EnteredArt(i)
  IN /\ d.state = Part2Finished
     /\ i \in d.mask
     /\ a.r3 = None /\ a.r2 # None
     /\ c \in R1Culprits(d) \cup Malformed(d)
                \cup Undecryptable(i, d, a) \cup WrongShares(i, d)

\* A message a step adds to the network carries an artifact the step leaves in
\* memory, or a claim.
Carries(i, m) ==
  /\ m.from = i
  /\ m.until = snap[i].until
  /\ m.type = "R1" => art'[i].r1 # None /\ m.r1 = art'[i].r1.id
  /\ m.type = "R2" => art'[i].r2 # None /\ m.r2 = art'[i].r2
  /\ m.type = "R3" => art'[i].r3 # None /\ m.pk = art'[i].r3
  /\ m.type = "Claim" =>
       ClaimsBadRound1(i, m.culprit) \/ ClaimsBadRound2(i, m.culprit)

LEMMA NewMessage ==
  ASSUME TypeInv, NEW i \in Honest, Execute(i) \/ ExecuteNoKeyInfo(i),
         NEW m \in net', m \notin net
  PROVE  Enter(i) /\ Carries(i, m)
<1>0. i \in Idx /\ art \in [Idx -> Artifacts]
  BY DEF Honest, TypeInv, TypeOK
<1> DEFINE a == EnteredArt(i)
           d == snap[i]
<1>1. a \in Artifacts
  BY EnteredType
<1>2. ASSUME NEW c, ExecuteClaim(i, d, c)
      PROVE  m.from = i /\ m.until = d.until /\ m.type = "Claim" /\ m.culprit = c
  BY <1>2 DEF ExecuteClaim, Send, NoSend
<1>3. CASE ExecuteFinished(i) \/ ExecuteWait(i) \/ ExecuteNoKeyInfo(i)
  BY <1>3 DEF ExecuteFinished, ExecuteWait, ExecuteNoKeyInfo, NoSend
<1>4. CASE ExecuteR1(i)
  <2> DEFINE g == EnteredGen(i) + 1
             r1 == IF a.r1 # None THEN a.r1 ELSE [id |-> g, x25519 |-> g]
             x == [type |-> "R1", from |-> i, until |-> d.until, r1 |-> r1.id]
  <2>1. /\ Enter(i)
        /\ art' = [art EXCEPT ![i] = [a EXCEPT !.r1 = r1]]
        /\ net' = net \cup {x}
    BY <1>4 DEF ExecuteR1, Send
  <2>2. r1 # None
    <3>1. EnteredGen(i) \in Nat
      BY EnteredType
    <3>2. [id |-> g, x25519 |-> g] \in R1Artifact
      BY <3>1 DEF R1Artifact
    <3> QED BY <3>2, NilAssumption
  <2>3. art'[i].r1 = r1
    <3> HIDE DEF r1, a
    <3> QED BY <1>0, <1>1, <2>1 DEF Artifacts
  <2>4. m = x
    BY <2>1
  <2>5. m.type = "R1" /\ m.from = i /\ m.until = d.until /\ m.r1 = r1.id
    BY <2>4
  <2> HIDE DEF r1, x
  <2> QED BY <2>1, <2>2, <2>3, <2>5 DEF Carries
<1>5. CASE ExecuteR2(i)
  <2> DEFINE r2 == IF a.r2 # None THEN a.r2
                   ELSE [key |-> a.r1.x25519, share |-> a.r1.id, seen |-> d.r1]
             x == [type |-> "R2", from |-> i, until |-> d.until, r2 |-> r2]
  <2>1. /\ Enter(i)
        /\ a.r2 # None \/ a.r1 # None
        /\ art' = [art EXCEPT ![i] = [a EXCEPT !.r2 = r2]]
        /\ net' = net \cup {x}
    BY <1>5 DEF ExecuteR2, Leave, Send
  <2>2. r2 # None
    <3>1. d.r1 \in PublicKey
      BY <2>1, EnterType DEF Dkg
    <3>2. a.r1 # None => [key |-> a.r1.x25519, share |-> a.r1.id, seen |-> d.r1] \in R2Package
      BY <1>1, <3>1 DEF Artifacts, R1Artifact, R2Package
    <3> QED BY <2>1, <3>2, NilAssumption
  <2>3. art'[i].r2 = r2
    <3> HIDE DEF r2, a
    <3> QED BY <1>0, <1>1, <2>1 DEF Artifacts
  <2>4. m = x
    BY <2>1
  <2>5. m.type = "R2" /\ m.from = i /\ m.until = d.until /\ m.r2 = r2
    BY <2>4
  <2> HIDE DEF r2, x
  <2> QED BY <2>1, <2>2, <2>3, <2>5 DEF Carries
<1>6. CASE ExecuteR2Claim(i)
  <2>1. /\ Enter(i)
        /\ d.state = Part1Finished
        /\ R1Culprits(d) # {}
        /\ ExecuteClaim(i, d, LowestIdx(R1Culprits(d)))
    BY <1>6 DEF ExecuteR2Claim, OwesRound
  <2>2. R1Culprits(d) \in SUBSET Nat
    <3>1. d \in Dkg
      BY <2>1, EnterType
    <3> QED BY <3>1, DkgAssumption DEF Dkg, R1Culprits
  <2>3. LowestIdx(R1Culprits(d)) \in R1Culprits(d)
    BY <2>1, <2>2, LowestIdxIsMember
  <2>4. /\ m.from = i /\ m.until = d.until /\ m.type = "Claim"
        /\ m.culprit = LowestIdx(R1Culprits(d))
    BY <1>2, <2>1
  <2> QED BY <2>1, <2>3, <2>4 DEF Carries, ClaimsBadRound1
<1>7. CASE ExecuteR3Claim(i)
  <2>1. /\ Enter(i)
        /\ d.state = Part2Finished /\ i \in d.mask
        /\ a.r3 = None /\ a.r2 # None
        /\ R3Culprit(i, d, a) # None
        /\ ExecuteClaim(i, d, R3Culprit(i, d, a))
    BY <1>7 DEF ExecuteR3Claim, OwesRound
  <2>2. R3Culprit(i, d, a) \in R1Culprits(d) \cup Malformed(d)
                \cup Undecryptable(i, d, a) \cup WrongShares(i, d)
    <3>1. d \in Dkg
      BY <2>1, EnterType
    <3> QED BY <1>0, <2>1, <3>1, R3CulpritIsBad
  <2>3. /\ m.from = i /\ m.until = d.until /\ m.type = "Claim"
        /\ m.culprit = R3Culprit(i, d, a)
    BY <1>2, <2>1
  <2> QED BY <2>1, <2>2, <2>3 DEF Carries, ClaimsBadRound2
<1>8. ASSUME NEW pk, SendPubkeyPackage(i, pk)
      PROVE  m.from = i /\ m.until = d.until /\ m.type = "R3" /\ m.pk = pk
  BY <1>8 DEF SendPubkeyPackage, Send, NoSend
<1>9. CASE ExecuteR3(i)
  <2> DEFINE pk == GroupKey(i, d, a)
             b == [a EXCEPT !.r3 = pk, !.r1.x25519 = None]
  <2>1. SendPubkeyPackage(i, pk) /\ art' = [art EXCEPT ![i] = b] /\ Enter(i) /\ a.r2 # None
    BY <1>9 DEF ExecuteR3, Leave, NoSend
  <2>2. art'[i].r3 = pk
    BY <1>0, <1>1, <2>1 DEF Artifacts
  <2>3. pk # None
    BY <1>0, <1>1, <2>1, EnterType, GroupKeyType, NilAssumption
  <2> QED BY <1>8, <2>1, <2>2, <2>3 DEF Carries
<1>10. CASE ExecuteR3Again(i)
  <2>1. SendPubkeyPackage(i, a.r3) /\ art' = [art EXCEPT ![i] = a] /\ Enter(i) /\ a.r3 # None
    BY <1>10 DEF ExecuteR3Again, Leave
  <2>2. art'[i] = a
    BY <1>0, <2>1
  <2> QED BY <1>8, <2>1, <2>2 DEF Carries
<1> QED BY <1>3, <1>4, <1>5, <1>6, <1>7, <1>9, <1>10 DEF Execute

\* What the executor holds on entry was made in the attempt it enters.
LEMMA EnteredFits ==
  ASSUME TypeInv, SessionInv, KeyInv, NEW i \in Honest, Enter(i)
  PROVE  /\ ArtifactsFit(dkg, i, EnteredArt(i), snap[i].until)
         /\ EnteredArt(i).r1 # None =>
              EnteredArt(i) = art[i] /\ until[i] = snap[i].until
         /\ until[i] = snap[i].until => EnteredArt(i) = art[i]
<1>0. i \in Idx
  BY DEF Honest
<1>1. /\ snap[i] # None /\ snap[i].until \in Nat /\ until[i] \in Nat
      /\ until[i] <= snap[i].until
  BY <1>0, EnterType DEF Enter, Receive, SessionInv, TypeInv, TypeOK, Dkg
<1>2. CASE IsNew(i)
  <2>1. EnteredArt(i) = NoArtifacts /\ until[i] # snap[i].until
    BY <1>1, <1>2 DEF EnteredArt, IsNew
  <2> QED BY <2>1 DEF ArtifactsFit, NoArtifacts
<1>3. CASE ~IsNew(i)
  <2>1. EnteredArt(i) = art[i] /\ until[i] = snap[i].until
    BY <1>1, <1>3 DEF EnteredArt, IsNew
  <2> QED BY <2>1 DEF KeyInv
<1> QED BY <1>2, <1>3

\* DkgPart3 on verified packages computes the key of the record: another signer's
\* shares were encrypted to the very package this oracle has on record.
LEMMA GroupKeyFits ==
  ASSUME TypeInv, SessionInv, RecordInv, KeyInv, NEW i \in Honest,
         ExecuteR3(i), snap[i].until = dkg.until
  PROVE  KeyFits(dkg, i, GroupKey(i, snap[i], EnteredArt(i)))
<1> DEFINE a == EnteredArt(i)
           d == snap[i]
<1>0. i \in Idx
  BY DEF Honest
<1>1. /\ Enter(i) /\ d # None /\ d \in Dkg
      /\ d.state = Part2Finished /\ i \in d.mask
      /\ a.r3 = None /\ a.r2 # None
      /\ R3Culprit(i, d, a) = None
  BY EnterType DEF ExecuteR3, OwesRound, Enter, Receive
<1>2. Earlier(d, dkg) /\ Consistent(dkg) /\ d.until # 0
  BY <1>1 DEF RecordInv
<1>3. HasRound2(d) /\ d.state # InProgress
  BY <1>1 DEF HasRound2, InProgress, Part2Finished
<1>4. HasRound2(dkg) /\ d.mask = dkg.mask /\ d.r1 = dkg.r1 /\ d.r2 = dkg.r2
  BY <1>2, <1>3 DEF Earlier
<1>5. /\ Malformed(d) = {} /\ Undecryptable(i, d, a) = {} /\ WrongShares(i, d) = {}
  BY <1>0, <1>1, R3CulpritIsBad
<1>6. \A j \in dkg.mask \ {i} :
        /\ dkg.r2[j] # Garbage
        /\ dkg.r2[j].share = dkg.r1[j]
        /\ dkg.r2[j].seen[i] = a.r1.x25519
  BY <1>4, <1>5 DEF Malformed, Undecryptable, WrongShares
<1>7. PICK j \in dkg.mask : j # i
  <2>1. Cardinality(dkg.mask) >= 2
    BY <1>2 DEF Consistent
  <2>2. dkg.mask # {i}
    BY <2>1, FS_Singleton
  <2> QED BY <1>1, <1>4, <2>2
<1>8. dkg.r1[i] = a.r1.x25519
  <2>1. j \in Idx
    BY DEF TypeInv, TypeOK, Dkg
  <2>2. dkg.r2[j] # None
    BY <1>2, <1>4 DEF Consistent
  <2>3. dkg.r2[j].seen = dkg.r1
    BY <1>2, <1>6, <1>7, <2>1, <2>2 DEF Consistent
  <2> QED BY <1>6, <1>7, <2>3
<1>9. a.r2.share = dkg.r1[i]
  <2>1. Nested(a)
    BY EnteredType
  <2>2. ArtifactsFit(dkg, i, a, d.until)
    BY <1>1, EnteredFits
  <2>3. a.r1 # None /\ a.r1.x25519 = a.r1.id /\ a.r2.share = a.r1.id
    BY <1>1, <2>1, <2>2 DEF ArtifactsFit, Nested
  <2> QED BY <1>8, <2>3
<1>10. GroupKey(i, d, a) = dkg.r1
  <2>1. dkg.r1 \in [Idx -> R1Package \cup {None}]
    BY DEF TypeInv, TypeOK, Dkg, PublicKey
  <2> QED BY <1>4, <1>9, <2>1 DEF GroupKey
<1> QED BY <1>4, <1>6, <1>10 DEF KeyFits

\* Whatever a step leaves in memory fits the record, and a package drawn for the
\* attempt is never replaced by another.
LEMMA StepFits ==
  ASSUME TypeInv, SessionInv, RecordInv, KeyInv, NEW i \in Honest,
         Execute(i) \/ ExecuteNoKeyInfo(i), ~ExecuteFinished(i)
  PROVE  /\ ArtifactsFit(dkg, i, art'[i], snap[i].until)
         /\ EnteredArt(i).r1 # None =>
              art'[i].r1 # None /\ art'[i].r1.id = EnteredArt(i).r1.id
<1> DEFINE a == EnteredArt(i)
           d == snap[i]
<1>0. i \in Idx /\ art \in [Idx -> Artifacts]
  BY DEF Honest, TypeInv, TypeOK
<1>1. Enter(i)
  BY ExecuteEnters
<1>2. ArtifactsFit(dkg, i, a, d.until) /\ a \in Artifacts /\ Nested(a)
  BY <1>1, EnteredFits, EnteredType
<1>3. d \in Dkg /\ d # None
  BY <1>1, EnterType DEF Enter, Receive
<1>4. Earlier(d, dkg)
  BY <1>3 DEF RecordInv
<1>5. CASE art' = [art EXCEPT ![i] = a]
  <2>1. art'[i] = a
    <3> HIDE DEF a
    <3> QED BY <1>0, <1>5
  <2> QED BY <1>2, <2>1
<1>6. CASE ExecuteR1(i)
  <2> DEFINE g == EnteredGen(i) + 1
             r1 == IF a.r1 # None THEN a.r1 ELSE [id |-> g, x25519 |-> g]
  <2>1. art' = [art EXCEPT ![i] = [a EXCEPT !.r1 = r1]]
    BY <1>6 DEF ExecuteR1
  <2>2. CASE a.r1 # None
    <3>1. art' = [art EXCEPT ![i] = a]
      BY <1>2, <2>1, <2>2 DEF Artifacts
    <3> QED BY <1>5, <3>1
  <2>3. CASE a.r1 = None
    <3>1. a.r2 = None /\ a.r3 = None
      BY <1>2, <2>3 DEF Nested
    <3>2. g \in Nat
      BY EnteredType
    <3> HIDE DEF g, a
    <3>3. /\ art'[i].r1 = [id |-> g, x25519 |-> g]
          /\ art'[i].r2 = None /\ art'[i].r3 = None
      BY <1>0, <1>2, <2>1, <2>3, <3>1 DEF Artifacts
    <3>4. art'[i].r1.id = g /\ art'[i].r1.x25519 = g
      BY <3>3
    <3>5. g # None
      BY <3>2, DkgAssumption
    <3>6. /\ ArtifactsFit(dkg, i, art'[i], d.until)
          /\ a.r1 # None => art'[i].r1 # None /\ art'[i].r1.id = a.r1.id
      <4>1. art'[i].r1 # None
        BY <3>2, <3>3, NilAssumption DEF R1Artifact
      <4> QED BY <2>3, <3>3, <3>4, <3>5, <4>1 DEF ArtifactsFit
    <3> QED BY <3>6 DEF a
  <2> QED BY <2>2, <2>3
<1>7. CASE ExecuteR2(i)
  <2> DEFINE p == [key |-> a.r1.x25519, share |-> a.r1.id, seen |-> d.r1]
             r2 == IF a.r2 # None THEN a.r2 ELSE p
  <2>1. /\ art' = [art EXCEPT ![i] = [a EXCEPT !.r2 = r2]]
        /\ d.state = Part1Finished
        /\ a.r2 # None \/ a.r1 # None
    BY <1>7 DEF ExecuteR2, Leave, OwesRound
  <2>2. CASE a.r2 # None
    <3>1. art' = [art EXCEPT ![i] = a]
      BY <1>2, <2>1, <2>2 DEF Artifacts
    <3> QED BY <1>5, <3>1
  <2>3. CASE a.r2 = None
    <3>1. a.r1 # None /\ a.r3 = None /\ a.r1.x25519 = a.r1.id
      BY <1>2, <2>1, <2>3 DEF Nested, ArtifactsFit
    <3>2. p.key = a.r1.id /\ p.share = a.r1.id /\ p.seen = d.r1
      BY <3>1
    <3> HIDE DEF a, p
    <3>3. art'[i].r1 = a.r1 /\ art'[i].r2 = p /\ art'[i].r3 = None
      BY <1>0, <1>2, <2>1, <2>3, <3>1 DEF Artifacts
    <3>4. d.until = dkg.until => EncryptedTo(dkg, p)
      BY <1>4, <2>1, <3>2 DEF Earlier, EncryptedTo, InProgress, Part1Finished
    <3>5. /\ ArtifactsFit(dkg, i, art'[i], d.until)
          /\ a.r1 # None => art'[i].r1 # None /\ art'[i].r1.id = a.r1.id
      BY <1>2, <3>1, <3>2, <3>3, <3>4 DEF ArtifactsFit
    <3> QED BY <3>5 DEF a
  <2> QED BY <2>2, <2>3
<1>8. CASE ExecuteR3(i)
  <2> DEFINE pk == GroupKey(i, d, a)
             b == [a EXCEPT !.r3 = pk, !.r1.x25519 = None]
  <2>1. art' = [art EXCEPT ![i] = b] /\ a.r2 # None
    BY <1>8 DEF ExecuteR3, Leave
  <2>2. a.r1 # None /\ a.r1 \in R1Artifact
    BY <1>2, <2>1 DEF Nested, Artifacts
  <2>3. pk # None
    BY <1>0, <1>2, <1>3, <2>1, GroupKeyType, NilAssumption
  <2>4. d.until = dkg.until => KeyFits(dkg, i, pk)
    BY <1>8, GroupKeyFits
  <2> HIDE DEF a, pk
  <2>5. /\ art'[i].r1 = [a.r1 EXCEPT !.x25519 = None]
        /\ art'[i].r2 = a.r2 /\ art'[i].r3 = pk
    BY <1>0, <1>2, <2>1 DEF Artifacts
  <2>6. art'[i].r1.id = a.r1.id /\ art'[i].r1.x25519 = None
    BY <2>2, <2>5 DEF R1Artifact
  <2>7. art'[i].r1 # None
    <3>1. [a.r1 EXCEPT !.x25519 = None] \in R1Artifact
      BY <2>2 DEF R1Artifact
    <3> QED BY <2>5, <3>1, NilAssumption
  <2>8. /\ ArtifactsFit(dkg, i, art'[i], d.until)
        /\ a.r1 # None => art'[i].r1 # None /\ art'[i].r1.id = a.r1.id
    BY <1>2, <2>1, <2>3, <2>4, <2>5, <2>6, <2>7 DEF ArtifactsFit
  <2> QED BY <2>8 DEF a
<1>9. CASE ~ExecuteR1(i) /\ ~ExecuteR2(i) /\ ~ExecuteR3(i)
  <2>1. art' = [art EXCEPT ![i] = a]
    BY <1>9 DEF Execute, ExecuteWait, ExecuteR2Claim, ExecuteR3Again, ExecuteR3Claim,
                ExecuteNoKeyInfo, Leave
  <2> QED BY <1>5, <2>1
<1> QED BY <1>6, <1>7, <1>8, <1>9

-----------------------------------------------------------------------------
(* The published key is the key of the record.                              *)

LEMMA NoArtifactsFit ==
  ASSUME NEW d, NEW i, NEW u
  PROVE  ArtifactsFit(d, i, NoArtifacts, u)
BY DEF ArtifactsFit, NoArtifacts

LEMMA KeyInit == Init => KeyInv
<1> SUFFICES ASSUME Init PROVE KeyInv
  OBVIOUS
<1>1. \A i \in Honest : art[i] = NoArtifacts
  BY DEF Init, Honest
<1>2. \A i \in Honest : dkg.r3[i] = None
  BY DEF Init, NewDkg, NoneYet, Honest
<1>3. net = {}
  BY DEF Init
<1> QED BY <1>1, <1>2, <1>3, NoArtifactsFit DEF KeyInv

LEMMA KeyExecute ==
  ASSUME TypeInv, SessionInv, RecordInv, KeyInv, NEW i \in Honest,
         Execute(i) \/ ExecuteNoKeyInfo(i)
  PROVE  KeyInv'
<1>0. i \in Idx /\ Honest \subseteq Idx /\ art \in [Idx -> Artifacts] /\ until \in [Idx -> Nat]
  BY DEF Honest, TypeInv, TypeOK
<1>1. dkg' = dkg
  BY OracleKeepsRecord
<1>2. CASE ExecuteFinished(i)
  <2>1. net' = net /\ until' = until /\ art' = [art EXCEPT ![i] = NoArtifacts]
    BY <1>2 DEF ExecuteFinished, NoSend
  <2>2. ASSUME NEW j \in Honest
        PROVE  ArtifactsFit(dkg, j, art'[j], until'[j])
    <3>1. art'[j] = NoArtifacts \/ art'[j] = art[j]
      BY <1>0, <2>1
    <3> QED BY <2>1, <3>1, NoArtifactsFit DEF KeyInv
  <2> QED BY <1>1, <2>1, <2>2 DEF KeyInv
<1>3. CASE ~ExecuteFinished(i)
  <2>1. Enter(i)
    BY <1>3, ExecuteEnters
  <2>2. until'[i] = snap[i].until /\ snap[i].until <= dkg.until
    BY <2>1, EnterSession
  <2>3. ArtifactsFit(dkg, i, art'[i], snap[i].until)
    BY <1>3, StepFits
  <2>4. ASSUME NEW j \in Honest
        PROVE  ArtifactsFit(dkg, j, art'[j], until'[j])
    <3>1. CASE j = i
      BY <2>2, <2>3, <3>1
    <3>2. CASE j # i
      <4>1. until'[j] = until[j]
        BY <1>0, <2>1, <3>2 DEF Enter
      <4>2. art'[j] = art[j]
        BY <1>0, <1>3, <3>2
           DEF Execute, ExecuteWait, ExecuteR1, ExecuteR2, ExecuteR2Claim, ExecuteR3,
               ExecuteR3Again, ExecuteR3Claim, ExecuteNoKeyInfo, Leave
      <4> QED BY <4>1, <4>2 DEF KeyInv
    <3> QED BY <3>1, <3>2
  <2>5. ASSUME NEW m \in net'
        PROVE  MessageFits(dkg, m)
    <3>1. CASE m \in net
      BY <3>1 DEF KeyInv
    <3>2. CASE m \notin net
      <4>1. Carries(i, m)
        BY <3>2, NewMessage
      <4>2. m.type = "R2" => m.r2 \in R2Package
        <5>1. TypeInv'
          <6>1. CASE Execute(i)
            BY <6>1, ExecuteType
          <6>2. CASE ExecuteNoKeyInfo(i)
            BY <6>2, OracleType
          <6> QED BY <6>1, <6>2
        <5>2. art'[i].r2 # None => art'[i].r2 \in R2Package
          BY <1>0, <5>1 DEF TypeInv, TypeOK, Artifacts
        <5> QED BY <4>1, <5>2 DEF Carries
      <4> QED BY <2>2, <2>3, <4>1, <4>2 DEF Carries, MessageFits, ArtifactsFit
    <3> QED BY <3>1, <3>2
  <2> QED BY <1>1, <2>4, <2>5 DEF KeyInv
<1> QED BY <1>2, <1>3

LEMMA KeyOracle ==
  ASSUME TypeInv, SessionInv, RecordInv, KeyInv, NEW i \in Honest,
         \/ Fetch(i)
         \/ ExecuteStartFails(i)
         \/ Return(i)
         \/ ReturnDifferentPubkey(i)
         \/ Crash(i)
  PROVE  KeyInv'
<1>0. i \in Idx /\ Honest \subseteq Idx /\ art \in [Idx -> Artifacts] /\ until \in [Idx -> Nat]
  BY DEF Honest, TypeInv, TypeOK
<1>1. dkg' = dkg
  BY OracleKeepsRecord
<1>2. ASSUME NEW j \in Honest
      PROVE  ArtifactsFit(dkg, j, art'[j], until'[j])
  <2>1. art'[j] = NoArtifacts \/ (art'[j] = art[j] /\ until'[j] = until[j])
    BY <1>0 DEF Fetch, ExecuteStartFails, Return, ReturnDifferentPubkey, Crash
  <2> QED BY <2>1, NoArtifactsFit DEF KeyInv
<1>3. ASSUME NEW m \in net'
      PROVE  MessageFits(dkg, m)
  <2>1. CASE m \in net
    BY <2>1 DEF KeyInv
  <2>2. CASE m \notin net
    <3>1. ReturnDifferentPubkey(i)
      BY <2>2 DEF Fetch, ExecuteStartFails, NoSend, Return, Crash
    <3>2. PICK x \in net :
            /\ x.from = i
            /\ m = [type |-> "Claim", from |-> i, until |-> x.until,
                    culprit |-> call[i].culprit]
      BY <2>2, <3>1 DEF ReturnDifferentPubkey
    <3>3. m.type = "Claim" /\ m.from = i /\ m.until = x.until
      BY <3>2
    <3>4. x.until <= dkg.until
      BY DEF KeyInv, MessageFits
    <3> QED BY <3>3, <3>4 DEF MessageFits
  <2> QED BY <2>1, <2>2
<1> QED BY <1>1, <1>2, <1>3 DEF KeyInv

LEMMA KeyContract ==
  ASSUME TypeInv, SessionInv, RecordInv, KeyInv,
         \/ StartDKG
         \/ \E m \in net : Deliver(m) \/ Expire(m)
         \/ \E i \in Faulty : FaultySend(i)
  PROVE  KeyInv'
<1>0. Honest \subseteq Idx /\ dkg \in Dkg /\ dkg.until \in Nat /\ until \in [Idx -> Nat]
  BY DEF Honest, TypeInv, TypeOK, Dkg
<1>1. CASE StartDKG
  <2>1. /\ dkg'.until = dkg.until + 1
        /\ dkg'.r3 = NoneYet
        /\ net' = {} /\ art' = art /\ until' = until
    BY <1>1 DEF StartDKG, NewDkg
  <2>2. ASSUME NEW j \in Honest
        PROVE  ArtifactsFit(dkg', j, art[j], until[j])
    <3>1. until[j] # dkg'.until
      BY <1>0, <2>1 DEF SessionInv
    <3>2. ArtifactsFit(dkg, j, art[j], until[j])
      BY DEF KeyInv
    <3> QED BY <3>1, <3>2 DEF ArtifactsFit
  <2>3. \A j \in Honest : dkg'.r3[j] = None
    BY <1>0, <2>1 DEF NoneYet
  <2> QED BY <2>1, <2>2, <2>3 DEF KeyInv
<1>2. ASSUME NEW m \in Msg, CanAccept(dkg, m), dkg' = Accepted(dkg, m),
             m.from \in Honest /\ m.type = "R3" => KeyFits(dkg, m.from, m.pk),
             art' = art, until' = until, net' \subseteq net
      PROVE  KeyInv'
  <2>1. /\ \A i, pk : KeyFits(dkg, i, pk) => KeyFits(dkg', i, pk)
        /\ \A i, a, u : ArtifactsFit(dkg, i, a, u) => ArtifactsFit(dkg', i, a, u)
        /\ \A x : MessageFits(dkg, x) => MessageFits(dkg', x)
    BY <1>0, <1>2, AcceptedFits DEF RecordInv
  <2>2. ASSUME NEW j \in Honest, dkg'.r3[j] # None
        PROVE  KeyFits(dkg', j, dkg'.r3[j])
    <3>1. CASE dkg'.r3[j] = dkg.r3[j]
      BY <2>1, <2>2, <3>1 DEF KeyInv
    <3>2. CASE dkg'.r3[j] # dkg.r3[j]
      <4>1. m.type = "R3" /\ m.from = j /\ dkg'.r3[j] = m.pk
        BY <1>0, <1>2, <3>2, AcceptedUntil
      <4> QED BY <1>2, <2>1, <4>1
    <3> QED BY <3>1, <3>2
  <2> QED BY <1>2, <2>1, <2>2 DEF KeyInv
<1>3. CASE \E m \in net : Deliver(m)
  <2>1. PICK m \in net : Deliver(m)
    BY <1>3
  <2>2. /\ m \in Msg /\ CanAccept(dkg, m) /\ dkg' = Accepted(dkg, m)
        /\ art' = art /\ until' = until /\ net' \subseteq net
        /\ m.until = dkg.until
    BY <2>1 DEF Deliver, CanAccept, TypeInv, TypeOK
  <2>3. m.type = "R3" => KeyFits(dkg, m.from, m.pk)
    BY <2>2 DEF KeyInv, MessageFits
  <2> QED BY <1>2, <2>2, <2>3
<1>4. CASE \E m \in net : Expire(m)
  BY <1>4 DEF Expire, KeyInv
<1>5. CASE \E i \in Faulty : FaultySend(i)
  <2>1. PICK i \in Faulty : FaultySend(i)
    BY <1>5
  <2>2. PICK m \in FaultyMsgs(i) : CanAccept(dkg, m) /\ dkg' = Accepted(dkg, m)
    BY <2>1 DEF FaultySend
  <2>3. m \in Msg /\ m.from \notin Honest
    BY FaultyEncrypted DEF Honest
  <2>4. art' = art /\ until' = until /\ net' = net
    BY <2>1 DEF FaultySend
  <2> QED BY <1>2, <2>2, <2>3, <2>4
<1> QED BY <1>1, <1>3, <1>4, <1>5

LEMMA KeyNext ==
  TypeInv /\ SessionInv /\ RecordInv /\ KeyInv /\ [Next]_vars => KeyInv'
<1> SUFFICES ASSUME TypeInv, SessionInv, RecordInv, KeyInv, [Next]_vars
             PROVE  KeyInv'
  OBVIOUS
<1>1. CASE UNCHANGED vars
  BY <1>1 DEF vars, KeyInv
<1>2. CASE Next
  BY <1>2, KeyExecute, KeyOracle, KeyContract DEF Next
<1> QED BY <1>1, <1>2

LEMMA KeyInvariant == Spec => [](SessionInv /\ RecordInv /\ KeyInv)
BY SessionInit, SessionNext, RecordInit, RecordNext, KeyInit, KeyNext, TypeInvariant,
   PTL DEF Spec

LEMMA PublishedKeyFits == Spec => []PublishedKeyIsOfRecord
<1>1. KeyInv => PublishedKeyIsOfRecord
  BY DEF KeyInv, KeyFits, PublishedKeyIsOfRecord
<1> QED BY <1>1, KeyInvariant, PTL

\* DkgInv: with the types, executeR3 publishes the key of the round one packages
\* on record and of verified shares only, for every number of oracles and attempts,
\* and whatever the faulty oracles store: a package drawn again after a restart, or
\* an artifact of an earlier attempt, never makes it into a published key.
THEOREM PublishedKeyOfRecord == Spec => []DkgInv
<1>1. TypeInv /\ PublishedKeyIsOfRecord => DkgInv
  BY DEF TypeInv, DkgInv
<1> QED BY <1>1, TypeInvariant, PublishedKeyFits, PTL

-----------------------------------------------------------------------------
(* The ceremony.                                                            *)

\* RecordedKeyIsStored where stores cannot fail.
StoredIfReliable == StoreMayFail = FALSE => RecordedKeyIsStored

LEMMA StoredAlways == Spec => []StoredIfReliable
<1>1. CASE StoreMayFail = FALSE
  <2>1. RecordedKeyIsStored => StoredIfReliable
    BY DEF StoredIfReliable
  <2> QED BY <1>1, <2>1, RecordedKeyStored, PTL
<1>2. CASE StoreMayFail = TRUE
  <2>1. StoredIfReliable
    BY <1>2 DEF StoredIfReliable
  <2> QED BY <2>1, PTL
<1> QED BY <1>1, <1>2, DkgAssumption

LEMMA CeremonyInit == Init => Ceremony!Init
<1> SUFFICES ASSUME Init PROVE Ceremony!Init
  OBVIOUS
<1>1. /\ dkg.until = 0 /\ dkg.mask = {} /\ dkg.r1 = NoneYet /\ dkg.r2 = NoneYet
      /\ dkg.r3 = NoneYet /\ secrets = [i \in Idx |-> {}]
  BY DEF Init, NewDkg
<1>2. \A j \in Idx : Shares(dkg, j) = "nothing"
  BY <1>1 DEF Shares, NoneYet
<1> QED BY <1>1, <1>2 DEF Ceremony!Init, Ceremony!NothingYet, NoneYet

LEMMA CeremonyBegins == ASSUME TypeInv, StartDKG PROVE Ceremony!Begin
<1>1. PICK m \in SUBSET Idx : Cardinality(m) >= 2 /\ dkg' = NewDkg(dkg.until + 1, m)
  BY DEF StartDKG
<1>2. /\ dkg'.until = dkg.until + 1 /\ dkg'.mask = m /\ dkg'.r1 = NoneYet /\ dkg'.r2 = NoneYet
      /\ dkg'.r3 = NoneYet /\ secrets' = secrets
  BY <1>1 DEF NewDkg, StartDKG, disk
<1>3. \A j \in Idx : Shares(dkg', j) = "nothing"
  BY <1>2 DEF Shares, NoneYet
<1>4. [j \in Idx |-> Shares(dkg', j)] = [j \in Idx |-> "nothing"]
  BY <1>3
<1>5. dkg'.mask \in SUBSET Idx /\ Cardinality(dkg'.mask) >= 2
  BY <1>1, <1>2
<1>6. Ceremony!Cardinality(dkg'.mask) = Cardinality(dkg'.mask)
  BY DEF Cardinality, Ceremony!Cardinality
<1> QED BY <1>2, <1>4, <1>5, <1>6 DEF Ceremony!Begin, Ceremony!NothingYet, NoneYet

\* What the contract records is a step of the ceremony.
LEMMA CeremonyContributes ==
  ASSUME dkg \in Dkg, Consistent(dkg), NEW m \in Msg, CanAccept(dkg, m), dkg' = Accepted(dkg, m),
         secrets' = secrets, m.type = "R1"
  PROVE  Ceremony!Contribute(m.from)
<1>0. Round1Accepted(dkg, m, dkg')
  BY AcceptedRound1
<1>1. /\ dkg'.until = dkg.until /\ dkg'.mask = dkg.mask
      /\ dkg'.r1 = [dkg.r1 EXCEPT ![m.from] = m.r1]
      /\ dkg'.r2 = dkg.r2 /\ dkg'.r3 = dkg.r3
      /\ dkg.state = InProgress
  BY <1>0 DEF Round1Accepted
<1>2. m.from \in Idx /\ m.r1 # None /\ dkg.r1 \in [Idx -> R1Package \cup {None}]
  BY MsgType, DkgAssumption DEF R1Package, Dkg, PublicKey
<1>3. m.from \in dkg.mask /\ dkg.r1[m.from] = None
  BY <1>1 DEF CanAccept
<1>4. \A j \in Idx : Shares(dkg', j) = Shares(dkg, j)
  BY <1>1 DEF Consistent, Shares
<1>5. dkg'.r1[m.from] = m.r1
  BY <1>1, <1>2
<1> QED BY <1>1, <1>2, <1>3, <1>4, <1>5 DEF Ceremony!Contribute

LEMMA CeremonyDeals ==
  ASSUME dkg \in Dkg, Consistent(dkg), NEW m \in Msg, CanAccept(dkg, m), dkg' = Accepted(dkg, m),
         secrets' = secrets, m.type = "R2"
  PROVE  Ceremony!Deal(m.from)
<1>0. Round2Accepted(dkg, m, dkg')
  BY AcceptedRound2
<1>1. /\ dkg'.until = dkg.until /\ dkg'.mask = dkg.mask
      /\ dkg'.r2 = [dkg.r2 EXCEPT ![m.from] = m.r2]
      /\ dkg'.r1 = dkg.r1 /\ dkg'.r3 = dkg.r3
      /\ dkg.state = Part1Finished
  BY <1>0 DEF Round2Accepted
<1>2. m.from \in Idx /\ m.r2 # None /\ dkg.r2 \in [Idx -> R2Package \cup {Garbage, None}]
  BY MsgType, DkgAssumption, NilAssumption DEF Dkg
<1>3. m.from \in dkg.mask /\ dkg.r2[m.from] = None
  BY <1>1 DEF CanAccept
<1>4. \A j \in dkg.mask : dkg.r1[j] # None
  BY <1>1 DEF Consistent, InProgress, Part1Finished
<1>5. Shares(dkg, m.from) = "nothing" /\ Shares(dkg', m.from) \in {"fit", "wrong"}
  BY <1>1, <1>2, <1>3 DEF Shares
<1>6. \A j \in Idx : j # m.from => Shares(dkg', j) = Shares(dkg, j)
  BY <1>1, <1>2 DEF Shares
<1> QED BY <1>1, <1>2, <1>3, <1>4, <1>5, <1>6 DEF Ceremony!Deal

LEMMA CeremonyPublishes ==
  ASSUME dkg \in Dkg, Consistent(dkg), NEW m \in Msg, CanAccept(dkg, m), dkg' = Accepted(dkg, m),
         secrets' = secrets, m.type = "R3", PublishedKeyIsOfRecord', StoredIfReliable'
  PROVE  Ceremony!Publish(m.from)
<1>0. Round3Accepted(dkg, m, dkg')
  BY AcceptedRound3
<1>1. /\ dkg'.until = dkg.until /\ dkg'.mask = dkg.mask
      /\ dkg'.r3 = [dkg.r3 EXCEPT ![m.from] = m.pk]
      /\ dkg'.r1 = dkg.r1 /\ dkg'.r2 = dkg.r2
      /\ dkg.state = Part2Finished /\ ~DifferentPubkeyPackages(dkg, m)
  BY <1>0 DEF Round3Accepted
<1>2. m.from \in Idx /\ m.pk # None /\ dkg.r3 \in [Idx -> PublicKey \cup {Garbage, None}]
  BY MsgType, DkgAssumption, NilAssumption DEF Dkg
<1>3. m.from \in dkg.mask /\ dkg.r3[m.from] = None /\ dkg.mask \subseteq Idx
  BY <1>1 DEF CanAccept, Dkg
<1>4. dkg'.r3[m.from] = m.pk
  BY <1>1, <1>2
<1>5. \A j \in dkg.mask : dkg.r2[j] # None
  BY <1>1 DEF Consistent, HasRound2
<1>6. \A j \in Idx : Shares(dkg', j) = Shares(dkg, j)
  BY <1>1 DEF Shares
<1>7. \A j \in dkg.mask : Shares(dkg, j) # "nothing"
  BY <1>5 DEF Shares
<1>8. \A j \in Idx : dkg.r3[j] \in {None, m.pk}
  BY <1>1 DEF DifferentPubkeyPackages
<1>9. ASSUME m.from \in Honest
      PROVE  /\ m.pk = dkg.r1
             /\ \A j \in dkg.mask \ {m.from} : Shares(dkg, j) = "fit"
  BY <1>1, <1>2, <1>4, <1>5, <1>9 DEF PublishedKeyIsOfRecord, Shares
<1>10. ASSUME m.from \in IF StoreMayFail THEN {} ELSE Honest
       PROVE  m.pk \in secrets[m.from]
  BY <1>2, <1>4, <1>10, DkgAssumption DEF StoredIfReliable, RecordedKeyIsStored
<1> QED BY <1>1, <1>2, <1>3, <1>4, <1>6, <1>7, <1>8, <1>9, <1>10 DEF Ceremony!Publish

LEMMA CeremonyRecords ==
  ASSUME dkg \in Dkg, Consistent(dkg), NEW m \in Msg, CanAccept(dkg, m), dkg' = Accepted(dkg, m),
         secrets' = secrets, PublishedKeyIsOfRecord', StoredIfReliable'
  PROVE  [Ceremony!Next]_Ceremony!vars
<1>0. m.from \in Idx /\ m.type \in {"R1", "R2", "R3", "Claim"}
  BY MsgType
<1>1. CASE m.type = "Claim"
  <2>0. ClaimAccepted(dkg, m, dkg')
    BY <1>1, AcceptedClaim
  <2>1. /\ dkg'.until = dkg.until /\ dkg'.mask = dkg.mask
        /\ dkg'.r1 = dkg.r1 /\ dkg'.r2 = dkg.r2 /\ dkg'.r3 = dkg.r3
    BY <2>0 DEF ClaimAccepted
  <2>2. \A j \in Idx : Shares(dkg', j) = Shares(dkg, j)
    BY <2>1 DEF Shares
  <2> QED BY <2>1, <2>2 DEF Ceremony!vars
<1> QED BY <1>0, <1>1, CeremonyContributes, CeremonyDeals, CeremonyPublishes DEF Ceremony!Next

\* Of what an oracle does, the ceremony sees the secrets it stores.
LEMMA CeremonyHolds ==
  ASSUME TypeInv, NEW i \in Honest, dkg' = dkg,
         \/ secrets' = secrets
         \/ \E pk : secrets' = [secrets EXCEPT ![i] = @ \cup {pk}]
  PROVE  [Ceremony!Next]_Ceremony!vars
<1>1. CASE secrets' = secrets
  <2>1. \A j \in Idx : Shares(dkg', j) = Shares(dkg, j)
    OBVIOUS
  <2> QED BY <1>1, <2>1 DEF Ceremony!vars
<1>2. CASE \E pk : secrets' = [secrets EXCEPT ![i] = @ \cup {pk}]
  <2>1. PICK pk : secrets' = [secrets EXCEPT ![i] = @ \cup {pk}]
    BY <1>2
  <2>2. secrets \in [Idx -> SUBSET PublicKey] /\ i \in Idx
    BY DEF TypeInv, TypeOK, Honest
  <2>3. secrets'[i] = secrets[i] \cup {pk}
    BY <2>1, <2>2
  <2>4. Ceremony!Hold(i)
    BY <2>1, <2>3 DEF Ceremony!Hold
  <2> QED BY <2>4 DEF Ceremony!Next
<1> QED BY <1>1, <1>2

LEMMA OracleHolds ==
  ASSUME NEW i \in Honest,
         \/ Fetch(i)
         \/ Execute(i)
         \/ ExecuteStartFails(i)
         \/ ExecuteNoKeyInfo(i)
         \/ Return(i)
         \/ ReturnDifferentPubkey(i)
         \/ Crash(i)
  PROVE  /\ dkg' = dkg
         /\ \/ secrets' = secrets
            \/ \E pk : secrets' = [secrets EXCEPT ![i] = @ \cup {pk}]
<1>1. dkg' = dkg
  BY DEF Fetch, ExecuteStartFails, ExecuteNoKeyInfo, Return, ReturnDifferentPubkey, Crash, Execute,
         ExecuteFinished, ExecuteWait, ExecuteR1, ExecuteR2, ExecuteR2Claim, ExecuteR3,
         ExecuteR3Again, ExecuteR3Claim, Enter
<1>2. CASE ExecuteR3(i)
  <2>1. PICK pk : pk = GroupKey(i, snap[i], EnteredArt(i))
    OBVIOUS
  <2>2. secrets' = secrets \/ secrets' = [secrets EXCEPT ![i] = @ \cup {pk}]
    BY <1>2, <2>1 DEF ExecuteR3, StoreSecret
  <2> QED BY <1>1, <2>2
<1>3. CASE Execute(i) /\ ~ExecuteR3(i)
  <2>1. secrets' = secrets
    BY <1>3 DEF Execute, ExecuteFinished, ExecuteWait, ExecuteR1, ExecuteR2, ExecuteR2Claim,
                ExecuteR3Again, ExecuteR3Claim, disk
  <2> QED BY <1>1, <2>1
<1>4. CASE ~Execute(i)
  <2>1. secrets' = secrets
    BY <1>4 DEF Fetch, ExecuteStartFails, ExecuteNoKeyInfo, Return, ReturnDifferentPubkey, Crash,
                disk
  <2> QED BY <1>1, <2>1
<1> QED BY <1>1, <1>2, <1>3, <1>4

\* OracleDkg implements DkgCeremony, for every number of oracles and attempts, every
\* set of faulty ones, and with stores that may fail: what restarts, stale
\* snapshots, late messages and resends do to the record is what an oracle without
\* any of them could have done, step by step.
THEOREM CeremonyIsKept == Spec => CeremonySpec
<1>1. ASSUME TypeInv, RecordInv, PublishedKeyIsOfRecord', StoredIfReliable', [Next]_vars
      PROVE  [Ceremony!Next]_Ceremony!vars
  <2>0. dkg \in Dkg /\ net \subseteq Msg /\ Consistent(dkg)
    BY <1>1 DEF TypeInv, TypeOK, RecordInv
  <2>1. CASE StartDKG
    BY <1>1, <2>1, CeremonyBegins DEF Ceremony!Next
  <2>2. ASSUME NEW m \in net, Deliver(m) PROVE [Ceremony!Next]_Ceremony!vars
    <3>1. CanAccept(dkg, m) /\ dkg' = Accepted(dkg, m) /\ secrets' = secrets /\ m \in Msg
      BY <2>0, <2>2 DEF Deliver, disk
    <3> QED BY <1>1, <2>0, <3>1, CeremonyRecords
  <2>3. ASSUME NEW i \in Faulty, FaultySend(i) PROVE [Ceremony!Next]_Ceremony!vars
    <3>1. PICK m \in FaultyMsgs(i) : CanAccept(dkg, m) /\ dkg' = Accepted(dkg, m)
      BY <2>3 DEF FaultySend
    <3>2. m \in Msg /\ secrets' = secrets
      BY <1>1, <2>3, FaultyEncrypted DEF FaultySend, disk
    <3> QED BY <1>1, <2>0, <3>1, <3>2, CeremonyRecords
  <2>4. CASE UNCHANGED vars \/ \E m \in net : Expire(m)
    <3>1. dkg' = dkg /\ secrets' = secrets
      BY <2>4 DEF vars, Expire, disk
    <3>2. \A j \in Idx : Shares(dkg', j) = Shares(dkg, j)
      BY <3>1
    <3> QED BY <3>1, <3>2 DEF Ceremony!vars
  <2>5. ASSUME NEW i \in Honest,
               \/ Fetch(i)
               \/ Execute(i)
               \/ ExecuteStartFails(i)
               \/ ExecuteNoKeyInfo(i)
               \/ Return(i)
               \/ ReturnDifferentPubkey(i)
               \/ Crash(i)
        PROVE  [Ceremony!Next]_Ceremony!vars
    BY <1>1, <2>5, OracleHolds, CeremonyHolds
  <2> QED BY <1>1, <2>1, <2>2, <2>3, <2>4, <2>5 DEF Next
<1> QED BY <1>1, CeremonyInit, TypeInvariant, KeyInvariant, PublishedKeyFits, StoredAlways, PTL
        DEF Spec, CeremonySpec, Ceremony!Spec

-----------------------------------------------------------------------------
(* What an honest oracle has on record is its own.                          *)

LEMMA OwnInit == Init => OwnInv
<1> SUFFICES ASSUME Init PROVE OwnInv
  OBVIOUS
<1>1. dkg.state = Finished
  BY DEF Init, NewDkg
<1> QED BY <1>1 DEF OwnInv, Keeps

\* An oracle that holds nothing of the running attempt has sent nothing in it.
LEMMA HoldsNothing ==
  ASSUME OwnInv, NEW i \in Honest, Keeps(i),
         until[i] # dkg.until \/ art[i].r1 = None
  PROVE  /\ dkg.r1[i] = None /\ dkg.r2[i] = None
         /\ \A m \in net : m.from = i /\ m.until = dkg.until =>
              m.type # "R1" /\ m.type # "R2"
BY DEF OwnInv, RecordIsOwn, MessageIsOwn, MadeOf, Holds

LEMMA OwnExecute ==
  ASSUME TypeInv, SessionInv, RecordInv, KeyInv, OwnInv, NEW i \in Honest,
         Execute(i) \/ ExecuteNoKeyInfo(i)
  PROVE  OwnInv'
<1>0. /\ i \in Idx /\ Honest \subseteq Idx
      /\ art \in [Idx -> Artifacts] /\ until \in [Idx -> Nat]
      /\ dkg.until \in Nat
  BY DEF Honest, TypeInv, TypeOK, Dkg
<1>1. dkg' = dkg
  BY OracleKeepsRecord
<1>2. CASE ExecuteFinished(i)
  <2>1. /\ net' = net /\ until' = until /\ lost' = lost
        /\ art' = [art EXCEPT ![i] = NoArtifacts]
        /\ snap[i] # None /\ snap[i].state = Finished
    BY <1>2 DEF ExecuteFinished, NoSend, Receive, history
  <2>2. ASSUME NEW j \in Honest, Keeps(j)
        PROVE  /\ RecordIsOwn(dkg, j, art'[j], until[j])
               /\ \A m \in net : m.from = j => MessageIsOwn(dkg, m, art'[j], until[j])
    <3>1. CASE j # i
      <4>1. art'[j] = art[j]
        BY <1>0, <2>1, <3>1
      <4> QED BY <2>2, <4>1 DEF OwnInv
    <3>2. CASE j = i
      <4>1. until[i] # dkg.until
        <5>1. Earlier(snap[i], dkg) /\ dkg.state # Finished
          BY <2>1, <2>2, <3>2 DEF RecordInv, Keeps
        <5>2. snap[i].until # dkg.until
          BY <2>1, <5>1 DEF Earlier
        <5>3. until[i] <= snap[i].until /\ snap[i].until <= dkg.until
          BY <2>1 DEF SessionInv
        <5>4. snap[i].until \in Nat /\ until[i] \in Nat
          BY <1>0, <2>1 DEF TypeInv, TypeOK, Dkg
        <5> QED BY <1>0, <5>2, <5>3, <5>4
      <4>2. /\ dkg.r1[i] = None /\ dkg.r2[i] = None
            /\ \A m \in net : m.from = i /\ m.until = dkg.until =>
                 m.type # "R1" /\ m.type # "R2"
        BY <2>2, <3>2, <4>1, HoldsNothing
      <4> QED BY <3>2, <4>2 DEF RecordIsOwn, MessageIsOwn
    <3> QED BY <3>1, <3>2
  <2> QED BY <1>1, <2>1, <2>2 DEF OwnInv, Keeps
<1>3. CASE ~ExecuteFinished(i)
  <2>1. Enter(i)
    BY <1>3, ExecuteEnters
  <2>2. until'[i] = snap[i].until
    BY <2>1, EnterSession
  <2>3. /\ ArtifactsFit(dkg, i, art'[i], snap[i].until)
        /\ EnteredArt(i).r1 # None =>
             art'[i].r1 # None /\ art'[i].r1.id = EnteredArt(i).r1.id
    BY <1>3, StepFits
  <2>4. lost' = lost
    BY <2>1 DEF Enter, history
  <2>5. ASSUME NEW id, Holds(dkg, art[i], until[i], id)
        PROVE  Holds(dkg, art'[i], until'[i], id)
    <3>1. until[i] = dkg.until /\ art[i].r1 # None /\ art[i].r1.id = id
      BY <2>5 DEF Holds
    <3>2. snap[i].until = until[i]
      <4>1. snap[i].until \in Nat
        BY <2>1, EnterType DEF Dkg
      <4>2. until[i] <= snap[i].until /\ snap[i].until <= dkg.until
        BY <2>1 DEF Enter, Receive, SessionInv
      <4> QED BY <1>0, <3>1, <4>1, <4>2
    <3>3. EnteredArt(i) = art[i]
      BY <2>1, <3>2, EnteredFits
    <3> QED BY <2>2, <2>3, <3>1, <3>2, <3>3 DEF Holds
  <2>6. ASSUME NEW m \in net', m \notin net
        PROVE  m.from = i /\ MessageIsOwn(dkg, m, art'[i], until'[i])
    <3>1. Carries(i, m)
      BY <2>6, NewMessage
    <3>2. m \in Msg
      <4>1. TypeInv'
        <5>1. CASE Execute(i)
          BY <5>1, ExecuteType
        <5>2. CASE ExecuteNoKeyInfo(i)
          BY <5>2, OracleType
        <5> QED BY <5>1, <5>2
      <4> QED BY <4>1 DEF TypeInv, TypeOK
    <3>3. art' \in [Idx -> Artifacts] /\ ArtifactsAreNested'
      <4>1. TypeInv'
        <5>1. CASE Execute(i)
          BY <5>1, ExecuteType
        <5>2. CASE ExecuteNoKeyInfo(i)
          BY <5>2, OracleType
        <5> QED BY <5>1, <5>2
      <4> QED BY <4>1 DEF TypeInv, TypeOK
    <3>4. ASSUME m.until = dkg.until, m.type = "R1"
          PROVE  Holds(dkg, art'[i], until'[i], m.r1)
      BY <2>2, <3>1, <3>4 DEF Carries, Holds
    <3>5. ASSUME m.until = dkg.until, m.type = "R2"
          PROVE  MadeOf(dkg, art'[i], until'[i], m.r2)
      <4>1. art'[i].r2 # None /\ m.r2 = art'[i].r2 /\ m.until = snap[i].until
        BY <3>1, <3>5 DEF Carries
      <4>2. art'[i].r1 # None /\ art'[i].r2 \in R2Package
        BY <1>0, <3>3, <4>1 DEF ArtifactsAreNested, Artifacts
      <4>3. m.r2 # Garbage
        BY <4>1, <4>2, NilAssumption
      <4>4. m.r2.key = art'[i].r1.id /\ m.r2.share = art'[i].r1.id
        BY <2>3, <4>1 DEF ArtifactsFit
      <4> QED BY <2>2, <3>5, <4>1, <4>2, <4>3, <4>4 DEF MadeOf, Holds
    <3> QED BY <3>1, <3>4, <3>5 DEF Carries, MessageIsOwn
  <2>7. ASSUME NEW j \in Honest, j # i
        PROVE  until'[j] = until[j] /\ art'[j] = art[j]
    <3>1. until'[j] = until[j]
      BY <1>0, <2>1, <2>7 DEF Enter
    <3>2. art'[j] = art[j]
      BY <1>0, <1>3, <2>7
         DEF Execute, ExecuteWait, ExecuteR1, ExecuteR2, ExecuteR2Claim, ExecuteR3,
             ExecuteR3Again, ExecuteR3Claim, ExecuteNoKeyInfo, Leave
    <3> QED BY <3>1, <3>2
  <2>8. ASSUME NEW j \in Honest, Keeps(j)
        PROVE  /\ RecordIsOwn(dkg, j, art'[j], until'[j])
               /\ \A m \in net' : m.from = j => MessageIsOwn(dkg, m, art'[j], until'[j])
    <3>1. /\ RecordIsOwn(dkg, j, art[j], until[j])
          /\ \A m \in net : m.from = j => MessageIsOwn(dkg, m, art[j], until[j])
      BY <2>8 DEF OwnInv
    <3>2. CASE j # i
      BY <2>6, <2>7, <3>1, <3>2
    <3>3. CASE j = i
      <4>1. RecordIsOwn(dkg, i, art'[i], until'[i])
        BY <2>5, <3>1, <3>3 DEF RecordIsOwn, MadeOf
      <4>2. ASSUME NEW m \in net', m.from = i
            PROVE  MessageIsOwn(dkg, m, art'[i], until'[i])
        <5>1. CASE m \in net
          BY <2>5, <3>1, <3>3, <4>2, <5>1 DEF MessageIsOwn, MadeOf
        <5>2. CASE m \notin net
          BY <2>6, <5>2
        <5> QED BY <5>1, <5>2
      <4> QED BY <3>3, <4>1, <4>2
    <3> QED BY <3>2, <3>3
  <2> QED BY <1>1, <2>4, <2>8 DEF OwnInv, Keeps
<1> QED BY <1>2, <1>3

\* What the other steps of an oracle add to the network is a claim.
LEMMA OtherMessages ==
  ASSUME TypeInv, NEW i \in Honest,
         \/ Fetch(i)
         \/ ExecuteStartFails(i)
         \/ Return(i)
         \/ ReturnDifferentPubkey(i)
         \/ Crash(i),
         NEW m \in net', m \notin net
  PROVE  /\ ReturnDifferentPubkey(i)
         /\ m.type = "Claim" /\ m.from = i /\ m.culprit = call[i].culprit
         /\ call[i] # None /\ call[i].culprit # None
         /\ dkg.state = Part2Finished
         /\ \E x \in net : /\ x.from = i /\ x.type = "R3" /\ x.until = m.until
                           /\ DifferentPubkeyPackages(dkg, x)
<1>1. ReturnDifferentPubkey(i)
  BY DEF Fetch, ExecuteStartFails, NoSend, Return, Crash
<1>2. PICK x \in net :
        /\ x.from = i /\ x.type = "R3"
        /\ DifferentPubkeyPackages(dkg, x)
        /\ call[i].culprit # None
        /\ m = [type |-> "Claim", from |-> i, until |-> x.until,
                culprit |-> call[i].culprit]
  BY <1>1 DEF ReturnDifferentPubkey
<1>3. /\ m.type = "Claim" /\ m.from = i /\ m.until = x.until
      /\ m.culprit = call[i].culprit
  BY <1>2
<1> QED BY <1>1, <1>2, <1>3 DEF ReturnDifferentPubkey

LEMMA OwnOracle ==
  ASSUME TypeInv, SessionInv, RecordInv, KeyInv, OwnInv, NEW i \in Honest,
         \/ Fetch(i)
         \/ ExecuteStartFails(i)
         \/ Return(i)
         \/ ReturnDifferentPubkey(i)
         \/ Crash(i)
  PROVE  OwnInv'
<1>0. /\ i \in Idx /\ Honest \subseteq Idx
      /\ art \in [Idx -> Artifacts] /\ until \in [Idx -> Nat]
      /\ dkg.until \in Nat /\ lost \in [Idx -> SUBSET Nat]
  BY DEF Honest, TypeInv, TypeOK, Dkg
<1>1. dkg' = dkg
  BY OracleKeepsRecord
<1>2. ASSUME NEW j \in Honest
      PROVE  /\ lost[j] \subseteq lost'[j]
             /\ \/ art'[j] = art[j] /\ until'[j] = until[j]
                \/ /\ art'[j] = NoArtifacts
                   /\ \/ until[j] # dkg.until
                      \/ art[j].r1 = None
                      \/ dkg.until \in lost'[j]
  <2>1. CASE Fetch(i) \/ Return(i) \/ ReturnDifferentPubkey(i)
    BY <2>1 DEF Fetch, Return, ReturnDifferentPubkey, history
  <2>2. CASE ExecuteStartFails(i)
    <3>1. /\ snap[i] # None /\ snap[i].until > until[i]
          /\ lost' = lost /\ until' = until
          /\ art' = [art EXCEPT ![i] = NoArtifacts]
      BY <2>2 DEF ExecuteStartFails, Receive, DrawsSession, IsNew, history
    <3>2. until[i] # dkg.until
      <4>1. snap[i].until \in Nat /\ snap[i].until <= dkg.until
        BY <1>0, <3>1 DEF SessionInv, TypeInv, TypeOK, Dkg
      <4> QED BY <1>0, <3>1, <4>1
    <3> QED BY <1>0, <3>1, <3>2
  <2>3. CASE Crash(i)
    <3>1. /\ lost' = IF art[i].r1 = None THEN lost
                                         ELSE [lost EXCEPT ![i] = @ \cup {until[i]}]
          /\ until' = [until EXCEPT ![i] = 0]
          /\ art' = [art EXCEPT ![i] = NoArtifacts]
      BY <2>3 DEF Crash
    <3>2. lost[j] \subseteq lost'[j] /\ (art[i].r1 # None => until[i] \in lost'[i])
      BY <1>0, <3>1
    <3> QED BY <1>0, <3>1, <3>2
  <2> QED BY <2>1, <2>2, <2>3
<1>3. ASSUME NEW m \in net', m \notin net
      PROVE  m.type = "Claim"
  BY <1>3, OtherMessages
<1>4. ASSUME NEW j \in Honest, dkg.state # Finished, dkg.until \notin lost'[j]
      PROVE  /\ RecordIsOwn(dkg, j, art'[j], until'[j])
             /\ \A m \in net' : m.from = j => MessageIsOwn(dkg, m, art'[j], until'[j])
  <2>1. Keeps(j)
    BY <1>2, <1>4 DEF Keeps
  <2>2. CASE art'[j] = art[j] /\ until'[j] = until[j]
    <3>1. /\ RecordIsOwn(dkg, j, art[j], until[j])
          /\ \A m \in net : m.from = j => MessageIsOwn(dkg, m, art[j], until[j])
      BY <2>1 DEF OwnInv
    <3>2. \A m \in net' : m \in net \/ MessageIsOwn(dkg, m, art[j], until[j])
      BY <1>3 DEF MessageIsOwn
    <3> QED BY <2>2, <3>1, <3>2
  <2>3. CASE ~(art'[j] = art[j] /\ until'[j] = until[j])
    <3>1. until[j] # dkg.until \/ art[j].r1 = None
      BY <1>2, <1>4, <2>3
    <3>2. /\ dkg.r1[j] = None /\ dkg.r2[j] = None
          /\ \A m \in net : m.from = j /\ m.until = dkg.until =>
               m.type # "R1" /\ m.type # "R2"
      BY <2>1, <3>1, HoldsNothing
    <3> QED BY <1>3, <3>2 DEF RecordIsOwn, MessageIsOwn
  <2> QED BY <2>2, <2>3
<1> QED BY <1>1, <1>4 DEF OwnInv, Keeps

LEMMA OwnContract ==
  ASSUME TypeInv, SessionInv, RecordInv, KeyInv, OwnInv,
         \/ StartDKG
         \/ \E m \in net : Deliver(m) \/ Expire(m)
         \/ \E i \in Faulty : FaultySend(i)
  PROVE  OwnInv'
<1>0. Honest \subseteq Idx /\ dkg \in Dkg /\ dkg.until \in Nat
  BY DEF Honest, TypeInv, TypeOK, Dkg
<1>1. CASE StartDKG
  <2>1. dkg'.r1 = NoneYet /\ dkg'.r2 = NoneYet /\ net' = {}
    BY <1>1 DEF StartDKG, NewDkg
  <2>2. \A j \in Honest : dkg'.r1[j] = None /\ dkg'.r2[j] = None
    BY <1>0, <2>1 DEF NoneYet
  <2> QED BY <2>1, <2>2 DEF OwnInv, RecordIsOwn
<1>2. ASSUME NEW m \in Msg, CanAccept(dkg, m), dkg' = Accepted(dkg, m),
             m.from \in Honest => m \in net,
             art' = art, until' = until, lost' = lost, net' \subseteq net
      PROVE  OwnInv'
  <2>1. dkg'.until = dkg.until /\ dkg.state # Finished /\ m.until = dkg.until
    BY <1>0, <1>2, AcceptedLater DEF CanAccept
  <2>2. /\ m.from \in Idx
        /\ dkg.r1 \in [Idx -> R1Package \cup {None}]
        /\ dkg.r2 \in [Idx -> R2Package \cup {Garbage, None}]
    BY <1>0, MsgType DEF Dkg, PublicKey
  <2>3. ASSUME NEW j \in Honest
        PROVE  /\ dkg'.r1[j] = dkg.r1[j] \/
                    (m.type = "R1" /\ m.from = j /\ dkg'.r1[j] = m.r1)
               /\ dkg'.r2[j] = dkg.r2[j] \/
                    (m.type = "R2" /\ m.from = j /\ dkg'.r2[j] = m.r2)
    <3>1. CASE m.type = "R1"
      <4>0. Round1Accepted(dkg, m, dkg')
        BY <1>0, <1>2, <3>1, AcceptedRound1
      <4>1. dkg'.r1 = [dkg.r1 EXCEPT ![m.from] = m.r1] /\ dkg'.r2 = dkg.r2
        BY <4>0 DEF Round1Accepted
      <4> QED BY <1>0, <2>2, <3>1, <4>1
    <3>2. CASE m.type = "R2"
      <4>0. Round2Accepted(dkg, m, dkg')
        BY <1>0, <1>2, <3>2, AcceptedRound2
      <4>1. dkg'.r2 = [dkg.r2 EXCEPT ![m.from] = m.r2] /\ dkg'.r1 = dkg.r1
        BY <4>0 DEF Round2Accepted
      <4> QED BY <1>0, <2>2, <3>2, <4>1
    <3>3. CASE m.type = "R3"
      <4>1. Round3Accepted(dkg, m, dkg')
        BY <1>0, <1>2, <3>3, AcceptedRound3
      <4> QED BY <4>1 DEF Round3Accepted
    <3>4. CASE m.type = "Claim"
      <4>1. ClaimAccepted(dkg, m, dkg')
        BY <1>0, <1>2, <3>4, AcceptedClaim
      <4> QED BY <4>1 DEF ClaimAccepted
    <3> QED BY <3>1, <3>2, <3>3, <3>4, MsgType
  <2>4. \A a, u, id : Holds(dkg', a, u, id) <=> Holds(dkg, a, u, id)
    BY <2>1 DEF Holds
  <2>5. ASSUME NEW j \in Honest, dkg.until \notin lost[j]
        PROVE  /\ RecordIsOwn(dkg', j, art[j], until[j])
               /\ \A x \in net : x.from = j => MessageIsOwn(dkg', x, art[j], until[j])
    <3>1. /\ RecordIsOwn(dkg, j, art[j], until[j])
          /\ \A x \in net : x.from = j => MessageIsOwn(dkg, x, art[j], until[j])
      BY <2>1, <2>5 DEF OwnInv, Keeps
    <3>2. m.from = j => MessageIsOwn(dkg, m, art[j], until[j])
      BY <1>2, <3>1
    <3>3. RecordIsOwn(dkg', j, art[j], until[j])
      BY <2>1, <2>3, <2>4, <3>1, <3>2 DEF RecordIsOwn, MessageIsOwn, MadeOf
    <3>4. \A x \in net : x.from = j => MessageIsOwn(dkg', x, art[j], until[j])
      BY <2>1, <2>4, <3>1 DEF MessageIsOwn, MadeOf
    <3> QED BY <3>3, <3>4
  <2> QED BY <1>2, <2>1, <2>5 DEF OwnInv, Keeps
<1>3. CASE \E m \in net : Deliver(m)
  <2>1. PICK m \in net : Deliver(m)
    BY <1>3
  <2>2. /\ m \in Msg /\ CanAccept(dkg, m) /\ dkg' = Accepted(dkg, m)
        /\ art' = art /\ until' = until /\ lost' = lost /\ net' \subseteq net
    BY <2>1 DEF Deliver, history, TypeInv, TypeOK
  <2> QED BY <1>2, <2>2
<1>4. CASE \E m \in net : Expire(m)
  BY <1>4 DEF Expire, history, OwnInv, Keeps
<1>5. CASE \E i \in Faulty : FaultySend(i)
  <2>1. PICK i \in Faulty : FaultySend(i)
    BY <1>5
  <2>2. PICK m \in FaultyMsgs(i) : CanAccept(dkg, m) /\ dkg' = Accepted(dkg, m)
    BY <2>1 DEF FaultySend
  <2>3. m \in Msg /\ m.from \notin Honest
    BY FaultyEncrypted DEF Honest
  <2>4. art' = art /\ until' = until /\ lost' = lost /\ net' = net
    BY <2>1 DEF FaultySend, history
  <2> QED BY <1>2, <2>2, <2>3, <2>4
<1> QED BY <1>1, <1>3, <1>4, <1>5

LEMMA OwnNext ==
  TypeInv /\ SessionInv /\ RecordInv /\ KeyInv /\ OwnInv /\ [Next]_vars => OwnInv'
<1> SUFFICES ASSUME TypeInv, SessionInv, RecordInv, KeyInv, OwnInv, [Next]_vars
             PROVE  OwnInv'
  OBVIOUS
<1>1. CASE UNCHANGED vars
  BY <1>1 DEF vars, OwnInv, Keeps
<1>2. CASE Next
  BY <1>2, OwnExecute, OwnOracle, OwnContract DEF Next
<1> QED BY <1>1, <1>2

-----------------------------------------------------------------------------
(* Blame.                                                                   *)

LEMMA BlameInit == Init => BlameInv
<1> SUFFICES ASSUME Init PROVE BlameInv
  OBVIOUS
<1>1. net = {} /\ \A i \in Honest : dkg.claims[i] = None /\ call[i] = None
  BY DEF Init, NewDkg, NoneYet, Honest
<1> QED BY <1>1 DEF BlameInv

\* Two honest oracles that kept their secrets have no reason to claim each other.
LEMMA NoReasonToClaim ==
  ASSUME TypeInv, SessionInv, RecordInv, KeyInv, OwnInv,
         NEW i \in Honest, NEW c \in Honest, Enter(i),
         snap[i].until = dkg.until, Keeps(i), Keeps(c)
  PROVE  ~ClaimsBadRound1(i, c) /\ ~ClaimsBadRound2(i, c)
<1> DEFINE a == EnteredArt(i)
           d == snap[i]
<1>0. /\ i \in Idx /\ c \in Idx /\ art \in [Idx -> Artifacts]
      /\ until \in [Idx -> Nat]
  BY DEF Honest, TypeInv, TypeOK
<1>1. d \in Dkg /\ d # None /\ Earlier(d, dkg) /\ Consistent(dkg)
  BY EnterType DEF Enter, Receive, RecordInv
<1>2. /\ RecordIsOwn(dkg, i, art[i], until[i])
      /\ RecordIsOwn(dkg, c, art[c], until[c])
  BY DEF OwnInv
<1>3. art[c].r1 # None => art[c].r1.id \in Nat
  BY <1>0 DEF Artifacts, R1Artifact
<1>4. d.state # InProgress => c \notin R1Culprits(d)
  <2>1. ASSUME d.state # InProgress, c \in R1Culprits(d) PROVE FALSE
    <3>1. dkg.r1[c] = Garbage
      BY <1>1, <2>1 DEF R1Culprits, Earlier
    <3>2. Garbage # None
      BY DkgAssumption
    <3>3. art[c].r1 # None /\ art[c].r1.id = Garbage
      BY <1>2, <3>1, <3>2 DEF RecordIsOwn, Holds
    <3> QED BY <1>3, <3>3, DkgAssumption
  <2> QED BY <2>1
<1>5. ~ClaimsBadRound1(i, c)
  BY <1>4 DEF ClaimsBadRound1, InProgress, Part1Finished
<1>6. ASSUME ClaimsBadRound2(i, c) PROVE FALSE
  <2>1. /\ d.state = Part2Finished /\ i \in d.mask
        /\ a.r3 = None /\ a.r2 # None
        /\ c \in R1Culprits(d) \cup Malformed(d)
                \cup Undecryptable(i, d, a) \cup WrongShares(i, d)
    BY <1>6 DEF ClaimsBadRound2
  <2>2. HasRound2(d) /\ d.state # InProgress
    BY <2>1 DEF HasRound2, InProgress, Part2Finished
  <2>3. /\ HasRound2(dkg) /\ dkg.state # InProgress
        /\ d.mask = dkg.mask /\ d.r1 = dkg.r1 /\ d.r2 = dkg.r2
    BY <1>1, <2>2 DEF Earlier
  <2>4. c \in dkg.mask
    BY <2>1, <2>3 DEF R1Culprits, Malformed, Undecryptable, WrongShares
  <2>5. dkg.r1[c] # None /\ dkg.r2[c] # None /\ dkg.r1[i] # None
    BY <1>1, <2>1, <2>3, <2>4 DEF Consistent
  <2>6. Holds(dkg, art[c], until[c], dkg.r1[c]) /\ MadeOf(dkg, art[c], until[c], dkg.r2[c])
    BY <1>2, <2>5 DEF RecordIsOwn
  <2>7. /\ dkg.r2[c] # Garbage
        /\ dkg.r2[c].key = dkg.r1[c] /\ dkg.r2[c].share = dkg.r1[c]
    BY <2>6 DEF MadeOf, Holds
  <2>8. dkg.r2[c].seen = dkg.r1
    BY <1>0, <1>1, <2>5, <2>7 DEF Consistent
  <2>9. a.r1.x25519 = dkg.r1[i]
    <3>1. Holds(dkg, art[i], until[i], dkg.r1[i])
      BY <1>2, <2>5 DEF RecordIsOwn
    <3>2. until[i] = d.until /\ art[i].r1 # None /\ art[i].r1.id = dkg.r1[i]
      BY <3>1 DEF Holds
    <3>3. a = art[i] /\ ArtifactsFit(dkg, i, a, d.until)
      BY <3>2, EnteredFits
    <3>4. a.r1 # None /\ a.r1.id = dkg.r1[i]
      BY <3>2, <3>3
    <3> HIDE DEF a
    <3> QED BY <2>1, <3>3, <3>4 DEF ArtifactsFit
  <2>10. c \notin Malformed(d) \cup Undecryptable(i, d, a) \cup WrongShares(i, d)
    BY <2>3, <2>7, <2>8, <2>9 DEF Malformed, Undecryptable, WrongShares
  <2> QED BY <1>4, <2>1, <2>2, <2>10
<1> QED BY <1>5, <1>6

\* claimCulpritByR3Mask names an oracle whose key is in the snapshot.
LEMMA CulpritIsRecorded ==
  ASSUME NEW d \in Dkg, NEW i \in Idx, CulpritByR3Mask(i, d) # None
  PROVE  CulpritByR3Mask(i, d) \in Idx /\ d.r3[CulpritByR3Mask(i, d)] # None
<1> DEFINE recorded == {j \in Idx : j < MaxSigners(d) /\ d.r3[j] # None}
<1>1. recorded # {} /\ CulpritByR3Mask(i, d) = LowestIdx(recorded)
  BY DEF CulpritByR3Mask
<1>2. recorded \in SUBSET Nat
  BY DkgAssumption
<1>3. LowestIdx(recorded) \in recorded
  <2> HIDE DEF recorded
  <2> QED BY <1>1, <1>2, LowestIdxIsMember
<1> QED BY <1>1, <1>3

\* The send an executor is blocked in after a step names somebody on record.
LEMMA NewCall ==
  ASSUME TypeInv, NEW i \in Honest, Execute(i) \/ ExecuteNoKeyInfo(i),
         call'[i] # None, call'[i].culprit # None
  PROVE  /\ Enter(i)
         /\ call'[i].culprit \in Idx
         /\ snap[i].r3[call'[i].culprit] # None
<1>0. i \in Idx /\ call \in [Idx -> Call \cup {None}] /\ call[i] = None
  BY DEF Honest, TypeInv, TypeOK, Execute, ExecuteFinished, ExecuteWait, ExecuteR1,
         ExecuteR2, ExecuteR2Claim, ExecuteR3, ExecuteR3Again, ExecuteR3Claim,
         ExecuteNoKeyInfo, Enter, Receive
<1>1. ASSUME NEW m, NEW c, Send(i, m, c)
      PROVE  call'[i].culprit = c
  BY <1>0, <1>1 DEF Send
<1>2. ~NoSend
  BY <1>0 DEF NoSend
<1>3. ASSUME NEW c, ExecuteClaim(i, snap[i], c)
      PROVE  FALSE
  BY <1>1, <1>2, <1>3 DEF ExecuteClaim
<1>4. ASSUME NEW pk, Enter(i), SendPubkeyPackage(i, pk)
      PROVE  call'[i].culprit \in Idx /\ snap[i].r3[call'[i].culprit] # None
  <2>1. call'[i].culprit = CulpritByR3Mask(i, snap[i])
    BY <1>1, <1>2, <1>4 DEF SendPubkeyPackage
  <2>2. snap[i] \in Dkg
    BY <1>4, EnterType
  <2> QED BY <1>0, <2>1, <2>2, CulpritIsRecorded
<1>5. CASE ExecuteFinished(i) \/ ExecuteWait(i) \/ ExecuteNoKeyInfo(i)
  BY <1>2, <1>5 DEF ExecuteFinished, ExecuteWait, ExecuteNoKeyInfo
<1>6. CASE ExecuteR1(i) \/ ExecuteR2(i)
  BY <1>1, <1>6 DEF ExecuteR1, ExecuteR2
<1>7. CASE ExecuteR2Claim(i) \/ ExecuteR3Claim(i)
  BY <1>3, <1>7 DEF ExecuteR2Claim, ExecuteR3Claim
<1>8. CASE ExecuteR3(i)
  BY <1>2, <1>4, <1>8 DEF ExecuteR3
<1>9. CASE ExecuteR3Again(i)
  BY <1>4, <1>9 DEF ExecuteR3Again
<1> QED BY <1>5, <1>6, <1>7, <1>8, <1>9 DEF Execute

LEMMA BlameExecute ==
  ASSUME TypeInv, SessionInv, RecordInv, KeyInv, OwnInv, BlameInv,
         NEW i \in Honest, Execute(i) \/ ExecuteNoKeyInfo(i)
  PROVE  BlameInv'
<1>0. /\ i \in Idx /\ Honest \subseteq Idx
      /\ call \in [Idx -> Call \cup {None}] /\ until \in [Idx -> Nat]
      /\ snap \in [Idx -> Dkg \cup {None}]
      /\ \A m \in net : m.from \in Honest
  BY DEF Honest, TypeInv, TypeOK, KeyInv, MessageFits
<1>1. dkg' = dkg
  BY OracleKeepsRecord
<1>2. CASE ExecuteFinished(i)
  <2>1. /\ net' = net /\ call' = call /\ until' = until /\ lost' = lost
        /\ snap' = [snap EXCEPT ![i] = None] /\ call[i] = None
    BY <1>2 DEF ExecuteFinished, NoSend, Receive, history
  <2>2. \A j \in Honest : snap'[j] = None \/ snap'[j] = snap[j]
    BY <1>0, <2>1
  <2>3. \A m \in net :
          /\ call[m.from] # None => m.until <= until[m.from]
          /\ snap'[m.from] # None => m.until <= snap'[m.from].until
    BY <1>0, <2>2 DEF BlameInv
  <2> QED BY <1>1, <2>1, <2>3 DEF BlameInv, Founded
<1>3. CASE ~ExecuteFinished(i)
  <2>1. Enter(i)
    BY <1>3, ExecuteEnters
  <2>2. until'[i] = snap[i].until /\ snap[i] # None /\ snap'[i] = None /\ lost' = lost
    BY <1>0, <2>1, EnterSession DEF Enter, Receive, history
  <2>3. ASSUME NEW j \in Honest, j # i
        PROVE  until'[j] = until[j] /\ call'[j] = call[j] /\ snap'[j] = snap[j]
    <3>1. until'[j] = until[j] /\ snap'[j] = snap[j]
      BY <1>0, <2>1, <2>3 DEF Enter, Receive
    <3>2. call'[j] = call[j]
      BY <1>0, <1>3, <2>3
         DEF Execute, ExecuteWait, ExecuteR1, ExecuteR2, ExecuteR2Claim, ExecuteR3,
             ExecuteR3Again, ExecuteR3Claim, ExecuteNoKeyInfo, ExecuteClaim,
             SendPubkeyPackage, Send, NoSend
    <3> QED BY <3>1, <3>2
  <2>4. ASSUME NEW m \in net', m \notin net
        PROVE  Carries(i, m)
    BY <2>4, NewMessage
  <2>5. ASSUME NEW m \in net', m.type = "Claim", m.until = dkg.until,
               dkg.state # Finished
        PROVE  Founded(m.from, m.culprit, m.until)
    <3>1. CASE m \in net
      BY <2>5, <3>1 DEF BlameInv
    <3>2. CASE m \notin net
      <4>1. /\ m.from = i /\ m.until = snap[i].until
            /\ ClaimsBadRound1(i, m.culprit) \/ ClaimsBadRound2(i, m.culprit)
        BY <2>4, <2>5, <3>2 DEF Carries
      <4>2. SUFFICES ASSUME m.culprit \in Honest,
                            dkg.until \notin lost[i] \cup lost[m.culprit]
                     PROVE  FALSE
        BY <2>5, <4>1 DEF Founded
      <4>3. Keeps(i) /\ Keeps(m.culprit)
        BY <2>5, <4>2 DEF Keeps
      <4> QED BY <2>1, <2>5, <4>1, <4>2, <4>3, NoReasonToClaim
    <3> QED BY <3>1, <3>2
  <2>6. ASSUME NEW j \in Honest, call'[j] # None, call'[j].culprit # None,
               until'[j] = dkg.until
        PROVE  dkg.r3[call'[j].culprit] # None
    <3>1. CASE j # i
      BY <2>3, <2>6, <3>1 DEF BlameInv
    <3>2. CASE j = i
      <4>1. call'[i].culprit \in Idx /\ snap[i].r3[call'[i].culprit] # None
        BY <2>6, <3>2, NewCall
      <4>2. Earlier(snap[i], dkg) /\ snap[i].until = dkg.until
        BY <2>2, <2>6, <3>2 DEF RecordInv
      <4> QED BY <3>2, <4>1, <4>2 DEF Earlier
    <3> QED BY <3>1, <3>2
  <2>7. ASSUME NEW m \in net'
        PROVE  /\ call'[m.from] # None => m.until <= until'[m.from]
               /\ snap'[m.from] # None => m.until <= snap'[m.from].until
    <3>1. CASE m \in net /\ m.from # i
      BY <1>0, <2>3, <3>1 DEF BlameInv
    <3>2. CASE m \in net /\ m.from = i
      BY <2>2, <3>2 DEF BlameInv
    <3>3. CASE m \notin net
      <4>1. m.from = i /\ m.until = until'[i] /\ until'[i] \in Nat
        BY <1>0, <2>1, <2>2, <2>4, <3>3, EnterType DEF Carries
      <4> QED BY <2>2, <4>1
    <3> QED BY <3>1, <3>2, <3>3
  <2>8. \A j \in Honest : dkg.claims[j] # None => Founded(j, dkg.claims[j], dkg.until)
    BY DEF BlameInv
  <2> QED BY <1>1, <2>2, <2>5, <2>6, <2>7, <2>8 DEF BlameInv, Founded
<1> QED BY <1>2, <1>3

\* A refused public key package is blamed on a faulty oracle only: every honest
\* key on record is the key of the record, and so is the refused one.
LEMMA BlameDifferentPubkey ==
  ASSUME TypeInv, SessionInv, RecordInv, KeyInv, BlameInv, NEW i \in Honest,
         call[i] # None, call[i].culprit # None,
         NEW x \in net, x.from = i, x.type = "R3", x.until = dkg.until,
         DifferentPubkeyPackages(dkg, x)
  PROVE  call[i].culprit \notin Honest
<1>0. i \in Idx /\ Honest \subseteq Idx
  BY DEF Honest
<1>1. KeyFits(dkg, i, x.pk)
  BY DEF KeyInv, MessageFits
<1>2. until[i] = dkg.until
  <2>1. x.until <= until[i] /\ until[i] <= dkg.until
    BY DEF BlameInv, SessionInv
  <2>2. until[i] \in Nat /\ dkg.until \in Nat
    BY <1>0 DEF TypeInv, TypeOK, Dkg
  <2> QED BY <2>1, <2>2
<1>3. dkg.r3[call[i].culprit] # None
  BY <1>2 DEF BlameInv
<1>4. PICK j \in Idx : dkg.r3[j] # None /\ dkg.r3[j] # x.pk
  BY DEF DifferentPubkeyPackages
<1>5. ASSUME call[i].culprit \in Honest PROVE FALSE
  <2>1. KeyFits(dkg, call[i].culprit, dkg.r3[call[i].culprit])
    BY <1>3, <1>5 DEF KeyInv
  <2>2. dkg.r3[call[i].culprit] = x.pk
    BY <1>1, <2>1 DEF KeyFits
  <2>3. dkg.r3[j] = dkg.r3[call[i].culprit]
    BY <1>0, <1>3, <1>4, <1>5 DEF RecordInv, Consistent
  <2> QED BY <1>4, <2>2, <2>3
<1> QED BY <1>5

LEMMA BlameOracle ==
  ASSUME TypeInv, SessionInv, RecordInv, KeyInv, OwnInv, BlameInv,
         NEW i \in Honest,
         \/ Fetch(i)
         \/ ExecuteStartFails(i)
         \/ Return(i)
         \/ ReturnDifferentPubkey(i)
         \/ Crash(i)
  PROVE  BlameInv'
<1>0. /\ i \in Idx /\ Honest \subseteq Idx
      /\ call \in [Idx -> Call \cup {None}] /\ until \in [Idx -> Nat]
      /\ snap \in [Idx -> Dkg \cup {None}] /\ lost \in [Idx -> SUBSET Nat]
      /\ \A m \in net : m.from \in Honest /\ m.until <= dkg.until
  BY DEF Honest, TypeInv, TypeOK, KeyInv, MessageFits
<1>1. dkg' = dkg
  BY OracleKeepsRecord
<1>2. \A j \in Honest : lost[j] \subseteq lost'[j]
  BY <1>0 DEF Fetch, ExecuteStartFails, Return, ReturnDifferentPubkey, Crash, history
<1>3. ASSUME NEW j \in Honest, NEW c, NEW u, Founded(j, c, u)
      PROVE  Founded(j, c, u)'
  BY <1>2, <1>3 DEF Founded
<1>4. ASSUME NEW j \in Honest, NEW c, NEW u, c = dkg.claims[j], u = dkg.until, c # None
      PROVE  Founded(j, c, u)'
  BY <1>3, <1>4 DEF BlameInv
<1>5. ASSUME NEW m \in net', m.type = "Claim", m.until = dkg.until,
             dkg.state # Finished
      PROVE  Founded(m.from, m.culprit, m.until)'
  <2>1. CASE m \in net
    BY <1>0, <1>3, <1>5, <2>1 DEF BlameInv
  <2>2. CASE m \notin net
    <3>1. /\ m.from = i /\ m.culprit = call[i].culprit
          /\ call[i] # None /\ call[i].culprit # None
      BY <2>2, OtherMessages
    <3>2. PICK x \in net : /\ x.from = i /\ x.type = "R3" /\ x.until = m.until
                           /\ DifferentPubkeyPackages(dkg, x)
      BY <2>2, OtherMessages
    <3>3. m.culprit \notin Honest
      BY <1>5, <3>1, <3>2, BlameDifferentPubkey
    <3> QED BY <3>3 DEF Founded, Honest
  <2> QED BY <2>1, <2>2
<1>6. ASSUME NEW j \in Honest
      PROVE  /\ call'[j] = None \/ call'[j].culprit = None \/
                  (call'[j] = call[j] /\ until'[j] = until[j])
             /\ call'[j] = None \/ (call[j] # None /\ until'[j] = until[j])
             /\ snap'[j] = None \/ snap'[j] = snap[j] \/ snap'[j] = dkg
  <2>1. snap'[j] = None \/ snap'[j] = snap[j] \/ snap'[j] = dkg
    BY OracleKeepsRecord
  <2>2. CASE Fetch(i) \/ ExecuteStartFails(i)
    BY <2>1, <2>2 DEF Fetch, ExecuteStartFails, NoSend
  <2>3. CASE Return(i) \/ Crash(i)
    BY <1>0, <2>1, <2>3 DEF Return, Crash
  <2>4. CASE ReturnDifferentPubkey(i)
    <3>1. /\ until' = until /\ call[i] # None
          /\ \/ call' = [call EXCEPT ![i] = None]
             \/ call' = [call EXCEPT ![i] = [type |-> "Claim", culprit |-> None]]
      BY <2>4 DEF ReturnDifferentPubkey
    <3> QED BY <1>0, <2>1, <3>1
  <2> QED BY <2>2, <2>3, <2>4
<1>7. ASSUME NEW j \in Honest, call'[j] # None, call'[j].culprit # None,
             until'[j] = dkg.until
      PROVE  dkg.r3[call'[j].culprit] # None
  BY <1>6, <1>7 DEF BlameInv
<1>8. ASSUME NEW m \in net'
      PROVE  /\ call'[m.from] # None => m.until <= until'[m.from]
             /\ snap'[m.from] # None => m.until <= snap'[m.from].until
  <2>1. PICK x \in net : x.from = m.from /\ x.until = m.until
    <3>1. CASE m \in net
      BY <3>1
    <3>2. CASE m \notin net
      <4>1. m.from = i
        BY <3>2, OtherMessages
      <4>2. \E x \in net : x.from = i /\ x.until = m.until
        BY <3>2, OtherMessages
      <4> QED BY <4>1, <4>2
    <3> QED BY <3>1, <3>2
  <2>2. /\ call[x.from] # None => x.until <= until[x.from]
        /\ snap[x.from] # None => x.until <= snap[x.from].until
    BY DEF BlameInv
  <2>3. x.from \in Honest /\ x.until <= dkg.until
    BY <1>0
  <2> QED BY <1>6, <2>1, <2>2, <2>3
<1> QED BY <1>1, <1>4, <1>5, <1>7, <1>8 DEF BlameInv

LEMMA AcceptedClaims ==
  ASSUME NEW d \in Dkg, NEW m \in Msg, NEW j \in Idx,
         Accepted(d, m).claims[j] # d.claims[j]
  PROVE  m.type = "Claim" /\ m.from = j /\ Accepted(d, m).claims[j] = m.culprit
<1>1. m.type \in {"R1", "R2", "R3", "Claim"} /\ m.from \in Idx
  BY MsgType
<1>2. CASE m.type = "R1"
  BY <1>2 DEF Accepted, Dkg
<1>3. CASE m.type = "R2"
  BY <1>3 DEF Accepted, Dkg
<1>4. CASE m.type = "R3"
  BY <1>4 DEF Accepted, Dkg
<1>5. CASE m.type = "Claim"
  BY <1>1, <1>5 DEF Accepted, Dkg
<1> QED BY <1>1, <1>2, <1>3, <1>4, <1>5

LEMMA BlameContract ==
  ASSUME TypeInv, SessionInv, RecordInv, KeyInv, OwnInv, BlameInv,
         \/ StartDKG
         \/ \E m \in net : Deliver(m) \/ Expire(m)
         \/ \E i \in Faulty : FaultySend(i)
  PROVE  BlameInv'
<1>0. Honest \subseteq Idx /\ dkg \in Dkg /\ dkg.until \in Nat
  BY DEF Honest, TypeInv, TypeOK, Dkg
<1>1. CASE StartDKG
  <2>1. /\ dkg'.claims = NoneYet /\ dkg'.until = dkg.until + 1
        /\ net' = {} /\ call' = call /\ until' = until
    BY <1>1 DEF StartDKG, NewDkg
  <2>2. \A j \in Honest : dkg'.claims[j] = None
    BY <1>0, <2>1 DEF NoneYet
  <2>3. ASSUME NEW j \in Honest PROVE until[j] # dkg'.until
    <3>1. until[j] \in Nat /\ until[j] <= dkg.until
      BY <1>0 DEF SessionInv, TypeInv, TypeOK
    <3> QED BY <1>0, <2>1, <3>1
  <2> QED BY <2>1, <2>2, <2>3 DEF BlameInv
<1>2. ASSUME NEW m \in Msg, CanAccept(dkg, m), dkg' = Accepted(dkg, m),
             m.type = "Claim" => m \in net,
             snap' = snap, call' = call, until' = until, lost' = lost,
             net' \subseteq net
      PROVE  BlameInv'
  <2>1. /\ dkg'.until = dkg.until /\ dkg.state # Finished /\ m.until = dkg.until
        /\ \A j \in Idx : dkg.r3[j] # None => dkg'.r3[j] # None
    BY <1>0, <1>2, AcceptedLater DEF CanAccept
  <2>2. ASSUME NEW j \in Honest, dkg'.claims[j] # None
        PROVE  Founded(j, dkg'.claims[j], dkg.until)
    <3>1. CASE dkg'.claims[j] = dkg.claims[j]
      BY <2>2, <3>1 DEF BlameInv
    <3>2. CASE dkg'.claims[j] # dkg.claims[j]
      <4>1. m.type = "Claim" /\ m.from = j /\ dkg'.claims[j] = m.culprit
        BY <1>0, <1>2, <3>2, AcceptedClaims
      <4> QED BY <1>2, <2>1, <4>1 DEF BlameInv
    <3> QED BY <3>1, <3>2
  <2>3. ASSUME NEW j \in Honest, call[j] # None, call[j].culprit # None,
               until[j] = dkg.until
        PROVE  dkg'.r3[call[j].culprit] # None
    <3>1. dkg.r3[call[j].culprit] # None
      BY <2>3 DEF BlameInv
    <3>2. call[j].culprit \in Idx
      BY <1>0, <2>3 DEF TypeInv, TypeOK, Call
    <3> QED BY <2>1, <3>1, <3>2
  <2> QED BY <1>2, <2>1, <2>2, <2>3 DEF BlameInv, Founded
<1>3. CASE \E m \in net : Deliver(m)
  <2>1. PICK m \in net : Deliver(m)
    BY <1>3
  <2>2. /\ m \in Msg /\ CanAccept(dkg, m) /\ dkg' = Accepted(dkg, m)
        /\ snap' = snap /\ call' = call /\ until' = until /\ lost' = lost
        /\ net' \subseteq net
    BY <2>1 DEF Deliver, history, TypeInv, TypeOK
  <2> QED BY <1>2, <2>2
<1>4. CASE \E m \in net : Expire(m)
  BY <1>4 DEF Expire, history, BlameInv, Founded
<1>5. CASE \E i \in Faulty : FaultySend(i)
  <2>1. PICK i \in Faulty : FaultySend(i)
    BY <1>5
  <2>2. PICK m \in FaultyMsgs(i) : CanAccept(dkg, m) /\ dkg' = Accepted(dkg, m)
    BY <2>1 DEF FaultySend
  <2>3. m \in Msg /\ m.type # "Claim"
    BY FaultyEncrypted
  <2>4. /\ snap' = snap /\ call' = call /\ until' = until /\ lost' = lost
        /\ net' = net
    BY <2>1 DEF FaultySend, history
  <2> QED BY <1>2, <2>2, <2>3, <2>4
<1> QED BY <1>1, <1>3, <1>4, <1>5

LEMMA BlameNext ==
  TypeInv /\ SessionInv /\ RecordInv /\ KeyInv /\ OwnInv /\ BlameInv /\ [Next]_vars
    => BlameInv'
<1> SUFFICES ASSUME TypeInv, SessionInv, RecordInv, KeyInv, OwnInv, BlameInv,
                    [Next]_vars
             PROVE  BlameInv'
  OBVIOUS
<1>1. CASE UNCHANGED vars
  BY <1>1 DEF vars, BlameInv, Founded
<1>2. CASE Next
  BY <1>2, BlameExecute, BlameOracle, BlameContract DEF Next
<1> QED BY <1>1, <1>2

\* No honest oracle is made a culprit by an honest one that has the secrets of
\* the attempt, or while it has them itself: for every number of oracles,
\* attempts and restarts, and any order of snapshots, losses, resends and late
\* messages.
THEOREM HonestBlameIsFounded == Spec => []BlameIsFounded
<1>1. BlameInv => BlameIsFounded
  <2>1. None \notin Honest
    BY DkgAssumption DEF Honest
  <2> QED BY <2>1 DEF BlameInv, Founded, BlameIsFounded
<1> QED BY <1>1, OwnInit, OwnNext, BlameInit, BlameNext, TypeInvariant, KeyInvariant,
        PTL DEF Spec

=============================================================================
