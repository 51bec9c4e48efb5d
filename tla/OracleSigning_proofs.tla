------------------------- MODULE OracleSigning_proofs -------------------------
(***************************************************************************)
(* Proofs about OracleSigning for every set of oracles, every bound and     *)
(* every choice of faulty and restarted oracles.                            *)
(***************************************************************************)
EXTENDS OracleSigning, FiniteSetTheorems, WellFoundedInduction, TLAPS

-----------------------------------------------------------------------------
(* Helpers.                                                                 *)

\* The bit that sendClaimBySignatureMask finds is one of the mask: a non-empty
\* finite set of indices has a highest element, because among the sets of the
\* members not below one of them there is a minimal one under inclusion.
LEMMA HighestIdxIsMember ==
  ASSUME NEW S \in SUBSET Nat, IsFiniteSet(S), S # {}
  PROVE  HighestIdx(S) \in S
<1> DEFINE R == StrictSubsetOrdering(S)
           Above(j) == {k \in S : j <= k}
           T == {Above(j) : j \in S}
<1>1. IsWellFoundedOn(R, FiniteSubsetsOf(S))
  BY FS_StrictSubsetOrderingWellFounded
<1>2. T \subseteq FiniteSubsetsOf(S)
  <2>1. ASSUME NEW j \in S PROVE Above(j) \in FiniteSubsetsOf(S)
    <3>1. Above(j) \in SUBSET S
      OBVIOUS
    <3> HIDE DEF Above
    <3>2. IsFiniteSet(Above(j))
      BY <3>1, FS_Subset
    <3> QED BY <3>1, <3>2 DEF FiniteSubsetsOf
  <2> QED BY <2>1
<1>3. \E X \in T : \A Y \in T : <<Y, X>> \notin R
  <2>1. T # {} OBVIOUS
  <2> HIDE DEF T, R
  <2> QED BY <1>1, <1>2, <2>1, WFMin, Zenon
<1>4. PICK x \in S : \A y \in S : <<Above(y), Above(x)>> \notin R
  BY <1>3
<1>5. ASSUME NEW y \in S, x < y PROVE FALSE
  <2> DEFINE a == Above(y)
             b == Above(x)
  <2>0. \A k, l \in S : k \in Nat /\ (k <= l \/ l < k) /\ ~(k <= l /\ l < k)
    OBVIOUS
  <2>1. a \subseteq b /\ x \in b /\ x \notin a
    <3>1. \A k \in S : y <= k => x <= k
      BY <1>5, <2>0
    <3>2. x <= x /\ ~(y <= x)
      BY <1>5, <2>0
    <3> QED BY <3>1, <3>2
  <2>2. a \subseteq b /\ a # b /\ <<a, b>> \in (SUBSET S) \X (SUBSET S)
    BY <2>1
  <2>4. <<a, b>> \notin R
    BY <1>4
  <2> HIDE DEF a, b
  <2>3. <<a, b>> \in StrictSubsetOrdering(S)
    BY <2>2 DEF StrictSubsetOrdering
  <2> QED BY <2>3, <2>4
<1>6. \A y \in S : y <= x
  BY <1>5
<1> QED BY <1>6 DEF HighestIdx

\* CalcMinSigners never asks for fewer than two.
LEMMA MinSignersType == MinSigners \in Nat /\ MinSigners >= 2
<1>1. Cardinality(Idx) \in Nat
  BY FS_CardinalityType, SigningAssumption
<1> DEFINE n == Cardinality(Idx)
           q == (2 * n) \div 3
<1>2. q \in Nat
  BY <1>1
<1> HIDE DEF q
<1>3. MinSigners = IF q > 2 THEN q ELSE 2
  BY DEF MinSigners, CalcMinSigners, q
<1> QED BY <1>2, <1>3

\* Whom sendClaimBySignatureMask blames is a validator, or nobody.
LEMMA CulpritBySignatureMaskType ==
  ASSUME NEW d \in Pegout, NEW i \in Idx
  PROVE  CulpritBySignatureMask(i, d) \in Idx \cup {None}
<1>1. d.sigs.by \in SUBSET Idx
  BY DEF Pegout
<1>2. IsFiniteSet(d.sigs.by)
  BY <1>1, FS_Subset, SigningAssumption
<1>3. d.sigs.by # {} => HighestIdx(d.sigs.by) \in Idx
  BY <1>1, <1>2, HighestIdxIsMember, SigningAssumption
<1> QED BY <1>3 DEF CulpritBySignatureMask

-----------------------------------------------------------------------------
(* Types.                                                                   *)

LEMMA NewPegoutRecordType ==
  ASSUME NEW p \in Ids, NEW e \in Nat, NEW m \in SUBSET Idx
  PROVE  NewPegoutRecord(p, e, m) \in Pegout
BY DEF NewPegoutRecord, Pegout, NoneYet, Commitments

LEMMA InitType == Init => TypeOK
BY SigningAssumption DEF Init, TypeOK, NoneYet, NoShares

LEMMA RestartType ==
  ASSUME TypeOK, rec # None, NEW S \in SUBSET Idx, Restart(S)
  PROVE  rec' \in Pegout /\ attempts' \in Nat
<1>1. rec \in Pegout /\ attempts \in Nat /\ rec.id \in Ids
  BY DEF TypeOK, Pegout
<1>2. PICK m \in SUBSET S :
        \/ rec' = NewPegoutRecord(rec.id, attempts + 1, m) /\ attempts' = attempts + 1
        \/ rec' = NewPegoutRecord(rec.id, 0, m) /\ attempts' = attempts
  BY DEF Restart
<1>3. m \in SUBSET Idx /\ attempts + 1 \in Nat /\ 0 \in Nat
  BY <1>1
<1> QED BY <1>1, <1>2, <1>3, NewPegoutRecordType

\* What the contract stores of a well-formed message is a pegout record, and only
\* the last signature removes it.
LEMMA AcceptType ==
  ASSUME TypeOK, NEW m \in Msg, Accept(m)
  PROVE  /\ \/ rec' \in Pegout
            \/ /\ rec' = None /\ m.type = "Sig"
               /\ Cardinality(rec.sigs.by \cup {m.from}) >= MinSigners
         /\ attempts' \in Nat
         /\ UNCHANGED <<pegouts, clock, oracles>>
<1>0. /\ rec \in Pegout /\ rec # None
      /\ attempts \in Nat /\ attempts + 1 \in Nat
      /\ m.from \in Idx
      /\ UNCHANGED <<pegouts, clock, oracles>>
  BY DEF Accept, CanAccept, TypeOK, Msg, CommitMsg, ShareMsg, SigMsg, ClaimMsg, ResetMsg
<1>1. CASE m.type = "Commit" /\ AcceptCommit(m)
  <2>1. m.commitment \in Nat \cup {Garbage, Unparsable}
    BY <1>1 DEF Msg, CommitMsg, ShareMsg, SigMsg, ClaimMsg, ResetMsg
  <2>2. [rec.commits EXCEPT ![m.from] = m.commitment] \in Commitments
    BY <1>0, <2>1 DEF Pegout, Commitments
  <2>3. rec.other \cup {m.from} \in SUBSET Idx
    BY <1>0 DEF Pegout
  <2> QED BY <1>0, <1>1, <2>2, <2>3 DEF AcceptCommit, Pegout
<1>2. CASE /\ m.type = "Share"
           /\ rec' = [rec EXCEPT !.shares[m.from] = m.share]
           /\ UNCHANGED attempts
  <2>1. m.share \in Share \cup {Garbage}
    BY <1>2 DEF Msg, CommitMsg, ShareMsg, SigMsg, ClaimMsg, ResetMsg
  <2>2. [rec.shares EXCEPT ![m.from] = m.share] \in [Idx -> Share \cup {Garbage, None}]
    BY <1>0, <2>1 DEF Pegout
  <2> QED BY <1>0, <1>2, <2>2 DEF Pegout
<1>3. CASE m.type = "Sig" /\ AcceptSig(m)
  <2>1. m.value \in Signature
    BY <1>3 DEF Msg, CommitMsg, ShareMsg, SigMsg, ClaimMsg, ResetMsg
  <2>2. [by |-> rec.sigs.by \cup {m.from}, value |-> m.value]
          \in [by : SUBSET Idx, value : Signature \cup {None}]
    BY <1>0, <2>1 DEF Pegout
  <2> QED BY <1>0, <1>3, <2>2 DEF AcceptSig, Pegout
<1>4. CASE m.type = "Claim" /\ AcceptClaim(m)
  <2>1. m.culprit \in Idx
    BY <1>4 DEF Msg, CommitMsg, ShareMsg, SigMsg, ClaimMsg, ResetMsg
  <2>2. [rec.claims EXCEPT ![m.from] = m.culprit] \in [Idx -> Idx \cup {None}]
    BY <1>0, <2>1 DEF Pegout
  <2>3. CASE /\ rec' = [rec EXCEPT !.claims[m.from] = m.culprit]
             /\ UNCHANGED attempts
    BY <1>0, <2>2, <2>3 DEF Pegout
  <2>4. CASE Restart(Idx \ {m.culprit})
    BY <1>0, <2>4, RestartType
  <2> QED BY <1>4, <2>3, <2>4 DEF AcceptClaim
<1>5. CASE m.type = "Reset" /\ Restart(Idx)
  BY <1>0, <1>5, RestartType
<1> QED BY <1>0, <1>1, <1>2, <1>3, <1>4, <1>5 DEF Accept

\* A step of the contract leaves the oracles alone.
LEMMA ContractType ==
  ASSUME TypeOK, NEW m \in Msg, Accept(m), net' \in SUBSET Msg
  PROVE  TypeOK'
BY AcceptType DEF TypeOK, oracles, history

LEMMA FaultyMsgsType ==
  ASSUME TypeOK, NEW i \in Faulty, rec # None
  PROVE  FaultyMsgs(i) \subseteq Msg
<1>1. i \in Idx /\ rec \in Pegout
  BY SigningAssumption DEF TypeOK
<1> DEFINE shares == [nonce : {rec.commits[i]} \cap Nat, id : {rec.id},
                      commits : {rec.commits}]
<1>2. rec.id \in Ids /\ rec.expiredAt \in Nat /\ rec.commits \in Commitments
  BY <1>1 DEF Pegout
<1>3. shares \subseteq Share
  BY <1>2, SigningAssumption DEF Share, Ids
<1>4. ASSUME NEW x \in {1, Garbage, Unparsable} PROVE CommitOf(i, rec, x) \in Msg
  BY <1>1, <1>2 DEF CommitOf, Msg, CommitMsg
<1>5. ASSUME NEW x \in shares \cup {Garbage} PROVE ShareOf(i, rec, x) \in Msg
  <2>1. x \in Share \cup {Garbage}
    BY <1>3
  <2> QED BY <1>1, <1>2, <2>1 DEF ShareOf, Msg, ShareMsg
<1>6. ASSUME NEW x \in {rec.commits, Garbage} PROVE SigOf(i, rec, x) \in Msg
  BY <1>1, <1>2 DEF SigOf, Msg, SigMsg, Signature
<1> QED BY <1>4, <1>5, <1>6 DEF FaultyMsgs

\* The parts of a tick: what it works on, what it keeps and what it sends.
LEMMA WorkType ==
  ASSUME TypeOK, NEW i \in Honest, Work(i)
  PROVE  /\ i \in Idx
         /\ snap[i] \in Pegout
         /\ rec' \in Pegout \cup {None}
         /\ pegouts' \in 0 .. MaxPegouts
         /\ attempts' \in Nat
         /\ clock' \in Nat
         /\ snap' \in [Idx -> Pegout \cup {None}]
         /\ crashes' \in Nat
         /\ lost' \in [Idx -> SUBSET Nat]
BY DEF Work, TypeOK, Honest, contract, history

LEMMA CachePegoutType ==
  ASSUME TypeOK, NEW i \in Honest, snap[i] \in Pegout
  PROVE  /\ CachePegout(i) \in CachedPegout
         /\ KeptShares(i) \in [Ids -> Share \cup {None}]
<1>1. i \in Idx
  BY DEF Honest
<1>2. KeptShares(i) \in [Ids -> Share \cup {None}]
  BY <1>1 DEF KeptShares, NoShares, TypeOK
<1>3. KeepsCache(i) => /\ cache[i].nonces \in Nat \cup {None}
                       /\ cache[i].commitments \in Nat \cup {None}
  BY <1>1 DEF KeepsCache, TypeOK, CachedPegout
<1>4. snap[i].id \in Ids /\ snap[i].expiredAt \in Nat
  BY DEF Pegout
<1> QED BY <1>2, <1>3, <1>4 DEF CachePegout, CachedPegout

LEMMA LeaveType ==
  ASSUME TypeOK, NEW i \in Honest, NEW c \in CachedPegout \cup {None},
         NEW t \in [Ids -> Share \cup {None}], Leave(i, c, t)
  PROVE  /\ cache' \in [Idx -> CachedPegout \cup {None}]
         /\ temp' \in [Idx -> [Ids -> Share \cup {None}]]
BY DEF Leave, TypeOK

LEMMA SendType ==
  ASSUME TypeOK, NEW m \in Msg, Send(m)
  PROVE  net' \in SUBSET Msg /\ call' \in [Idx -> Call \cup {None}]
BY DEF Send, TypeOK

LEMMA NoSendType ==
  ASSUME TypeOK, NoSend
  PROVE  net' \in SUBSET Msg /\ call' \in [Idx -> Call \cup {None}]
BY DEF NoSend, TypeOK

LEMMA ClaimType ==
  ASSUME TypeOK, NEW i \in Idx, NEW d \in Pegout, NEW c \in Idx,
         ExecuteClaim(i, d, c)
  PROVE  net' \in SUBSET Msg /\ call' \in [Idx -> Call \cup {None}]
<1>1. ClaimOf(i, d, c) \in Msg
  BY DEF ClaimOf, Msg, ClaimMsg, Pegout
<1> QED BY <1>1, SendType, NoSendType DEF ExecuteClaim

\* Each way ExecuteSign can go leaves a well-typed state.
LEMMA ExecuteType ==
  ASSUME TypeOK, NEW i \in Honest,
         Execute(i) \/ ExecuteStop(i) \/ ExecuteNoSecret(i)
  PROVE  TypeOK'
<1> DEFINE d == snap[i]
           c == CachePegout(i)
           t == KeptShares(i)
           Sends == net' \in SUBSET Msg /\ call' \in [Idx -> Call \cup {None}]
           Leaves == /\ cache' \in [Idx -> CachedPegout \cup {None}]
                     /\ temp' \in [Idx -> [Ids -> Share \cup {None}]]
           Draws == /\ gen' \in [Idx -> Nat]
                    /\ used' \in [Idx -> SUBSET Share]
<1>0. Work(i) /\ i \in Idx /\ d \in Pegout
  <2>1. Work(i)
    BY DEF Execute, ExecuteEvicted, ExecuteReset, ExecuteWait, ExecuteCommit,
           ExecuteCannotSign, ExecuteSignClaim, ExecuteSign, ExecuteSignAgain,
           ExecuteAggregate, Aggregate, ExecuteStop, ExecuteNoSecret, Enter
  <2> QED BY <2>1, WorkType
<1>1. c \in CachedPegout /\ t \in [Ids -> Share \cup {None}]
  BY <1>0, CachePegoutType
<1>2. d.id \in Ids /\ d.expiredAt \in Nat /\ d.commits \in Commitments
  BY <1>0 DEF Pegout
<1>3. c.nonces \in Nat \cup {None} /\ c.commitments \in Nat \cup {None}
  BY <1>1 DEF CachedPegout
<1> HIDE DEF c, t
<1>4. ASSUME Sends, Leaves, Draws PROVE TypeOK'
  BY <1>0, <1>4, WorkType DEF TypeOK
<1>5. UNCHANGED <<cache, temp>> => Leaves
  BY DEF TypeOK
<1>6. Leave(i, c, t) => Leaves
  BY <1>1, LeaveType
<1>7. UNCHANGED <<gen, used>> => Draws
  BY DEF TypeOK
<1>8. NoSend => Sends
  BY NoSendType
<1> HIDE DEF Sends, Leaves, Draws, d
<1>9. CASE ExecuteEvicted(i)
  <2>1. NoSend /\ UNCHANGED <<cache, temp>> /\ UNCHANGED <<gen, used>>
    BY <1>9 DEF ExecuteEvicted
  <2> QED BY <1>4, <1>5, <1>7, <1>8, <2>1
<1>10. CASE ExecuteStop(i)
  <2>1. NoSend /\ UNCHANGED <<cache, temp>> /\ UNCHANGED <<gen, used>>
    BY <1>10 DEF ExecuteStop
  <2> QED BY <1>4, <1>5, <1>7, <1>8, <2>1
<1>11. CASE ExecuteReset(i)
  <2>1. /\ cache' = [cache EXCEPT ![i] = None]
        /\ Send(ResetOf(i, d))
        /\ temp' = temp
        /\ UNCHANGED <<gen, used>>
    BY <1>11 DEF ExecuteReset, d
  <2>2. Leaves
    BY <2>1 DEF TypeOK, Leaves
  <2>3. ResetOf(i, d) \in Msg
    BY <1>0, <1>2 DEF ResetOf, Msg, ResetMsg
  <2>4. Sends
    BY <2>1, <2>3, SendType DEF Sends
  <2> QED BY <1>4, <1>7, <2>1, <2>2, <2>4
<1>12. CASE ExecuteWait(i)
  <2>1. NoSend /\ Leave(i, c, t) /\ UNCHANGED <<gen, used>>
    BY <1>12 DEF ExecuteWait, c, t
  <2> QED BY <1>4, <1>6, <1>7, <1>8, <2>1
<1>13. CASE ExecuteNoSecret(i)
  <2>1. NoSend /\ Leave(i, c, t) /\ UNCHANGED <<gen, used>>
    BY <1>13 DEF ExecuteNoSecret, c, t
  <2> QED BY <1>4, <1>6, <1>7, <1>8, <2>1
<1>14. CASE ExecuteCannotSign(i)
  <2>1. NoSend /\ Leave(i, c, t) /\ UNCHANGED <<gen, used>>
    BY <1>14 DEF ExecuteCannotSign, c, t
  <2> QED BY <1>4, <1>6, <1>7, <1>8, <2>1
<1>15. CASE ExecuteCommit(i)
  <2> DEFINE n == gen[i] + 1
             b == [c EXCEPT !.nonces = n, !.commitments = n]
  <2>0. n \in Nat
    BY <1>0 DEF TypeOK
  <2>1. CASE /\ Leave(i, b, t)
             /\ gen' = [gen EXCEPT ![i] = n]
             /\ Send(CommitOf(i, d, n))
             /\ used' = used
    <3>1. b \in CachedPegout
      BY <1>1, <2>0 DEF CachedPegout
    <3>2. Leaves
      <4> HIDE DEF b
      <4> QED BY <1>1, <2>1, <3>1, LeaveType DEF Leaves
    <3>3. Draws
      BY <2>0, <2>1 DEF Draws, TypeOK
    <3>4. CommitOf(i, d, n) \in Msg
      BY <1>0, <1>2, <2>0 DEF CommitOf, Msg, CommitMsg
    <3>5. Sends
      BY <2>1, <3>4, SendType DEF Sends
    <3> QED BY <1>4, <3>2, <3>3, <3>5
  <2>2. CASE /\ c.commitments # None
             /\ Leave(i, c, t)
             /\ UNCHANGED <<gen, used>>
             /\ Send(CommitOf(i, d, c.commitments))
    <3>1. CommitOf(i, d, c.commitments) \in Msg
      BY <1>0, <1>2, <1>3, <2>2 DEF CommitOf, Msg, CommitMsg
    <3>2. Sends
      BY <2>2, <3>1, SendType DEF Sends
    <3> QED BY <1>4, <1>6, <1>7, <2>2, <3>2
  <2> QED BY <1>15, <2>1, <2>2 DEF ExecuteCommit, c, t, d
<1>16. CASE ExecuteSignClaim(i)
  <2>1. Leave(i, c, t) /\ UNCHANGED <<gen, used>>
    BY <1>16 DEF ExecuteSignClaim, c, t
  <2>2. PICK j \in Idx : ExecuteClaim(i, d, j)
    BY <1>16 DEF ExecuteSignClaim, Undecodable, d
  <2>3. Sends
    BY <1>0, <2>2, ClaimType DEF Sends
  <2> QED BY <1>4, <1>6, <1>7, <2>1, <2>3
<1>17. CASE ExecuteSign(i)
  <2> DEFINE s == [nonce |-> c.nonces, id |-> d.id, commits |-> d.commits]
             u == [t EXCEPT ![d.id] = s]
  <2>1. /\ c.nonces # None
        /\ Leave(i, c, u) \/ Leave(i, c, t)
        /\ used' = [used EXCEPT ![i] = @ \cup {s}]
        /\ Send(ShareOf(i, d, s))
        /\ gen' = gen
    BY <1>17 DEF ExecuteSign, c, t, d
  <2>2. s \in Share
    BY <1>2, <1>3, <2>1, SigningAssumption DEF Share, Ids
  <2> HIDE DEF s
  <2>3. u \in [Ids -> Share \cup {None}]
    BY <1>1, <1>2, <2>2
  <2>4. Leaves
    <3> HIDE DEF u
    <3> QED BY <1>1, <1>6, <2>1, <2>3, LeaveType DEF Leaves
  <2>5. Draws
    BY <1>0, <2>1, <2>2 DEF Draws, TypeOK
  <2>6. ShareOf(i, d, s) \in Msg
    BY <1>0, <1>2, <2>2 DEF ShareOf, Msg, ShareMsg
  <2>7. Sends
    BY <2>1, <2>6, SendType DEF Sends
  <2> QED BY <1>4, <2>4, <2>5, <2>7
<1>18. CASE ExecuteSignAgain(i)
  <2> DEFINE s == t[d.id]
  <2>1. /\ s # None
        /\ Leave(i, c, t)
        /\ Send(ShareOf(i, d, s))
        /\ UNCHANGED <<gen, used>>
    BY <1>18 DEF ExecuteSignAgain, c, t, d
  <2>2. s \in Share
    BY <1>1, <1>2, <2>1
  <2> HIDE DEF s
  <2>3. ShareOf(i, d, s) \in Msg
    BY <1>0, <1>2, <2>2 DEF ShareOf, Msg, ShareMsg
  <2>4. Sends
    BY <2>1, <2>3, SendType DEF Sends
  <2> QED BY <1>4, <1>6, <1>7, <2>1, <2>4
<1>19. CASE ExecuteAggregate(i)
  <2> DEFINE b == [c EXCEPT !.nonces = None]
             k == CulpritBySignatureMask(i, d)
  <2>1. Leave(i, b, t) /\ UNCHANGED <<gen, used>>
    BY <1>19 DEF ExecuteAggregate, Aggregate, c, t
  <2>2. b \in CachedPegout
    BY <1>1 DEF CachedPegout
  <2>3. Leaves
    <3> HIDE DEF b
    <3> QED BY <1>1, <2>1, <2>2, LeaveType DEF Leaves
  <2>4. k \in Idx \cup {None}
    BY <1>0, CulpritBySignatureMaskType
  <2>5. AggregateWithTweak(d) \in Signature
    BY <1>2 DEF AggregateWithTweak, Signature
  <2>6. SigOf(i, d, AggregateWithTweak(d)) \in Msg
    BY <1>0, <1>2, <2>5 DEF SigOf, Msg, SigMsg
  <2>7. \/ NoSend
        \/ \E j \in InvalidShares(d) : ExecuteClaim(i, d, j)
        \/ /\ net' = net \cup {SigOf(i, d, AggregateWithTweak(d))}
           /\ call' = [call EXCEPT ![i] = [culprit |-> k]]
    BY <1>19 DEF ExecuteAggregate, d
  <2>8. ASSUME NEW j \in InvalidShares(d), ExecuteClaim(i, d, j) PROVE Sends
    <3>1. j \in Idx
      BY DEF InvalidShares
    <3> QED BY <1>0, <2>8, <3>1, ClaimType DEF Sends
  <2> HIDE DEF k
  <2>9. [culprit |-> k] \in Call
    BY <2>4 DEF Call
  <2>10. Sends
    BY <1>0, <1>8, <2>6, <2>7, <2>8, <2>9 DEF Sends, TypeOK
  <2> QED BY <1>4, <1>7, <2>1, <2>3, <2>10
<1> QED BY <1>9, <1>10, <1>11, <1>12, <1>13, <1>14, <1>15, <1>16, <1>17, <1>18,
           <1>19 DEF Execute

LEMMA NextType == TypeOK /\ [Next]_vars => TypeOK'
<1> SUFFICES ASSUME TypeOK, [Next]_vars PROVE TypeOK'
  OBVIOUS
<1>1. CASE NewPegout
  <2>1. PICK m \in SUBSET Idx : rec' = NewPegoutRecord(pegouts + 1, 0, m)
    BY <1>1, SigningAssumption DEF NewPegout
  <2>2. pegouts + 1 \in Ids /\ pegouts' \in 0 .. MaxPegouts
    BY <1>1, SigningAssumption DEF NewPegout, TypeOK, Ids
  <2>3. rec' \in Pegout
    BY <2>1, <2>2, NewPegoutRecordType
  <2> QED BY <1>1, <2>2, <2>3 DEF NewPegout, TypeOK, oracles, history
<1>2. CASE TimePasses
  BY <1>2 DEF TimePasses, contract, oracles, history, TypeOK
<1>3. ASSUME NEW m \in net, Deliver(m) PROVE TypeOK'
  <2>1. m \in Msg /\ Accept(m) /\ net' \in SUBSET Msg
    BY <1>3 DEF Deliver, Live, TypeOK
  <2> QED BY <2>1, ContractType
<1>4. ASSUME NEW i \in Faulty, FaultySend(i) PROVE TypeOK'
  <2>1. FaultyMsgs(i) \subseteq Msg
    BY <1>4, FaultyMsgsType DEF FaultySend
  <2>2. PICK m \in FaultyMsgs(i) : Accept(m)
    BY <1>4 DEF FaultySend
  <2>3. net' \in SUBSET Msg
    BY <1>4 DEF FaultySend, Live, TypeOK
  <2> QED BY <2>1, <2>2, <2>3, ContractType
<1>5. ASSUME NEW i \in Honest,
             Read(i) \/ NoRequests(i) \/ Return(i) \/ Crash(i)
      PROVE  TypeOK'
  <2>1. i \in Idx
    BY DEF Honest
  <2>2. CASE Read(i)
    BY <2>1, <2>2 DEF Read, contract, history, TypeOK
  <2>3. CASE NoRequests(i)
    BY <2>3 DEF NoRequests, vars, contract, history, TypeOK
  <2>4. CASE Return(i)
    BY <2>1, <2>4 DEF Return, contract, history, TypeOK
  <2>5. CASE Crash(i)
    <3>1. Attempt \in Nat
      BY DEF Attempt, TypeOK
    <3>2. lost' \in [Idx -> SUBSET Nat] /\ crashes' \in Nat
      BY <2>1, <2>5, <3>1 DEF Crash, TypeOK
    <3> QED BY <2>1, <2>5, <3>2 DEF Crash, contract, TypeOK
  <2> QED BY <1>5, <2>2, <2>3, <2>4, <2>5
<1>6. ASSUME NEW i \in Honest, ReturnDifferentSignatures(i) PROVE TypeOK'
  <2>1. i \in Idx /\ rec \in Pegout /\ call[i] \in Call
    BY <1>6 DEF ReturnDifferentSignatures, TypeOK, Honest
  <2>2. call[i].culprit # None => ClaimOf(i, rec, call[i].culprit) \in Msg
    BY <2>1 DEF Call, ClaimOf, Msg, ClaimMsg, Pegout
  <2>3. net' \in SUBSET Msg
    BY <1>6, <2>2 DEF ReturnDifferentSignatures, TypeOK
  <2> QED BY <1>6, <2>1, <2>3
          DEF ReturnDifferentSignatures, contract, history, TypeOK
<1>7. CASE UNCHANGED vars
  BY <1>7 DEF vars, contract, history, TypeOK
<1> QED BY <1>1, <1>2, <1>3, <1>4, <1>5, <1>6, <1>7, ExecuteType DEF Next

\* Every variable keeps its type, whatever is sent, lost, late or restarted.
THEOREM TypeCorrect == Spec => []TypeOK
BY InitType, NextType, PTL DEF Spec


-----------------------------------------------------------------------------
(* Attempts: what a value of ExpiredAt stands for.                          *)

\* A record has a value of ExpiredAt that was given out, and enough commitments
\* only after it got one.
Started(d) ==
  d # None => /\ d.expiredAt <= attempts
              /\ Committed(d) => d.expiredAt # 0

\* The commitments of an attempt are settled once there are enough: who reads
\* the record after that, however long ago, works on the same ones.
AttemptInv ==
  /\ Started(rec)
  /\ \A i \in Honest :
       /\ Started(snap[i])
       /\ cache[i] # None => cache[i].expiredAt <= attempts
       /\ (/\ rec # None
           /\ snap[i] # None
           /\ Committed(snap[i])
           /\ rec.expiredAt = snap[i].expiredAt) => rec.commits = snap[i].commits

\* What a step of the contract does to the commitments of the record.
SameCommitments ==
  /\ rec # None
  /\ rec'.id = rec.id
  /\ rec'.expiredAt = rec.expiredAt
  /\ rec'.commits = rec.commits
  /\ attempts' = attempts
OneMoreCommitment ==
  /\ rec # None
  /\ ~Committed(rec)
  /\ rec.expiredAt # 0
  /\ rec'.id = rec.id
  /\ rec'.expiredAt = rec.expiredAt
  /\ attempts' = attempts
NewAttempt ==
  \/ rec'.expiredAt = 0 /\ ~Committed(rec') /\ attempts' = attempts
  \/ rec'.expiredAt = attempts + 1 /\ attempts' = attempts + 1
RecordStep ==
  \/ rec' = None /\ attempts' = attempts
  \/ SameCommitments
  \/ OneMoreCommitment
  \/ NewAttempt

LEMMA CommittedByCommitments ==
  ASSUME NEW d, NEW e, d.commits = e.commits
  PROVE  Committed(d) <=> Committed(e)
<1>1. {i \in Idx : d.commits[i] # None} = {i \in Idx : e.commits[i] # None}
  OBVIOUS
<1> QED BY <1>1 DEF Committed, CommitmentsCount

LEMMA NewPegoutRecordUncommitted ==
  ASSUME NEW p, NEW e, NEW m
  PROVE  ~Committed(NewPegoutRecord(p, e, m))
<1> DEFINE d == NewPegoutRecord(p, e, m)
<1>1. d.commits = NoneYet
  BY DEF NewPegoutRecord
<1>2. {i \in Idx : d.commits[i] # None} = {}
  BY <1>1 DEF NoneYet
<1> HIDE DEF d
<1>3. CommitmentsCount(d) = 0
  BY <1>2, FS_EmptySet DEF CommitmentsCount
<1>4. ~Committed(d)
  BY <1>3, MinSignersType DEF Committed
<1> QED BY <1>4 DEF d

LEMMA RestartStep ==
  ASSUME TypeOK, rec # None, NEW S \in SUBSET Idx, Restart(S)
  PROVE  NewAttempt /\ rec'.shares = NoneYet
<1>1. PICK m \in SUBSET S :
        \/ rec' = NewPegoutRecord(rec.id, attempts + 1, m) /\ attempts' = attempts + 1
        \/ rec' = NewPegoutRecord(rec.id, 0, m) /\ attempts' = attempts
  BY DEF Restart
<1>3. CASE /\ rec' = NewPegoutRecord(rec.id, attempts + 1, m)
           /\ attempts' = attempts + 1
  BY <1>3 DEF NewAttempt, NewPegoutRecord
<1>4. CASE rec' = NewPegoutRecord(rec.id, 0, m) /\ attempts' = attempts
  <2>1. ~Committed(rec')
    BY <1>4, NewPegoutRecordUncommitted
  <2> QED BY <1>4, <2>1 DEF NewAttempt, NewPegoutRecord
<1> QED BY <1>1, <1>3, <1>4

LEMMA AcceptStep ==
  ASSUME TypeOK, NEW m \in Msg, Accept(m)
  PROVE  RecordStep
<1>0. rec \in Pegout /\ rec # None /\ m.from \in Idx
  BY DEF Accept, CanAccept, TypeOK, Msg, CommitMsg, ShareMsg, SigMsg, ClaimMsg, ResetMsg
<1>3. ASSUME NEW S \in SUBSET Idx, Restart(S) PROVE RecordStep
  BY <1>0, <1>3, RestartStep DEF RecordStep
<1>4. CASE AcceptCommit(m)
  <2>1. CASE rec' = [rec EXCEPT !.other = @ \cup {m.from}] /\ UNCHANGED attempts
    BY <1>0, <2>1 DEF RecordStep, SameCommitments, Pegout
  <2>2. CASE /\ ~Committed(rec)
             /\ rec.expiredAt # 0
             /\ rec' = [rec EXCEPT !.commits[m.from] = m.commitment]
             /\ UNCHANGED attempts
    <3>1. rec'.expiredAt = rec.expiredAt /\ rec'.id = rec.id
      BY <1>0, <2>2 DEF Pegout
    <3> QED BY <1>0, <2>2, <3>1 DEF RecordStep, OneMoreCommitment
  <2>3. CASE /\ rec' = [rec EXCEPT !.commits[m.from] = m.commitment,
                                   !.expiredAt = attempts + 1]
             /\ attempts' = attempts + 1
    <3>1. rec'.expiredAt = attempts + 1
      BY <1>0, <2>3 DEF Pegout
    <3> QED BY <2>3, <3>1 DEF RecordStep, NewAttempt
  <2> QED BY <1>4, <2>1, <2>2, <2>3 DEF AcceptCommit
<1>5. CASE rec' = [rec EXCEPT !.shares[m.from] = m.share] /\ UNCHANGED attempts
  BY <1>0, <1>5 DEF RecordStep, SameCommitments, Pegout
<1>6. CASE AcceptSig(m)
  <2> DEFINE by == rec.sigs.by \cup {m.from}
  <2>1. CASE rec' = None /\ UNCHANGED attempts
    BY <2>1 DEF RecordStep
  <2>2. CASE /\ rec' = [rec EXCEPT !.sigs = [by |-> by, value |-> m.value]]
             /\ UNCHANGED attempts
    BY <1>0, <2>2 DEF RecordStep, SameCommitments, Pegout
  <2> QED BY <1>6, <2>1, <2>2 DEF AcceptSig
<1>7. CASE AcceptClaim(m)
  <2>1. CASE rec' = [rec EXCEPT !.claims[m.from] = m.culprit] /\ UNCHANGED attempts
    BY <1>0, <2>1 DEF RecordStep, SameCommitments, Pegout
  <2>2. CASE Restart(Idx \ {m.culprit})
    BY <1>3, <2>2
  <2> QED BY <1>7, <2>1, <2>2 DEF AcceptClaim
<1>8. CASE Restart(Idx)
  BY <1>3, <1>8
<1> QED BY <1>4, <1>5, <1>6, <1>7, <1>8 DEF Accept

LEMMA NewPegoutStep ==
  ASSUME TypeOK, NewPegout
  PROVE  RecordStep
<1>1. PICK m \in SUBSET Idx : rec' = NewPegoutRecord(pegouts + 1, 0, m)
  BY SigningAssumption DEF NewPegout
<1>2. ~Committed(rec') /\ attempts' = attempts
  BY <1>1, NewPegoutRecordUncommitted DEF NewPegout
<1>3. rec'.expiredAt = 0
  BY <1>1 DEF NewPegoutRecord
<1> QED BY <1>2, <1>3 DEF RecordStep, NewAttempt

\* Whatever the contract does, records read before stay settled.
LEMMA AttemptsByRecordStep ==
  ASSUME TypeOK, AttemptInv, RecordStep, UNCHANGED <<snap, cache>>, TypeOK'
  PROVE  AttemptInv' /\ attempts <= attempts'
<1>1. attempts \in Nat /\ attempts' \in Nat /\ attempts <= attempts'
  BY DEF RecordStep, SameCommitments, OneMoreCommitment, NewAttempt, TypeOK
<1>2. Started(rec)'
  <2>1. SameCommitments => (Committed(rec') <=> Committed(rec))
    BY CommittedByCommitments DEF SameCommitments
  <2>2. rec # None => rec.expiredAt \in Nat
    BY DEF TypeOK, Pegout
  <2> QED BY <1>1, <2>1, <2>2
          DEF RecordStep, SameCommitments, OneMoreCommitment, NewAttempt, AttemptInv, Started
<1>3. ASSUME NEW i \in Honest
      PROVE  /\ Started(snap[i])'
             /\ cache[i] # None => cache[i].expiredAt <= attempts'
  <2>1. i \in Idx
    BY DEF Honest
  <2>2. /\ snap[i] # None => snap[i].expiredAt \in Nat
        /\ cache[i] # None => cache[i].expiredAt \in Nat
    BY <2>1 DEF TypeOK, Pegout, CachedPegout
  <2> QED BY <1>1, <2>2 DEF AttemptInv, Started
<1>4. ASSUME NEW i \in Honest, rec' # None, snap[i] # None, Committed(snap[i]),
             rec'.expiredAt = snap[i].expiredAt
      PROVE  rec'.commits = snap[i].commits
  <2>1. i \in Idx
    BY DEF Honest
  <2>2. snap[i].expiredAt \in Nat /\ snap[i].expiredAt # 0 /\ snap[i].expiredAt <= attempts
    BY <1>4, <2>1 DEF AttemptInv, Started, TypeOK, Pegout
  <2>3. ~NewAttempt
    BY <1>1, <1>4, <2>2 DEF NewAttempt
  <2>4. CASE SameCommitments
    BY <1>4, <2>4 DEF SameCommitments, AttemptInv
  <2>5. CASE OneMoreCommitment
    <3>1. rec.commits = snap[i].commits
      BY <1>4, <2>5 DEF OneMoreCommitment, AttemptInv
    <3>2. Committed(rec) <=> Committed(snap[i])
      BY <3>1, CommittedByCommitments
    <3> QED BY <1>4, <2>5, <3>2 DEF OneMoreCommitment
  <2> QED BY <1>4, <2>3, <2>4, <2>5 DEF RecordStep
<1> QED BY <1>1, <1>2, <1>3, <1>4 DEF AttemptInv

\* What a tick does to the cached pegout: it leaves it or drops it, keeps the
\* nonces of the same attempt or none, draws new ones, or signs with them.
NextCache(i, c) ==
  /\ cache' = [cache EXCEPT ![i] = c]
  /\ c.id = snap[i].id
  /\ c.expiredAt = snap[i].expiredAt
LeavesOrDrops(i) ==
  /\ cache' = cache \/ cache' = [cache EXCEPT ![i] = None]
  /\ UNCHANGED <<gen, used>>
Keeps(i) ==
  /\ \E c : /\ NextCache(i, c)
            /\ \/ c.nonces = None
               \/ KeepsCache(i) /\ c.nonces = cache[i].nonces
  /\ UNCHANGED <<gen, used>>
Draws(i) ==
  /\ \E c : NextCache(i, c) /\ c.nonces = gen[i] + 1
  /\ gen' = [gen EXCEPT ![i] = gen[i] + 1]
  /\ UNCHANGED used
Signs(i) ==
  /\ KeepsCache(i)
  /\ cache[i].nonces # None
  /\ Committed(snap[i])
  /\ \E c : NextCache(i, c) /\ c.nonces = cache[i].nonces
  /\ used' = [used EXCEPT ![i] = @ \cup
                {[nonce |-> cache[i].nonces, id |-> snap[i].id,
                  commits |-> snap[i].commits]}]
  /\ UNCHANGED gen

LEMMA ExecuteCache ==
  ASSUME TypeOK, NEW i \in Honest,
         Execute(i) \/ ExecuteStop(i) \/ ExecuteNoSecret(i)
  PROVE  /\ Work(i)
         /\ LeavesOrDrops(i) \/ Keeps(i) \/ Draws(i) \/ Signs(i)
<1> DEFINE c == CachePegout(i)
           n == gen[i] + 1
           b1 == [c EXCEPT !.nonces = n, !.commitments = n]
           b2 == [c EXCEPT !.nonces = None]
<1>1. Work(i)
  BY DEF Execute, ExecuteEvicted, ExecuteReset, ExecuteWait, ExecuteCommit,
         ExecuteCannotSign, ExecuteSignClaim, ExecuteSign, ExecuteSignAgain,
         ExecuteAggregate, Aggregate, ExecuteStop, ExecuteNoSecret, Enter
<1>2. /\ c.id = snap[i].id /\ c.expiredAt = snap[i].expiredAt
      /\ b1.id = snap[i].id /\ b1.expiredAt = snap[i].expiredAt
      /\ b2.id = snap[i].id /\ b2.expiredAt = snap[i].expiredAt
  BY DEF CachePegout
<1>3. b1.nonces = n /\ b2.nonces = None
  BY DEF CachePegout
<1>4. c.nonces = IF KeepsCache(i) THEN cache[i].nonces ELSE None
  BY DEF CachePegout
<1> HIDE DEF c, b1, b2
<1>5. cache' = [cache EXCEPT ![i] = c] /\ UNCHANGED <<gen, used>> => Keeps(i)
  BY <1>2, <1>4 DEF Keeps, NextCache
<1>6. CASE ExecuteEvicted(i) \/ ExecuteReset(i) \/ ExecuteStop(i)
  BY <1>1, <1>6 DEF ExecuteEvicted, ExecuteReset, ExecuteStop, LeavesOrDrops
<1>7. CASE \/ ExecuteWait(i) \/ ExecuteNoSecret(i) \/ ExecuteCannotSign(i)
           \/ ExecuteSignClaim(i) \/ ExecuteSignAgain(i)
  BY <1>1, <1>5, <1>7
  DEF ExecuteWait, ExecuteNoSecret, ExecuteCannotSign, ExecuteSignClaim,
      ExecuteSignAgain, Leave, c
<1>8. CASE ExecuteCommit(i)
  <2>1. \/ cache' = [cache EXCEPT ![i] = c] /\ UNCHANGED <<gen, used>>
        \/ /\ cache' = [cache EXCEPT ![i] = b1]
           /\ gen' = [gen EXCEPT ![i] = n]
           /\ used' = used
    BY <1>8 DEF ExecuteCommit, Leave, c, b1
  <2> QED BY <1>1, <1>2, <1>3, <1>5, <2>1 DEF Draws, NextCache
<1>9. CASE ExecuteSign(i)
  <2>1. /\ cache' = [cache EXCEPT ![i] = c]
        /\ c.nonces # None
        /\ OwesShare(i, snap[i])
        /\ used' = [used EXCEPT ![i] = @ \cup
                      {[nonce |-> c.nonces, id |-> snap[i].id,
                        commits |-> snap[i].commits]}]
        /\ gen' = gen
    BY <1>9 DEF ExecuteSign, Leave, c
  <2>2. KeepsCache(i) /\ c.nonces = cache[i].nonces
    BY <1>4, <2>1
  <2> QED BY <1>1, <1>2, <2>1, <2>2 DEF Signs, NextCache, OwesShare
<1>10. CASE ExecuteAggregate(i)
  <2>1. cache' = [cache EXCEPT ![i] = b2] /\ UNCHANGED <<gen, used>>
    BY <1>10 DEF ExecuteAggregate, Aggregate, Leave, c, b2
  <2> QED BY <1>1, <1>2, <1>3, <2>1 DEF Keeps, NextCache
<1> QED BY <1>6, <1>7, <1>8, <1>9, <1>10 DEF Execute

LEMMA AttemptsByExecute ==
  ASSUME TypeOK, AttemptInv, NEW i \in Honest,
         Execute(i) \/ ExecuteStop(i) \/ ExecuteNoSecret(i)
  PROVE  AttemptInv'
<1>1. i \in Idx /\ Work(i) /\ snap[i] \in Pegout
  BY ExecuteCache, WorkType
<1>2. rec' = rec /\ attempts' = attempts /\ snap' = [snap EXCEPT ![i] = None]
  BY <1>1 DEF Work, contract
<1>3. ASSUME NEW j \in Honest, cache'[j] # None
      PROVE  cache'[j].expiredAt <= attempts
  <2>0. j \in Idx
    BY DEF Honest
  <2>1. CASE cache'[j] = cache[j]
    BY <1>3, <2>1 DEF AttemptInv
  <2>2. CASE cache'[j] # cache[j]
    <3>1. PICK c : /\ cache' = [cache EXCEPT ![i] = c]
                   /\ c.expiredAt = snap[i].expiredAt
      <4>1. cache' # cache /\ cache' # [cache EXCEPT ![i] = None]
        BY <1>3, <2>0, <2>2 DEF TypeOK
      <4> QED BY <4>1, ExecuteCache DEF LeavesOrDrops, Keeps, Draws, Signs, NextCache
    <3>2. cache'[j] = c
      BY <2>0, <2>2, <3>1 DEF TypeOK
    <3>3. snap[i].expiredAt <= attempts
      BY <1>1, NilAssumption DEF AttemptInv, Started
    <3> QED BY <3>1, <3>2, <3>3
  <2> QED BY <2>1, <2>2
<1>4. \A j \in Honest : snap'[j] = snap[j] \/ snap'[j] = None
  BY <1>1, <1>2 DEF TypeOK, Honest
<1>5. Started(rec)'
  BY <1>2 DEF AttemptInv, Started
<1>6. \A j \in Honest : Started(snap[j])'
  BY <1>2, <1>4 DEF AttemptInv, Started
<1>7. ASSUME NEW j \in Honest, rec' # None, snap'[j] # None, Committed(snap'[j]),
             rec'.expiredAt = snap'[j].expiredAt
      PROVE  rec'.commits = snap'[j].commits
  BY <1>2, <1>4, <1>7 DEF AttemptInv
<1> QED BY <1>2, <1>3, <1>5, <1>6, <1>7 DEF AttemptInv

\* Any other step reads the record, forgets, or leaves all of this alone.
QuietStep ==
  \/ TimePasses
  \/ \E i \in Honest : \/ Read(i) \/ NoRequests(i) \/ Return(i)
                       \/ ReturnDifferentSignatures(i) \/ Crash(i)
  \/ UNCHANGED vars

LEMMA QuietStepKeeps ==
  ASSUME TypeOK, QuietStep
  PROVE  /\ UNCHANGED <<rec, attempts, temp, gen, used>>
         /\ \A j \in Honest : /\ snap'[j] = snap[j] \/ snap'[j] = None \/ snap'[j] = rec
                              /\ cache'[j] = cache[j] \/ cache'[j] = None
         /\ \A m \in net' : m \in net \/ m.type = "Claim"
<1>1. CASE TimePasses \/ UNCHANGED vars
  BY <1>1 DEF TimePasses, contract, oracles, vars
<1>2. ASSUME NEW i \in Honest,
             \/ Read(i) \/ NoRequests(i) \/ Return(i)
             \/ ReturnDifferentSignatures(i) \/ Crash(i)
      PROVE  /\ UNCHANGED <<rec, attempts, temp, gen, used>>
             /\ \A j \in Honest : /\ \/ snap'[j] = snap[j] \/ snap'[j] = None
                                     \/ snap'[j] = rec
                                  /\ cache'[j] = cache[j] \/ cache'[j] = None
             /\ \A m \in net' : m \in net \/ m.type = "Claim"
  <2>0. i \in Idx /\ Honest \subseteq Idx
    BY DEF Honest
  <2>1. CASE Read(i)
    BY <2>0, <2>1 DEF Read, contract, TypeOK
  <2>2. CASE NoRequests(i) \/ Return(i)
    BY <2>2 DEF NoRequests, Return, contract, vars
  <2>3. CASE ReturnDifferentSignatures(i)
    BY <2>3 DEF ReturnDifferentSignatures, ClaimOf, contract
  <2>4. CASE Crash(i)
    BY <2>0, <2>4 DEF Crash, contract, TypeOK
  <2> QED BY <1>2, <2>1, <2>2, <2>3, <2>4
<1> QED BY <1>1, <1>2 DEF QuietStep

LEMMA AttemptsByQuietStep ==
  ASSUME TypeOK, AttemptInv, QuietStep
  PROVE  AttemptInv'
<1>1. Started(rec)'
  BY QuietStepKeeps DEF AttemptInv, Started
<1>2. \A j \in Honest : Started(snap[j])'
  BY QuietStepKeeps DEF AttemptInv, Started
<1>3. ASSUME NEW j \in Honest, rec' # None, snap'[j] # None, Committed(snap'[j]),
             rec'.expiredAt = snap'[j].expiredAt
      PROVE  rec'.commits = snap'[j].commits
  BY <1>3, QuietStepKeeps DEF AttemptInv
<1>4. \A j \in Honest : cache'[j] # None => cache'[j].expiredAt <= attempts'
  BY QuietStepKeeps DEF AttemptInv
<1> QED BY <1>1, <1>2, <1>3, <1>4 DEF AttemptInv

\* A step is one of the contract's, or leaves its record alone.
LEMMA ContractStep ==
  ASSUME TypeOK,
         \/ NewPegout
         \/ \E m \in net : Deliver(m)
         \/ \E i \in Faulty : FaultySend(i)
  PROVE  /\ RecordStep
         /\ UNCHANGED oracles
         /\ \A m \in net' : m \in net
         /\ TypeOK'
<1>0. TypeOK'
  BY NextType DEF Next
<1>1. CASE NewPegout
  BY <1>0, <1>1, NewPegoutStep DEF NewPegout
<1>2. ASSUME NEW m \in net, Deliver(m)
      PROVE  RecordStep /\ UNCHANGED oracles /\ \A k \in net' : k \in net
  <2>1. m \in Msg /\ Accept(m)
    BY <1>2 DEF Deliver, TypeOK
  <2> QED BY <1>2, <2>1, AcceptStep DEF Deliver, Live, Accept
<1>3. ASSUME NEW i \in Faulty, FaultySend(i)
      PROVE  RecordStep /\ UNCHANGED oracles /\ \A k \in net' : k \in net
  <2>1. PICK m \in Msg : Accept(m)
    BY <1>3, FaultyMsgsType DEF FaultySend
  <2> QED BY <1>3, <2>1, AcceptStep DEF FaultySend, Live, Accept
<1> QED BY <1>0, <1>1, <1>2, <1>3

\* Every step is the contract's, a tick's or a quiet one.
ContractMoves ==
  \/ NewPegout
  \/ \E m \in net : Deliver(m)
  \/ \E i \in Faulty : FaultySend(i)
Ticks(i) == Execute(i) \/ ExecuteStop(i) \/ ExecuteNoSecret(i)

LEMMA Steps ==
  [Next]_vars => ContractMoves \/ (\E i \in Honest : Ticks(i)) \/ QuietStep
BY DEF Next, ContractMoves, Ticks, QuietStep

LEMMA AttemptsNext == TypeOK /\ AttemptInv /\ [Next]_vars => AttemptInv'
<1> SUFFICES ASSUME TypeOK, AttemptInv, [Next]_vars PROVE AttemptInv'
  OBVIOUS
<1>1. CASE ContractMoves
  BY <1>1, ContractStep, AttemptsByRecordStep DEF ContractMoves, oracles
<1>2. CASE \E i \in Honest : Ticks(i)
  BY <1>2, AttemptsByExecute DEF Ticks
<1>3. CASE QuietStep
  BY <1>3, AttemptsByQuietStep
<1> QED BY <1>1, <1>2, <1>3, Steps

LEMMA AttemptsInit == Init => AttemptInv
BY DEF Init, AttemptInv, Started, NoneYet, Honest

-----------------------------------------------------------------------------
(* Nonces.                                                                  *)

\* i still holds the nonces of the share s.
InHand(i, s) == cache[i] # None /\ cache[i].nonces = s.nonce

\* The record d, of the attempt of i's cached pegout, has the commitments s was
\* computed over.
SettledFor(i, s, d) ==
  d # None /\ d.expiredAt = cache[i].expiredAt
    => Committed(d) /\ d.commits = s.commits

\* Nonces are drawn in order.  While used ones are held, the attempt they were
\* used in is the cached one, and its commitments, on record or read, are those
\* of the share: the share that could be computed with them is the same one.
NonceInv ==
  /\ NonceUsedOnce
  /\ \A i \in Honest :
       /\ cache[i] # None /\ cache[i].nonces # None => cache[i].nonces <= gen[i]
       /\ \A s \in used[i] :
            /\ s.nonce <= gen[i]
            /\ InHand(i, s) => /\ cache[i].expiredAt # 0
                               /\ cache[i].id = s.id
                               /\ SettledFor(i, s, rec)
                               /\ SettledFor(i, s, snap[i])

LEMMA NoncesInit == Init => NonceInv
BY DEF Init, NonceInv, NonceUsedOnce, NoneYet, Honest

LEMMA NoncesByContract ==
  ASSUME TypeOK, AttemptInv, NonceInv, RecordStep, UNCHANGED oracles
  PROVE  NonceInv'
<1>1. UNCHANGED <<snap, cache, gen, used>>
  BY DEF oracles
<1>2. ASSUME NEW i \in Honest, NEW s \in used[i], InHand(i, s), rec' # None,
             rec'.expiredAt = cache[i].expiredAt
      PROVE  Committed(rec') /\ rec'.commits = s.commits
  <2>1. cache[i].expiredAt \in Nat /\ attempts \in Nat
    BY <1>2 DEF TypeOK, CachedPegout, InHand, Honest
  <2>2. cache[i].expiredAt # 0 /\ cache[i].expiredAt <= attempts /\ SettledFor(i, s, rec)
    BY <1>2 DEF NonceInv, AttemptInv, InHand
  <2>3. ~NewAttempt
    BY <1>2, <2>1, <2>2 DEF NewAttempt
  <2>4. CASE SameCommitments
    <3>1. Committed(rec') <=> Committed(rec)
      BY <2>4, CommittedByCommitments DEF SameCommitments
    <3> QED BY <1>2, <2>2, <2>4, <3>1 DEF SameCommitments, SettledFor
  <2>5. CASE OneMoreCommitment
    BY <1>2, <2>2, <2>5 DEF OneMoreCommitment, SettledFor
  <2> QED BY <1>2, <2>3, <2>4, <2>5 DEF RecordStep
<1>3. NonceUsedOnce'
  BY <1>1 DEF NonceInv, NonceUsedOnce
<1>4. \A i \in Honest : \A s \in used[i] :
        InHand(i, s) => SettledFor(i, s, rec)' /\ SettledFor(i, s, snap[i])'
  BY <1>1, <1>2 DEF NonceInv, SettledFor
<1> QED BY <1>1, <1>3, <1>4 DEF NonceInv, InHand

LEMMA NoncesByQuietStep ==
  ASSUME TypeOK, NonceInv, QuietStep
  PROVE  NonceInv'
<1>1. NonceUsedOnce'
  BY QuietStepKeeps DEF NonceInv, NonceUsedOnce
<1>2. ASSUME NEW i \in Honest
      PROVE  /\ cache'[i] # None /\ cache'[i].nonces # None => cache'[i].nonces <= gen'[i]
             /\ \A s \in used'[i] : s.nonce <= gen'[i]
  BY QuietStepKeeps DEF NonceInv
<1>3. ASSUME NEW i \in Honest, NEW s \in used'[i], InHand(i, s)'
      PROVE  /\ cache'[i].expiredAt # 0
             /\ cache'[i].id = s.id
             /\ SettledFor(i, s, rec)'
             /\ SettledFor(i, s, snap[i])'
  <2>1. s \in used[i] /\ cache'[i] = cache[i] /\ InHand(i, s) /\ rec' = rec
    BY <1>3, QuietStepKeeps DEF InHand
  <2>2. /\ cache[i].expiredAt # 0
        /\ cache[i].id = s.id
        /\ SettledFor(i, s, rec)
        /\ SettledFor(i, s, snap[i])
    BY <2>1 DEF NonceInv
  <2>3. snap'[i] = snap[i] \/ snap'[i] = None \/ snap'[i] = rec
    BY QuietStepKeeps
  <2> QED BY <2>1, <2>2, <2>3 DEF SettledFor
<1> QED BY <1>1, <1>2, <1>3 DEF NonceInv

LEMMA NoncesByExecute ==
  ASSUME TypeOK, AttemptInv, NonceInv, NEW i \in Honest, Ticks(i)
  PROVE  NonceInv'
<1>0. /\ i \in Idx /\ snap[i] \in Pegout /\ snap[i] # None
      /\ rec' = rec /\ attempts' = attempts /\ snap' = [snap EXCEPT ![i] = None]
  <2>1. Work(i)
    BY ExecuteCache DEF Ticks
  <2> QED BY <2>1, WorkType DEF Work, contract
<1> DEFINE Fine(j) ==
             /\ \A s, t \in used[j] : s.nonce = t.nonce => s = t
             /\ cache[j] # None /\ cache[j].nonces # None => cache[j].nonces <= gen[j]
             /\ \A s \in used[j] :
                  /\ s.nonce <= gen[j]
                  /\ InHand(j, s) => /\ cache[j].expiredAt # 0
                                     /\ cache[j].id = s.id
                                     /\ SettledFor(j, s, rec)
                                     /\ SettledFor(j, s, snap[j])
<1>1. \A j \in Honest : Fine(j)
  BY DEF NonceInv, NonceUsedOnce
<1>2. (\A j \in Honest : Fine(j)') => NonceInv'
  BY DEF NonceInv, NonceUsedOnce
<1>3. ASSUME NEW j \in Honest, j # i PROVE Fine(j)'
  <2>1. j \in Idx
    BY DEF Honest
  <2>2. /\ cache'[j] = cache[j] /\ snap'[j] = snap[j]
        /\ gen'[j] = gen[j] /\ used'[j] = used[j]
    BY <1>0, <1>3, <2>1, ExecuteCache
       DEF Ticks, LeavesOrDrops, Keeps, Draws, Signs, NextCache, TypeOK
  <2>3. Fine(j)
    BY <1>1
  <2> QED BY <1>0, <2>2, <2>3 DEF InHand, SettledFor
<1>4. /\ snap'[i] = None
      /\ gen[i] \in Nat
      /\ used[i] \subseteq Share
      /\ \A s \in used[i] : s.nonce \in Nat /\ s.nonce <= gen[i]
  BY <1>0, <1>1 DEF TypeOK, Share
<1>5. Fine(i)
  BY <1>1
<1>6. CASE LeavesOrDrops(i)
  <2>1. (cache'[i] = cache[i] \/ cache'[i] = None) /\ gen' = gen /\ used' = used
    BY <1>0, <1>6 DEF LeavesOrDrops, TypeOK
  <2>2. Fine(i)'
    BY <1>0, <1>4, <1>5, <2>1 DEF InHand, SettledFor
  <2> QED BY <1>2, <1>3, <2>2
<1>7. CASE Keeps(i)
  <2>1. PICK c : /\ NextCache(i, c)
                 /\ \/ c.nonces = None
                    \/ KeepsCache(i) /\ c.nonces = cache[i].nonces
    BY <1>7 DEF Keeps
  <2>2. /\ cache'[i] = c /\ c.id = snap[i].id /\ c.expiredAt = snap[i].expiredAt
        /\ gen' = gen /\ used' = used
    BY <1>0, <1>7, <2>1 DEF Keeps, NextCache, TypeOK
  <2>3. ASSUME c.nonces # None
        PROVE  /\ cache[i] # None
               /\ c.nonces = cache[i].nonces
               /\ c.id = cache[i].id
               /\ cache[i].expiredAt # 0 => c.expiredAt = cache[i].expiredAt
    BY <2>1, <2>2, <2>3 DEF KeepsCache
  <2>4. c.nonces # None => c.nonces <= gen[i]
    BY <1>5, <2>3
  <2>5. ASSUME NEW s \in used[i], c.nonces = s.nonce
        PROVE  /\ cache'[i].expiredAt # 0
               /\ cache'[i].id = s.id
               /\ SettledFor(i, s, rec)'
    <3>1. c.nonces # None
      BY <1>4, <2>5, SigningAssumption
    <3>2. InHand(i, s)
      BY <2>3, <2>5, <3>1 DEF InHand
    <3>3. cache[i].expiredAt # 0 /\ cache[i].id = s.id /\ SettledFor(i, s, rec)
      BY <1>5, <3>2
    <3> QED BY <1>0, <2>2, <2>3, <3>1, <3>3 DEF SettledFor
  <2>6. Fine(i)'
    BY <1>4, <1>5, <2>2, <2>4, <2>5 DEF InHand, SettledFor
  <2> QED BY <1>2, <1>3, <2>6
<1>8. CASE Draws(i)
  <2>1. PICK c : NextCache(i, c) /\ c.nonces = gen[i] + 1
    BY <1>8 DEF Draws
  <2>2. cache'[i] = c /\ gen'[i] = gen[i] + 1 /\ used' = used
    BY <1>0, <1>8, <2>1 DEF Draws, NextCache, TypeOK
  <2>3. \A s \in used[i] : s.nonce # gen[i] + 1 /\ s.nonce <= gen[i] + 1
    BY <1>4
  <2>4. Fine(i)'
    BY <1>4, <1>5, <2>1, <2>2, <2>3 DEF InHand
  <2> QED BY <1>2, <1>3, <2>4
<1>9. CASE Signs(i)
  <2>0. PICK s0 : s0 = [nonce |-> cache[i].nonces, id |-> snap[i].id,
                        commits |-> snap[i].commits]
    OBVIOUS
  <2>1. PICK c : NextCache(i, c) /\ c.nonces = cache[i].nonces
    BY <1>9 DEF Signs
  <2>2. /\ cache'[i] = c /\ c.id = snap[i].id /\ c.expiredAt = snap[i].expiredAt
        /\ gen' = gen /\ used'[i] = used[i] \cup {s0}
    BY <1>0, <1>9, <2>0, <2>1 DEF Signs, NextCache, TypeOK
  <2>3. /\ cache[i] # None /\ cache[i].nonces # None
        /\ cache[i].id = snap[i].id
        /\ cache[i].expiredAt # 0 => cache[i].expiredAt = snap[i].expiredAt
        /\ Committed(snap[i])
        /\ cache[i].nonces <= gen[i]
    BY <1>5, <1>9 DEF Signs, KeepsCache
  <2>4. s0.nonce = cache[i].nonces /\ s0.id = snap[i].id /\ s0.commits = snap[i].commits
    BY <2>0
  <2>5. ASSUME NEW s \in used[i], s.nonce = cache[i].nonces PROVE s = s0
    <3>1. InHand(i, s)
      BY <2>3, <2>5 DEF InHand
    <3>2. s.id = snap[i].id /\ s.commits = snap[i].commits
      BY <1>0, <1>5, <2>3, <3>1 DEF SettledFor
    <3>3. s \in Share
      BY <1>4
    <3>4. s = [nonce |-> s.nonce, id |-> s.id, commits |-> s.commits]
      BY <3>3 DEF Share
    <3> QED BY <2>0, <2>5, <3>2, <3>4
  <2>6. snap[i].expiredAt # 0
    BY <1>0, <2>3 DEF AttemptInv, Started
  <2>7. SettledFor(i, s0, rec)'
    <3>1. ASSUME rec # None, rec.expiredAt = snap[i].expiredAt
          PROVE  Committed(rec) /\ rec.commits = snap[i].commits
      <4>1. rec.commits = snap[i].commits
        BY <1>0, <2>3, <3>1 DEF AttemptInv
      <4> QED BY <2>3, <4>1, CommittedByCommitments
    <3> QED BY <1>0, <2>2, <2>4, <3>1 DEF SettledFor
  <2>8. \A s \in used'[i] : s.nonce = c.nonces => s = s0
    BY <2>1, <2>2, <2>5
  <2>9. \A s, t \in used'[i] : s.nonce = t.nonce => s = t
    BY <1>5, <2>1, <2>2, <2>4, <2>8
  <2>10. \A s \in used'[i] : s.nonce <= gen[i]
    BY <1>4, <2>2, <2>3, <2>4
  <2>11. \A s \in used'[i] : InHand(i, s)' =>
           /\ cache'[i].expiredAt # 0
           /\ cache'[i].id = s.id
           /\ SettledFor(i, s, rec)'
    BY <2>2, <2>4, <2>6, <2>7, <2>8 DEF InHand
  <2>12. Fine(i)'
    BY <1>4, <2>1, <2>2, <2>3, <2>9, <2>10, <2>11 DEF SettledFor
  <2> QED BY <1>2, <1>3, <2>12
<1> QED BY <1>6, <1>7, <1>8, <1>9, ExecuteCache DEF Ticks

LEMMA NoncesNext ==
  TypeOK /\ AttemptInv /\ NonceInv /\ [Next]_vars => NonceInv'
<1> SUFFICES ASSUME TypeOK, AttemptInv, NonceInv, [Next]_vars PROVE NonceInv'
  OBVIOUS
<1>1. CASE ContractMoves
  BY <1>1, ContractStep, NoncesByContract DEF ContractMoves
<1>2. CASE \E i \in Honest : Ticks(i)
  BY <1>2, NoncesByExecute
<1>3. CASE QuietStep
  BY <1>3, NoncesByQuietStep
<1> QED BY <1>1, <1>2, <1>3, Steps

\* An honest oracle never computes two different shares with the same nonces,
\* whatever expires, is reset, comes late, fails or restarts.
THEOREM NoncesUsedOnce == Spec => []NonceUsedOnce
<1>1. Init => TypeOK /\ AttemptInv /\ NonceInv
  BY InitType, AttemptsInit, NoncesInit
<1>2. TypeOK /\ AttemptInv /\ NonceInv /\ [Next]_vars
        => (TypeOK /\ AttemptInv /\ NonceInv)'
  BY NextType, AttemptsNext, NoncesNext
<1>3. NonceInv => NonceUsedOnce
  BY DEF NonceInv
<1> QED BY <1>1, <1>2, <1>3, PTL DEF Spec

-----------------------------------------------------------------------------
(* Shares.                                                                  *)

\* The share x is the one the record d asks of i, if d is the pegout p in the
\* attempt e.
FitsIn(i, x, p, e, d) ==
  d # None /\ d.id = p /\ d.expiredAt = e
    => Committed(d) /\ x = FittingShare(d, i)

\* What i has sent, has in temp/ for its cached pegout and has on record are
\* shares of the attempt they go by.
ShareInv ==
  /\ ShareIsOfRecord
  /\ \A i \in Honest :
       /\ rec # None /\ rec.shares[i] # None => Committed(rec)
       /\ \A m \in net :
            m.type = "Share" /\ m.from = i =>
              /\ m.until # 0 /\ m.until <= attempts
              /\ FitsIn(i, m.share, m.id, m.until, rec)
       /\ cache[i] # None /\ temp[i][cache[i].id] # None =>
            LET x == temp[i][cache[i].id]
            IN /\ cache[i].expiredAt # 0
               /\ FitsIn(i, x, cache[i].id, cache[i].expiredAt, rec)
               /\ FitsIn(i, x, cache[i].id, cache[i].expiredAt, snap[i])

LEMMA SharesInit == Init => ShareInv
BY DEF Init, ShareInv, ShareIsOfRecord, NoneYet, NoShares, Honest

\* What the contract does to a share: it keeps it, drops it with the attempt, or
\* takes one from a message of this attempt.
LEMMA AcceptShares ==
  ASSUME TypeOK, NEW m \in Msg, Accept(m), rec' # None,
         NEW i \in Idx, rec'.shares[i] # None
  PROVE  \/ /\ rec'.shares[i] = rec.shares[i]
            /\ SameCommitments \/ ~Committed(rec)
         \/ /\ SameCommitments
            /\ Committed(rec)
            /\ m.type = "Share" /\ m.from = i
            /\ m.id = rec.id /\ m.until = rec.expiredAt
            /\ rec'.shares[i] = m.share
<1>0. /\ rec \in Pegout /\ rec # None /\ m.from \in Idx
      /\ rec.shares \in [Idx -> Share \cup {Garbage, None}]
  BY DEF Accept, CanAccept, TypeOK, Pegout, Msg, CommitMsg, ShareMsg, SigMsg,
         ClaimMsg, ResetMsg
<1>1. ASSUME NEW S \in SUBSET Idx, Restart(S) PROVE FALSE
  <2>1. rec'.shares = NoneYet
    BY <1>0, <1>1, RestartStep
  <2> QED BY <2>1 DEF NoneYet
<1>2. CASE AcceptCommit(m)
  <2>1. CASE Committed(rec)
    <3>1. rec' = [rec EXCEPT !.other = @ \cup {m.from}] /\ attempts' = attempts
      BY <1>2, <2>1 DEF AcceptCommit
    <3> QED BY <1>0, <3>1 DEF SameCommitments, Pegout
  <2>2. CASE ~Committed(rec)
    <3>1. rec'.shares = rec.shares
      BY <1>0, <1>2, <2>2 DEF AcceptCommit, Pegout
    <3> QED BY <2>2, <3>1
  <2> QED BY <2>1, <2>2
<1>3. CASE /\ m.type = "Share"
           /\ rec' = [rec EXCEPT !.shares[m.from] = m.share]
           /\ UNCHANGED attempts
  <2>1. SameCommitments
    BY <1>0, <1>3 DEF SameCommitments, Pegout
  <2>2. Committed(rec) /\ m.id = rec.id /\ m.until = rec.expiredAt
    BY <1>3 DEF Accept, CanAccept
  <2>3. rec'.shares = [rec.shares EXCEPT ![m.from] = m.share]
    BY <1>0, <1>3 DEF Pegout
  <2> QED BY <1>0, <1>3, <2>1, <2>2, <2>3
<1>4. CASE AcceptSig(m)
  <2>1. rec' = [rec EXCEPT !.sigs = [by |-> rec.sigs.by \cup {m.from}, value |-> m.value]]
        /\ attempts' = attempts
    BY <1>4 DEF AcceptSig
  <2> QED BY <1>0, <2>1 DEF SameCommitments, Pegout
<1>5. CASE AcceptClaim(m)
  <2>1. rec' = [rec EXCEPT !.claims[m.from] = m.culprit] /\ attempts' = attempts
    BY <1>1, <1>5 DEF AcceptClaim
  <2> QED BY <1>0, <2>1 DEF SameCommitments, Pegout
<1>6. CASE Restart(Idx)
  BY <1>1, <1>6
<1> QED BY <1>2, <1>3, <1>4, <1>5, <1>6 DEF Accept

\* A share of an attempt fits the attempt's record for as long as there is one.
LEMMA FitsInByRecordStep ==
  ASSUME TypeOK, RecordStep, NEW i, NEW x, NEW p, NEW e \in Nat,
         e # 0, e <= attempts, FitsIn(i, x, p, e, rec)
  PROVE  FitsIn(i, x, p, e, rec')
<1> SUFFICES ASSUME rec' # None, rec'.id = p, rec'.expiredAt = e
             PROVE  Committed(rec') /\ x = FittingShare(rec', i)
  BY DEF FitsIn
<1>1. ~NewAttempt
  BY DEF NewAttempt, TypeOK
<1>2. CASE SameCommitments
  <2>1. Committed(rec) /\ x = FittingShare(rec, i)
    BY <1>2 DEF SameCommitments, FitsIn
  <2>2. Committed(rec') <=> Committed(rec)
    BY <1>2, CommittedByCommitments DEF SameCommitments
  <2> QED BY <1>2, <2>1, <2>2 DEF SameCommitments, FittingShare
<1>3. CASE OneMoreCommitment
  BY <1>3 DEF OneMoreCommitment, FitsIn
<1> QED BY <1>1, <1>2, <1>3 DEF RecordStep

\* The parts of ShareInv, of the messages and of temp/.
SentFits(i) ==
  \A m \in net :
    m.type = "Share" /\ m.from = i =>
      /\ m.until # 0 /\ m.until <= attempts
      /\ FitsIn(i, m.share, m.id, m.until, rec)
KeptFits(i) ==
  cache[i] # None /\ temp[i][cache[i].id] # None =>
    /\ cache[i].expiredAt # 0
    /\ FitsIn(i, temp[i][cache[i].id], cache[i].id, cache[i].expiredAt, rec)
    /\ FitsIn(i, temp[i][cache[i].id], cache[i].id, cache[i].expiredAt, snap[i])
RecordedFits(i) ==
  rec # None /\ rec.shares[i] # None =>
    Committed(rec) /\ rec.shares[i] = FittingShare(rec, i)

LEMMA ShareInvParts ==
  /\ ShareInv <=> \A i \in Honest : RecordedFits(i) /\ SentFits(i) /\ KeptFits(i)
  /\ ShareInv' <=> \A i \in Honest : RecordedFits(i)' /\ SentFits(i)' /\ KeptFits(i)'
BY DEF ShareInv, ShareIsOfRecord, RecordedFits, SentFits, KeptFits

LEMMA SharesByContract ==
  ASSUME TypeOK, AttemptInv, ShareInv, ContractMoves
  PROVE  ShareInv'
<1>0. /\ RecordStep
      /\ UNCHANGED <<snap, cache, temp>>
      /\ \A m \in net' : m \in net
      /\ attempts \in Nat /\ attempts' \in Nat /\ attempts <= attempts'
  BY ContractStep, AttemptsByRecordStep DEF ContractMoves, oracles, TypeOK
<1> SUFFICES ASSUME NEW i \in Honest
             PROVE  RecordedFits(i)' /\ SentFits(i)' /\ KeptFits(i)'
  BY ShareInvParts
<1>1. RecordedFits(i) /\ SentFits(i) /\ KeptFits(i) /\ i \in Idx
  BY ShareInvParts DEF Honest
<1>2. SentFits(i)'
  <2>1. ASSUME NEW m \in net', m.type = "Share", m.from = i
        PROVE  /\ m.until # 0 /\ m.until <= attempts'
               /\ FitsIn(i, m.share, m.id, m.until, rec')
    <3>1. m \in net /\ m.until \in Nat
      BY <1>0, <2>1 DEF TypeOK, Msg, CommitMsg, ShareMsg, SigMsg, ClaimMsg, ResetMsg
    <3>2. m.until # 0 /\ m.until <= attempts /\ FitsIn(i, m.share, m.id, m.until, rec)
      BY <1>1, <2>1, <3>1 DEF SentFits
    <3> QED BY <1>0, <3>1, <3>2, FitsInByRecordStep
  <2> QED BY <2>1 DEF SentFits
<1>3. KeptFits(i)'
  <2> DEFINE x == temp[i][cache[i].id]
  <2>1. ASSUME cache[i] # None, x # None
        PROVE  /\ cache[i].expiredAt # 0
               /\ FitsIn(i, x, cache[i].id, cache[i].expiredAt, rec')
               /\ FitsIn(i, x, cache[i].id, cache[i].expiredAt, snap[i])
    <3>1. /\ cache[i].expiredAt # 0
          /\ FitsIn(i, x, cache[i].id, cache[i].expiredAt, rec)
          /\ FitsIn(i, x, cache[i].id, cache[i].expiredAt, snap[i])
      BY <1>1, <2>1 DEF KeptFits
    <3>2. cache[i].expiredAt \in Nat /\ cache[i].expiredAt <= attempts
      BY <1>1, <2>1 DEF AttemptInv, TypeOK, CachedPegout
    <3> HIDE DEF x
    <3> QED BY <1>0, <3>1, <3>2, FitsInByRecordStep
  <2> QED BY <1>0, <2>1 DEF KeptFits
<1>4. RecordedFits(i)'
  <2> SUFFICES ASSUME rec' # None, rec'.shares[i] # None
               PROVE  Committed(rec') /\ rec'.shares[i] = FittingShare(rec', i)
    BY DEF RecordedFits
  <2>1. ASSUME SameCommitments, Committed(rec),
               rec'.shares[i] = FittingShare(rec, i)
        PROVE  Committed(rec') /\ rec'.shares[i] = FittingShare(rec', i)
    <3>1. Committed(rec') <=> Committed(rec)
      BY <2>1, CommittedByCommitments DEF SameCommitments
    <3> QED BY <2>1, <3>1 DEF SameCommitments, FittingShare
  <2>2. ASSUME NEW m \in Msg, Accept(m),
               m.from = i /\ m.type = "Share" => SentFits(i) /\ m \in net
        PROVE  Committed(rec') /\ rec'.shares[i] = FittingShare(rec', i)
    <3>1. rec # None
      BY <2>2 DEF Accept, CanAccept
    <3>2. CASE /\ rec'.shares[i] = rec.shares[i]
               /\ SameCommitments \/ ~Committed(rec)
      BY <1>1, <2>1, <3>1, <3>2 DEF RecordedFits
    <3>3. CASE /\ SameCommitments
               /\ Committed(rec)
               /\ m.type = "Share" /\ m.from = i
               /\ m.id = rec.id /\ m.until = rec.expiredAt
               /\ rec'.shares[i] = m.share
      BY <2>1, <2>2, <3>1, <3>3 DEF SentFits, FitsIn
    <3> QED BY <1>1, <2>2, <3>2, <3>3, AcceptShares
  <2>3. CASE NewPegout
    BY <1>1, <2>3 DEF NewPegout, NewPegoutRecord, NoneYet
  <2>4. ASSUME NEW m \in net, Deliver(m)
        PROVE  Committed(rec') /\ rec'.shares[i] = FittingShare(rec', i)
    BY <1>1, <2>2, <2>4 DEF Deliver, TypeOK
  <2>5. ASSUME NEW f \in Faulty, FaultySend(f)
        PROVE  Committed(rec') /\ rec'.shares[i] = FittingShare(rec', i)
    <3>1. PICK m \in FaultyMsgs(f) : Accept(m)
      BY <2>5 DEF FaultySend
    <3>2. m \in Msg
      BY <2>5, <3>1, FaultyMsgsType DEF FaultySend
    <3>3. m.from = f
      BY DEF FaultyMsgs, CommitOf, ShareOf, SigOf
    <3>4. m.from # i
      BY <3>3 DEF Honest
    <3> QED BY <2>2, <3>1, <3>2, <3>4
  <2> QED BY <2>3, <2>4, <2>5 DEF ContractMoves
<1> QED BY <1>2, <1>3, <1>4

LEMMA SharesByQuietStep ==
  ASSUME TypeOK, AttemptInv, ShareInv, QuietStep
  PROVE  ShareInv'
<1> SUFFICES ASSUME NEW i \in Honest
             PROVE  RecordedFits(i)' /\ SentFits(i)' /\ KeptFits(i)'
  BY ShareInvParts
<1>0. RecordedFits(i) /\ SentFits(i) /\ KeptFits(i)
  BY ShareInvParts
<1>1. /\ rec' = rec /\ attempts' = attempts /\ temp' = temp
      /\ snap'[i] = snap[i] \/ snap'[i] = None \/ snap'[i] = rec
      /\ cache'[i] = cache[i] \/ cache'[i] = None
      /\ \A m \in net' : m \in net \/ m.type = "Claim"
  BY QuietStepKeeps
<1>2. RecordedFits(i)'
  BY <1>0, <1>1 DEF RecordedFits
<1>3. SentFits(i)'
  BY <1>0, <1>1 DEF SentFits
<1>4. KeptFits(i)'
  BY <1>0, <1>1 DEF KeptFits, FitsIn
<1> QED BY <1>2, <1>3, <1>4

\* The shares a tick may send or leave in temp/: the one of the record it works
\* on, or the one temp/ still has.
Fresh(i, x) == Committed(snap[i]) /\ x = FittingShare(snap[i], i)
Kept(i, x) == x # None /\ x = KeptShares(i)[snap[i].id]

SendsOwn(i) ==
  \A m \in net' :
    \/ m \in net
    \/ m.type # "Share"
    \/ /\ Committed(snap[i])
       /\ \E x : (Fresh(i, x) \/ Kept(i, x)) /\ m = ShareOf(i, snap[i], x)
StoresOwn(i) ==
  \/ cache' = cache /\ temp' = temp
  \/ cache' = [cache EXCEPT ![i] = None] /\ temp' = temp
  \/ \E c, t :
       /\ NextCache(i, c)
       /\ temp' = [temp EXCEPT ![i] = t]
       /\ \/ t[snap[i].id] = KeptShares(i)[snap[i].id]
          \/ Fresh(i, t[snap[i].id])

LEMMA ExecuteShares ==
  ASSUME TypeOK, NEW i \in Honest, Ticks(i)
  PROVE  SendsOwn(i) /\ StoresOwn(i)
<1>0. Work(i) /\ snap[i] \in Pegout /\ snap[i].id \in Ids
  BY ExecuteCache, WorkType DEF Ticks, Pegout
<1> DEFINE c == CachePegout(i)
           t == KeptShares(i)
           d == snap[i]
           n == gen[i] + 1
           b1 == [c EXCEPT !.nonces = n, !.commitments = n]
           b2 == [c EXCEPT !.nonces = None]
<1>1. /\ c.id = d.id /\ c.expiredAt = d.expiredAt
      /\ b1.id = d.id /\ b1.expiredAt = d.expiredAt
      /\ b2.id = d.id /\ b2.expiredAt = d.expiredAt
  BY DEF CachePegout
<1>2. t \in [Ids -> Share \cup {None}]
  BY <1>0, CachePegoutType
<1> HIDE DEF c, t, b1, b2
<1>3. ASSUME NEW b \in {c, b1, b2}, Leave(i, b, t) PROVE StoresOwn(i)
  BY <1>1, <1>3 DEF Leave, StoresOwn, NextCache, t
<1>4. NoSend => SendsOwn(i)
  BY DEF NoSend, SendsOwn
<1>5. ASSUME NEW m, m.type # "Share", net' = net \cup {m} PROVE SendsOwn(i)
  BY <1>5 DEF SendsOwn
<1>6. ASSUME NEW j, ExecuteClaim(i, d, j) PROVE SendsOwn(i)
  BY <1>4, <1>5, <1>6 DEF ExecuteClaim, Send, ClaimOf
<1>7. ASSUME NEW x, Fresh(i, x) \/ Kept(i, x), Committed(d), Send(ShareOf(i, d, x))
      PROVE  SendsOwn(i)
  BY <1>7 DEF SendsOwn, Send
<1>8. CASE ExecuteEvicted(i) \/ ExecuteStop(i)
  BY <1>4, <1>8 DEF ExecuteEvicted, ExecuteStop, StoresOwn
<1>9. CASE ExecuteReset(i)
  BY <1>5, <1>9 DEF ExecuteReset, Send, ResetOf, StoresOwn
<1>10. CASE ExecuteWait(i) \/ ExecuteNoSecret(i) \/ ExecuteCannotSign(i)
  BY <1>3, <1>4, <1>10 DEF ExecuteWait, ExecuteNoSecret, ExecuteCannotSign, c, t
<1>11. CASE ExecuteCommit(i)
  <2>1. Leave(i, b1, t) \/ Leave(i, c, t)
    BY <1>11 DEF ExecuteCommit, b1, c, t
  <2>2. \E x : Send(CommitOf(i, d, x))
    BY <1>11 DEF ExecuteCommit
  <2>3. SendsOwn(i)
    BY <1>5, <2>2 DEF Send, CommitOf
  <2> QED BY <1>3, <2>1, <2>3
<1>12. CASE ExecuteSignClaim(i)
  <2>1. Leave(i, c, t) /\ \E j \in Undecodable(d) : ExecuteClaim(i, d, j)
    BY <1>12 DEF ExecuteSignClaim, c, t
  <2> QED BY <1>3, <1>6, <2>1
<1>13. CASE ExecuteSign(i)
  <2> DEFINE s == [nonce |-> c.nonces, id |-> d.id, commits |-> d.commits]
             u == [t EXCEPT ![d.id] = s]
  <2>1. /\ Committed(d)
        /\ d.commits[i] = c.nonces
        /\ Leave(i, c, u) \/ Leave(i, c, t)
        /\ Send(ShareOf(i, d, s))
    BY <1>13 DEF ExecuteSign, OwesShare, c, t
  <2>2. Fresh(i, s)
    BY <2>1 DEF Fresh, FittingShare
  <2>3. u[d.id] = s
    BY <1>0, <1>2
  <2> HIDE DEF s, u
  <2>4. SendsOwn(i)
    BY <1>7, <2>1, <2>2
  <2>5. ASSUME Leave(i, c, u) PROVE StoresOwn(i)
    BY <1>1, <2>2, <2>3, <2>5 DEF Leave, StoresOwn, NextCache
  <2> QED BY <1>3, <2>1, <2>4, <2>5
<1>14. CASE ExecuteSignAgain(i)
  <2> DEFINE s == t[d.id]
  <2>1. /\ Committed(d) /\ s # None
        /\ Leave(i, c, t)
        /\ Send(ShareOf(i, d, s))
    BY <1>14 DEF ExecuteSignAgain, OwesShare, c, t
  <2>2. Kept(i, s)
    BY <2>1 DEF Kept, t
  <2> HIDE DEF s
  <2> QED BY <1>3, <1>7, <2>1, <2>2
<1>15. CASE ExecuteAggregate(i)
  <2>1. Leave(i, b2, t)
    BY <1>15 DEF ExecuteAggregate, Aggregate, b2, c, t
  <2>2. \/ NoSend
        \/ \E j \in InvalidShares(d) : ExecuteClaim(i, d, j)
        \/ net' = net \cup {SigOf(i, d, AggregateWithTweak(d))}
    BY <1>15 DEF ExecuteAggregate
  <2>3. SendsOwn(i)
    BY <1>4, <1>5, <1>6, <2>2 DEF SigOf
  <2> QED BY <1>3, <2>1, <2>3
<1> QED BY <1>8, <1>9, <1>10, <1>11, <1>12, <1>13, <1>14, <1>15 DEF Ticks, Execute

LEMMA SharesByExecute ==
  ASSUME TypeOK, AttemptInv, ShareInv, NEW i \in Honest, Ticks(i)
  PROVE  ShareInv'
<1> DEFINE d == snap[i]
<1>0. /\ i \in Idx /\ d \in Pegout /\ d # None
      /\ rec' = rec /\ attempts' = attempts /\ snap' = [snap EXCEPT ![i] = None]
  <2>1. Work(i)
    BY ExecuteCache DEF Ticks
  <2> QED BY <2>1, WorkType DEF Work, contract
<1>1. \A j \in Honest : RecordedFits(j) /\ SentFits(j) /\ KeptFits(j)
  BY ShareInvParts
<1>2. Committed(d) => d.expiredAt # 0 /\ d.expiredAt <= attempts
  BY <1>0 DEF AttemptInv, Started
\* A share of the record worked on is one of the record as it is now.
<1>3. ASSUME NEW x, Fresh(i, x) PROVE FitsIn(i, x, d.id, d.expiredAt, rec)
  <2>1. ASSUME rec # None, rec.id = d.id, rec.expiredAt = d.expiredAt
        PROVE  Committed(rec) /\ x = FittingShare(rec, i)
    <3>1. rec.commits = d.commits
      BY <1>0, <1>3, <2>1 DEF Fresh, AttemptInv
    <3>2. Committed(rec) <=> Committed(d)
      BY <3>1, CommittedByCommitments
    <3> QED BY <1>3, <2>1, <3>1, <3>2 DEF Fresh, FittingShare
  <2> QED BY <2>1 DEF FitsIn
\* So is one that temp/ still has after cachePegout.
<1>4. ASSUME NEW x, Kept(i, x)
      PROVE  d.expiredAt # 0 /\ FitsIn(i, x, d.id, d.expiredAt, rec)
  <2>1. KeepsCache(i) /\ x = temp[i][d.id] /\ x # None
    BY <1>0, <1>4 DEF Kept, KeptShares, NoShares, Pegout
  <2>2. /\ cache[i] # None /\ cache[i].id = d.id
        /\ cache[i].expiredAt # 0 /\ cache[i].expiredAt = d.expiredAt
        /\ FitsIn(i, x, cache[i].id, cache[i].expiredAt, rec)
    BY <1>1, <2>1 DEF KeepsCache, KeptFits
  <2> QED BY <2>2
<1>5. \A j \in Honest : RecordedFits(j)'
  BY <1>0, <1>1 DEF RecordedFits
<1>6. ASSUME NEW j \in Honest PROVE SentFits(j)'
  <2>1. ASSUME NEW m \in net', m.type = "Share", m.from = j
        PROVE  /\ m.until # 0 /\ m.until <= attempts
               /\ FitsIn(j, m.share, m.id, m.until, rec)
    <3>1. CASE m \in net
      BY <1>1, <2>1, <3>1 DEF SentFits
    <3>2. ASSUME Committed(d), NEW x, Fresh(i, x) \/ Kept(i, x), m = ShareOf(i, d, x)
          PROVE  /\ m.until # 0 /\ m.until <= attempts
                 /\ FitsIn(j, m.share, m.id, m.until, rec)
      <4>1. m.from = i /\ m.share = x /\ m.id = d.id /\ m.until = d.expiredAt
        BY <3>2 DEF ShareOf
      <4> HIDE DEF d
      <4> QED BY <1>2, <1>3, <1>4, <2>1, <3>2, <4>1
    <3> QED BY <2>1, <3>1, <3>2, ExecuteShares DEF SendsOwn
  <2> QED BY <1>0, <2>1 DEF SentFits
<1>7. ASSUME NEW j \in Honest, j # i PROVE KeptFits(j)'
  <2>1. j \in Idx
    BY DEF Honest
  <2>2. cache'[j] = cache[j] /\ temp'[j] = temp[j] /\ snap'[j] = snap[j]
    BY <1>0, <1>7, <2>1, ExecuteShares DEF StoresOwn, NextCache, TypeOK
  <2> QED BY <1>0, <1>1, <2>2 DEF KeptFits
<1>8. KeptFits(i)'
  <2>1. snap'[i] = None
    BY <1>0 DEF TypeOK
  <2>2. CASE cache' = cache /\ temp' = temp
    BY <1>0, <1>1, <2>1, <2>2 DEF KeptFits, FitsIn
  <2>3. CASE cache' = [cache EXCEPT ![i] = None] /\ temp' = temp
    BY <1>0, <2>3 DEF KeptFits, TypeOK
  <2>4. ASSUME NEW c, NEW t, NextCache(i, c), temp' = [temp EXCEPT ![i] = t],
               t[d.id] = KeptShares(i)[d.id] \/ Fresh(i, t[d.id])
        PROVE  KeptFits(i)'
    <3>1. /\ cache'[i].id = d.id /\ cache'[i].expiredAt = d.expiredAt
          /\ temp'[i] = t
      BY <1>0, <2>4 DEF NextCache, TypeOK
    <3>2. ASSUME t[d.id] # None
          PROVE  d.expiredAt # 0 /\ FitsIn(i, t[d.id], d.id, d.expiredAt, rec)
      <4>1. CASE Fresh(i, t[d.id])
        BY <1>2, <1>3, <4>1 DEF Fresh
      <4>2. CASE t[d.id] = KeptShares(i)[d.id]
        <5>1. Kept(i, t[d.id])
          BY <3>2, <4>2 DEF Kept
        <5> QED BY <1>4, <5>1
      <4> QED BY <2>4, <4>1, <4>2
    <3> QED BY <1>0, <2>1, <3>1, <3>2 DEF KeptFits, FitsIn
  <2> QED BY <2>2, <2>3, <2>4, ExecuteShares DEF StoresOwn
<1> QED BY <1>5, <1>6, <1>7, <1>8, ShareInvParts

LEMMA SharesNext ==
  TypeOK /\ AttemptInv /\ ShareInv /\ [Next]_vars => ShareInv'
<1> SUFFICES ASSUME TypeOK, AttemptInv, ShareInv, [Next]_vars PROVE ShareInv'
  OBVIOUS
<1>1. CASE ContractMoves
  BY <1>1, SharesByContract
<1>2. CASE \E i \in Honest : Ticks(i)
  BY <1>2, SharesByExecute
<1>3. CASE QuietStep
  BY <1>3, SharesByQuietStep
<1> QED BY <1>1, <1>2, <1>3, Steps

\* A share on record of an honest oracle is the one the record asks for: over the
\* recorded commitments, with the nonce this oracle committed to.
THEOREM SharesAreOfRecord == Spec => []ShareIsOfRecord
<1>1. Init => TypeOK /\ AttemptInv /\ ShareInv
  BY InitType, AttemptsInit, SharesInit
<1>2. TypeOK /\ AttemptInv /\ ShareInv /\ [Next]_vars
        => (TypeOK /\ AttemptInv /\ ShareInv)'
  BY NextType, AttemptsNext, SharesNext
<1>3. ShareInv => ShareIsOfRecord
  BY DEF ShareInv
<1> QED BY <1>1, <1>2, <1>3, PTL DEF Spec

-----------------------------------------------------------------------------
(* Signatures and claims.                                                   *)

\* What an honest oracle has on record, or in what an honest oracle read,
\* decodes and fits.
Decodes(d) == d # None => \A j \in Honest : d.commits[j] \in Nat \cup {None}
SharesFit(d) ==
  d # None => \A j \in Honest : d.shares[j] # None => d.shares[j] = FittingShare(d, j)

PiecesInv ==
  /\ Decodes(rec)
  /\ \A i \in Honest : Decodes(snap[i]) /\ SharesFit(snap[i])
  /\ \A m \in net : m.type = "Commit" /\ m.from \in Honest => m.commitment \in Nat

\* The message m is about the attempt the record is in.
OfRecord(m) == rec # None /\ m.id = rec.id /\ m.until = rec.expiredAt

\* The recorded signature is the one over the recorded commitments as soon as
\* one honest oracle has signed.
RecordedSig ==
  rec # None =>
    /\ rec.expiredAt \in {0, attempts}
    /\ rec.sigs.by # {} => rec.sigs.value # None
    /\ \A j \in Honest : j \in rec.sigs.by => Committed(rec) /\ rec.sigs.value = rec.commits

\* Who had signed when i read the record has signed still.
SeenSigs(i) ==
  /\ rec # None
  /\ snap[i] # None
  /\ Committed(snap[i])
  /\ rec.expiredAt = snap[i].expiredAt
  => snap[i].sigs.by \subseteq rec.sigs.by

\* The signatures under way are of no later attempt than the one i works on, and
\* over the commitments of theirs.
SentSigs(i) ==
  \A m \in net : m.type = "Sig" /\ m.from = i =>
    /\ m.until # 0
    /\ m.until <= attempts
    /\ OfRecord(m) => Committed(rec) /\ m.value = rec.commits
    /\ snap[i] # None /\ snap[i].expiredAt # 0 => m.until <= snap[i].expiredAt

SigInv ==
  /\ RecordedSig
  /\ \A i \in Honest : SeenSigs(i) /\ SentSigs(i)

\* Whom i would blame for a refused signature has signed in the attempt that
\* signature is for.
Blames(i) ==
  /\ call[i] # None => snap[i] = None
  /\ call[i] # None /\ call[i].culprit \in Honest =>
       \A m \in net : m.type = "Sig" /\ m.from = i /\ OfRecord(m) =>
         call[i].culprit \in rec.sigs.by

BlameInv ==
  /\ HonestIsNotBlamed
  /\ \A m \in net : m.type = "Claim" /\ m.from \in Honest => m.culprit \notin Honest
  /\ \A i \in Honest : Blames(i)

LEMMA PiecesInit == Init => PiecesInv /\ SigInv /\ BlameInv
<1> SUFFICES ASSUME Init PROVE PiecesInv /\ SigInv /\ BlameInv
  OBVIOUS
<1>1. /\ rec = None /\ net = {}
      /\ \A i \in Honest : snap[i] = None /\ call[i] = None
  BY DEF Init, NoneYet, Honest
<1>2. PiecesInv
  BY <1>1 DEF PiecesInv, Decodes, SharesFit
<1>3. SigInv
  BY <1>1 DEF SigInv, RecordedSig, SeenSigs, SentSigs
<1>4. BlameInv
  BY <1>1 DEF BlameInv, Blames, HonestIsNotBlamed
<1> QED BY <1>2, <1>3, <1>4

LEMMA FreshRecord ==
  ASSUME NEW p, NEW e, NEW m, NEW i \in Idx
  PROVE  LET d == NewPegoutRecord(p, e, m)
         IN /\ d.commits[i] = None /\ d.claims[i] = None
            /\ d.sigs.by = {} /\ d.sigs.value = None /\ d.expiredAt = e
BY DEF NewPegoutRecord, NoneYet

LEMMA RestartRecord ==
  ASSUME NEW S, Restart(S)
  PROVE  /\ rec' # None => rec'.expiredAt \in {0, attempts'}
         /\ rec'.sigs.by = {} /\ rec'.sigs.value = None
         /\ \A i \in Idx : rec'.commits[i] = None /\ rec'.claims[i] = None
<1>1. PICK m : \/ rec' = NewPegoutRecord(rec.id, attempts + 1, m) /\ attempts' = attempts + 1
               \/ rec' = NewPegoutRecord(rec.id, 0, m) /\ attempts' = attempts
  BY DEF Restart
<1>2. ASSUME NEW i \in Idx PROVE rec'.commits[i] = None /\ rec'.claims[i] = None
  BY <1>1, FreshRecord
<1>3. /\ rec'.expiredAt \in {0, attempts'}
      /\ rec'.sigs.by = {} /\ rec'.sigs.value = None
  BY <1>1 DEF NewPegoutRecord
<1> QED BY <1>2, <1>3

\* What the contract does to a commitment, a claim and the signatures: it keeps
\* them, drops them with the attempt, or takes one from a message.
LEMMA AcceptPieces ==
  ASSUME TypeOK, NEW m \in Msg, Accept(m), rec' # None
  PROVE  /\ \A i \in Idx :
              /\ \/ rec'.commits[i] \in {rec.commits[i], None}
                 \/ m.type = "Commit" /\ m.from = i /\ rec'.commits[i] = m.commitment
              /\ \/ rec'.claims[i] \in {rec.claims[i], None}
                 \/ m.type = "Claim" /\ m.from = i /\ rec'.claims[i] = m.culprit
         /\ \/ rec'.sigs = rec.sigs /\ (SameCommitments \/ ~Committed(rec))
            \/ rec'.sigs.by = {} /\ NewAttempt
            \/ /\ SameCommitments
               /\ m.type = "Sig" /\ OfRecord(m)
               /\ rec.sigs.value \in {None, m.value}
               /\ rec'.sigs.by = rec.sigs.by \cup {m.from} /\ rec'.sigs.value = m.value
         /\ rec.expiredAt \in {0, attempts} => rec'.expiredAt \in {0, attempts'}
<1>0. /\ rec \in Pegout /\ rec # None /\ m.from \in Idx /\ attempts \in Nat
      /\ rec.commits \in [Idx -> Nat \cup {Garbage, Unparsable, None}]
      /\ rec.claims \in [Idx -> Idx \cup {None}]
  BY DEF Accept, CanAccept, TypeOK, Pegout, Commitments, Msg, CommitMsg, ShareMsg, SigMsg,
         ClaimMsg, ResetMsg
<1> DEFINE Commits == \A i \in Idx :
             \/ rec'.commits[i] \in {rec.commits[i], None}
             \/ m.type = "Commit" /\ m.from = i /\ rec'.commits[i] = m.commitment
           Claims == \A i \in Idx :
             \/ rec'.claims[i] \in {rec.claims[i], None}
             \/ m.type = "Claim" /\ m.from = i /\ rec'.claims[i] = m.culprit
           Sigs == \/ rec'.sigs = rec.sigs /\ (SameCommitments \/ ~Committed(rec))
                   \/ rec'.sigs.by = {} /\ NewAttempt
                   \/ /\ SameCommitments
                      /\ m.type = "Sig" /\ OfRecord(m)
                      /\ rec.sigs.value \in {None, m.value}
                      /\ rec'.sigs.by = rec.sigs.by \cup {m.from} /\ rec'.sigs.value = m.value
           Deadline == rec.expiredAt \in {0, attempts} => rec'.expiredAt \in {0, attempts'}
<1>1. ASSUME NEW S \in SUBSET Idx, Restart(S) PROVE Commits /\ Claims /\ Sigs /\ Deadline
  <2>1. NewAttempt
    BY <1>0, <1>1, RestartStep
  <2> QED BY <1>1, <2>1, RestartRecord
<1>2. CASE m.type = "Commit" /\ AcceptCommit(m)
  <2>1. rec'.claims = rec.claims /\ rec'.sigs = rec.sigs
    BY <1>0, <1>2 DEF AcceptCommit, Pegout
  <2>2. CASE rec' = [rec EXCEPT !.other = @ \cup {m.from}] /\ attempts' = attempts
    <3>1. SameCommitments
      BY <1>0, <2>2 DEF SameCommitments, Pegout
    <3> QED BY <2>1, <2>2, <3>1 DEF SameCommitments
  <2>3. CASE ~(rec' = [rec EXCEPT !.other = @ \cup {m.from}] /\ attempts' = attempts)
    <3>1. /\ ~Committed(rec)
          /\ rec'.commits = [rec.commits EXCEPT ![m.from] = m.commitment]
          /\ \/ rec'.expiredAt = rec.expiredAt /\ attempts' = attempts
             \/ rec'.expiredAt = attempts + 1 /\ attempts' = attempts + 1
      BY <1>0, <1>2, <2>3 DEF AcceptCommit, Pegout
    <3>2. Commits
      BY <1>0, <1>2, <3>1
    <3>3. Deadline
      BY <3>1
    <3> QED BY <2>1, <3>1, <3>2, <3>3
  <2> QED BY <2>2, <2>3
<1>3. CASE /\ m.type = "Share"
           /\ rec' = [rec EXCEPT !.shares[m.from] = m.share]
           /\ UNCHANGED attempts
  <2>1. /\ rec'.commits = rec.commits /\ rec'.claims = rec.claims /\ rec'.sigs = rec.sigs
        /\ SameCommitments
    BY <1>0, <1>3 DEF SameCommitments, Pegout
  <2> QED BY <2>1 DEF SameCommitments
<1>4. CASE m.type = "Sig" /\ AcceptSig(m)
  <2>1. /\ rec' = [rec EXCEPT !.sigs = [by |-> rec.sigs.by \cup {m.from}, value |-> m.value]]
        /\ attempts' = attempts
    BY <1>4 DEF AcceptSig
  <2>2. /\ rec'.commits = rec.commits /\ rec'.claims = rec.claims
        /\ SameCommitments
        /\ rec'.sigs.by = rec.sigs.by \cup {m.from} /\ rec'.sigs.value = m.value
    BY <1>0, <2>1 DEF SameCommitments, Pegout
  <2>3. OfRecord(m) /\ rec.sigs.value \in {None, m.value}
    BY <1>0, <1>4 DEF Accept, CanAccept, OfRecord
  <2> QED BY <1>4, <2>2, <2>3 DEF SameCommitments
<1>5. CASE m.type = "Claim" /\ AcceptClaim(m)
  <2>1. CASE rec' = [rec EXCEPT !.claims[m.from] = m.culprit] /\ attempts' = attempts
    <3>1. /\ rec'.commits = rec.commits /\ rec'.sigs = rec.sigs
          /\ rec'.claims = [rec.claims EXCEPT ![m.from] = m.culprit]
          /\ SameCommitments
      BY <1>0, <2>1 DEF SameCommitments, Pegout
    <3> QED BY <1>0, <1>5, <3>1 DEF SameCommitments
  <2>2. CASE Restart(Idx \ {m.culprit})
    BY <1>1, <2>2
  <2> QED BY <1>5, <2>1, <2>2 DEF AcceptClaim
<1>6. CASE Restart(Idx)
  BY <1>1, <1>6
<1>7. \/ m.type = "Commit" /\ AcceptCommit(m)
      \/ /\ m.type = "Share"
         /\ rec' = [rec EXCEPT !.shares[m.from] = m.share]
         /\ UNCHANGED attempts
      \/ m.type = "Sig" /\ AcceptSig(m)
      \/ m.type = "Claim" /\ AcceptClaim(m)
      \/ Restart(Idx)
  BY Zenon DEF Accept
<1> QED BY <1>2, <1>3, <1>4, <1>5, <1>6, <1>7, Zenon

\* A step of the contract accepts a message, an honest oracle's only from the
\* net, or begins with the next pegout.
LEMMA ContractAccepts ==
  ASSUME TypeOK, ContractMoves
  PROVE  \/ /\ rec = None /\ attempts' = attempts /\ NewAttempt
            /\ \E p, m : rec' = NewPegoutRecord(p, 0, m)
         \/ \E m \in Msg : Accept(m) /\ (m.from \in Honest => m \in net)
<1>1. CASE NewPegout
  <2>1. PICK m : rec' = NewPegoutRecord(pegouts + 1, 0, m)
    BY <1>1 DEF NewPegout
  <2>2. rec'.expiredAt = 0 /\ ~Committed(rec') /\ attempts' = attempts /\ rec = None
    BY <1>1, <2>1, NewPegoutRecordUncommitted DEF NewPegout, NewPegoutRecord
  <2> QED BY <2>1, <2>2 DEF NewAttempt
<1>2. ASSUME NEW m \in net, Deliver(m)
      PROVE  \E k \in Msg : Accept(k) /\ (k.from \in Honest => k \in net)
  BY <1>2 DEF Deliver, TypeOK
<1>3. ASSUME NEW f \in Faulty, FaultySend(f)
      PROVE  \E k \in Msg : Accept(k) /\ (k.from \in Honest => k \in net)
  <2>1. PICK m \in FaultyMsgs(f) : Accept(m)
    BY <1>3 DEF FaultySend
  <2>2. m \in Msg
    BY <1>3, <2>1, FaultyMsgsType DEF FaultySend
  <2>3. m.from = f
    BY DEF FaultyMsgs, CommitOf, ShareOf, SigOf
  <2> QED BY <2>1, <2>2, <2>3 DEF Honest
<1> QED BY <1>1, <1>2, <1>3 DEF ContractMoves

LEMMA PiecesByContract ==
  ASSUME TypeOK, PiecesInv, ContractMoves
  PROVE  PiecesInv'
<1>0. UNCHANGED snap /\ \A m \in net' : m \in net
  BY ContractStep DEF ContractMoves, oracles
<1>1. Decodes(rec')
  <2> SUFFICES ASSUME rec' # None, NEW j \in Honest PROVE rec'.commits[j] \in Nat \cup {None}
    BY DEF Decodes
  <2>0. j \in Idx
    BY DEF Honest
  <2>1. ASSUME NEW p, NEW m, rec' = NewPegoutRecord(p, 0, m)
        PROVE  rec'.commits[j] \in Nat \cup {None}
    BY <2>0, <2>1, FreshRecord
  <2>2. ASSUME NEW m \in Msg, Accept(m), m.from \in Honest => m \in net
        PROVE  rec'.commits[j] \in Nat \cup {None}
    <3>1. \/ rec'.commits[j] \in {rec.commits[j], None}
          \/ m.type = "Commit" /\ m.from = j /\ rec'.commits[j] = m.commitment
      BY <2>0, <2>2, AcceptPieces
    <3>2. rec # None
      BY <2>2 DEF Accept, CanAccept
    <3> QED BY <2>2, <3>1, <3>2 DEF PiecesInv, Decodes
  <2> QED BY <2>1, <2>2, ContractAccepts
<1> QED BY <1>0, <1>1 DEF PiecesInv

\* A message about the record after a step of the contract was about the one
\* before, unless it carries no deadline or one not given out yet.
LEMMA StaysOfRecord ==
  ASSUME TypeOK, RecordStep, NEW m, m.until \in Nat \ {0}, m.until <= attempts,
         OfRecord(m)'
  PROVE  OfRecord(m) /\ (SameCommitments \/ OneMoreCommitment)
<1>1. rec' # None /\ m.id = rec'.id /\ m.until = rec'.expiredAt
  BY DEF OfRecord
<1>2. ~NewAttempt
  BY <1>1 DEF NewAttempt, TypeOK
<1> QED BY <1>1, <1>2 DEF RecordStep, SameCommitments, OneMoreCommitment, OfRecord

LEMMA MsgType ==
  ASSUME TypeOK, NEW m \in net
  PROVE  /\ m.until \in Nat /\ m.from \in Idx
         /\ m.type = "Sig" => m.value \in Commitments \cup {Garbage}
BY DEF TypeOK, Msg, CommitMsg, ShareMsg, SigMsg, ClaimMsg, ResetMsg, Signature

LEMMA SigsByContract ==
  ASSUME TypeOK, AttemptInv, SigInv, ContractMoves
  PROVE  SigInv' /\ \A i \in Honest : call' = call
<1>0. /\ UNCHANGED <<snap, call>> /\ RecordStep
      /\ \A m \in net' : m \in net
      /\ attempts \in Nat /\ attempts' \in Nat /\ attempts <= attempts' /\ TypeOK'
  BY ContractStep, AttemptsByRecordStep DEF ContractMoves, oracles, TypeOK
<1>1. RecordedSig'
  <2> SUFFICES ASSUME rec' # None
               PROVE  /\ rec'.expiredAt \in {0, attempts'}
                      /\ rec'.sigs.by # {} => rec'.sigs.value # None
                      /\ \A j \in Honest : j \in rec'.sigs.by =>
                           Committed(rec') /\ rec'.sigs.value = rec'.commits
    BY DEF RecordedSig
  <2>1. ASSUME NEW p, NEW m, rec' = NewPegoutRecord(p, 0, m)
        PROVE  rec'.sigs.by = {} /\ rec'.expiredAt = 0
    BY <2>1 DEF NewPegoutRecord
  <2>2. ASSUME NEW m \in Msg, Accept(m), m.from \in Honest => m \in net
        PROVE  /\ rec'.expiredAt \in {0, attempts'}
               /\ rec'.sigs.by # {} => rec'.sigs.value # None
               /\ \A j \in Honest : j \in rec'.sigs.by =>
                    Committed(rec') /\ rec'.sigs.value = rec'.commits
    <3>1. /\ rec # None
          /\ rec.expiredAt \in {0, attempts}
          /\ rec.sigs.by # {} => rec.sigs.value # None
          /\ \A j \in Honest : j \in rec.sigs.by => Committed(rec) /\ rec.sigs.value = rec.commits
      BY <2>2 DEF Accept, CanAccept, SigInv, RecordedSig
    <3>2. rec'.expiredAt \in {0, attempts'}
      BY <2>2, <3>1, AcceptPieces
    <3>3. CASE rec'.sigs = rec.sigs /\ (SameCommitments \/ ~Committed(rec))
      <4>1. SameCommitments => (Committed(rec') <=> Committed(rec)) /\ rec'.commits = rec.commits
        BY CommittedByCommitments DEF SameCommitments
      <4> QED BY <3>1, <3>2, <3>3, <4>1
    <3>4. CASE rec'.sigs.by = {}
      BY <3>2, <3>4
    <3>5. CASE /\ SameCommitments
               /\ m.type = "Sig" /\ OfRecord(m)
               /\ rec.sigs.value \in {None, m.value}
               /\ rec'.sigs.by = rec.sigs.by \cup {m.from} /\ rec'.sigs.value = m.value
      <4>1. (Committed(rec') <=> Committed(rec)) /\ rec'.commits = rec.commits
        BY <3>5, CommittedByCommitments DEF SameCommitments
      <4>2. rec'.sigs.by = rec.sigs.by \cup {m.from} /\ rec'.sigs.value = m.value
        BY <3>5
      <4>3. m.value # None
        <5>1. m.value \in Commitments \cup {Garbage}
          BY <3>5 DEF Msg, CommitMsg, ShareMsg, SigMsg, ClaimMsg, ResetMsg, Signature
        <5> QED BY <5>1, NilAssumption, SigningAssumption
      <4>4. ASSUME NEW j \in Honest, j \in rec'.sigs.by
            PROVE  Committed(rec) /\ m.value = rec.commits
        <5>1. CASE j \in rec.sigs.by
          <6>1. Committed(rec) /\ rec.sigs.value = rec.commits
            BY <3>1, <5>1
          <6>2. rec.sigs.value # None
            BY <3>1, <5>1
          <6> QED BY <3>5, <6>1, <6>2
        <5>2. CASE j = m.from
          BY <2>2, <3>5, <5>2 DEF SigInv, SentSigs
        <5> QED BY <4>2, <4>4, <5>1, <5>2
      <4> QED BY <3>2, <4>1, <4>2, <4>3, <4>4
    <3> QED BY <2>2, <3>3, <3>4, <3>5, AcceptPieces
  <2> QED BY <2>1, <2>2, ContractAccepts
<1>2. ASSUME NEW i \in Honest PROVE SeenSigs(i)'
  <2> SUFFICES ASSUME rec' # None, snap[i] # None, Committed(snap[i]),
                      rec'.expiredAt = snap[i].expiredAt
               PROVE  snap[i].sigs.by \subseteq rec'.sigs.by
    BY <1>0 DEF SeenSigs
  <2>1. snap[i].expiredAt \in Nat \ {0} /\ snap[i].expiredAt <= attempts
    BY DEF AttemptInv, Started, TypeOK, Pegout, Honest
  <2>2. ~NewAttempt
    BY <1>0, <2>1 DEF NewAttempt
  <2>3. rec # None /\ rec.expiredAt = snap[i].expiredAt
    BY <1>0, <2>2 DEF RecordStep, SameCommitments, OneMoreCommitment
  <2>4. rec.commits = snap[i].commits /\ snap[i].sigs.by \subseteq rec.sigs.by
    BY <2>3 DEF AttemptInv, SigInv, SeenSigs
  <2>5. PICK m \in Msg : Accept(m)
    BY <2>2, ContractAccepts
  <2>6. rec.sigs.by \subseteq rec'.sigs.by
    BY <2>2, <2>5, AcceptPieces
  <2> QED BY <2>4, <2>6
<1>3. ASSUME NEW i \in Honest PROVE SentSigs(i)'
  <2> SUFFICES ASSUME NEW m \in net, m.type = "Sig", m.from = i
               PROVE  /\ m.until # 0
                      /\ m.until <= attempts'
                      /\ OfRecord(m)' => Committed(rec') /\ m.value = rec'.commits
                      /\ snap[i] # None /\ snap[i].expiredAt # 0 => m.until <= snap[i].expiredAt
    BY <1>0 DEF SentSigs
  <2>1. /\ m.until # 0 /\ m.until <= attempts /\ m.until \in Nat
        /\ OfRecord(m) => Committed(rec) /\ m.value = rec.commits
        /\ snap[i] # None /\ snap[i].expiredAt # 0 => m.until <= snap[i].expiredAt
    BY MsgType DEF SigInv, SentSigs
  <2>2. ASSUME OfRecord(m)' PROVE Committed(rec') /\ m.value = rec'.commits
    <3>1. OfRecord(m) /\ (SameCommitments \/ OneMoreCommitment)
      BY <1>0, <2>1, <2>2, StaysOfRecord
    <3>2. SameCommitments
      BY <2>1, <3>1 DEF OneMoreCommitment
    <3>3. Committed(rec') <=> Committed(rec)
      BY <3>2, CommittedByCommitments DEF SameCommitments
    <3> QED BY <2>1, <3>1, <3>2, <3>3 DEF SameCommitments
  <2>3. m.until <= attempts'
    BY <1>0, <2>1
  <2> QED BY <2>1, <2>2, <2>3
<1> QED BY <1>0, <1>1, <1>2, <1>3 DEF SigInv

LEMMA BlameByContract ==
  ASSUME TypeOK, AttemptInv, SigInv, BlameInv, ContractMoves
  PROVE  BlameInv'
<1>0. /\ UNCHANGED <<snap, call>> /\ RecordStep
      /\ \A m \in net' : m \in net
  BY ContractStep DEF ContractMoves, oracles
<1>1. HonestIsNotBlamed'
  <2> SUFFICES ASSUME rec' # None, NEW i \in Honest PROVE rec'.claims[i] \notin Honest
    BY DEF HonestIsNotBlamed
  <2>0. i \in Idx /\ None \notin Honest
    BY SigningAssumption DEF Honest
  <2>1. ASSUME NEW p, NEW m, rec' = NewPegoutRecord(p, 0, m) PROVE rec'.claims[i] \notin Honest
    BY <2>0, <2>1, FreshRecord
  <2>2. ASSUME NEW m \in Msg, Accept(m), m.from \in Honest => m \in net
        PROVE  rec'.claims[i] \notin Honest
    <3>1. \/ rec'.claims[i] \in {rec.claims[i], None}
          \/ m.type = "Claim" /\ m.from = i /\ rec'.claims[i] = m.culprit
      BY <2>0, <2>2, AcceptPieces
    <3>2. rec.claims[i] \notin Honest
      BY <2>2 DEF Accept, CanAccept, BlameInv, HonestIsNotBlamed
    <3> QED BY <2>0, <2>2, <3>1, <3>2 DEF BlameInv
  <2> QED BY <2>1, <2>2, ContractAccepts
<1>2. ASSUME NEW i \in Honest PROVE Blames(i)'
  <2> SUFFICES ASSUME call[i] # None, call[i].culprit \in Honest,
                      NEW m \in net, m.type = "Sig", m.from = i, OfRecord(m)'
               PROVE  call[i].culprit \in rec'.sigs.by
    BY <1>0 DEF Blames, BlameInv, OfRecord
  <2>1. m.until \in Nat \ {0} /\ m.until <= attempts
    BY MsgType DEF SigInv, SentSigs
  <2>2. OfRecord(m) /\ (SameCommitments \/ OneMoreCommitment)
    BY <1>0, <2>1, StaysOfRecord
  <2>3. call[i].culprit \in rec.sigs.by
    BY <2>2 DEF BlameInv, Blames
  <2>4. ~NewAttempt /\ rec' # None /\ rec # None
    <3>1. rec'.expiredAt = m.until /\ rec' # None
      BY DEF OfRecord
    <3> QED BY <2>1, <2>2, <3>1 DEF NewAttempt, TypeOK, OfRecord
  <2>5. PICK k \in Msg : Accept(k)
    BY <2>4, ContractAccepts
  <2>6. rec.sigs.by \subseteq rec'.sigs.by
    BY <2>4, <2>5, AcceptPieces
  <2> QED BY <2>3, <2>6
<1> QED BY <1>0, <1>1, <1>2 DEF BlameInv

LEMMA CulpritHasSigned ==
  ASSUME NEW i \in Idx, NEW d \in Pegout, CulpritBySignatureMask(i, d) # None
  PROVE  CulpritBySignatureMask(i, d) \in d.sigs.by
<1>1. d.sigs.by \in SUBSET Idx /\ d.sigs.by # {}
  BY DEF Pegout, CulpritBySignatureMask
<1>2. IsFiniteSet(d.sigs.by) /\ d.sigs.by \in SUBSET Nat
  BY <1>1, FS_Subset, SigningAssumption
<1> QED BY <1>1, <1>2, HighestIdxIsMember DEF CulpritBySignatureMask

\* What a tick sends: nothing that is wrong, and a claim only against an oracle
\* that is faulty.
SendsRight(i) ==
  \A m \in net' :
    \/ m \in net
    \/ /\ m.from = i
       /\ \/ m.type \in {"Share", "Reset"}
          \/ m.type = "Commit" /\ m.commitment \in Nat
          \/ m.type = "Claim" /\ m.culprit \notin Honest
SendsSignature(i) ==
  /\ Committed(snap[i])
  /\ net' = net \cup {SigOf(i, snap[i], snap[i].commits)}
  /\ call' = [call EXCEPT ![i] = [culprit |-> CulpritBySignatureMask(i, snap[i])]]

LEMMA TickSends ==
  ASSUME TypeOK, PiecesInv, NEW i \in Honest, Ticks(i)
  PROVE  (call' = call /\ SendsRight(i)) \/ SendsSignature(i)
<1> DEFINE d == snap[i]
<1>0. /\ i \in Idx /\ d \in Pegout /\ d # None /\ Decodes(d) /\ SharesFit(d)
      /\ gen[i] + 1 \in Nat
  <2>1. Work(i)
    BY ExecuteCache DEF Ticks
  <2>2. i \in Idx /\ d \in Pegout /\ d # None
    BY <2>1, WorkType DEF Work
  <2>3. gen[i] + 1 \in Nat
    BY <2>2 DEF TypeOK
  <2>4. Decodes(d) /\ SharesFit(d)
    BY DEF PiecesInv
  <2> QED BY <2>2, <2>3, <2>4
<1>1. /\ d.commits \in [Idx -> Nat \cup {Garbage, Unparsable, None}]
  BY <1>0 DEF Pegout, Commitments
<1> HIDE DEF d
<1>2. ASSUME NoSend PROVE call' = call /\ SendsRight(i)
  BY <1>2 DEF NoSend, SendsRight
<1>3. ASSUME NEW j, j \notin Honest, ExecuteClaim(i, d, j) PROVE call' = call /\ SendsRight(i)
  BY <1>2, <1>3 DEF ExecuteClaim, Send, ClaimOf, SendsRight
<1>4. CASE \/ ExecuteEvicted(i) \/ ExecuteStop(i) \/ ExecuteWait(i) \/ ExecuteNoSecret(i)
           \/ ExecuteCannotSign(i)
  BY <1>2, <1>4 DEF ExecuteEvicted, ExecuteStop, ExecuteWait, ExecuteNoSecret, ExecuteCannotSign
<1>5. CASE ExecuteReset(i)
  BY <1>5 DEF ExecuteReset, Send, ResetOf, SendsRight
<1>6. CASE ExecuteCommit(i)
  <2>1. CachePegout(i).commitments \in Nat \cup {None}
    BY <1>0 DEF CachePegout, TypeOK, CachedPegout, KeepsCache
  <2>2. PICK x \in Nat : Send(CommitOf(i, d, x))
    <3>1. \/ Send(CommitOf(i, d, gen[i] + 1))
          \/ CachePegout(i).commitments # None /\ Send(CommitOf(i, d, CachePegout(i).commitments))
      BY <1>6 DEF ExecuteCommit, d
    <3> QED BY <1>0, <2>1, <3>1
  <2> QED BY <2>2 DEF Send, CommitOf, SendsRight
<1>7. CASE ExecuteSignClaim(i)
  <2>1. PICK j \in Undecodable(d) : ExecuteClaim(i, d, j)
    BY <1>7 DEF ExecuteSignClaim, d
  <2>2. j \notin Honest
    BY <1>0, SigningAssumption DEF Undecodable, Decodes
  <2> QED BY <1>3, <2>1, <2>2
<1>8. CASE ExecuteSign(i) \/ ExecuteSignAgain(i)
  <2>1. PICK x : Send(ShareOf(i, d, x))
    BY <1>8 DEF ExecuteSign, ExecuteSignAgain, d
  <2> QED BY <2>1 DEF Send, ShareOf, SendsRight
<1>9. CASE ExecuteAggregate(i)
  <2>1. CASE NoSend
    BY <1>2, <2>1
  <2>2. ASSUME NEW j \in InvalidShares(d), ExecuteClaim(i, d, j)
        PROVE  call' = call /\ SendsRight(i)
    <3>1. j \notin Honest
      BY <1>0 DEF InvalidShares, SharesFit
    <3> QED BY <1>3, <2>2, <3>1
  <2>3. ASSUME InvalidShares(d) = {},
               net' = net \cup {SigOf(i, d, AggregateWithTweak(d))},
               call' = [call EXCEPT ![i] = [culprit |-> CulpritBySignatureMask(i, d)]]
        PROVE  SendsSignature(i)
    <3>1. AggregateWithTweak(d) = d.commits
      BY <2>3 DEF AggregateWithTweak, InvalidShares
    <3>2. Committed(d)
      BY <1>9 DEF ExecuteAggregate, Aggregate, Aggregates, d
    <3> QED BY <2>3, <3>1, <3>2 DEF SendsSignature, d
  <2> QED BY <1>9, <2>1, <2>2, <2>3 DEF ExecuteAggregate, d
<1> QED BY <1>4, <1>5, <1>6, <1>7, <1>8, <1>9 DEF Ticks, Execute

\* A tick ends with no record in hand and nothing else of the others' moved.
LEMMA TickEnds ==
  ASSUME TypeOK, NEW i \in Honest, Ticks(i)
  PROVE  /\ i \in Idx /\ snap[i] \in Pegout /\ snap[i] # None
         /\ rec' = rec /\ attempts' = attempts /\ snap' = [snap EXCEPT ![i] = None]
         /\ snap'[i] = None
         /\ \A j \in Honest \ {i} : snap'[j] = snap[j]
<1>1. Work(i)
  BY ExecuteCache DEF Ticks
<1>2. i \in Idx /\ snap' = [snap EXCEPT ![i] = None]
  BY <1>1 DEF Honest, Work
<1>3. snap \in [Idx -> Pegout \cup {None}]
  BY DEF TypeOK
<1> QED BY <1>1, <1>2, <1>3, WorkType DEF Work, contract, Honest

LEMMA PiecesByTick ==
  ASSUME TypeOK, PiecesInv, NEW i \in Honest, Ticks(i)
  PROVE  PiecesInv'
<1>1. /\ rec' = rec
      /\ \A j \in Honest : snap'[j] = snap[j] \/ snap'[j] = None
  BY TickEnds
<1>2. \A m \in net' : m \in net \/ m.type # "Commit" \/ m.commitment \in Nat
  BY TickSends DEF SendsRight, SendsSignature, SigOf
<1> QED BY <1>1, <1>2 DEF PiecesInv, Decodes, SharesFit

LEMMA SigsByTick ==
  ASSUME TypeOK, AttemptInv, PiecesInv, SigInv, NEW i \in Honest, Ticks(i)
  PROVE  SigInv'
<1>0. /\ rec' = rec /\ attempts' = attempts /\ snap[i] # None /\ snap'[i] = None
      /\ i \in Idx /\ snap[i] \in Pegout
      /\ \A j \in Honest \ {i} : snap'[j] = snap[j]
  BY TickEnds
<1>1. RecordedSig'
  BY <1>0 DEF SigInv, RecordedSig
<1>2. \A j \in Honest : SeenSigs(j)'
  BY <1>0 DEF SigInv, SeenSigs
<1>3. ASSUME NEW j \in Honest PROVE SentSigs(j)'
  <2> SUFFICES ASSUME NEW m \in net', m.type = "Sig", m.from = j
               PROVE  /\ m.until # 0
                      /\ m.until <= attempts
                      /\ OfRecord(m) => Committed(rec) /\ m.value = rec.commits
                      /\ snap'[j] # None /\ snap'[j].expiredAt # 0 => m.until <= snap'[j].expiredAt
    BY <1>0 DEF SentSigs, OfRecord
  <2>1. CASE m \in net
    BY <1>0, <2>1 DEF SigInv, SentSigs
  <2>2. CASE m \notin net
    <3>1. /\ Committed(snap[i]) /\ m = SigOf(i, snap[i], snap[i].commits)
      BY <2>2, TickSends DEF SendsRight, SendsSignature
    <3>2. /\ j = i /\ m.until = snap[i].expiredAt /\ m.value = snap[i].commits /\ m.id = snap[i].id
      BY <3>1 DEF SigOf
    <3>3. snap[i].expiredAt # 0 /\ snap[i].expiredAt <= attempts
      BY <1>0, <3>1 DEF AttemptInv, Started
    <3>4. ASSUME OfRecord(m) PROVE Committed(rec) /\ m.value = rec.commits
      <4>1. rec.commits = snap[i].commits
        BY <1>0, <3>1, <3>2, <3>4 DEF OfRecord, AttemptInv
      <4> QED BY <3>1, <3>2, <4>1, CommittedByCommitments
    <3> QED BY <1>0, <3>2, <3>3, <3>4
  <2> QED BY <2>1, <2>2
<1> QED BY <1>1, <1>2, <1>3 DEF SigInv

LEMMA BlameByTick ==
  ASSUME TypeOK, AttemptInv, PiecesInv, SigInv, BlameInv, NEW i \in Honest, Ticks(i)
  PROVE  BlameInv'
<1>0. /\ rec' = rec /\ attempts' = attempts /\ snap[i] # None /\ snap'[i] = None
      /\ i \in Idx /\ snap[i] \in Pegout
      /\ \A j \in Honest \ {i} : snap'[j] = snap[j]
  BY TickEnds
<1>1. HonestIsNotBlamed'
  BY <1>0 DEF BlameInv, HonestIsNotBlamed
<1>2. \A m \in net' : m.type = "Claim" /\ m.from \in Honest => m.culprit \notin Honest
  BY TickSends DEF SendsRight, SendsSignature, SigOf, BlameInv
<1>3. \A m \in net' : OfRecord(m)' <=> OfRecord(m)
  BY <1>0 DEF OfRecord
<1>4. call[i] = None
  BY <1>0 DEF BlameInv, Blames
<1>5. ASSUME NEW j \in Honest, j # i PROVE Blames(j)'
  <2>1. call'[j] = call[j]
    <3>1. call \in [Idx -> Call \cup {None}] /\ j \in Idx
      BY DEF TypeOK, Honest
    <3> QED BY <1>5, <3>1, TickSends DEF SendsSignature
  <2>2. \A m \in net' : m.type = "Sig" /\ m.from = j => m \in net
    BY <1>5, TickSends DEF SendsRight, SendsSignature, SigOf
  <2>3. snap'[j] = snap[j]
    BY <1>0, <1>5
  <2> QED BY <1>0, <1>3, <2>1, <2>2, <2>3 DEF BlameInv, Blames
<1>6. Blames(i)'
  <2>1. CASE call' = call
    BY <1>0, <1>4, <2>1 DEF Blames
  <2>2. CASE SendsSignature(i)
    <3> SUFFICES ASSUME call'[i].culprit \in Honest,
                        NEW m \in net', m.type = "Sig", m.from = i, OfRecord(m)
                 PROVE  call'[i].culprit \in rec.sigs.by
      BY <1>0, <1>3 DEF Blames
    <3>1. /\ Committed(snap[i])
          /\ m \in net \/ m = SigOf(i, snap[i], snap[i].commits)
          /\ call' = [call EXCEPT ![i] = [culprit |-> CulpritBySignatureMask(i, snap[i])]]
      BY <2>2 DEF SendsSignature
    <3>2. call'[i].culprit = CulpritBySignatureMask(i, snap[i])
      BY <1>0, <3>1 DEF TypeOK
    <3>3. call'[i].culprit \in snap[i].sigs.by
      <4>1. CulpritBySignatureMask(i, snap[i]) # None
        BY <3>2, SigningAssumption DEF Honest
      <4> QED BY <1>0, <3>2, <4>1, CulpritHasSigned
    <3>4. snap[i].expiredAt \in Nat \ {0} /\ snap[i].expiredAt <= attempts
      BY <1>0, <3>1 DEF AttemptInv, Started, Pegout
    <3>5. rec.expiredAt = snap[i].expiredAt
      <4>1. CASE m \in net
        <5>1. m.until # 0 /\ m.until <= snap[i].expiredAt /\ m.until \in Nat
          BY <1>0, <3>4, <4>1, MsgType DEF SigInv, SentSigs
        <5>2. rec.expiredAt = m.until /\ rec.expiredAt \in {0, attempts}
          BY DEF OfRecord, SigInv, RecordedSig
        <5>3. attempts \in Nat
          BY DEF TypeOK
        <5> QED BY <3>4, <5>1, <5>2, <5>3
      <4>2. CASE m = SigOf(i, snap[i], snap[i].commits)
        BY <4>2 DEF SigOf, OfRecord
      <4> QED BY <3>1, <4>1, <4>2
    <3>6. snap[i].sigs.by \subseteq rec.sigs.by
      BY <1>0, <3>1, <3>5 DEF SigInv, SeenSigs, OfRecord
    <3> QED BY <3>3, <3>6
  <2> QED BY <2>1, <2>2, TickSends
<1> QED BY <1>1, <1>2, <1>5, <1>6 DEF BlameInv

\* Reading the record, returning and failing send nothing but the claim of
\* sendClaimBySignatureMask.
LEMMA QuietSends ==
  ASSUME TypeOK, QuietStep
  PROVE  /\ \A j \in Honest :
              /\ call'[j] = call[j] \/ call'[j] = None
              /\ \/ snap'[j] \in {snap[j], None}
                 \/ snap'[j] = rec /\ rec # None /\ call'[j] = None
         /\ \A m \in net' :
              \/ m \in net
              \/ \E i \in Honest : \E k \in net :
                   /\ call[i] # None /\ call[i].culprit # None
                   /\ m = ClaimOf(i, rec, call[i].culprit)
                   /\ k.type = "Sig" /\ k.from = i /\ OfRecord(k)
                   /\ rec.sigs.value \notin {None, k.value}
<1>0. Honest \subseteq Idx /\ snap \in [Idx -> Pegout \cup {None}] /\ call \in [Idx -> Call \cup {None}]
  BY DEF TypeOK, Honest
<1>1. CASE TimePasses \/ UNCHANGED vars
  BY <1>1 DEF TimePasses, contract, oracles, vars
<1>2. ASSUME NEW i \in Honest, Read(i)
      PROVE  /\ net' = net /\ call' = call /\ call[i] = None /\ rec # None
             /\ snap' = [snap EXCEPT ![i] = rec]
  BY <1>2 DEF Read
<1>3. ASSUME NEW i \in Honest, NoRequests(i) \/ Return(i) \/ Crash(i)
      PROVE  /\ net' = net
             /\ call' = call \/ call' = [call EXCEPT ![i] = None]
             /\ snap' = snap \/ snap' = [snap EXCEPT ![i] = None]
  BY <1>3 DEF NoRequests, Return, Crash, vars
<1>4. ASSUME NEW i \in Honest, ReturnDifferentSignatures(i)
      PROVE  /\ call' = [call EXCEPT ![i] = None]
             /\ snap' = snap
             /\ \A m \in net' :
                  \/ m \in net
                  \/ \E k \in net :
                       /\ call[i] # None /\ call[i].culprit # None
                       /\ m = ClaimOf(i, rec, call[i].culprit)
                       /\ k.type = "Sig" /\ k.from = i /\ OfRecord(k)
                       /\ rec.sigs.value \notin {None, k.value}
  BY <1>4 DEF ReturnDifferentSignatures, OfRecord
<1> QED BY <1>0, <1>1, <1>2, <1>3, <1>4 DEF QuietStep

LEMMA PiecesByQuietStep ==
  ASSUME TypeOK, ShareInv, PiecesInv, QuietStep
  PROVE  PiecesInv'
<1>1. SharesFit(rec)
  BY DEF SharesFit, ShareInv, ShareIsOfRecord
<1>2. rec' = rec /\ \A m \in net' : m \in net \/ m.type = "Claim"
  BY QuietStepKeeps
<1>3. \A j \in Honest : snap'[j] = snap[j] \/ snap'[j] = None \/ snap'[j] = rec
  BY QuietStepKeeps
<1>4. ASSUME NEW j \in Honest PROVE Decodes(snap'[j]) /\ SharesFit(snap'[j])
  <2>1. CASE snap'[j] = snap[j]
    BY <2>1 DEF PiecesInv
  <2>2. CASE snap'[j] = None
    BY <2>2 DEF Decodes, SharesFit
  <2>3. CASE snap'[j] = rec
    BY <1>1, <2>3 DEF PiecesInv
  <2> QED BY <1>3, <2>1, <2>2, <2>3
<1> QED BY <1>2, <1>4 DEF PiecesInv

LEMMA SigsByQuietStep ==
  ASSUME TypeOK, AttemptInv, SigInv, QuietStep
  PROVE  SigInv'
<1>0. /\ rec' = rec /\ attempts' = attempts
      /\ \A m \in net' : m \in net \/ m.type = "Claim"
      /\ \A j \in Honest : snap'[j] = snap[j] \/ snap'[j] = None \/ snap'[j] = rec
  BY QuietStepKeeps
<1>1. RecordedSig'
  BY <1>0 DEF SigInv, RecordedSig
<1>2. \A j \in Honest : SeenSigs(j)'
  BY <1>0 DEF SigInv, SeenSigs
<1>3. ASSUME NEW j \in Honest PROVE SentSigs(j)'
  <2> SUFFICES ASSUME NEW m \in net, m.type = "Sig", m.from = j
               PROVE  /\ m.until # 0
                      /\ m.until <= attempts
                      /\ OfRecord(m) => Committed(rec) /\ m.value = rec.commits
                      /\ snap'[j] # None /\ snap'[j].expiredAt # 0 => m.until <= snap'[j].expiredAt
    BY <1>0 DEF SentSigs, OfRecord
  <2>1. /\ m.until # 0
        /\ m.until <= attempts
        /\ OfRecord(m) => Committed(rec) /\ m.value = rec.commits
        /\ snap[j] # None /\ snap[j].expiredAt # 0 => m.until <= snap[j].expiredAt
    BY DEF SigInv, SentSigs
  <2>2. rec # None => rec.expiredAt \in {0, attempts}
    BY DEF SigInv, RecordedSig
  <2> QED BY <1>0, <2>1, <2>2
<1> QED BY <1>1, <1>2, <1>3 DEF SigInv

LEMMA BlameByQuietStep ==
  ASSUME TypeOK, AttemptInv, SigInv, BlameInv, QuietStep
  PROVE  BlameInv'
<1>0. /\ rec' = rec /\ attempts' = attempts
      /\ \A m \in net' : m \in net \/ m.type = "Claim"
  BY QuietStepKeeps
<1>1. HonestIsNotBlamed'
  BY <1>0 DEF BlameInv, HonestIsNotBlamed
<1>2. ASSUME NEW m \in net', m.type = "Claim", m.from \in Honest PROVE m.culprit \notin Honest
  <2>1. CASE m \in net
    BY <1>2, <2>1 DEF BlameInv
  <2>2. ASSUME NEW i \in Honest, NEW k \in net,
               call[i] # None, m = ClaimOf(i, rec, call[i].culprit),
               k.type = "Sig", k.from = i, OfRecord(k),
               rec.sigs.value \notin {None, k.value}, m.culprit \in Honest
        PROVE  FALSE
    <3>1. m.culprit = call[i].culprit
      BY <2>2 DEF ClaimOf
    <3>2. m.culprit \in rec.sigs.by /\ rec # None
      BY <2>2, <3>1 DEF BlameInv, Blames, OfRecord
    <3>3. rec.sigs.value = rec.commits
      BY <2>2, <3>2 DEF SigInv, RecordedSig
    <3>4. k.value = rec.commits
      BY <2>2 DEF SigInv, SentSigs
    <3> QED BY <2>2, <3>3, <3>4
  <2> QED BY <2>1, <2>2, QuietSends
<1>3. ASSUME NEW j \in Honest PROVE Blames(j)'
  <2>1. \A m \in net' : m.type = "Sig" => m \in net
    BY <1>0
  <2>2. \A m : OfRecord(m)' <=> OfRecord(m)
    BY <1>0 DEF OfRecord
  <2>3. /\ call'[j] = call[j] \/ call'[j] = None
        /\ snap'[j] = snap[j] \/ snap'[j] = None \/ call'[j] = None
    BY QuietSends
  <2> QED BY <1>0, <2>1, <2>2, <2>3 DEF BlameInv, Blames
<1> QED BY <1>0, <1>1, <1>2, <1>3 DEF BlameInv

\* The whole inductive invariant of signing.
SigningInv == TypeOK /\ AttemptInv /\ ShareInv /\ PiecesInv /\ SigInv /\ BlameInv

LEMMA SigningStep == SigningInv /\ [Next]_vars => SigningInv'
<1> SUFFICES ASSUME SigningInv, [Next]_vars PROVE SigningInv'
  OBVIOUS
<1>0. /\ TypeOK /\ AttemptInv /\ ShareInv /\ PiecesInv /\ SigInv /\ BlameInv
      /\ TypeOK' /\ AttemptInv' /\ ShareInv'
  BY NextType, AttemptsNext, SharesNext DEF SigningInv
<1>1. CASE ContractMoves
  BY <1>0, <1>1, PiecesByContract, SigsByContract, BlameByContract DEF SigningInv
<1>2. CASE \E i \in Honest : Ticks(i)
  BY <1>0, <1>2, PiecesByTick, SigsByTick, BlameByTick DEF SigningInv
<1>3. CASE QuietStep
  BY <1>0, <1>3, PiecesByQuietStep, SigsByQuietStep, BlameByQuietStep DEF SigningInv
<1> QED BY <1>1, <1>2, <1>3, Steps

LEMMA SigningAlways == Spec => []SigningInv
<1>1. Init => SigningInv
  BY InitType, AttemptsInit, SharesInit, PiecesInit DEF SigningInv
<1> QED BY <1>1, SigningStep, PTL DEF Spec

\* HonestIsNotBlamed: an honest oracle never files a claim against an honest one,
\* whatever was lost in restarts, delayed, or read too early.
THEOREM HonestNeverBlamed == Spec => []HonestIsNotBlamed
<1>1. SigningInv => HonestIsNotBlamed
  BY DEF SigningInv, BlameInv
<1> QED BY <1>1, SigningAlways, PTL

\* The signature that completes a pegout comes with that of an honest oracle.
LEMMA LastSignature ==
  ASSUME SigningInv, [Next]_vars, rec # None, rec' = None, Cardinality(Faulty) < MinSigners
  PROVE  rec.sigs.value = rec.commits
<1>0. TypeOK /\ SigInv /\ RecordedSig /\ rec \in Pegout
  BY DEF SigningInv, SigInv, TypeOK
<1>1. ContractMoves
  <2>1. (\E i \in Honest : Ticks(i)) => rec' = rec
    BY <1>0, TickEnds
  <2>2. QuietStep => rec' = rec
    BY <1>0, QuietStepKeeps
  <2> QED BY <2>1, <2>2, Steps
<1>2. PICK m \in Msg : Accept(m) /\ (m.from \in Honest => m \in net)
  BY <1>0, <1>1, ContractAccepts
<1> DEFINE by == rec.sigs.by \cup {m.from}
<1>3. m.type = "Sig" /\ Cardinality(by) >= MinSigners
  BY <1>0, <1>2, AcceptType, NilAssumption
<1>4. by \subseteq Idx /\ m.from \in Idx
  BY <1>0 DEF Pegout, Msg, CommitMsg, ShareMsg, SigMsg, ClaimMsg, ResetMsg
<1> HIDE DEF by
<1>5. PICK j \in by : j \in Honest
  <2>1. ASSUME by \subseteq Faulty PROVE FALSE
    <3>1. IsFiniteSet(Faulty)
      BY FS_Subset, SigningAssumption
    <3>2. Cardinality(by) <= Cardinality(Faulty) /\ IsFiniteSet(by)
      BY <2>1, <3>1, FS_Subset
    <3>3. Cardinality(by) \in Nat /\ Cardinality(Faulty) \in Nat /\ MinSigners \in Nat
      BY <3>1, <3>2, FS_CardinalityType, MinSignersType
    <3> QED BY <1>3, <3>2, <3>3
  <2> QED BY <1>4, <2>1 DEF Honest
<1>6. CASE j \in rec.sigs.by
  BY <1>0, <1>5, <1>6 DEF RecordedSig
<1>7. CASE j \notin rec.sigs.by
  <2>1. j = m.from
    BY <1>5, <1>7 DEF by
  <2>2. OfRecord(m) /\ rec.sigs.value \in {None, m.value}
    BY <1>2, <1>3 DEF Accept, CanAccept, OfRecord
  <2>3. m.value = rec.commits
    BY <1>0, <1>2, <1>3, <1>5, <2>1, <2>2 DEF SigInv, SentSigs
  <2>4. rec.sigs.by # {}
    <3>1. ASSUME rec.sigs.by = {} PROVE FALSE
      <4>1. by = {m.from}
        BY <3>1 DEF by
      <4>2. Cardinality(by) = 1
        BY <4>1, FS_Singleton
      <4> QED BY <1>3, <4>2, MinSignersType
    <3> QED BY <3>1
  <2>5. rec.sigs.value # None
    BY <1>0, <2>4 DEF RecordedSig
  <2> QED BY <2>2, <2>3, <2>5
<1> QED BY <1>6, <1>7

\* SignedIsValid: a pegout leaves the list with a signature that verifies, if the
\* faulty oracles alone are too few to complete one.
THEOREM SignedPegoutsAreValid == Spec => SignedIsValid
<1>1. SigningInv /\ [Next]_vars
        => [rec # None /\ rec' = None /\ Cardinality(Faulty) < MinSigners
              => rec.sigs.value = rec.commits]_vars
  BY LastSignature
<1> QED BY <1>1, SigningAlways, PTL DEF Spec, SignedIsValid
=============================================================================
