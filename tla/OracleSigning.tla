---------------------------- MODULE OracleSigning ----------------------------
(***************************************************************************)
(* Pegout signing as the oracles run it: the ticker goroutine of every      *)
(* oracle (oracle/internal/signing), its cached pegout, the temp/ directory *)
(* of its keystore, and the Coordinator's record of the one pegout that is  *)
(* to be signed next.  The contract's code is not in the repository: its    *)
(* actions are written from the exit codes and getters the oracle handles   *)
(* and from the test's mock, and are marked external in the map.            *)
(*                                                                          *)
(* A pegout has one input.  A nonce is a fresh number of its oracle and the *)
(* commitment to it is the same number.  A signature share says which nonce *)
(* it was computed with, for which pegout and over which commitments.  A    *)
(* signature is the commitments it was aggregated over, if every share      *)
(* fits.                                                                    *)
(***************************************************************************)
EXTENDS Naturals, FiniteSets

CONSTANTS Idx,           \* indices of the validators of the previous DKG
          Faulty,        \* the oracles among them that send wrong pieces
          Unstable,      \* the oracles whose process may be restarted
          Masks,         \* bound: the signing masks the contract may choose
          MaxPegouts,    \* bound: number of pegouts
          MaxAttempts,   \* bound: number of values of ExpiredAt, all pegouts
          MaxCrashes,    \* bound: number of process restarts, all oracles
          ZeroOnReset,   \* whether a reset may leave ExpiredAt unset
          StoreMayFail,  \* whether keystore.StoreSigningShares may fail
          None,          \* nil, no entry
          Garbage,       \* bytes of the right length that do not decode
          Unparsable     \* bytes of the wrong length

ASSUME SigningAssumption ==
  /\ Idx \subseteq Nat
  /\ IsFiniteSet(Idx)
  /\ Faulty \subseteq Idx
  /\ Unstable \subseteq Idx
  /\ Masks \subseteq SUBSET Idx
  /\ MaxPegouts \in Nat
  /\ MaxAttempts \in Nat
  /\ MaxCrashes \in Nat
  /\ ZeroOnReset \in BOOLEAN
  /\ StoreMayFail \in BOOLEAN
  /\ None \notin Nat
  /\ Garbage \notin Nat \cup {None}
  /\ Unparsable # None

VARIABLES
  rec,        \* the pegout the Coordinator expects to be signed, or None
  pegouts,    \* how many pegouts there have been
  attempts,   \* how many values of ExpiredAt have been given out
  clock,      \* the latest ExpiredAt that has passed
  net,        \* external messages sent that may still be accepted
  snap,       \* snap[i]: the record i's ticker works on, or None
  call,       \* call[i]: SendSignatures is under way, and whom i would blame
  cache,      \* cache[i]: SignService.cachedPegout, or None
  temp,       \* temp[i]: the keystore's temp/ directory, a share per pegout
  gen,        \* gen[i]: how many nonces i has drawn
  used,       \* used[i]: history, the shares i has computed
  crashes,    \* process restarts so far
  lost        \* lost[i]: history, the attempts whose nonces i lost in a restart

contract == <<rec, pegouts, attempts>>
history == <<crashes, lost>>
vars == <<contract, clock, net, snap, call, cache, temp, gen, used, history>>

-----------------------------------------------------------------------------
(* The pegout record, the messages and the oracle's memory.                 *)

Honest == Idx \ Faulty
Ids == 1 .. MaxPegouts

Commitments == [Idx -> Nat \cup {Garbage, Unparsable, None}]
Share == [nonce : Nat, id : Nat, commits : Commitments]
Signature == Commitments \cup {Garbage}

NoneYet == [i \in Idx |-> None]
NoShares == [p \in Ids |-> None]

Pegout ==
  [id : Ids,
   expiredAt : Nat,                                  \* 0: not started yet
   mask : SUBSET Idx,                                \* SigningMask
   commits : Commitments,                            \* Commitments
   other : SUBSET Idx,                               \* CommitmentsMaskOther
   shares : [Idx -> Share \cup {Garbage, None}],     \* SigningShares
   sigs : [by : SUBSET Idx, value : Signature \cup {None}],   \* Signatures
   claims : [Idx -> Idx \cup {None}]]                \* ClaimsMask

NewPegoutRecord(p, e, m) ==
  [id |-> p, expiredAt |-> e, mask |-> m, commits |-> NoneYet, other |-> {},
   shares |-> NoneYet, sigs |-> [by |-> {}, value |-> None], claims |-> NoneYet]

\* helpers.CalcMinSigners of the DKG's MaxSigners; the contract's threshold for
\* commitments, shares and signatures is taken to be the same.
CalcMinSigners(n) == IF (2 * n) \div 3 > 2 THEN (2 * n) \div 3 ELSE 2
MinSigners == CalcMinSigners(Cardinality(Idx))

CommitmentsCount(d) == Cardinality({i \in Idx : d.commits[i] # None})
SigningSharesCount(d) == Cardinality({i \in Idx : d.shares[i] # None})
Committed(d) == CommitmentsCount(d) >= MinSigners
Shared(d) == SigningSharesCount(d) >= MinSigners

HighestIdx(S) == CHOOSE i \in S : \A j \in S : j <= i

\* until is the ExpiredAt the sender read; Reset carries none.
CommitMsg == [type : {"Commit"}, from : Idx, id : Ids, until : Nat,
              commitment : Nat \cup {Garbage, Unparsable}]
ShareMsg == [type : {"Share"}, from : Idx, id : Ids, until : Nat,
             share : Share \cup {Garbage}]
SigMsg == [type : {"Sig"}, from : Idx, id : Ids, until : Nat, value : Signature]
ClaimMsg == [type : {"Claim"}, from : Idx, id : Ids, until : Nat, culprit : Idx]
ResetMsg == [type : {"Reset"}, from : Idx, id : Ids, until : {0}]
Msg == CommitMsg \cup ShareMsg \cup SigMsg \cup ClaimMsg \cup ResetMsg

CommitOf(i, d, x) == [type |-> "Commit", from |-> i, id |-> d.id,
                      until |-> d.expiredAt, commitment |-> x]
ShareOf(i, d, x) == [type |-> "Share", from |-> i, id |-> d.id,
                     until |-> d.expiredAt, share |-> x]
SigOf(i, d, x) == [type |-> "Sig", from |-> i, id |-> d.id,
                   until |-> d.expiredAt, value |-> x]
ClaimOf(i, d, j) == [type |-> "Claim", from |-> i, id |-> d.id,
                     until |-> d.expiredAt, culprit |-> j]
ResetOf(i, d) == [type |-> "Reset", from |-> i, id |-> d.id, until |-> 0]

CachedPegout == [id : Ids, expiredAt : Nat, nonces : Nat \cup {None},
                 commitments : Nat \cup {None}]
Call == [culprit : Idx \cup {None}]

\* nil is no record and no list of commitments.
ASSUME NilAssumption ==
  /\ None \notin Pegout
  /\ None \notin Share
  /\ None \notin CachedPegout
  /\ None \notin Commitments

Init ==
  /\ rec = None
  /\ pegouts = 0
  /\ attempts = 0
  /\ clock = 0
  /\ net = {}
  /\ snap = NoneYet
  /\ call = NoneYet
  /\ cache = NoneYet
  /\ temp = [i \in Idx |-> NoShares]
  /\ gen = [i \in Idx |-> 0]
  /\ used = [i \in Idx |-> {}]
  /\ crashes = 0
  /\ lost = [i \in Idx |-> {}]

-----------------------------------------------------------------------------
(* The Coordinator contract (external).                                     *)

oracles == <<snap, call, cache, temp, gen, used, history>>

\* A pegout becomes the oldest unsigned one, before its ExpiredAt is set.
NewPegout ==
  /\ rec = None
  /\ pegouts < MaxPegouts
  /\ attempts < MaxAttempts
  /\ pegouts' = pegouts + 1
  /\ \E m \in Masks :
       /\ Cardinality(m) >= MinSigners
       /\ rec' = NewPegoutRecord(pegouts + 1, 0, m)
  /\ UNCHANGED <<attempts, clock, net, oracles>>

\* Go: ExpiredAt != time.Unix(0, 0) && ExpiredAt.Before(time.Now()).
Expired(d) == d.expiredAt # 0 /\ d.expiredAt <= clock

\* Codes 135 and 171 (pegout), 161 (unauthorized), 166 (not expired), 180
\* (timestamp), 114, 117, 160 (there already) and 168 (another signature).
CanAccept(m) ==
  /\ rec # None
  /\ m.id = rec.id
  /\ m.from \in rec.mask
  /\ \/ m.type = "Reset" /\ Expired(rec)
     \/ /\ m.type = "Commit" /\ m.until = rec.expiredAt
        /\ rec.commits[m.from] = None /\ m.from \notin rec.other
     \/ /\ m.type = "Share" /\ m.until = rec.expiredAt
        /\ Committed(rec)
        /\ rec.commits[m.from] # None /\ rec.shares[m.from] = None
     \/ /\ m.type = "Sig" /\ m.until = rec.expiredAt
        /\ Shared(rec)
        /\ rec.commits[m.from] # None /\ m.from \notin rec.sigs.by
        /\ rec.sigs.value \in {None, m.value}
     \/ /\ m.type = "Claim" /\ m.until = rec.expiredAt
        /\ rec.claims[m.from] = None

\* Signing starts over with some of the validators in S.
Restart(S) ==
  /\ attempts < MaxAttempts
  /\ \E m \in Masks :
       /\ m \subseteq S
       /\ Cardinality(m) >= MinSigners
       /\ \/ /\ rec' = NewPegoutRecord(rec.id, attempts + 1, m)
             /\ attempts' = attempts + 1
          \/ /\ ZeroOnReset
             /\ rec' = NewPegoutRecord(rec.id, 0, m)
             /\ UNCHANGED attempts

\* The first commitment starts the clock; one beyond the threshold is noted.
AcceptCommit(m) ==
  \/ /\ Committed(rec)
     /\ rec' = [rec EXCEPT !.other = @ \cup {m.from}]
     /\ UNCHANGED attempts
  \/ /\ ~Committed(rec)
     /\ rec.expiredAt # 0
     /\ rec' = [rec EXCEPT !.commits[m.from] = m.commitment]
     /\ UNCHANGED attempts
  \/ /\ ~Committed(rec)
     /\ rec.expiredAt = 0
     /\ rec' = [rec EXCEPT !.commits[m.from] = m.commitment,
                           !.expiredAt = attempts + 1]
     /\ attempts' = attempts + 1

\* With the last signature the pegout leaves the list.
AcceptSig(m) ==
  LET by == rec.sigs.by \cup {m.from}
  IN /\ rec' = IF Cardinality(by) >= MinSigners THEN None
               ELSE [rec EXCEPT !.sigs = [by |-> by, value |-> m.value]]
     /\ UNCHANGED attempts

\* A claim is recorded, or is one too many for its culprit.
AcceptClaim(m) ==
  \/ /\ rec' = [rec EXCEPT !.claims[m.from] = m.culprit]
     /\ UNCHANGED attempts
  \/ Restart(Idx \ {m.culprit})

Accept(m) ==
  /\ CanAccept(m)
  /\ \/ m.type = "Commit" /\ AcceptCommit(m)
     \/ /\ m.type = "Share"
        /\ rec' = [rec EXCEPT !.shares[m.from] = m.share]
        /\ UNCHANGED attempts
     \/ m.type = "Sig" /\ AcceptSig(m)
     \/ m.type = "Claim" /\ AcceptClaim(m)
     \/ m.type = "Reset" /\ Restart(Idx)
  /\ UNCHANGED <<pegouts, clock, oracles>>

\* Messages of an earlier pegout or attempt are refused from now on.
Live(S) ==
  {m \in S : rec' # None /\ m.id = rec'.id /\ m.until \in {0, rec'.expiredAt}}

\* A message is applied at any time after it was sent or never, also when its
\* sender has stopped waiting for it or has been restarted; a copy of it, sent
\* by a later tick, may follow.
Deliver(m) ==
  /\ m \in net
  /\ Accept(m)
  /\ net' = Live(net)

TimePasses ==
  /\ clock < attempts
  /\ attempts < MaxAttempts
  /\ clock' = attempts
  /\ UNCHANGED <<contract, net, oracles>>

\* What a faulty oracle may store: commitments, shares and signatures of its
\* own that are right, or do not decode, or do not fit.
FaultyMsgs(i) ==
  LET shares == [nonce : {rec.commits[i]} \cap Nat, id : {rec.id},
                 commits : {rec.commits}]
  IN {CommitOf(i, rec, x) : x \in {1, Garbage, Unparsable}}
     \cup {ShareOf(i, rec, x) : x \in shares \cup {Garbage}}
     \cup {SigOf(i, rec, x) : x \in {rec.commits, Garbage}}

FaultySend(i) ==
  /\ rec # None
  /\ \E m \in FaultyMsgs(i) : Accept(m)
  /\ net' = Live(net)

-----------------------------------------------------------------------------
(* ExecuteSign.                                                             *)

\* The ticker fires and GetUnsignedPegouts returns a pegout; meanwhile other
\* oracles and the contract move on.
Read(i) ==
  /\ call[i] = None
  /\ snap[i] = None
  /\ rec # None
  /\ snap' = [snap EXCEPT ![i] = rec]
  /\ UNCHANGED <<contract, clock, net, call, cache, temp, gen, used, history>>

\* GetUnsignedPegouts returns an empty list.
NoRequests(i) ==
  /\ rec = None
  /\ snap[i] = None
  /\ UNCHANGED vars

Work(i) ==
  /\ snap[i] # None
  /\ snap' = [snap EXCEPT ![i] = None]
  /\ UNCHANGED <<contract, clock, history>>

\* What a send returns is only logged, but for SendSignatures.
Send(m) ==
  /\ net' = net \cup {m}
  /\ UNCHANGED call

NoSend == UNCHANGED <<net, call>>

\* executeClaim: one claim per oracle and attempt, as far as the record says.
ExecuteClaim(i, d, culprit) ==
  IF d.claims[i] # None THEN NoSend ELSE Send(ClaimOf(i, d, culprit))

\* The signing mask has no bit for this oracle.
ExecuteEvicted(i) ==
  /\ Work(i)
  /\ i \notin snap[i].mask
  /\ NoSend
  /\ UNCHANGED <<cache, temp, gen, used>>

\* No session key for this DKG is found, or the pegout contract does not answer
\* when the pegout is to be cached.
ExecuteStop(i) ==
  /\ Work(i)
  /\ NoSend
  /\ UNCHANGED <<cache, temp, gen, used>>

\* executeResetPegoutSigning, cachePegoutClear.
ExecuteReset(i) ==
  /\ Work(i)
  /\ i \in snap[i].mask
  /\ Expired(snap[i])
  /\ cache' = [cache EXCEPT ![i] = None]
  /\ Send(ResetOf(i, snap[i]))
  /\ UNCHANGED <<temp, gen, used>>

\* For mutants: a change of ExpiredAt goes unnoticed.
KeepsCacheById(i) == cache[i] # None /\ cache[i].id = snap[i].id

\* cachePegout finds the pegout of the last tick, and its ExpiredAt has not
\* moved since it was first seen: nonces, commitments and shares are kept.
KeepsCache(i) ==
  /\ cache[i] # None
  /\ cache[i].id = snap[i].id
  /\ cache[i].expiredAt \in {0, snap[i].expiredAt}

\* Mutants: nothing or only the nonces are dropped; temp/ is not emptied.
CachePegoutKeepsNonces(i) ==
  [id |-> snap[i].id,
   expiredAt |-> snap[i].expiredAt,
   nonces |-> IF KeepsCacheById(i) THEN cache[i].nonces ELSE None,
   commitments |-> IF KeepsCacheById(i) THEN cache[i].commitments ELSE None]
CachePegoutKeepsCommitments(i) ==
  [id |-> snap[i].id,
   expiredAt |-> snap[i].expiredAt,
   nonces |-> IF KeepsCache(i) THEN cache[i].nonces ELSE None,
   commitments |-> IF KeepsCacheById(i) THEN cache[i].commitments ELSE None]
KeptSharesAlways(i) == temp[i]

\* The cached pegout after cachePegout, and the temp/ directory, which Cleanup
\* has emptied unless the cached pegout was kept.
CachePegout(i) ==
  [id |-> snap[i].id,
   expiredAt |-> snap[i].expiredAt,
   nonces |-> IF KeepsCache(i) THEN cache[i].nonces ELSE None,
   commitments |-> IF KeepsCache(i) THEN cache[i].commitments ELSE None]
KeptShares(i) == IF KeepsCache(i) THEN temp[i] ELSE NoShares

\* execute up to the signing steps.
Enter(i) ==
  /\ Work(i)
  /\ i \in snap[i].mask
  /\ ~Expired(snap[i])

\* The steps leave the cached pegout c and the shares t in temp/.
Leave(i, c, t) ==
  /\ cache' = [cache EXCEPT ![i] = c]
  /\ temp' = [temp EXCEPT ![i] = t]

OwesCommitment(i, d) == d.commits[i] = None /\ i \notin d.other
OwesShare(i, d) == d.commits[i] # None /\ Committed(d) /\ d.shares[i] = None
Aggregates(i, d) ==
  d.commits[i] # None /\ Committed(d) /\ d.shares[i] # None /\ Shared(d)

\* doCommit, doSign: other oracles have to go first, or came first.
ExecuteWait(i) ==
  LET d == snap[i]
  IN /\ Enter(i)
     /\ ~OwesCommitment(i, d) /\ ~OwesShare(i, d) /\ ~Aggregates(i, d)
     /\ Leave(i, CachePegout(i), KeptShares(i))
     /\ NoSend
     /\ UNCHANGED <<gen, used>>

\* doCommit: nonces are drawn once and their commitments sent until they are on
\* record.
ExecuteCommit(i) ==
  LET c == CachePegout(i)
      n == gen[i] + 1
  IN /\ Enter(i)
     /\ OwesCommitment(i, snap[i])
     /\ \/ /\ c.nonces = None /\ c.commitments = None
           /\ Leave(i, [c EXCEPT !.nonces = n, !.commitments = n], KeptShares(i))
           /\ gen' = [gen EXCEPT ![i] = n]
           /\ Send(CommitOf(i, snap[i], n))
        \/ /\ c.nonces # None /\ c.commitments # None
           /\ Leave(i, c, KeptShares(i))
           /\ UNCHANGED gen
           /\ Send(CommitOf(i, snap[i], c.commitments))
     /\ UNCHANGED used

\* doCommit or doSign needs the secret package and the keystore does not load
\* it, or FROST fails without a culprit.
ExecuteNoSecret(i) ==
  /\ Enter(i)
  /\ \/ OwesCommitment(i, snap[i]) /\ CachePegout(i).nonces = None
     \/ OwesShare(i, snap[i]) /\ KeptShares(i)[snap[i].id] = None
  /\ Leave(i, CachePegout(i), KeptShares(i))
  /\ NoSend
  /\ UNCHANGED <<gen, used>>

\* SignInput: commitments of the wrong length, no nonces since a restart, or a
\* recorded commitment of this oracle's that is not to the nonces it holds.
\* Commitments that do not decode are found before the last of these.
Undecodable(d) == {j \in Idx : d.commits[j] = Garbage}
ExecuteCannotSign(i) ==
  LET d == snap[i]
      c == CachePegout(i)
  IN /\ Enter(i)
     /\ OwesShare(i, d)
     /\ KeptShares(i)[d.id] = None
     /\ \/ \E j \in Idx : d.commits[j] = Unparsable
        \/ c.nonces = None
        \/ Undecodable(d) = {} /\ d.commits[i] # c.nonces
     /\ Leave(i, c, KeptShares(i))
     /\ NoSend
     /\ UNCHANGED <<gen, used>>

\* SignInput: frost.SignWithTweak names the owner of a commitment that does not
\* decode, in the order of a Go map.
ExecuteSignClaim(i) ==
  LET d == snap[i]
      c == CachePegout(i)
  IN /\ Enter(i)
     /\ OwesShare(i, d)
     /\ KeptShares(i)[d.id] = None
     /\ \A j \in Idx : d.commits[j] # Unparsable
     /\ c.nonces # None
     /\ Leave(i, c, KeptShares(i))
     /\ \E j \in Undecodable(d) : ExecuteClaim(i, d, j)
     /\ UNCHANGED <<gen, used>>

\* doSign: the share is computed, stored (an error is ignored) and sent.
ExecuteSign(i) ==
  LET d == snap[i]
      c == CachePegout(i)
      s == [nonce |-> c.nonces, id |-> d.id, commits |-> d.commits]
  IN /\ Enter(i)
     /\ OwesShare(i, d)
     /\ KeptShares(i)[d.id] = None
     /\ \A j \in Idx : d.commits[j] \notin {Unparsable, Garbage}
     /\ c.nonces # None /\ d.commits[i] = c.nonces
     /\ \/ Leave(i, c, [KeptShares(i) EXCEPT ![d.id] = s])
        \/ StoreMayFail /\ Leave(i, c, KeptShares(i))
     /\ used' = [used EXCEPT ![i] = @ \cup {s}]
     /\ Send(ShareOf(i, d, s))
     /\ UNCHANGED gen

\* doSign: the share in temp/ is sent again.
ExecuteSignAgain(i) ==
  LET s == KeptShares(i)[snap[i].id]
  IN /\ Enter(i)
     /\ OwesShare(i, snap[i])
     /\ s # None
     /\ Leave(i, CachePegout(i), KeptShares(i))
     /\ Send(ShareOf(i, snap[i], s))
     /\ UNCHANGED <<gen, used>>

\* frost.AggregateWithTweak: shares that do not decode or do not verify.
FittingShare(d, j) ==
  [nonce |-> d.commits[j], id |-> d.id, commits |-> d.commits]
\* Mutant: the shares are not looked at.
NoInvalidShares(d) == {}

InvalidShares(d) ==
  {j \in Idx : d.shares[j] \notin {None, FittingShare(d, j)}}
AggregateWithTweak(d) ==
  IF \A j \in Idx : d.shares[j] \in {None, FittingShare(d, j)}
    THEN d.commits ELSE Garbage

\* doAggregate from cleanupNonces on.
Aggregate(i) ==
  /\ Enter(i)
  /\ Aggregates(i, snap[i])
  /\ Leave(i, [CachePegout(i) EXCEPT !.nonces = None], KeptShares(i))
  /\ UNCHANGED <<gen, used>>

\* Mutants: bit 0 is taken for no bit, or the commitments' mask for the
\* signatures'.
CulpritAboveZero(i, d) ==
  IF d.claims[i] # None \/ d.sigs.by \subseteq {0} THEN None
  ELSE HighestIdx(d.sigs.by)
CulpritByCommitments(i, d) ==
  IF d.claims[i] # None \/ d.sigs.by = {} THEN None
  ELSE HighestIdx({j \in Idx : d.commits[j] # None})

\* sendClaimBySignatureMask: whom a refused signature will be blamed on.
CulpritBySignatureMask(i, d) ==
  IF d.claims[i] # None \/ d.sigs.by = {} THEN None ELSE HighestIdx(d.sigs.by)

ExecuteAggregate(i) ==
  LET d == snap[i]
  IN /\ Aggregate(i)
     /\ \/ i \in d.sigs.by /\ NoSend
        \/ /\ i \notin d.sigs.by
           /\ InvalidShares(d) # {}
           /\ \E j \in InvalidShares(d) : ExecuteClaim(i, d, j)
        \/ /\ i \notin d.sigs.by
           /\ InvalidShares(d) = {}
           /\ net' = net \cup {SigOf(i, d, AggregateWithTweak(d))}
           /\ call' = [call EXCEPT ![i] =
                         [culprit |-> CulpritBySignatureMask(i, d)]]

\* ExecuteSign when the getters and the keystore answer.
Execute(i) ==
  \/ ExecuteEvicted(i)
  \/ ExecuteReset(i)
  \/ ExecuteWait(i)
  \/ ExecuteCommit(i)
  \/ ExecuteCannotSign(i)
  \/ ExecuteSignClaim(i)
  \/ ExecuteSign(i)
  \/ ExecuteSignAgain(i)
  \/ ExecuteAggregate(i)

\* SendSignatures returns: with the transaction, another error than 168, or on
\* the API timeout while the message is still under way.
Return(i) ==
  /\ call[i] # None
  /\ call' = [call EXCEPT ![i] = None]
  /\ UNCHANGED <<contract, clock, net, snap, cache, temp, gen, used, history>>

\* SendSignatures returns exit code 168: sendClaimBySignatureMask.
ReturnDifferentSignatures(i) ==
  /\ call[i] # None
  /\ rec # None
  /\ \E m \in net :
       /\ m.type = "Sig" /\ m.from = i
       /\ m.id = rec.id /\ m.until = rec.expiredAt
       /\ rec.sigs.value \notin {None, m.value}
  /\ net' = IF call[i].culprit = None THEN net
            ELSE net \cup {ClaimOf(i, rec, call[i].culprit)}
  /\ call' = [call EXCEPT ![i] = None]
  /\ UNCHANGED <<contract, clock, snap, cache, temp, gen, used, history>>

\* The number of the attempt the contract is in.
Attempt == IF rec # None /\ rec.expiredAt = 0 THEN attempts + 1 ELSE attempts

\* The process dies and is started again: only the keystore survives, and the
\* messages already sent are still under way.
Crash(i) ==
  /\ i \in Unstable
  /\ crashes < MaxCrashes
  /\ crashes' = crashes + 1
  /\ lost' = IF cache[i] # None
               THEN [lost EXCEPT ![i] = @ \cup {Attempt}] ELSE lost
  /\ snap' = [snap EXCEPT ![i] = None]
  /\ call' = [call EXCEPT ![i] = None]
  /\ cache' = [cache EXCEPT ![i] = None]
  /\ UNCHANGED <<contract, clock, net, temp, gen, used>>

-----------------------------------------------------------------------------
Next ==
  \/ NewPegout
  \/ TimePasses
  \/ \E m \in net : Deliver(m)
  \/ \E i \in Faulty : FaultySend(i)
  \/ \E i \in Honest :
       \/ Read(i)
       \/ NoRequests(i)
       \/ Execute(i)
       \/ ExecuteStop(i)
       \/ ExecuteNoSecret(i)
       \/ Return(i)
       \/ ReturnDifferentSignatures(i)
       \/ Crash(i)

Spec == Init /\ [][Next]_vars

\* The ticker keeps firing, SendSignatures returns on its timeout, the getters
\* and the keystore tried again and again answer, a message sent by tick after
\* tick gets through, deadlines pass and pegouts keep coming.
Fairness ==
  /\ WF_vars(NewPegout)
  /\ WF_vars(TimePasses)
  /\ \A i \in Honest :
       /\ WF_vars(Read(i))
       /\ SF_vars(Execute(i))
       /\ WF_vars(Return(i))
       /\ SF_vars(ReturnDifferentSignatures(i))
       /\ SF_vars(\E m \in net : m.from = i /\ Deliver(m))

FairSpec == Spec /\ Fairness

-----------------------------------------------------------------------------
TypeOK ==
  /\ rec \in Pegout \cup {None}
  /\ pegouts \in 0 .. MaxPegouts
  /\ attempts \in Nat
  /\ clock \in Nat
  /\ net \in SUBSET Msg
  /\ snap \in [Idx -> Pegout \cup {None}]
  /\ call \in [Idx -> Call \cup {None}]
  /\ cache \in [Idx -> CachedPegout \cup {None}]
  /\ temp \in [Idx -> [Ids -> Share \cup {None}]]
  /\ gen \in [Idx -> Nat]
  /\ used \in [Idx -> SUBSET Share]
  /\ crashes \in Nat
  /\ lost \in [Idx -> SUBSET Nat]

(***************************************************************************)
(* Safety.                                                                  *)
(***************************************************************************)

\* A nonce answers for one message only: two shares computed with the same
\* nonce, in whatever attempts, before or after whatever failures, are the same
\* share.  Two different ones would give the oracle's key share away.
NonceUsedOnce ==
  \A i \in Honest : \A s, t \in used[i] : s.nonce = t.nonce => s = t

\* The share the contract records of an honest oracle is one over the recorded
\* commitments, with the nonce this oracle committed to: never the share of an
\* earlier attempt that temp/ still held.
ShareIsOfRecord ==
  rec # None => \A i \in Honest :
    rec.shares[i] # None => rec.shares[i] = FittingShare(rec, i)

\* An honest oracle never files a claim against an honest oracle, whatever was
\* lost in restarts, delayed, or read too early.
HonestIsNotBlamed ==
  rec # None => \A i \in Honest : rec.claims[i] \notin Honest

\* A pegout leaves the list with a signature that verifies, if the faulty
\* oracles alone are too few to complete one.
SignedIsValid ==
  [][rec # None /\ rec' = None /\ Cardinality(Faulty) < MinSigners
       => rec.sigs.value = rec.commits]_vars

(***************************************************************************)
(* Liveness.                                                                *)
(***************************************************************************)

\* Every pegout gets its signature, over expired attempts, lost messages and
\* restarts, unless a restart takes an oracle's nonces in the last attempt.
PegoutsAreSigned ==
  <>(\/ pegouts = MaxPegouts /\ rec = None
     \/ \E i \in Honest : MaxAttempts \in lost[i] /\ rec # None)

\* f has a piece on record that no honest oracle accepts.  Commitments of the
\* wrong length do not count: SignInput names no culprit for them.
WrongPiece(f) ==
  /\ rec # None
  /\ \A j \in Idx : rec.commits[j] # Unparsable
  /\ Committed(rec)
  /\ \/ f \in Undecodable(rec)
     \/ Shared(rec) /\ f \in InvalidShares(rec)
     \/ rec.sigs.value = Garbage

\* A wrong piece on record in the last attempt makes every honest oracle that
\* takes part file a claim: an attempt never just hangs on it.
WrongPieceIsClaimed ==
  \A f \in Faulty, i \in Honest :
    attempts = MaxAttempts /\ WrongPiece(f) /\ rec.commits[i] # None
      ~> rec = None \/ rec.claims[i] # None

=============================================================================
