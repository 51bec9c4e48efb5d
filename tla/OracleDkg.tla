------------------------------ MODULE OracleDkg ------------------------------
(***************************************************************************)
(* Distributed key generation as the oracles run it: the fetcher and the    *)
(* executor goroutines of every oracle (oracle/internal/dkg), the session   *)
(* signer and the two keystore directories they use, and the Coordinator    *)
(* contract they talk to.  The contract's code is not in the repository:    *)
(* its actions are written from the exit codes and the getters the oracle   *)
(* handles, and are marked external in the map.                             *)
(*                                                                          *)
(* An oracle is its validator index.  Every random value it draws (a round  *)
(* one package with its X25519 key pair, a session key) is a fresh number   *)
(* of that oracle.  A group public key is the function from index to the    *)
(* round one package it was computed from.                                  *)
(***************************************************************************)
EXTENDS Naturals, FiniteSets

CONSTANTS Idx,           \* indices of the validators in the VSet
          Faulty,        \* the oracles among them that send wrong packages
          Unstable,      \* the oracles whose process may be restarted
          MaxUntil,      \* bound: number of DKG attempts (values of Until)
          MaxCrashes,    \* bound: number of process restarts, all oracles
          StoreMayFail,  \* whether keystore.StoreSecret/StoreSession may fail
          MaxMisreads,   \* bound: failed loads of one stored session key
          None,          \* nil, a clear mask bit, an erased key
          Garbage        \* bytes no honest oracle produces

ASSUME DkgAssumption ==
  /\ Idx \subseteq Nat
  /\ IsFiniteSet(Idx)
  /\ Faulty \subseteq Idx
  /\ Unstable \subseteq Idx
  /\ MaxUntil \in Nat \ {0}
  /\ MaxCrashes \in Nat
  /\ StoreMayFail \in BOOLEAN
  /\ MaxMisreads \in Nat
  /\ None \notin Nat
  /\ Garbage \notin Nat \cup {None}

VARIABLES
  dkg,        \* the Coordinator's DKG record
  net,        \* external messages sent and neither applied nor expired
  snap,       \* snap[i]: the record i's fetcher is handing over, or None
  call,       \* call[i]: the send i's executor is blocked in, or None
  art,        \* art[i]: Executor.artifacts
  until,      \* until[i]: Executor.until
  signer,     \* signer[i]: Executor.sessionSigner
  gen,        \* gen[i]: how many random values i has drawn
  sessions,   \* sessions[i]: the keystore's sessions/ directory
  secrets,    \* secrets[i]: the keystore's secrets/ directory
  crashes,    \* process restarts so far
  lost,       \* lost[i]: history, the attempts whose round one secrets
              \* i lost in a restart
  misread     \* misread[i][u]: history, how often i could not load the
              \* session key it had stored for u

vars == <<dkg, net, snap, call, art, until, signer, gen, sessions, secrets,
          crashes, lost, misread>>
disk == <<sessions, secrets>>
history == <<crashes, lost, misread>>

-----------------------------------------------------------------------------
(* The DKG record.                                                          *)

Finished == 0
InProgress == 1
Part1Finished == 2
Part2Finished == 3

Honest == Idx \ Faulty
Untils == 1 .. MaxUntil
R1Package == Nat \cup {Garbage}
PublicKey == [Idx -> R1Package \cup {None}]
\* key: the X25519 private key that encrypted the packages; share: the round
\* one secret the shares were computed from; seen: the round one packages whose
\* X25519 public keys the shares were encrypted to.
R2Package == [key : Nat \cup {None}, share : Nat \cup {None}, seen : PublicKey]

Dkg ==
  [until : 0 .. MaxUntil,
   state : {Finished, InProgress, Part1Finished, Part2Finished},
   mask : SUBSET Idx,                                    \* VSetMask
   r1 : PublicKey,                                       \* R1.Mask, R1.Packages
   r2 : [Idx -> R2Package \cup {Garbage, None}],         \* R2.Mask, R2.Packages
   r3 : [Idx -> PublicKey \cup {Garbage, None}],         \* R3.Mask, R3.Packages
   keys : [Idx -> Nat \cup {None}],                      \* SessionKeys
   claims : [Idx -> Idx \cup {None}]]                    \* Claims

NoneYet == [i \in Idx |-> None]

NewDkg(u, m) ==
  [until |-> u, state |-> InProgress, mask |-> m, r1 |-> NoneYet,
   r2 |-> NoneYet, r3 |-> NoneYet, keys |-> NoneYet, claims |-> NoneYet]

\* MaxSigners counts the oracles still in the VSetMask.
MaxSigners(d) == Cardinality(d.mask)

LowestIdx(S) == CHOOSE i \in S : \A j \in S : i <= j

Round1Msg == [type : {"R1"}, from : Idx, until : Nat, r1 : R1Package]
Round2Msg == [type : {"R2"}, from : Idx, until : Nat,
              r2 : R2Package \cup {Garbage}]
Round3Msg == [type : {"R3"}, from : Idx, until : Nat,
              pk : PublicKey \cup {Garbage}, key : Nat \cup {None}]
ClaimMsg == [type : {"Claim"}, from : Idx, until : Nat, culprit : Idx]
Msg == Round1Msg \cup Round2Msg \cup Round3Msg \cup ClaimMsg

-----------------------------------------------------------------------------
(* The executor's memory.                                                   *)

R1Artifact == [id : Nat, x25519 : Nat \cup {None}]
Artifacts == [r1 : R1Artifact \cup {None},
              r2 : R2Package \cup {None},
              r3 : PublicKey \cup {None}]
Call == [type : {"R1", "R2", "R3", "Claim"}, culprit : Idx \cup {None}]
NoArtifacts == [r1 |-> None, r2 |-> None, r3 |-> None]

\* nil is no artifact, and an honest oracle's package can be read.
ASSUME NilAssumption ==
  /\ None \notin R1Artifact \cup PublicKey
  /\ {None, Garbage} \cap R2Package = {}

Init ==
  /\ dkg = [NewDkg(0, {}) EXCEPT !.state = Finished]
  /\ net = {}
  /\ snap = NoneYet
  /\ call = NoneYet
  /\ art = [i \in Idx |-> NoArtifacts]
  /\ until = [i \in Idx |-> 0]
  /\ signer = NoneYet
  /\ gen = [i \in Idx |-> 0]
  /\ sessions = [i \in Idx |-> [u \in Untils |-> None]]
  /\ secrets = [i \in Idx |-> {}]
  /\ crashes = 0
  /\ lost = [i \in Idx |-> {}]
  /\ misread = [i \in Idx |-> [u \in Untils |-> 0]]

-----------------------------------------------------------------------------
(* The Coordinator contract (external).                                     *)

\* Some oracle's StartDKG is accepted: the previous attempt is finished, has
\* expired or has collected enough claims, and a new one begins with a later
\* Until and the validators that were not evicted.  When that is, and who is
\* evicted, is the contract's choice; at least two signers are needed.  Every
\* message still under way carries an older Until and will be refused.
StartDKG ==
  /\ dkg.until < MaxUntil
  /\ \E m \in SUBSET Idx :
       /\ Cardinality(m) >= 2
       /\ dkg' = NewDkg(dkg.until + 1, m)
  /\ net' = {}
  /\ UNCHANGED <<snap, call, art, until, signer, gen, disk, history>>

\* Exit code 152: another oracle has recorded a different public key package.
DifferentPubkeyPackages(d, m) ==
  \E j \in Idx : d.r3[j] # None /\ d.r3[j] # m.pk

\* Codes 170 (timestamp), 161 (unauthorized), 127, 128, 147 (wrong round),
\* 114 (already stored), 152 and 160 (claim exists).
CanAccept(d, m) ==
  /\ m.until = d.until
  /\ m.from \in d.mask
  /\ \/ m.type = "R1" /\ d.state = InProgress /\ d.r1[m.from] = None
     \/ m.type = "R2" /\ d.state = Part1Finished /\ d.r2[m.from] = None
     \/ /\ m.type = "R3" /\ d.state = Part2Finished /\ d.r3[m.from] = None
        /\ ~DifferentPubkeyPackages(d, m)
     \/ m.type = "Claim" /\ d.state # Finished /\ d.claims[m.from] = None

\* The record after m is stored: the round ends with its last package.
Accepted(d, m) ==
  LET AllSent(f) == \A i \in d.mask \ {m.from} : f[i] # None
  IN CASE m.type = "R1" ->
            [d EXCEPT !.r1[m.from] = m.r1,
                      !.state = IF AllSent(d.r1) THEN Part1Finished ELSE @]
       [] m.type = "R2" ->
            [d EXCEPT !.r2[m.from] = m.r2,
                      !.state = IF AllSent(d.r2) THEN Part2Finished ELSE @]
       [] m.type = "R3" ->
            [d EXCEPT !.r3[m.from] = m.pk,
                      !.keys[m.from] = m.key,
                      !.state = IF AllSent(d.r3) THEN Finished ELSE @]
       [] OTHER -> [d EXCEPT !.claims[m.from] = m.culprit]

\* A message is applied at any time after it was sent, also when its sender has
\* stopped waiting for it, or has been restarted.  Another one of the same round
\* from that sender will be refused.
Deliver(m) ==
  /\ m \in net
  /\ CanAccept(dkg, m)
  /\ dkg' = Accepted(dkg, m)
  /\ net' = {x \in net : x.from # m.from \/ x.type # m.type}
  /\ UNCHANGED <<snap, call, art, until, signer, gen, disk, history>>

\* A message is lost, is refused, or outlives its TTL.
Expire(m) ==
  /\ m \in net
  /\ net' = net \ {m}
  /\ UNCHANGED <<dkg, snap, call, art, until, signer, gen, disk, history>>

\* What a faulty oracle may store: in every round the right package or a wrong
\* one (unreadable bytes, shares of another secret, another public key).
FaultyMsgs(i) ==
  LET u == dkg.until
      own == dkg.r1[i]
  IN [type : {"R1"}, from : {i}, until : {u}, r1 : {1, Garbage}]
     \cup [type : {"R2"}, from : {i}, until : {u},
           r2 : [key : {own} \cap Nat, share : {own, None} \ {Garbage},
                 seen : {dkg.r1}] \cup {Garbage}]
     \cup [type : {"R3"}, from : {i}, until : {u}, pk : {dkg.r1, Garbage},
           key : {None}]

FaultySend(i) ==
  /\ \E m \in FaultyMsgs(i) : CanAccept(dkg, m) /\ dkg' = Accepted(dkg, m)
  /\ UNCHANGED <<net, snap, call, art, until, signer, gen, disk, history>>

-----------------------------------------------------------------------------
(* The fetcher.                                                             *)

\* The ticker fires and GetDkg returns a record: the fetcher blocks in the send
\* on the unbuffered channel, holding it, until the executor receives.
Fetch(i) ==
  /\ snap[i] = None
  /\ dkg.until # 0
  /\ snap' = [snap EXCEPT ![i] = dkg]
  /\ UNCHANGED <<dkg, net, call, art, until, signer, gen, disk, history>>

-----------------------------------------------------------------------------
(* The executor.                                                            *)

\* Execute begins: the executor is back in its select and receives.
Receive(i) ==
  /\ call[i] = None
  /\ snap[i] # None
  /\ snap' = [snap EXCEPT ![i] = None]

Send(i, m, culprit) ==
  /\ net' = net \cup {m}
  /\ call' = [call EXCEPT ![i] = [type |-> m.type, culprit |-> culprit]]

NoSend == UNCHANGED <<net, call>>

\* executeClaim: one claim per oracle and attempt, as far as the snapshot says.
ExecuteClaim(i, d, culprit) ==
  IF d.claims[i] # None
    THEN NoSend
    ELSE Send(i, [type |-> "Claim", from |-> i, until |-> d.until,
                  culprit |-> culprit], None)

\* Mutant: the loop stops one short.
CulpritOneShort(i, d) ==
  LET recorded == {j \in Idx : j + 1 < MaxSigners(d) /\ d.r3[j] # None}
  IN IF d.claims[i] # None \/ recorded = {} THEN None ELSE LowestIdx(recorded)

\* claimCulpritByR3Mask: whom a refused public key package will be blamed on.
CulpritByR3Mask(i, d) ==
  LET recorded == {j \in Idx : j < MaxSigners(d) /\ d.r3[j] # None}
  IN IF d.claims[i] # None \/ recorded = {} THEN None ELSE LowestIdx(recorded)

\* DKG state FINISHED: everything but Until is dropped.
ExecuteFinished(i) ==
  /\ Receive(i)
  /\ snap[i].state = Finished
  /\ art' = [art EXCEPT ![i] = NoArtifacts]
  /\ signer' = [signer EXCEPT ![i] = None]
  /\ NoSend
  /\ UNCHANGED <<dkg, until, gen, disk, history>>

\* Mutant: a snapshot of the same attempt starts it over.
IsNewOrSame(i) == snap[i].until >= until[i]

\* dkg.Until.After(e.until)
IsNew(i) == snap[i].until > until[i]

\* LoadSession of a stored session key: it is read, or any error of the read is
\* answered with nil, as for a key that was never stored.
LoadSession(i) ==
  LET u == snap[i].until
  IN \/ UNCHANGED misread
     \/ /\ IsNew(i)
        /\ sessions[i][u] # None
        /\ misread[i][u] < MaxMisreads
        /\ misread' = [misread EXCEPT ![i][u] = @ + 1]

\* Mutant: a key is drawn without a look at the keystore.
DrawsSessionAlways(i) == IsNew(i)

\* NewSessionSigner draws a key unless the keystore gave it one for this Until.
DrawsSession(i) ==
  IsNew(i) /\ (sessions[i][snap[i].until] = None \/ misread' # misread)
SessionKey(i) ==
  IF DrawsSession(i) THEN gen[i] + 1
  ELSE IF IsNew(i) THEN sessions[i][snap[i].until] ELSE signer[i]

\* OnStartNewDKG cleans up and then cannot store the session key it drew.
ExecuteStartFails(i) ==
  /\ StoreMayFail
  /\ Receive(i)
  /\ snap[i].state # Finished
  /\ LoadSession(i)
  /\ DrawsSession(i)
  /\ art' = [art EXCEPT ![i] = NoArtifacts]
  /\ signer' = [signer EXCEPT ![i] = None]
  /\ NoSend
  /\ UNCHANGED <<dkg, until, gen, disk, crashes, lost>>

\* Execute up to the rounds: OnStartNewDKG for a later Until.
Enter(i) ==
  /\ Receive(i)
  /\ snap[i].state # Finished
  /\ LoadSession(i)
  /\ until' = [until EXCEPT ![i] = IF IsNew(i) THEN snap[i].until ELSE @]
  /\ signer' = [signer EXCEPT ![i] = SessionKey(i)]
  /\ sessions' = IF DrawsSession(i)
                   THEN [sessions EXCEPT ![i][snap[i].until] = SessionKey(i)]
                   ELSE sessions
  /\ UNCHANGED <<dkg, crashes, lost>>

\* Executor.Cleanup at the start of a new attempt.
EnteredArt(i) == IF IsNew(i) THEN NoArtifacts ELSE art[i]
EnteredGen(i) == IF DrawsSession(i) THEN gen[i] + 1 ELSE gen[i]

\* A round leaves the artifacts a and has drawn no further random value.
Leave(i, a) ==
  /\ art' = [art EXCEPT ![i] = a]
  /\ gen' = [gen EXCEPT ![i] = EnteredGen(i)]

\* FindKeyInfo fails: the validator engine does not answer.
ExecuteNoKeyInfo(i) ==
  /\ Enter(i)
  /\ Leave(i, EnteredArt(i))
  /\ NoSend
  /\ UNCHANGED secrets

\* The oracle takes part in round r of the snapshot and its mask bit is clear.
OwesRound(i, state, packages) ==
  /\ snap[i].state = state
  /\ i \in snap[i].mask
  /\ packages[i] = None

\* Evicted, already stored, or without the artifacts of the previous round:
\* nothing is sent until the contract moves on.
ExecuteWait(i) ==
  LET d == snap[i]
      a == EnteredArt(i)
  IN /\ Enter(i)
     /\ \/ i \notin d.mask
        \/ d.state = InProgress /\ d.r1[i] # None
        \/ /\ d.state = Part1Finished
           /\ d.r2[i] # None \/ (a.r2 = None /\ a.r1 = None)
        \/ /\ d.state = Part2Finished
           /\ d.r3[i] # None \/ (a.r3 = None /\ a.r2 = None)
     /\ Leave(i, a)
     /\ NoSend
     /\ UNCHANGED secrets

\* Mutant: what was drawn is not kept for the next tick.
ExecuteR1Again(i) ==
  LET a == EnteredArt(i)
      g == EnteredGen(i) + 1
      r1 == [id |-> g, x25519 |-> g]
  IN /\ Enter(i)
     /\ OwesRound(i, InProgress, snap[i].r1)
     /\ art' = [art EXCEPT ![i] = [a EXCEPT !.r1 = r1]]
     /\ gen' = [gen EXCEPT ![i] = g]
     /\ Send(i, [type |-> "R1", from |-> i, until |-> snap[i].until,
                 r1 |-> r1.id], None)
     /\ UNCHANGED secrets

\* executeR1: the package is drawn once and sent until its bit is seen set.
ExecuteR1(i) ==
  LET a == EnteredArt(i)
      g == EnteredGen(i) + 1
      r1 == IF a.r1 # None THEN a.r1 ELSE [id |-> g, x25519 |-> g]
  IN /\ Enter(i)
     /\ OwesRound(i, InProgress, snap[i].r1)
     /\ art' = [art EXCEPT ![i] = [a EXCEPT !.r1 = r1]]
     /\ gen' = [gen EXCEPT ![i] = IF a.r1 # None THEN EnteredGen(i) ELSE g]
     /\ Send(i, [type |-> "R1", from |-> i, until |-> snap[i].until,
                 r1 |-> r1.id], None)
     /\ UNCHANGED secrets

\* DeserializeDkgR1, DkgPart2: the first unusable round one package.
R1Culprits(d) == {j \in d.mask : d.r1[j] = Garbage}

\* executeR2 with packages at hand, or computed now from the snapshot's R1.
ExecuteR2(i) ==
  LET d == snap[i]
      a == EnteredArt(i)
      r2 == IF a.r2 # None THEN a.r2
            ELSE [key |-> a.r1.x25519, share |-> a.r1.id, seen |-> d.r1]
  IN /\ Enter(i)
     /\ OwesRound(i, Part1Finished, d.r2)
     /\ a.r2 # None \/ (a.r1 # None /\ R1Culprits(d) = {})
     /\ Leave(i, [a EXCEPT !.r2 = r2])
     /\ Send(i, [type |-> "R2", from |-> i, until |-> d.until, r2 |-> r2], None)
     /\ UNCHANGED secrets

ExecuteR2Claim(i) ==
  LET d == snap[i]
      a == EnteredArt(i)
  IN /\ Enter(i)
     /\ OwesRound(i, Part1Finished, d.r2)
     /\ a.r2 = None /\ a.r1 # None /\ R1Culprits(d) # {}
     /\ Leave(i, a)
     /\ ExecuteClaim(i, d, LowestIdx(R1Culprits(d)))
     /\ UNCHANGED secrets

\* DeserializeDkgR2: packages that cannot be parsed.
Malformed(d) == {j \in d.mask : d.r2[j] = Garbage}
\* DecryptR2Packages: the sender's key is not the one its R1 announced, or the
\* package was not encrypted to the key this oracle holds.
Undecryptable(i, d, a) ==
  {j \in d.mask \ {i} : \/ d.r2[j].key # d.r1[j]
                        \/ d.r2[j].seen[i] # a.r1.x25519}
\* Mutant: the shares are not verified.
WrongSharesPass(i, d) == {}

\* DkgPart3: a share that does not fit the sender's R1 commitment.
WrongShares(i, d) == {j \in d.mask \ {i} : d.r2[j].share # d.r1[j]}

\* The culprit of round three: the checks run one after the other, each over
\* the senders in ascending order.  None if every package is good.
R3Culprit(i, d, a) ==
  IF R1Culprits(d) # {} THEN LowestIdx(R1Culprits(d))
  ELSE IF Malformed(d) # {} THEN LowestIdx(Malformed(d))
  ELSE IF Undecryptable(i, d, a) # {} THEN LowestIdx(Undecryptable(i, d, a))
  ELSE IF WrongShares(i, d) # {} THEN LowestIdx(WrongShares(i, d))
  ELSE None

\* executeR3 has to compute the key and names a culprit instead.
ExecuteR3Claim(i) ==
  LET d == snap[i]
      a == EnteredArt(i)
  IN /\ Enter(i)
     /\ OwesRound(i, Part2Finished, d.r3)
     /\ a.r3 = None /\ a.r2 # None
     /\ R3Culprit(i, d, a) # None
     /\ Leave(i, a)
     /\ ExecuteClaim(i, d, R3Culprit(i, d, a))
     /\ UNCHANGED secrets

\* The group key of DkgPart3: this oracle's commitment and the others' R1.
GroupKey(i, d, a) == [d.r1 EXCEPT ![i] = a.r2.share]

\* SendPubkeyPackage refuses to send without a session signer.
SendPubkeyPackage(i, pk) ==
  IF signer'[i] = None
    THEN NoSend
    ELSE Send(i, [type |-> "R3", from |-> i, until |-> snap[i].until,
                  pk |-> pk, key |-> signer'[i]], CulpritByR3Mask(i, snap[i]))

\* Mutant: the secret is to be stored when the send has succeeded.
StoreSecretLater(i, pk) == UNCHANGED secrets

\* Mutant: the directory has one secret, for all keys.
StoreSecretOver(i, pk) == secrets' = [secrets EXCEPT ![i] = {pk}]

StoreSecret(i, pk) == secrets' = [secrets EXCEPT ![i] = @ \cup {pk}]

\* executeR3 computes the key: the artifact is set and the X25519 private key
\* erased before the secret is stored; if the store fails nothing is sent.
ExecuteR3(i) ==
  LET d == snap[i]
      a == EnteredArt(i)
      pk == GroupKey(i, d, a)
  IN /\ Enter(i)
     /\ OwesRound(i, Part2Finished, d.r3)
     /\ a.r3 = None /\ a.r2 # None
     /\ R3Culprit(i, d, a) = None
     /\ Leave(i, [a EXCEPT !.r3 = pk, !.r1.x25519 = None])
     /\ \/ /\ StoreSecret(i, pk)
           /\ SendPubkeyPackage(i, pk)
        \/ /\ StoreMayFail
           /\ NoSend
           /\ UNCHANGED secrets

\* executeR3 with the artifact at hand sends it again.
ExecuteR3Again(i) ==
  LET a == EnteredArt(i)
  IN /\ Enter(i)
     /\ OwesRound(i, Part2Finished, snap[i].r3)
     /\ a.r3 # None
     /\ Leave(i, a)
     /\ SendPubkeyPackage(i, a.r3)
     /\ UNCHANGED secrets

\* Execute when the key lookup answers.
Execute(i) ==
  \/ ExecuteFinished(i)
  \/ ExecuteWait(i)
  \/ ExecuteR1(i)
  \/ ExecuteR2(i)
  \/ ExecuteR2Claim(i)
  \/ ExecuteR3(i)
  \/ ExecuteR3Again(i)
  \/ ExecuteR3Claim(i)

\* The send returns: with the transaction, an error, or on the API timeout
\* while the message is still under way.
Return(i) ==
  /\ call[i] # None
  /\ call' = [call EXCEPT ![i] = None]
  /\ UNCHANGED <<dkg, net, snap, art, until, signer, gen, disk, history>>

\* The send returns exit code 152: claimCulpritByR3Mask on the old snapshot.
ReturnDifferentPubkey(i) ==
  /\ call[i] # None
  /\ call[i].type = "R3"
  /\ dkg.state = Part2Finished
  /\ \E m \in net :
       /\ m.type = "R3" /\ m.from = i /\ m.pk = art[i].r3
       /\ DifferentPubkeyPackages(dkg, m)
       /\ IF call[i].culprit = None
            THEN /\ net' = net \ {m}
                 /\ call' = [call EXCEPT ![i] = None]
            ELSE /\ net' = (net \ {m}) \cup
                             {[type |-> "Claim", from |-> i, until |-> m.until,
                               culprit |-> call[i].culprit]}
                 /\ call' = [call EXCEPT ![i] =
                               [type |-> "Claim", culprit |-> None]]
  /\ UNCHANGED <<dkg, snap, art, until, signer, gen, disk, history>>

\* The process dies and is started again: only the keystore survives, and the
\* messages already sent are still under way.
Crash(i) ==
  /\ i \in Unstable
  /\ crashes < MaxCrashes
  /\ crashes' = crashes + 1
  /\ lost' = IF art[i].r1 = None THEN lost
                              ELSE [lost EXCEPT ![i] = @ \cup {until[i]}]
  /\ snap' = [snap EXCEPT ![i] = None]
  /\ call' = [call EXCEPT ![i] = None]
  /\ art' = [art EXCEPT ![i] = NoArtifacts]
  /\ until' = [until EXCEPT ![i] = 0]
  /\ signer' = [signer EXCEPT ![i] = None]
  /\ UNCHANGED <<dkg, net, gen, disk, misread>>

-----------------------------------------------------------------------------
Next ==
  \/ StartDKG
  \/ \E m \in net : Deliver(m) \/ Expire(m)
  \/ \E i \in Faulty : FaultySend(i)
  \/ \E i \in Honest :
       \/ Fetch(i)
       \/ Execute(i)
       \/ ExecuteStartFails(i)
       \/ ExecuteNoKeyInfo(i)
       \/ Return(i)
       \/ ReturnDifferentPubkey(i)
       \/ Crash(i)

Spec == Init /\ [][Next]_vars

\* The tickers keep firing, a blocked call returns on its timeout, a message
\* sent again and again gets through, a key lookup tried again and again
\* answers, and a DKG that never started is started.
Fairness ==
  /\ WF_vars(StartDKG)
  /\ \A i \in Honest :
       /\ WF_vars(Fetch(i))
       /\ SF_vars(Execute(i))
       /\ WF_vars(Return(i))
       /\ SF_vars(ReturnDifferentPubkey(i))
       /\ SF_vars(\E m \in net : m.from = i /\ Deliver(m))

FairSpec == Spec /\ Fairness

-----------------------------------------------------------------------------
TypeOK ==
  /\ dkg \in Dkg
  /\ net \in SUBSET Msg
  /\ snap \in [Idx -> Dkg \cup {None}]
  /\ call \in [Idx -> Call \cup {None}]
  /\ art \in [Idx -> Artifacts]
  /\ until \in [Idx -> Nat]
  /\ signer \in [Idx -> Nat \cup {None}]
  /\ gen \in [Idx -> Nat]
  /\ sessions \in [Idx -> [Untils -> Nat \cup {None}]]
  /\ secrets \in [Idx -> SUBSET PublicKey]
  /\ crashes \in Nat
  /\ lost \in [Idx -> SUBSET Nat]
  /\ misread \in [Idx -> [Untils -> Nat]]

(***************************************************************************)
(* Safety.                                                                  *)
(***************************************************************************)

\* Once the contract has recorded an oracle's public key package, the secret
\* package of that very key is in the oracle's secrets/ directory, across
\* restarts, resends and late deliveries: executeR3 stores before it sends.
\* Without it the oracle counts as a signer and can never sign.
RecordedKeyIsStored ==
  \A i \in Honest : dkg.r3[i] # None => dkg.r3[i] \in secrets[i]

\* The session key registered with the contract for an attempt is the one the
\* oracle's sessions/ directory holds under that Until, by which the signing
\* service finds its own validator index.  Restarts, stores that fail and stale
\* snapshots do not part the two; only a load of that very file that failed does.
SessionKeyIsKept ==
  \A i \in Honest : dkg.keys[i] # None =>
    sessions[i][dkg.until] = dkg.keys[i] \/ misread[i][dkg.until] > 0

\* An honest oracle is blamed by an honest oracle only in an attempt in which
\* one of the two was restarted and lost the secrets of a round one package that
\* may still be recorded.  Stale snapshots, lost or late messages and artifacts
\* of an earlier attempt never turn an honest oracle into a culprit.
BlameIsFounded ==
  \A i \in Honest : dkg.claims[i] \in Honest =>
    dkg.until \in lost[i] \cup lost[dkg.claims[i]]

\* executeR3 reads the round one artifact and Cleanup frees all three: a later
\* artifact is never held without the earlier ones, whatever the order of
\* snapshots, failures and restarts.
ArtifactsAreNested ==
  \A i \in Honest : /\ art[i].r3 # None => art[i].r2 # None
                    /\ art[i].r2 # None => art[i].r1 # None

\* The key an honest oracle publishes is the key of exactly the round one
\* packages on record, its own included, and every other share on record fits
\* its sender's: never the key of an earlier attempt, of a package drawn again
\* after a restart, or of unverified shares.
PublishedKeyIsOfRecord ==
  \A i \in Honest : dkg.r3[i] # None =>
    /\ dkg.r3[i] = dkg.r1
    /\ \A j \in dkg.mask \ {i} : dkg.r2[j] # Garbage /\ dkg.r2[j].share = dkg.r1[j]

DkgInv == TypeOK /\ PublishedKeyIsOfRecord

\* What the record says of the shares that j has dealt.
Shares(d, j) ==
  IF d.r2[j] = None THEN "nothing"
  ELSE IF d.r2[j] # Garbage /\ d.r2[j].share = d.r1[j] THEN "fit" ELSE "wrong"

\* The ceremony is what it is meant to be, whatever messages, snapshots, restarts
\* and failures it goes through: nobody's package, shares or key are recorded twice
\* in an attempt or survive it, an honest oracle publishes the key of all recorded
\* packages once everybody's shares fit them, no two keys are recorded, and
\* secrets, which are there before their key is where stores cannot fail, stay.
Ceremony == INSTANCE DkgCeremony WITH
  Reliable <- IF StoreMayFail THEN {} ELSE Honest,
  attempt <- dkg.until,
  members <- dkg.mask,
  packages <- dkg.r1,
  dealt <- [j \in Idx |-> Shares(dkg, j)],
  published <- dkg.r3,
  held <- secrets
CeremonySpec == Ceremony!Spec

(***************************************************************************)
(* Liveness.                                                                *)
(***************************************************************************)

\* The last attempt finishes unless an oracle loses its secrets in the middle of
\* it: losses, timeouts and restarts at any other point are made good.
LastAttemptFinishes ==
  <>(dkg.until = MaxUntil /\ (\/ dkg.state = Finished
                              \/ \E i \in Honest : /\ MaxUntil \in lost[i]
                                                   /\ dkg.r3[i] = None))

\* f has a package on record that no honest oracle accepts.  A wrong public key
\* counts below MaxSigners only: claimCulpritByR3Mask looks no further.
WrongPackage(f) ==
  \/ dkg.state = Part1Finished /\ dkg.r1[f] = Garbage
  \/ /\ dkg.state = Part2Finished
     /\ dkg.r2[f] # [key |-> dkg.r1[f], share |-> dkg.r1[f], seen |-> dkg.r1]
  \/ dkg.state = Part2Finished /\ dkg.r3[f] = Garbage /\ f < MaxSigners(dkg)

\* Once a faulty oracle's wrong package is on record in the last attempt, every
\* honest participant files a claim: the round never just hangs on it.
CulpritIsClaimed ==
  \A f \in Faulty :
    dkg.until = MaxUntil /\ f \in dkg.mask /\ WrongPackage(f)
      ~> \A i \in Honest \cap dkg.mask : dkg.claims[i] # None \/ MaxUntil \in lost[i]

=============================================================================
