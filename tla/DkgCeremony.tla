---------------------------- MODULE DkgCeremony ----------------------------
(***************************************************************************)
(* What a key generation promises, without messages, snapshots, artifacts   *)
(* or restarts: every member of an attempt contributes once, deals once     *)
(* when all have contributed, and publishes once when all have dealt; who   *)
(* follows the protocol publishes the one key made of all contributions,    *)
(* from shares that fit them, and holds its secret.  OracleDkg implements   *)
(* this specification.                                                      *)
(***************************************************************************)
EXTENDS Naturals, FiniteSets

CONSTANTS Idx,        \* the validators
          Honest,     \* those that follow the protocol
          Reliable,   \* those among them whose keystore can be written
          None

VARIABLES attempt,    \* number of the attempt
          members,    \* who takes part in it
          packages,   \* packages[i]: what i has contributed
          dealt,      \* dealt[i]: "nothing", shares that "fit" packages[i], or "wrong" ones
          published,  \* published[i]: the group key that i says it has
          held        \* held[i]: the keys whose secret i holds, of any attempt

vars == <<attempt, members, packages, dealt, published, held>>

NothingYet == [i \in Idx |-> None]

Init ==
  /\ attempt = 0
  /\ members = {}
  /\ packages = NothingYet
  /\ dealt = [i \in Idx |-> "nothing"]
  /\ published = NothingYet
  /\ held = [i \in Idx |-> {}]

\* Nothing of an attempt enters the next one but the secrets.
Begin ==
  /\ attempt' = attempt + 1
  /\ members' \in SUBSET Idx /\ Cardinality(members') >= 2
  /\ packages' = NothingYet
  /\ dealt' = [i \in Idx |-> "nothing"]
  /\ published' = NothingYet
  /\ UNCHANGED held

Contribute(i) ==
  /\ i \in members
  /\ packages[i] = None
  /\ packages'[i] # None
  /\ packages' = [packages EXCEPT ![i] = packages'[i]]
  /\ UNCHANGED <<attempt, members, dealt, published, held>>

Deal(i) ==
  /\ i \in members
  /\ \A j \in members : packages[j] # None
  /\ dealt[i] = "nothing"
  /\ \E shares \in {"fit", "wrong"} : dealt' = [dealt EXCEPT ![i] = shares]
  /\ UNCHANGED <<attempt, members, packages, published, held>>

\* Secrets are added and never dropped.
Hold(i) ==
  /\ held[i] \subseteq held'[i]
  /\ held' = [held EXCEPT ![i] = held'[i]]
  /\ UNCHANGED <<attempt, members, packages, dealt, published>>

Publish(i) ==
  /\ i \in members
  /\ \A j \in members : dealt[j] # "nothing"
  /\ published[i] = None
  /\ published'[i] # None
  /\ published' = [published EXCEPT ![i] = published'[i]]
  /\ \A j \in Idx : published[j] \in {None, published'[i]}
  /\ i \in Honest =>
       /\ published'[i] = packages
       /\ \A j \in members \ {i} : dealt[j] = "fit"
  /\ i \in Reliable => published'[i] \in held[i]
  /\ UNCHANGED <<attempt, members, packages, dealt, held>>

Next ==
  \/ Begin
  \/ \E i \in Idx : Contribute(i) \/ Deal(i) \/ Publish(i)
  \/ \E i \in Honest : Hold(i)

Spec == Init /\ [][Next]_vars
=============================================================================
