--------------------------- MODULE Keystore_proofs ---------------------------
(***************************************************************************)
(* Proofs about the keystore for every set of files and every bound: the    *)
(* mutex keeps a load from a write that is half done, modes hold, and a     *)
(* session keeps its key until a call fails or a crash hits its file.       *)
(***************************************************************************)
EXTENDS Keystore, FiniteSetTheorems, TLAPS

LEMMA Bounds ==
  /\ MaxFresh \in Nat /\ MaxFaults \in Nat /\ MaxChmods \in Nat /\ MaxRestarts \in Nat
  /\ Torn # None /\ None \notin Nat /\ Torn \notin Nat
  /\ None \notin Users /\ None \notin Calls
BY KeystoreAssumption, NoneAssumption

LEMMA Disjoint ==
  /\ Sessions \cap Secrets = {} /\ Sessions \cap Shares = {} /\ Secrets \cap Shares = {}
  /\ Sessions \subseteq Files /\ Secrets \subseteq Files /\ Shares \subseteq Files
BY KeystoreAssumption DEF Files

-----------------------------------------------------------------------------
(* The inductive invariant.                                                 *)

FilesOK ==
  /\ data \in [Files -> Value \cup {Torn, None}]
  /\ strict \in [Files -> BOOLEAN]
  /\ temp \in BOOLEAN
  /\ handed \in [Sessions -> SUBSET (Value \cup {Torn})]
  /\ stored \in [Files -> Value \cup {None}]
  /\ spoilt \subseteq Files
  /\ loose \subseteq Files

CountersOK ==
  /\ fresh \in 0 .. MaxFresh
  /\ faults \in 0 .. MaxFaults
  /\ chmods \in 0 .. MaxChmods
  /\ restarts \in 0 .. MaxRestarts

\* A call is at a place it can be at, about a file of its user, and has the mutex
\* exactly from its first step on.
CallOK(u) ==
  /\ op[u].do = "load" => /\ op[u].file \in Loadable(u)
                          /\ op[u].value = None
                          /\ op[u].at = "lock"
  /\ op[u].do = "store" => /\ op[u].file \in Files
                           /\ op[u].file \in Sessions => u = "dkg"
                           /\ op[u].value \in Value
                           /\ op[u].at \in {"lock", "remove", "open", "write"}
  /\ op[u].do = "cleanup" => /\ u = "signing"
                             /\ op[u].value = None
                             /\ op[u].at \in {"lock", "remove", "create"}
  /\ (op[u].at # "lock") <=> (holder = u)

CallsInv ==
  /\ op \in [Users -> Calls \cup {None}]
  /\ holder \in Users \cup {None}
  /\ holder # None => op[holder] # None
  /\ \A u \in Users : op[u] # None => CallOK(u)

\* Who may have changed a file since its last store.
InStore(f) == holder # None /\ op[holder].do = "store" /\ op[holder].file = f
InCleanup == holder # None /\ op[holder].do = "cleanup"

DataInv ==
  /\ \A f \in Files :
       f \notin spoilt /\ ~InStore(f) /\ ~(InCleanup /\ f \in Shares) => data[f] = stored[f]
  /\ \A f \in Files \ Shares : data[f] \in {stored[f], Torn, None}
  /\ InCleanup /\ op[holder].at = "create" => \A f \in Shares \ spoilt : data[f] = None

ModeInv ==
  /\ FilesAreRestricted
  /\ \A f \in Files : InStore(f) =>
       /\ op[holder].at = "open" => strict[f] \/ data[f] = None
       /\ op[holder].at = "write" => strict[f]

\* While no call failed: a session key that was handed out is in a file, there is
\* none while the first one is stored, nor a file before the store begins, and it
\* is the one of the last store.
KeyInv ==
  faults = 0 => \A f \in Sessions :
    /\ handed[f] # {} => data[f] # None
    /\ op["dkg"] # None /\ op["dkg"].do = "store" /\ op["dkg"].file = f =>
         handed[f] = {} /\ (op["dkg"].at = "lock" => data[f] = None)
    /\ f \notin spoilt => handed[f] \subseteq {stored[f]} /\ Torn \notin handed[f]

KeystoreInv == FilesOK /\ CountersOK /\ CallsInv /\ DataInv /\ ModeInv /\ KeyInv

LEMMA InitInv == Init => KeystoreInv
<1> SUFFICES ASSUME Init PROVE KeystoreInv
  OBVIOUS
<1>1. FilesOK
  BY DEF Init, FilesOK
<1>2. CountersOK
  BY Bounds DEF Init, CountersOK
<1>3. holder = None /\ \A u \in Users : op[u] = None
  BY DEF Init
<1>4. CallsInv
  BY <1>3 DEF Init, CallsInv
<1>5. DataInv /\ ModeInv
  BY <1>3 DEF Init, DataInv, ModeInv, FilesAreRestricted, InStore, InCleanup
<1>6. KeyInv
  <2>1. op["dkg"] = None /\ \A f \in Sessions : handed[f] = {}
    BY <1>3 DEF Init, Users
  <2> QED BY <2>1 DEF KeyInv
<1> QED BY <1>1, <1>2, <1>4, <1>5, <1>6 DEF KeystoreInv

-----------------------------------------------------------------------------
(* Steps of a call.                                                         *)

LEMMA CounterStep ==
  ASSUME CountersOK,
         fresh' = fresh \/ (fresh < MaxFresh /\ fresh' = fresh + 1),
         faults' = faults \/ (faults < MaxFaults /\ faults' = faults + 1),
         chmods' = chmods \/ (chmods < MaxChmods /\ chmods' = chmods + 1),
         restarts' = restarts \/ (restarts < MaxRestarts /\ restarts' = restarts + 1)
  PROVE  CountersOK' /\ (faults' = 0 => faults = 0)
BY Bounds DEF CountersOK

LEMMA FreshIsValue == ASSUME CountersOK, fresh < MaxFresh PROVE fresh \in Value
BY Bounds DEF CountersOK, Value

\* A call begins: u was idle or has just loaded nothing.
LEMMA BeginKeeps ==
  ASSUME CallsInv, NEW u \in Users, holder # u, holder' = holder,
         NEW do \in {"load", "store", "cleanup"}, NEW f \in Files \cup {None},
         NEW v \in Value \cup {None}, Begin(u, do, f, v),
         do = "load" => f \in Loadable(u) /\ v = None,
         do = "store" => f \in Files /\ (f \in Sessions => u = "dkg") /\ v \in Value,
         do = "cleanup" => u = "signing" /\ v = None
  PROVE  /\ CallsInv'
         /\ op'[u] # None /\ op'[u].do = do /\ op'[u].file = f
         /\ \A w \in Users \ {u} : op'[w] = op[w]
<1> DEFINE r == [do |-> do, file |-> f, value |-> v, at |-> "lock"]
<1>1. r \in Calls
  <2>1. v \in 0 .. MaxFresh \cup {None}
    BY Bounds DEF Value
  <2> QED BY <2>1 DEF Calls
<1>2. r # None
  BY <1>1, Bounds
<1>3. op' = [op EXCEPT ![u] = r]
  BY DEF Begin
<1>4. op'[u] = r /\ \A w \in Users \ {u} : op'[w] = op[w]
  BY <1>3 DEF CallsInv
<1>5. op' \in [Users -> Calls \cup {None}]
  BY <1>1, <1>3 DEF CallsInv
<1>6. r.do = do /\ r.file = f /\ r.value = v /\ r.at = "lock"
  OBVIOUS
<1> HIDE DEF r
<1>7. CallOK(u)'
  BY <1>4, <1>6 DEF CallOK, Loadable
<1>8. ASSUME NEW w \in Users \ {u}, op'[w] # None PROVE CallOK(w)'
  BY <1>4, <1>8 DEF CallsInv, CallOK, Loadable
<1>9. holder' # None => op'[holder'] # None
  BY <1>4 DEF CallsInv
<1> QED BY <1>2, <1>4, <1>5, <1>6, <1>7, <1>8, <1>9 DEF CallsInv

\* A call with the mutex, or one that takes it, goes on.
LEMMA GoesKeeps ==
  ASSUME CallsInv, NEW u \in Users, op[u] # None, holder = None \/ holder = u, holder' = u,
         NEW at \in {"remove", "open", "write", "create"}, Goes(u, at),
         op[u].do = "store" => at \in {"remove", "open", "write"},
         op[u].do = "cleanup" => at \in {"remove", "create"},
         op[u].do # "load"
  PROVE  /\ CallsInv'
         /\ op'[u] # None /\ op'[u].do = op[u].do /\ op'[u].file = op[u].file
         /\ op'[u].at = at
         /\ \A w \in Users \ {u} : op'[w] = op[w]
<1> DEFINE r == [op[u] EXCEPT !.at = at]
<1>1. op[u] \in Calls
  BY DEF CallsInv
<1>2. r \in Calls /\ r.do = op[u].do /\ r.file = op[u].file /\ r.value = op[u].value /\ r.at = at
  BY <1>1 DEF Calls
<1>3. op' = [op EXCEPT ![u] = r]
  BY DEF Goes
<1> HIDE DEF r
<1>4. op'[u] = r /\ \A w \in Users \ {u} : op'[w] = op[w]
  BY <1>3 DEF CallsInv
<1>5. op' \in [Users -> Calls \cup {None}]
  BY <1>2, <1>3 DEF CallsInv
<1>6. r # None
  BY <1>2, Bounds
<1>7. CallOK(u)'
  BY <1>2, <1>4 DEF CallsInv, CallOK, Loadable
<1>8. ASSUME NEW w \in Users \ {u}, op'[w] # None PROVE CallOK(w)'
  <2>1. op[w].at = "lock"
    BY <1>4, <1>8, Bounds DEF CallsInv, CallOK
  <2> QED BY <1>4, <1>8, <2>1 DEF CallsInv, CallOK, Loadable
<1> QED BY <1>2, <1>4, <1>5, <1>6, <1>7, <1>8 DEF CallsInv

\* A call returns, and the mutex is free.
LEMMA ReturnsKeeps ==
  ASSUME CallsInv, NEW u \in Users, holder = None \/ holder = u, holder' = None, Returns(u)
  PROVE  /\ CallsInv'
         /\ op'[u] = None
         /\ \A w \in Users \ {u} : op'[w] = op[w]
<1>1. op'[u] = None /\ \A w \in Users \ {u} : op'[w] = op[w]
  BY DEF CallsInv, Returns
<1>2. op' \in [Users -> Calls \cup {None}]
  BY DEF CallsInv, Returns
<1>3. ASSUME NEW w \in Users, op'[w] # None PROVE CallOK(w)'
  <2>1. w # u /\ op'[w] = op[w] /\ op[w].at = "lock"
    BY <1>1, <1>3, Bounds DEF CallsInv, CallOK
  <2> QED BY <1>3, <2>1, Bounds DEF CallsInv, CallOK, Loadable
<1> QED BY <1>1, <1>2, <1>3, Bounds DEF CallsInv

-----------------------------------------------------------------------------
(* Steps that leave the files alone.                                        *)

\* The call that has the mutex does not change.
SameHolder ==
  /\ holder' = holder
  /\ holder # None => op'[holder] = op[holder]

LEMMA FilesKeep ==
  ASSUME FilesOK, UNCHANGED <<data, strict, temp, handed, stored, spoilt, loose>>
  PROVE  FilesOK'
BY DEF FilesOK

LEMMA DataKeeps ==
  ASSUME DataInv, ModeInv, SameHolder, UNCHANGED <<data, strict, stored, spoilt, loose>>
  PROVE  DataInv' /\ ModeInv'
<1>1. \A f : InStore(f)' <=> InStore(f)
  BY DEF SameHolder, InStore
<1>2. InCleanup' <=> InCleanup
  BY DEF SameHolder, InCleanup
<1>3. holder # None => op'[holder'].at = op[holder].at
  BY DEF SameHolder
<1>4. DataInv'
  BY <1>1, <1>2, <1>3 DEF DataInv, InCleanup
<1>5. ModeInv'
  BY <1>1, <1>3 DEF ModeInv, FilesAreRestricted, InStore
<1> QED BY <1>4, <1>5

\* A caller without the mutex does not have a file in its hands.
LEMMA CallerIsNotHolder ==
  ASSUME CallsInv, NEW u \in Users, op[u] = None \/ op[u].at = "lock" PROVE holder # u
BY Bounds DEF CallsInv, CallOK

LEMMA CallLoadKeeps == ASSUME KeystoreInv, NEW u \in Users, CallLoad(u) PROVE KeystoreInv'
<1> USE DEF KeystoreInv
<1>1. holder # u
  BY CallerIsNotHolder DEF CallLoad, Idle
<1>2. PICK f \in Loadable(u) : Begin(u, "load", f, None)
  BY DEF CallLoad
<1>3. f \in Files /\ holder' = holder
  BY Disjoint DEF CallLoad, Loadable, Files
<1>4. /\ CallsInv' /\ op'[u].do = "load"
      /\ \A w \in Users \ {u} : op'[w] = op[w]
  BY <1>1, <1>2, <1>3, BeginKeeps
<1>5. SameHolder
  BY <1>1, <1>3, <1>4 DEF SameHolder, CallsInv
<1>6. FilesOK' /\ DataInv' /\ ModeInv'
  BY <1>5, FilesKeep, DataKeeps DEF CallLoad, disk, history
<1>7. CountersOK' /\ (faults' = 0 => faults = 0)
  BY CounterStep DEF CallLoad, bounds
<1>8. UNCHANGED <<data, handed, stored, spoilt>>
  BY DEF CallLoad, disk, history
<1>9. KeyInv'
  BY <1>4, <1>7, <1>8 DEF KeyInv, Users
<1> QED BY <1>4, <1>6, <1>7, <1>9

LEMMA CallStoreKeeps == ASSUME KeystoreInv, NEW u \in Users, CallStore(u) PROVE KeystoreInv'
<1> USE DEF KeystoreInv
<1>1. holder # u
  BY CallerIsNotHolder DEF CallStore, Idle
<1>2. PICK f \in Storable(u) : Begin(u, "store", f, fresh)
  BY DEF CallStore
<1>3. f \in Files /\ f \notin Sessions /\ holder' = holder
  BY Disjoint DEF CallStore, Storable, Files
<1>4. fresh \in Value
  BY FreshIsValue DEF CallStore
<1>5. /\ CallsInv' /\ op'[u].file = f
      /\ \A w \in Users \ {u} : op'[w] = op[w]
  BY <1>1, <1>2, <1>3, <1>4, BeginKeeps
<1>6. SameHolder
  BY <1>1, <1>3, <1>5 DEF SameHolder, CallsInv
<1>7. FilesOK' /\ DataInv' /\ ModeInv'
  BY <1>6, FilesKeep, DataKeeps DEF CallStore, disk, history
<1>8. CountersOK' /\ (faults' = 0 => faults = 0)
  BY CounterStep DEF CallStore
<1>9. UNCHANGED <<data, handed, stored, spoilt>>
  BY DEF CallStore, disk, history
<1>10. KeyInv'
  BY <1>3, <1>5, <1>8, <1>9 DEF KeyInv, Users
<1> QED BY <1>5, <1>7, <1>8, <1>10

LEMMA CallCleanupKeeps == ASSUME KeystoreInv, CallCleanup PROVE KeystoreInv'
<1> USE DEF KeystoreInv
<1>1. "signing" \in Users /\ holder # "signing"
  BY CallerIsNotHolder DEF CallCleanup, Idle, Users
<1>2. Begin("signing", "cleanup", None, None) /\ holder' = holder
  BY DEF CallCleanup
<1>3. /\ CallsInv' /\ op'["signing"].do = "cleanup"
      /\ \A w \in Users \ {"signing"} : op'[w] = op[w]
  BY <1>1, <1>2, BeginKeeps
<1>4. SameHolder
  BY <1>1, <1>2, <1>3 DEF SameHolder, CallsInv
<1>5. FilesOK' /\ DataInv' /\ ModeInv'
  BY <1>4, FilesKeep, DataKeeps DEF CallCleanup, disk, history
<1>6. CountersOK' /\ (faults' = 0 => faults = 0)
  BY CounterStep DEF CallCleanup, bounds
<1>7. UNCHANGED <<data, handed, stored, spoilt>> /\ op'["dkg"] = op["dkg"]
  BY <1>3 DEF CallCleanup, disk, history, Users
<1>8. KeyInv'
  BY <1>6, <1>7 DEF KeyInv
<1> QED BY <1>3, <1>5, <1>6, <1>8

\* Both loads: what was found is what is there, unless the read failed.
LEMMA LoadedKeeps ==
  ASSUME KeystoreInv, NEW u \in Users, At(u, "load", "lock"), holder = None,
         NEW v \in Value \cup {Torn, None}, Loaded(u, v),
         faults' = 0 => v = data[op[u].file],
         UNCHANGED <<data, strict, temp, holder, stored, spoilt, loose>>, CountersOK',
         faults' = 0 => faults = 0
  PROVE  KeystoreInv'
<1> USE DEF KeystoreInv
<1>1. op[u] # None /\ op[u].do = "load" /\ op[u].file \in Loadable(u)
  BY DEF At, Running, CallsInv, CallOK
<1>2. op[u].file \in Files
  BY <1>1, Disjoint DEF Loadable, Files
<1>3. holder # u /\ (holder = None \/ holder = u)
  BY Bounds
<1>4. SameHolder
  BY DEF SameHolder
<1>5. DataInv' /\ ModeInv'
  BY <1>4, DataKeeps
<1>6. \A f \in Files : f \notin spoilt => data[f] = stored[f]
  BY DEF DataInv, InStore, InCleanup
<1>7. CASE v # None /\ op[u].file \in Sessions
  <2> DEFINE g == op[u].file
  <2>1. Returns(u) /\ handed' = [handed EXCEPT ![g] = @ \cup {v}]
    BY <1>7 DEF Loaded
  <2>2. CallsInv' /\ op'[u] = None /\ \A w \in Users \ {u} : op'[w] = op[w]
    BY <1>3, <2>1, ReturnsKeeps
  <2>3. g \in Sessions /\ v \in Value \cup {Torn} /\ "dkg" \in Users
    BY <1>7 DEF Users
  <2> HIDE DEF g
  <2>4. /\ handed' \in [Sessions -> SUBSET (Value \cup {Torn})]
        /\ handed'[g] = handed[g] \cup {v}
        /\ \A f \in Sessions \ {g} : handed'[f] = handed[f]
    BY <2>1, <2>3 DEF FilesOK
  <2>5. FilesOK'
    BY <2>4 DEF FilesOK
  <2>6. ASSUME faults' = 0 PROVE v = data[g]
    BY <2>6 DEF g
  <2>7. ASSUME faults' = 0, g \notin spoilt PROVE v = stored[g] /\ v # Torn
    <3>1. v = stored[g]
      BY <1>6, <2>3, <2>6, <2>7, Disjoint
    <3>2. stored[g] \in Value \cup {None}
      BY <2>3, Disjoint DEF FilesOK
    <3> QED BY <1>7, <3>1, <3>2, Bounds DEF Value
  \* the executor is not about to store a key of a file that has one
  <2>8. ASSUME faults' = 0, op["dkg"] # None, op["dkg"].do = "store", op["dkg"].file = g
        PROVE  op'["dkg"] = None
    <3>1. data[g] # None
      BY <1>7, <2>6, <2>8
    <3>2. op["dkg"].at = "lock"
      BY <2>3, <2>8, Bounds DEF CallsInv, CallOK
    <3> QED BY <2>3, <2>8, <3>1, <3>2 DEF KeyInv
  <2>9. KeyInv'
    <3> SUFFICES ASSUME faults' = 0, NEW f \in Sessions
                 PROVE  /\ handed'[f] # {} => data[f] # None
                        /\ op'["dkg"] # None /\ op'["dkg"].do = "store" /\ op'["dkg"].file = f
                             => handed'[f] = {} /\ (op'["dkg"].at = "lock" => data[f] = None)
                        /\ f \notin spoilt => handed'[f] \subseteq {stored[f]} /\ Torn \notin handed'[f]
      BY DEF KeyInv
    <3>0. op'["dkg"] = op["dkg"] \/ op'["dkg"] = None
      BY <2>2, <2>3
    <3>1. CASE f = g
      BY <1>7, <2>4, <2>6, <2>7, <2>8, <3>0, <3>1 DEF KeyInv
    <3>2. CASE f # g
      BY <2>4, <3>0, <3>2 DEF KeyInv
    <3> QED BY <3>1, <3>2
  <2> QED BY <1>5, <2>2, <2>5, <2>9
<1>8. CASE Returns(u) /\ UNCHANGED handed
  <2>1. CallsInv' /\ (op'["dkg"] = op["dkg"] \/ op'["dkg"] = None)
    BY <1>3, <1>8, ReturnsKeeps DEF Users
  <2>2. FilesOK'
    BY <1>8, FilesKeep
  <2>3. KeyInv'
    BY <1>8, <2>1 DEF KeyInv
  <2> QED BY <1>5, <2>1, <2>2, <2>3
<1>9. CASE u = "dkg" /\ v = None
  <2> DEFINE g == op[u].file
  <2>1. g \in Sessions /\ g \in Files
    BY <1>1, <1>2, <1>9 DEF Loadable
  <2>2. fresh < MaxFresh /\ Begin(u, "store", g, fresh) /\ UNCHANGED handed
    BY <1>9 DEF Loaded
  <2>3. fresh \in Value
    BY <2>2, FreshIsValue
  <2>4. ASSUME faults' = 0 PROVE data[g] = None
    BY <1>9, <2>4
  <2> HIDE DEF g
  <2>5. CallsInv' /\ op'["dkg"].file = g
    BY <1>3, <1>9, <2>1, <2>2, <2>3, BeginKeeps
  <2>6. FilesOK'
    BY <2>2, FilesKeep
  <2>7. KeyInv'
    <3> SUFFICES ASSUME faults' = 0, NEW f \in Sessions
                 PROVE  /\ handed[f] # {} => data[f] # None
                        /\ g = f => handed[f] = {} /\ data[f] = None
                        /\ f \notin spoilt => handed[f] \subseteq {stored[f]} /\ Torn \notin handed[f]
      BY <2>2, <2>5 DEF KeyInv
    <3> QED BY <2>4 DEF KeyInv
  <2> QED BY <1>5, <2>5, <2>6, <2>7
<1>11. \/ v # None /\ op[u].file \in Sessions
       \/ Returns(u) /\ UNCHANGED handed
       \/ u = "dkg" /\ v = None
  BY DEF Loaded
<1> QED BY <1>7, <1>8, <1>9, <1>11

LEMMA LoadKeeps == ASSUME KeystoreInv, NEW u \in Users, Load(u) PROVE KeystoreInv'
<1> USE DEF KeystoreInv
<1>1. At(u, "load", "lock") /\ holder = None /\ Loaded(u, data[op[u].file])
  BY DEF Load, Free
<1>2. op[u].file \in Files
  BY <1>1, Disjoint DEF At, Running, CallsInv, CallOK, Loadable, Files
<1>3. data[op[u].file] \in Value \cup {Torn, None}
  BY <1>2 DEF FilesOK
<1>4. fresh' = fresh \/ (fresh < MaxFresh /\ fresh' = fresh + 1)
  BY <1>1 DEF Loaded
<1>5. CountersOK' /\ (faults' = 0 => faults = 0)
  BY <1>4, CounterStep DEF Load
<1>6. UNCHANGED <<data, strict, temp, holder, stored, spoilt, loose>>
  BY DEF Load, disk
<1> QED BY <1>1, <1>3, <1>5, <1>6, LoadedKeeps

LEMMA LoadFailsKeeps == ASSUME KeystoreInv, NEW u \in Users, LoadFails(u) PROVE KeystoreInv'
<1> USE DEF KeystoreInv
<1>1. At(u, "load", "lock") /\ holder = None /\ Loaded(u, None)
  BY DEF LoadFails, Free
<1>2. fresh' = fresh \/ (fresh < MaxFresh /\ fresh' = fresh + 1)
  BY <1>1 DEF Loaded
<1>3. CountersOK' /\ (faults' = 0 => faults = 0)
  BY <1>2, CounterStep DEF LoadFails, Fault
<1>4. faults' # 0
  BY Bounds DEF LoadFails, Fault, CountersOK
<1>5. UNCHANGED <<data, strict, temp, holder, stored, spoilt, loose>>
  BY DEF LoadFails, disk
<1> QED BY <1>1, <1>3, <1>4, <1>5, LoadedKeeps

-----------------------------------------------------------------------------
(* Steps of a store.                                                        *)

\* While a store has the mutex, its file is the one in somebody's hands.
LEMMA InHand ==
  ASSUME NEW u, holder = u, u # None, op[u].do = "store"
  PROVE  /\ \A f : InStore(f) <=> op[u].file = f
         /\ ~InCleanup
BY DEF InStore, InCleanup

LEMMA StoreFile ==
  ASSUME CallsInv, NEW u \in Users, Running(u, "store")
  PROVE  /\ op[u] # None /\ op[u].do = "store"
         /\ op[u].file \in Files /\ op[u].value \in Value
         /\ op[u].file \in Sessions => u = "dkg"
         /\ op[u].at # "lock" => holder = u
BY DEF Running, CallsInv, CallOK

\* A session that a store works on has not been handed out: KeyInv, where the key
\* file f alone may have changed.
LEMMA KeyKeeps ==
  ASSUME KeyInv, NEW u \in Users, NEW g \in Files, op[u] # None, op[u].do = "store", op[u].file = g,
         g \in Sessions => u = "dkg",
         \A f \in Files \ {g} : data'[f] = data[f],
         \A w \in Users \ {u} : op'[w] = op[w],
         op'[u] # None => op'[u].file = g /\ op'[u].at # "lock",
         UNCHANGED <<handed, stored>>, spoilt \subseteq spoilt', faults' = 0 => faults = 0
  PROVE  KeyInv'
<1> SUFFICES ASSUME faults' = 0, NEW f \in Sessions
             PROVE  /\ handed[f] # {} => data'[f] # None
                    /\ op'["dkg"] # None /\ op'["dkg"].do = "store" /\ op'["dkg"].file = f
                         => handed[f] = {} /\ (op'["dkg"].at = "lock" => data'[f] = None)
                    /\ f \notin spoilt' => handed[f] \subseteq {stored[f]} /\ Torn \notin handed[f]
  BY DEF KeyInv
<1>1. f \in Files /\ "dkg" \in Users
  BY DEF Files, Users
<1>2. CASE f = g
  <2>1. handed[f] = {} /\ u = "dkg"
    BY <1>2 DEF KeyInv
  <2> QED BY <2>1
<1>3. CASE f # g
  <2>1. data'[f] = data[f]
    BY <1>1, <1>3
  <2>2. op'["dkg"] # None /\ op'["dkg"].do = "store" /\ op'["dkg"].file = f
          => handed[f] = {} /\ (op'["dkg"].at = "lock" => data[f] = None)
    BY <1>1, <1>3 DEF KeyInv
  <2> QED BY <2>1, <2>2 DEF KeyInv
<1> QED BY <1>2, <1>3

LEMMA StatKeeps == ASSUME KeystoreInv, NEW u \in Users, Stat(u) PROVE KeystoreInv'
<1> USE DEF KeystoreInv
<1> DEFINE g == op[u].file
           at == IF data[g] # None /\ ~strict[g] THEN "remove" ELSE "open"
<1>1. Running(u, "store") /\ holder = None /\ holder' = u /\ Goes(u, at)
  BY DEF Stat, At
<1>2. op[u] # None /\ op[u].do = "store" /\ g \in Files /\ (g \in Sessions => u = "dkg")
  BY <1>1, StoreFile
<1>3. at \in {"remove", "open", "write", "create"} /\ at \in {"remove", "open", "write"}
  OBVIOUS
<1>4. at = "open" => strict[g] \/ data[g] = None
  OBVIOUS
<1>5. at # "write"
  OBVIOUS
<1>6. \A f \in Files : f \notin spoilt => data[f] = stored[f]
  BY <1>1 DEF DataInv, InStore, InCleanup
<1> HIDE DEF at
<1>7. op[u].do # "load" /\ op[u].do # "cleanup"
  BY <1>2
<1>8. /\ CallsInv' /\ op'[u] # None /\ op'[u].do = op[u].do /\ op'[u].file = g /\ op'[u].at = at
      /\ \A w \in Users \ {u} : op'[w] = op[w]
  BY <1>1, <1>2, <1>3, <1>7, GoesKeeps
<1>9. (\A f : InStore(f)' <=> g = f) /\ ~InCleanup'
  BY <1>1, <1>2, <1>8, Bounds DEF InStore, InCleanup
<1>10. UNCHANGED <<data, strict, temp, handed, stored, spoilt, loose>>
  BY DEF Stat, disk, history
<1> HIDE DEF g
<1>11. FilesOK'
  BY <1>10, FilesKeep
<1>12. DataInv'
  BY <1>6, <1>9, <1>10 DEF DataInv
<1>13. ModeInv'
  BY <1>1, <1>4, <1>5, <1>8, <1>9, <1>10 DEF ModeInv, FilesAreRestricted
<1>14. CountersOK' /\ (faults' = 0 => faults = 0)
  BY CounterStep DEF Stat, bounds
<1>15. KeyInv'
  <2>1. op[u].file = g
    BY DEF g
  <2>2. spoilt \subseteq spoilt'
    BY <1>10
  <2>3. at # "lock" /\ \A f \in Files \ {g} : data'[f] = data[f]
    BY <1>3, <1>10
  <2> QED BY <1>2, <1>8, <1>10, <1>14, <2>1, <2>2, <2>3, KeyKeeps
<1> QED BY <1>8, <1>11, <1>12, <1>13, <1>14, <1>15

LEMMA RemoveKeeps == ASSUME KeystoreInv, NEW u \in Users, Remove(u) PROVE KeystoreInv'
<1> USE DEF KeystoreInv
<1> DEFINE g == op[u].file
<1>1. Running(u, "store") /\ op[u].at = "remove" /\ holder' = holder /\ Goes(u, "open")
  BY DEF Remove, At
<1>2. op[u] # None /\ op[u].do = "store" /\ g \in Files /\ (g \in Sessions => u = "dkg") /\ holder = u
  BY <1>1, StoreFile
<1>3. data' = [data EXCEPT ![g] = None] /\ UNCHANGED <<strict, temp, handed, stored, spoilt, loose>>
  BY DEF Remove, history
<1>4. op[u].do # "load" /\ op[u].do # "cleanup"
  BY <1>2
<1>5. /\ CallsInv' /\ op'[u] # None /\ op'[u].do = op[u].do /\ op'[u].file = g /\ op'[u].at = "open"
      /\ \A w \in Users \ {u} : op'[w] = op[w]
  BY <1>1, <1>2, <1>4, GoesKeeps
<1>6. (\A f : InStore(f)' <=> g = f) /\ ~InCleanup'
  BY <1>1, <1>2, <1>5, Bounds DEF InStore, InCleanup
<1>7. (\A f : InStore(f) <=> g = f) /\ ~InCleanup
  BY <1>2, Bounds DEF InStore, InCleanup
<1>8. CountersOK' /\ (faults' = 0 => faults = 0)
  BY CounterStep DEF Remove, bounds
<1>9. op[u].file = g
  OBVIOUS
<1> HIDE DEF g
<1>10. data'[g] = None /\ \A f \in Files \ {g} : data'[f] = data[f]
  BY <1>2, <1>3 DEF FilesOK
<1>11. FilesOK'
  BY <1>2, <1>3 DEF FilesOK
<1>12. DataInv'
  BY <1>3, <1>6, <1>7, <1>10 DEF DataInv
<1>13. ModeInv'
  <2>1. FilesAreRestricted'
    <3>1. None \notin Value
      BY Bounds DEF Value
    <3> QED BY <1>3, <1>10, <3>1 DEF ModeInv, FilesAreRestricted
  <2> QED BY <1>1, <1>2, <1>5, <1>6, <1>10, <2>1 DEF ModeInv
<1>14. KeyInv'
  <2>1. spoilt \subseteq spoilt'
    BY <1>3
  <2> QED BY <1>2, <1>3, <1>5, <1>8, <1>9, <1>10, <2>1, KeyKeeps
<1> QED BY <1>5, <1>8, <1>11, <1>12, <1>13, <1>14

LEMMA OpenKeeps == ASSUME KeystoreInv, NEW u \in Users, Open(u) PROVE KeystoreInv'
<1> USE DEF KeystoreInv
<1> DEFINE g == op[u].file
<1>1. Running(u, "store") /\ op[u].at = "open" /\ holder' = holder /\ Goes(u, "write")
  BY DEF Open, At
<1>2. op[u] # None /\ op[u].do = "store" /\ g \in Files /\ (g \in Sessions => u = "dkg") /\ holder = u
  BY <1>1, StoreFile
<1>3. /\ data' = [data EXCEPT ![g] = Torn]
      /\ strict' = [strict EXCEPT ![g] = @ \/ data[g] = None]
      /\ UNCHANGED <<temp, handed, stored, spoilt, loose>>
  BY DEF Open, history
<1>4. op[u].do # "load" /\ op[u].do # "cleanup"
  BY <1>2
<1>5. /\ CallsInv' /\ op'[u] # None /\ op'[u].do = op[u].do /\ op'[u].file = g /\ op'[u].at = "write"
      /\ \A w \in Users \ {u} : op'[w] = op[w]
  BY <1>1, <1>2, <1>4, GoesKeeps
<1>6. (\A f : InStore(f)' <=> g = f) /\ ~InCleanup'
  BY <1>1, <1>2, <1>5, Bounds DEF InStore, InCleanup
<1>7. (\A f : InStore(f) <=> g = f) /\ ~InCleanup
  BY <1>2, Bounds DEF InStore, InCleanup
<1>8. CountersOK' /\ (faults' = 0 => faults = 0)
  BY CounterStep DEF Open, bounds
<1>9. op[u].file = g
  OBVIOUS
<1>10. strict[g] \/ data[g] = None
  BY <1>1, <1>2, <1>7 DEF ModeInv
<1> HIDE DEF g
<1>11. data'[g] = Torn /\ \A f \in Files \ {g} : data'[f] = data[f]
  BY <1>2, <1>3 DEF FilesOK
<1>12. strict'[g] /\ \A f \in Files \ {g} : strict'[f] = strict[f]
  BY <1>2, <1>3, <1>10 DEF FilesOK
<1>13. FilesOK'
  <2>1. strict' \in [Files -> BOOLEAN]
    BY <1>2, <1>3, ZenonT(30) DEF FilesOK
  <2>2. data' \in [Files -> Value \cup {Torn, None}]
    BY <1>2, <1>3 DEF FilesOK
  <2> QED BY <1>3, <2>1, <2>2 DEF FilesOK
<1>14. DataInv'
  BY <1>3, <1>6, <1>7, <1>11 DEF DataInv
<1>15. ModeInv'
  <2>1. FilesAreRestricted'
    BY <1>3, <1>11, <1>12 DEF ModeInv, FilesAreRestricted
  <2> QED BY <1>6, <1>12, <2>1 DEF ModeInv
<1>16. KeyInv'
  <2>1. spoilt \subseteq spoilt'
    BY <1>3
  <2> QED BY <1>2, <1>3, <1>5, <1>8, <1>9, <1>11, <2>1, KeyKeeps
<1> QED BY <1>5, <1>8, <1>13, <1>14, <1>15, <1>16

LEMMA WriteKeeps == ASSUME KeystoreInv, NEW u \in Users, Write(u) PROVE KeystoreInv'
<1> USE DEF KeystoreInv
<1> DEFINE g == op[u].file
           v == op[u].value
<1>1. Running(u, "store") /\ op[u].at = "write" /\ holder' = None /\ Returns(u)
  BY DEF Write, At
<1>2. /\ op[u] # None /\ op[u].do = "store" /\ g \in Files /\ v \in Value /\ holder = u
      /\ g \in Sessions => u = "dkg"
  BY <1>1, StoreFile
<1>3. /\ data' = [data EXCEPT ![g] = v]
      /\ stored' = [stored EXCEPT ![g] = v]
      /\ handed' = IF g \in Sessions THEN [handed EXCEPT ![g] = @ \cup {v}] ELSE handed
      /\ spoilt' = spoilt \ {g}
      /\ loose' = loose \ {g}
      /\ UNCHANGED <<strict, temp>>
  BY DEF Write
<1>4. CallsInv' /\ op'[u] = None /\ \A w \in Users \ {u} : op'[w] = op[w]
  BY <1>1, <1>2, ReturnsKeeps
<1>5. (\A f : ~InStore(f)') /\ ~InCleanup'
  BY <1>1 DEF InStore, InCleanup
<1>6. (\A f : InStore(f) <=> g = f) /\ ~InCleanup
  BY <1>2, Bounds DEF InStore, InCleanup
<1>7. CountersOK' /\ (faults' = 0 => faults = 0)
  BY CounterStep DEF Write, bounds
<1>8. strict[g]
  BY <1>1, <1>2, <1>6 DEF ModeInv
<1>9. faults = 0 /\ g \in Sessions => handed[g] = {}
  BY <1>2 DEF KeyInv
<1>10. v # None /\ v # Torn
  BY <1>2, Bounds DEF Value
<1> HIDE DEF g, v
<1>11. data'[g] = v /\ \A f \in Files \ {g} : data'[f] = data[f]
  BY <1>2, <1>3 DEF FilesOK
<1>12. stored'[g] = v /\ \A f \in Files \ {g} : stored'[f] = stored[f]
  BY <1>2, <1>3 DEF FilesOK
<1>13. /\ handed' \in [Sessions -> SUBSET (Value \cup {Torn})]
       /\ g \in Sessions => handed'[g] = handed[g] \cup {v}
       /\ \A f \in Sessions \ {g} : handed'[f] = handed[f]
  BY <1>2, <1>3 DEF FilesOK
<1>14. FilesOK'
  BY <1>2, <1>3, <1>13 DEF FilesOK
<1>15. DataInv'
  BY <1>3, <1>5, <1>6, <1>11, <1>12 DEF DataInv
<1>16. ModeInv'
  BY <1>3, <1>5, <1>8, <1>11 DEF ModeInv, FilesAreRestricted
<1>17. KeyInv'
  <2> SUFFICES ASSUME faults' = 0, NEW f \in Sessions
               PROVE  /\ handed'[f] # {} => data'[f] # None
                      /\ op'["dkg"] # None /\ op'["dkg"].do = "store" /\ op'["dkg"].file = f
                           => handed'[f] = {} /\ (op'["dkg"].at = "lock" => data'[f] = None)
                      /\ f \notin spoilt' => handed'[f] \subseteq {stored'[f]} /\ Torn \notin handed'[f]
    BY DEF KeyInv
  <2>1. faults = 0 /\ f \in Files /\ "dkg" \in Users
    BY <1>7, Disjoint DEF Users
  <2>2. CASE f = g
    <3>1. u = "dkg" /\ handed'[f] = {v}
      BY <1>2, <1>9, <1>13, <2>1, <2>2
    <3> QED BY <1>4, <1>10, <1>11, <1>12, <2>2, <3>1
  <2>3. CASE f # g
    <3>1. data'[f] = data[f] /\ stored'[f] = stored[f] /\ handed'[f] = handed[f]
      BY <1>11, <1>12, <1>13, <2>1, <2>3
    <3>2. f \notin spoilt' => f \notin spoilt
      BY <1>3, <2>3
    <3> QED BY <1>4, <2>1, <3>1, <3>2 DEF KeyInv
  <2> QED BY <2>2, <2>3
<1> QED BY <1>4, <1>7, <1>14, <1>15, <1>16, <1>17

LEMMA StoreFailsKeeps == ASSUME KeystoreInv, NEW u \in Users, StoreFails(u) PROVE KeystoreInv'
<1> USE DEF KeystoreInv
<1> DEFINE g == op[u].file
<1>1. Running(u, "store") /\ holder = u /\ holder' = None /\ Returns(u)
  BY DEF StoreFails
<1>2. /\ op[u] # None /\ op[u].do = "store" /\ g \in Files /\ op[u].file = g
      /\ g \in Sessions => u = "dkg"
  BY <1>1, StoreFile
<1>3. spoilt' = spoilt \cup {g} /\ UNCHANGED <<data, strict, temp, handed, stored, loose>>
  BY DEF StoreFails, disk
<1>4. CallsInv' /\ op'[u] = None /\ \A w \in Users \ {u} : op'[w] = op[w]
  BY <1>1, ReturnsKeeps
<1>5. (\A f : ~InStore(f)') /\ ~InCleanup'
  BY <1>1 DEF InStore, InCleanup
<1>6. (\A f : InStore(f) <=> g = f) /\ ~InCleanup
  BY <1>1, <1>2, Bounds DEF InStore, InCleanup
<1>7. faults' = faults \/ (faults < MaxFaults /\ faults' = faults + 1)
  BY DEF StoreFails, Fault
<1>8. CountersOK' /\ (faults' = 0 => faults = 0)
  BY <1>7, CounterStep DEF StoreFails
<1> HIDE DEF g
<1>9. FilesOK'
  BY <1>2, <1>3 DEF FilesOK
<1>10. DataInv'
  BY <1>3, <1>5, <1>6 DEF DataInv
<1>11. ModeInv'
  BY <1>3, <1>5 DEF ModeInv, FilesAreRestricted
<1>12. spoilt \subseteq spoilt'
  BY <1>3
<1>13. KeyInv'
  BY <1>2, <1>3, <1>4, <1>8, <1>12, KeyKeeps
<1> QED BY <1>4, <1>8, <1>9, <1>10, <1>11, <1>13

-----------------------------------------------------------------------------
(* Steps of a cleanup.                                                      *)

\* KeyInv, where no session file changes.
LEMMA SessionsKeep ==
  ASSUME KeyInv, \A f \in Sessions : data'[f] = data[f] /\ stored'[f] = stored[f],
         op'["dkg"] = op["dkg"] \/ op'["dkg"] = None,
         UNCHANGED handed, spoilt \subseteq spoilt', faults' = 0 => faults = 0
  PROVE  KeyInv'
BY DEF KeyInv

LEMMA BeginCleanupKeeps == ASSUME KeystoreInv, BeginCleanup PROVE KeystoreInv'
<1> USE DEF KeystoreInv
<1>0. "signing" \in Users /\ "signing" # "dkg" /\ "dkg" \in Users
  BY DEF Users
<1>1. /\ op["signing"] # None /\ op["signing"].do = "cleanup" /\ op["signing"].do # "load"
      /\ holder = None /\ holder' = "signing" /\ Goes("signing", "remove")
  BY DEF BeginCleanup, At, Running
<1>2. op["signing"].do # "store"
  BY <1>1
<1>3. /\ CallsInv' /\ op'["signing"].do = op["signing"].do /\ op'["signing"].at = "remove"
      /\ \A w \in Users \ {"signing"} : op'[w] = op[w]
  BY <1>0, <1>1, <1>2, GoesKeeps
<1>4. \A f : ~InStore(f)'
  BY <1>1, <1>3 DEF InStore
<1>5. \A f \in Files : f \notin spoilt => data[f] = stored[f]
  BY <1>1 DEF DataInv, InStore, InCleanup
<1>6. UNCHANGED <<data, strict, temp, handed, stored, spoilt, loose>>
  BY DEF BeginCleanup, disk, history
<1>7. FilesOK'
  BY <1>6, FilesKeep
<1>8. DataInv'
  BY <1>1, <1>3, <1>5, <1>6 DEF DataInv
<1>9. ModeInv'
  BY <1>4, <1>6 DEF ModeInv, FilesAreRestricted
<1>10. CountersOK' /\ (faults' = 0 => faults = 0)
  BY CounterStep DEF BeginCleanup, bounds
<1>11. KeyInv'
  BY <1>0, <1>3, <1>6, <1>10, SessionsKeep
<1> QED BY <1>3, <1>7, <1>8, <1>9, <1>10, <1>11

\* A cleanup has removed a set of the shares; those it has not are spoilt.
LEMMA RemovedKeeps ==
  ASSUME KeystoreInv, At("signing", "cleanup", "remove"), Goes("signing", "create"),
         NEW gone \in SUBSET Shares,
         data' = [f \in Files |-> IF f \in gone THEN None ELSE data[f]],
         spoilt' = spoilt \cup (Shares \ gone),
         UNCHANGED <<strict, holder, handed, stored, loose>>, temp' \in BOOLEAN,
         CountersOK', faults' = 0 => faults = 0
  PROVE  KeystoreInv'
<1> USE DEF KeystoreInv
<1>0. "signing" \in Users /\ "signing" # "dkg" /\ "dkg" \in Users
  BY DEF Users
<1>1. /\ op["signing"] # None /\ op["signing"].do = "cleanup" /\ op["signing"].do # "load"
      /\ op["signing"].do # "store" /\ op["signing"].at = "remove"
  BY DEF At, Running
<1>2. holder = "signing" /\ holder' = "signing"
  BY <1>0, <1>1 DEF CallsInv, CallOK
<1>3. /\ CallsInv' /\ op'["signing"].do = op["signing"].do /\ op'["signing"].at = "create"
      /\ \A w \in Users \ {"signing"} : op'[w] = op[w]
  BY <1>0, <1>1, <1>2, GoesKeeps
<1>4. (\A f : ~InStore(f) /\ ~InStore(f)') /\ InCleanup'
  BY <1>0, <1>1, <1>2, <1>3, Bounds DEF InStore, InCleanup
<1>5. \A f \in Files \ Shares : f \notin spoilt => data[f] = stored[f]
  BY <1>4 DEF DataInv
<1>6. /\ \A f \in gone : data'[f] = None
      /\ \A f \in Files \ gone : data'[f] = data[f]
  BY Disjoint
<1>7. None \notin Value
  BY Bounds DEF Value
<1>8. FilesOK'
  <2>1. data' \in [Files -> Value \cup {Torn, None}]
    BY DEF FilesOK
  <2>2. spoilt' \subseteq Files
    BY Disjoint DEF FilesOK
  <2> QED BY <2>1, <2>2 DEF FilesOK
<1>9. DataInv'
  <2>1. ASSUME NEW f \in Files, f \notin spoilt', f \notin Shares PROVE data'[f] = stored[f]
    BY <1>5, <1>6, <2>1
  <2>2. \A f \in Shares \ spoilt' : data'[f] = None
    BY <1>6
  <2> QED BY <1>4, <2>1, <2>2 DEF DataInv
<1>10. ModeInv'
  <2>1. FilesAreRestricted'
    BY <1>6, <1>7 DEF ModeInv, FilesAreRestricted
  <2> QED BY <1>4, <2>1 DEF ModeInv
<1>11. \A f \in Sessions : data'[f] = data[f]
  BY <1>6, Disjoint
<1>12. KeyInv'
  BY <1>0, <1>3, <1>11, SessionsKeep
<1> QED BY <1>3, <1>8, <1>9, <1>10, <1>12

LEMMA RemoveAllKeeps == ASSUME KeystoreInv, RemoveAll \/ RemoveAllFails PROVE KeystoreInv'
<1> USE DEF KeystoreInv
<1>1. CASE RemoveAll
  <2>1. CountersOK' /\ (faults' = 0 => faults = 0)
    BY <1>1, CounterStep DEF RemoveAll, bounds
  <2>2. /\ At("signing", "cleanup", "remove") /\ Goes("signing", "create") /\ temp' \in BOOLEAN
        /\ UNCHANGED <<strict, holder, handed, stored, loose>>
        /\ data' = [f \in Files |-> IF f \in Shares THEN None ELSE data[f]]
        /\ spoilt' = spoilt \cup (Shares \ Shares)
    BY <1>1 DEF RemoveAll, history
  <2> QED BY <2>1, <2>2, RemovedKeeps
<1>2. CASE RemoveAllFails
  <2>1. CountersOK' /\ (faults' = 0 => faults = 0)
    BY <1>2, CounterStep DEF RemoveAllFails, Fault
  <2>2. /\ At("signing", "cleanup", "remove") /\ Goes("signing", "create") /\ temp' \in BOOLEAN
        /\ UNCHANGED <<strict, holder, handed, stored, loose>>
    BY <1>2 DEF RemoveAllFails, FilesOK
  <2>3. PICK gone \in SUBSET Shares :
          /\ data' = [f \in Files |-> IF f \in gone THEN None ELSE data[f]]
          /\ spoilt' = spoilt \cup (Shares \ gone)
    BY <1>2 DEF RemoveAllFails
  <2> QED BY <2>1, <2>2, <2>3, RemovedKeeps
<1> QED BY <1>1, <1>2

LEMMA CreateTempKeeps == ASSUME KeystoreInv, CreateTemp PROVE KeystoreInv'
<1> USE DEF KeystoreInv
<1>0. "signing" \in Users /\ "signing" # "dkg" /\ "dkg" \in Users
  BY DEF Users
<1>1. /\ op["signing"] # None /\ op["signing"].do = "cleanup" /\ op["signing"].at = "create"
      /\ Returns("signing") /\ holder' = None
  BY DEF CreateTemp, At, Running
<1>2. holder = "signing"
  BY <1>0, <1>1 DEF CallsInv, CallOK
<1>3. /\ CallsInv' /\ \A w \in Users \ {"signing"} : op'[w] = op[w]
  BY <1>0, <1>1, <1>2, ReturnsKeeps
<1>4. (\A f : ~InStore(f) /\ ~InStore(f)') /\ ~InCleanup' /\ InCleanup
  BY <1>0, <1>1, <1>2, Bounds DEF InStore, InCleanup
<1>5. /\ UNCHANGED <<data, strict, handed, spoilt, loose>> /\ temp' \in BOOLEAN
      /\ stored' = [f \in Files |-> IF f \in Shares THEN None ELSE stored[f]]
  BY DEF CreateTemp, FilesOK
<1>6. FilesOK'
  BY <1>5 DEF FilesOK
<1>7. DataInv'
  <2>1. \A f \in Shares \ spoilt : data[f] = None
    BY <1>1, <1>2, <1>4 DEF DataInv
  <2>2. \A f \in Files : f \notin Shares => stored'[f] = stored[f]
    BY <1>5
  <2>3. \A f \in Files : f \in Shares => stored'[f] = None
    BY <1>5
  <2>4. \A f \in Files : f \notin spoilt => data[f] = stored'[f]
    BY <1>4, <2>1, <2>2, <2>3 DEF DataInv
  <2> QED BY <1>4, <1>5, <2>4 DEF DataInv
<1>8. ModeInv'
  BY <1>4, <1>5 DEF ModeInv, FilesAreRestricted
<1>9. faults' = faults \/ (faults < MaxFaults /\ faults' = faults + 1)
  BY DEF CreateTemp, Fault
<1>10. CountersOK' /\ (faults' = 0 => faults = 0)
  BY <1>9, CounterStep DEF CreateTemp
<1>11. \A f \in Sessions : stored'[f] = stored[f]
  BY <1>5, Disjoint
<1>12. KeyInv'
  BY <1>0, <1>3, <1>5, <1>10, <1>11, SessionsKeep
<1> QED BY <1>3, <1>6, <1>7, <1>8, <1>10, <1>12

-----------------------------------------------------------------------------
(* Steps from outside, and every step.                                      *)

LEMMA ChmodKeeps == ASSUME KeystoreInv, NEW f \in Files, Chmod(f) PROVE KeystoreInv'
<1> USE DEF KeystoreInv
<1>1. /\ holder = None /\ strict' = [strict EXCEPT ![f] = FALSE] /\ loose' = loose \cup {f}
      /\ UNCHANGED <<data, temp, op, holder, handed, stored, spoilt, faults>>
  BY DEF Chmod, calls
<1>2. (\A g : ~InStore(g) /\ ~InStore(g)') /\ ~InCleanup /\ ~InCleanup'
  BY <1>1 DEF InStore, InCleanup
<1>3. FilesOK'
  BY <1>1 DEF FilesOK
<1>4. CallsInv'
  BY <1>1 DEF CallsInv, CallOK, Loadable
<1>5. DataInv'
  BY <1>1, <1>2 DEF DataInv
<1>6. ModeInv'
  <2>1. \A g \in Files \ {f} : strict'[g] = strict[g]
    BY <1>1 DEF FilesOK
  <2> QED BY <1>1, <1>2, <2>1 DEF ModeInv, FilesAreRestricted
<1>7. CountersOK' /\ (faults' = 0 => faults = 0)
  BY CounterStep DEF Chmod
<1>8. KeyInv'
  BY <1>1, SessionsKeep
<1> QED BY <1>3, <1>4, <1>5, <1>6, <1>7, <1>8

LEMMA RestartKeeps == ASSUME KeystoreInv, Restart PROVE KeystoreInv'
<1> USE DEF KeystoreInv
<1> DEFINE hit == IF holder = None THEN {}
                  ELSE IF Running(holder, "store") THEN {op[holder].file} ELSE Shares
<1>1. /\ op' = [u \in Users |-> None] /\ holder' = None /\ temp' = TRUE
      /\ spoilt' = spoilt \cup hit
      /\ UNCHANGED <<data, strict, handed, stored, loose, faults>>
  BY DEF Restart
<1>2. hit \subseteq Files
  <2>1. CASE holder # None /\ Running(holder, "store")
    <3>1. holder \in Users
      BY <2>1 DEF CallsInv
    <3> QED BY <2>1, <3>1, StoreFile
  <2> QED BY <2>1, Disjoint
<1>3. \A f \in Files : InStore(f) => f \in hit
  BY DEF InStore, Running, CallsInv
<1>4. InCleanup => hit = Shares
  BY DEF InCleanup, Running
<1> HIDE DEF hit
<1>5. (\A f : ~InStore(f)') /\ ~InCleanup'
  BY <1>1 DEF InStore, InCleanup
<1>6. FilesOK'
  BY <1>1, <1>2 DEF FilesOK
<1>7. CallsInv'
  BY <1>1 DEF CallsInv
<1>8. DataInv'
  BY <1>1, <1>3, <1>4, <1>5 DEF DataInv
<1>9. ModeInv'
  BY <1>1, <1>5 DEF ModeInv, FilesAreRestricted
<1>10. CountersOK' /\ (faults' = 0 => faults = 0)
  BY CounterStep DEF Restart
<1>11. op'["dkg"] = None
  BY <1>1 DEF Users
<1>12. KeyInv'
  BY <1>1, <1>11, SessionsKeep
<1> QED BY <1>6, <1>7, <1>8, <1>9, <1>10, <1>12

LEMMA StutterKeeps == ASSUME KeystoreInv, UNCHANGED vars PROVE KeystoreInv'
<1> USE DEF KeystoreInv
<1>1. /\ UNCHANGED <<data, strict, temp, op, holder, handed, stored, spoilt, loose>>
      /\ UNCHANGED <<fresh, faults, chmods, restarts>>
  BY DEF vars, disk, calls, history, bounds
<1>2. SameHolder
  BY <1>1 DEF SameHolder
<1>3. FilesOK' /\ DataInv' /\ ModeInv'
  BY <1>1, <1>2, FilesKeep, DataKeeps
<1>4. CallsInv'
  BY <1>1 DEF CallsInv, CallOK, Loadable
<1>5. CountersOK' /\ (faults' = 0 => faults = 0)
  BY <1>1, CounterStep
<1>6. KeyInv'
  BY <1>1, <1>5, SessionsKeep
<1> QED BY <1>3, <1>4, <1>5, <1>6

LEMMA StepKeeps == KeystoreInv /\ [Next]_vars => KeystoreInv'
<1> SUFFICES ASSUME KeystoreInv, [Next]_vars PROVE KeystoreInv'
  OBVIOUS
<1>1. ASSUME NEW u \in Users, CallLoad(u) \/ CallStore(u) \/ Load(u) \/ LoadFails(u) \/ Storing(u)
      PROVE  KeystoreInv'
  BY <1>1, CallLoadKeeps, CallStoreKeeps, LoadKeeps, LoadFailsKeeps, StatKeeps, RemoveKeeps,
     OpenKeeps, WriteKeeps, StoreFailsKeeps DEF Storing
<1>2. CASE CallCleanup
  BY <1>2, CallCleanupKeeps
<1>3. CASE Cleaning
  BY <1>3, BeginCleanupKeeps, RemoveAllKeeps, CreateTempKeeps DEF Cleaning
<1>4. ASSUME NEW f \in Files, Chmod(f) PROVE KeystoreInv'
  BY <1>4, ChmodKeeps
<1>5. CASE Restart
  BY <1>5, RestartKeeps
<1>6. CASE UNCHANGED vars
  BY <1>6, StutterKeeps
<1> QED BY <1>1, <1>2, <1>3, <1>4, <1>5, <1>6 DEF Next

-----------------------------------------------------------------------------
(* The theorems.                                                            *)

LEMMA InvTypeOK == KeystoreInv => TypeOK
<1> SUFFICES ASSUME KeystoreInv PROVE TypeOK
  OBVIOUS
<1> USE DEF KeystoreInv
<1>1. \A u \in Users : op[u] # None =>
        /\ op[u].do \in {"load", "store", "cleanup"}
        /\ op[u].at \in {"lock", "remove", "open", "write", "create"}
        /\ op[u].do = "store" <=> op[u].value \in Value
        /\ (op[u].at # "lock") <=> (holder = u)
  <2> SUFFICES ASSUME NEW u \in Users, op[u] # None
               PROVE  /\ op[u].do \in {"load", "store", "cleanup"}
                      /\ op[u].at \in {"lock", "remove", "open", "write", "create"}
                      /\ op[u].do = "store" <=> op[u].value \in Value
                      /\ (op[u].at # "lock") <=> (holder = u)
    OBVIOUS
  <2>1. op[u] \in Calls /\ CallOK(u)
    BY DEF CallsInv
  <2>2. op[u].do \in {"load", "store", "cleanup"}
        /\ op[u].at \in {"lock", "remove", "open", "write", "create"}
    BY <2>1 DEF Calls
  <2>3. None \notin Value
    BY Bounds DEF Value
  <2> QED BY <2>1, <2>2, <2>3 DEF CallOK
<1>2. holder \in Users \cup {None} /\ (holder # None => op[holder] # None)
  BY DEF CallsInv
<1>3. <<fresh, faults, chmods, restarts>>
        \in (0 .. MaxFresh) \X (0 .. MaxFaults) \X (0 .. MaxChmods) \X (0 .. MaxRestarts)
  BY DEF CountersOK
<1>4. {spoilt, loose} \subseteq SUBSET Files
  BY DEF FilesOK
<1> QED BY <1>1, <1>2, <1>3, <1>4 DEF TypeOK, FilesOK

LEMMA InvSessionIsKept == KeystoreInv => SessionIsKept
<1> SUFFICES ASSUME KeystoreInv, NEW f \in Sessions, f \notin spoilt, ~(faults > 0)
             PROVE  ~(Cardinality(handed[f]) > 1) /\ Torn \notin handed[f]
  BY DEF SessionIsKept
<1>1. faults = 0
  BY Bounds DEF KeystoreInv, CountersOK
<1>2. handed[f] \subseteq {stored[f]} /\ Torn \notin handed[f]
  BY <1>1 DEF KeystoreInv, KeyInv
<1>3. handed[f] = {} \/ handed[f] = {stored[f]}
  BY <1>2
<1>4. Cardinality(handed[f]) = 0 \/ Cardinality(handed[f]) = 1
  BY <1>3, FS_EmptySet, FS_Singleton
<1> QED BY <1>2, <1>4

THEOREM Inductive == Spec => []KeystoreInv
BY InitInv, StepKeeps, PTL DEF Spec

\* For every set of files and every bound: a file that others may read had its mode
\* changed from outside after its last store, or was hit by a fault; and a session
\* has one key, never a torn one, until a call fails or a crash hits its file.
THEOREM FilesAreKept == Spec => []FilesInv
<1>1. KeystoreInv => FilesInv
  BY InvTypeOK, InvSessionIsKept DEF KeystoreInv, ModeInv, FilesInv
<1> QED BY <1>1, Inductive, PTL

\* For every set of files and every bound: a load finds what the last store of that
\* file left, or nothing after a cleanup; a session key or a secret that a fault or a
\* crash has hit is found as it was stored, torn or not at all.
THEOREM LoadsFindLastStores == Spec => LoadFindsLastStore
<1> DEFINE Found(f) == \/ data[f] = stored[f]
                       \/ f \in spoilt /\ (f \in Shares \/ data[f] \in {Torn, None})
<1>1. ASSUME KeystoreInv, NEW u \in Users, Load(u) PROVE Found(op[u].file)
  <2>1. At(u, "load", "lock") /\ holder = None
    BY <1>1 DEF Load, Free
  <2>2. op[u].file \in Files
    BY <1>1, <2>1, Disjoint DEF At, Running, KeystoreInv, CallsInv, CallOK, Loadable, Files
  <2> QED BY <1>1, <2>1, <2>2 DEF KeystoreInv, DataInv, InStore, InCleanup
<1>2. KeystoreInv /\ [Next]_vars => [\A u \in Users : Load(u) => Found(op[u].file)]_vars
  BY <1>1
<1>3. (\A u \in Users : Load(u) => Found(op[u].file))
        <=> (\A u \in Users : Load(u) =>
               LET f == op[u].file
               IN \/ data[f] = stored[f]
                  \/ f \in spoilt /\ (f \in Shares \/ data[f] \in {Torn, None}))
  OBVIOUS
<1> HIDE DEF Found
<1> QED BY <1>2, <1>3, Inductive, PTL DEF Spec, LoadFindsLastStore
=============================================================================
