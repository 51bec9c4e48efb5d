------------------------------ MODULE Keystore ------------------------------
(***************************************************************************)
(* The oracle's keystore (oracle/internal/keystore), file by file, with its *)
(* two users: the DKG executor keeps session keys and secrets, the signing  *)
(* service reads both and keeps the shares of running pegouts in temp/.     *)
(* Each operation holds one mutex.  A file is overwritten in place, so a    *)
(* crash or a full disk leaves a Torn one.                                  *)
(***************************************************************************)
EXTENDS Integers, FiniteSets

CONSTANTS Sessions,   \* files of sessions/, named by the DKG's Until
          Secrets,    \* files of secrets/, named by the public key
          Shares,     \* files of temp/, named by the pegout
          MaxFresh,   \* bound: values stored
          MaxFaults,  \* bound: calls of the file system that fail
          MaxChmods,  \* bound: changes of a mode from outside
          MaxRestarts,\* bound: crashes
          Torn, None

Files == Sessions \cup Secrets \cup Shares

ASSUME KeystoreAssumption ==
  /\ IsFiniteSet(Files)
  /\ Sessions \cap Secrets = {} /\ Sessions \cap Shares = {} /\ Secrets \cap Shares = {}
  /\ {MaxFresh, MaxFaults, MaxChmods, MaxRestarts} \subseteq Nat
  /\ Torn # None /\ Nat \cap {Torn, None} = {}

Users == {"dkg", "signing"}

\* What a user is doing: a call, the file and the value it is about, and how far
\* it has come.
Calls ==
  [do : {"load", "store", "cleanup"}, file : Files \cup {None}, value : 0 .. MaxFresh \cup {None},
   at : {"lock", "remove", "open", "write", "create"}]

ASSUME NoneAssumption == None \notin Users \cup Calls

VARIABLES
  data,      \* data[f]: None (no file), a value or Torn
  strict,    \* strict[f]: the mode is FileMaskOwnerRW
  temp,      \* the directory temp/ exists
  op,        \* op[u]: None or [do, file, value, at]
  holder,    \* who holds the mutex, or None
  handed,    \* history: handed[f]: session keys given to one of the users
  stored,    \* history: stored[f]: value of the last completed store, or None
  spoilt,    \* history: files a fault or a crash has hit since
  loose,     \* history: files whose mode was changed from outside since
  fresh, faults, chmods, restarts

disk == <<data, strict, temp>>
calls == <<op, holder>>
history == <<handed, stored, spoilt, loose>>
bounds == <<fresh, faults, chmods, restarts>>
vars == <<disk, calls, history, bounds>>

Init ==
  /\ data = [f \in Files |-> None]
  /\ strict = [f \in Files |-> TRUE]
  /\ temp = TRUE
  /\ op = [u \in Users |-> None]
  /\ holder = None
  /\ handed = [f \in Sessions |-> {}]
  /\ stored = [f \in Files |-> None]
  /\ spoilt = {}
  /\ loose = {}
  /\ fresh = 0
  /\ faults = 0
  /\ chmods = 0
  /\ restarts = 0

-----------------------------------------------------------------------------
(* Calls.                                                                   *)

Idle(u) == op[u] = None
Running(u, what) == op[u] # None /\ op[u].do = what
At(u, what, at) == Running(u, what) /\ op[u].at = at
Goes(u, at) == op' = [op EXCEPT ![u].at = at]
Returns(u) == op' = [op EXCEPT ![u] = None]

Fault ==
  /\ faults < MaxFaults
  /\ faults' = faults + 1

Begin(u, what, f, v) ==
  op' = [op EXCEPT ![u] = [do |-> what, file |-> f, value |-> v, at |-> "lock"]]

Loadable(u) == IF u = "dkg" THEN Sessions ELSE Files
Storable(u) == IF u = "dkg" THEN Secrets ELSE Shares

CallLoad(u) ==
  /\ Idle(u)
  /\ \E f \in Loadable(u) : Begin(u, "load", f, None)
  /\ UNCHANGED <<disk, holder, history, bounds>>

CallStore(u) ==
  /\ Idle(u)
  /\ fresh < MaxFresh
  /\ fresh' = fresh + 1
  /\ \E f \in Storable(u) : Begin(u, "store", f, fresh)
  /\ UNCHANGED <<disk, holder, history, faults, chmods, restarts>>

CallCleanup ==
  /\ Idle("signing")
  /\ Begin("signing", "cleanup", None, None)
  /\ UNCHANGED <<disk, holder, history, bounds>>

-----------------------------------------------------------------------------
(* load: one read with the mutex held.  Whatever the error is, it is nil.   *)

\* Mutant: load does not take the mutex.
FreeForAll == holder \in Users \cup {None}

Free == holder = None

\* Mutant: a key is made whether or not one was loaded.
LoadedAnew(u, v) ==
  IF u # "dkg" THEN Returns(u) /\ UNCHANGED <<handed, fresh>>
  ELSE /\ fresh < MaxFresh
       /\ fresh' = fresh + 1
       /\ Begin(u, "store", op[u].file, fresh)
       /\ UNCHANGED handed

\* A session key goes into a signer of either user.  Without one the signing
\* service gives up; NewSessionSigner makes a key and stores it.
Loaded(u, v) ==
  \/ /\ v # None
     /\ handed' = IF op[u].file \in Sessions
                    THEN [handed EXCEPT ![op[u].file] = @ \cup {v}] ELSE handed
     /\ Returns(u)
     /\ UNCHANGED fresh
  \/ /\ v = None /\ u = "signing"
     /\ Returns(u)
     /\ UNCHANGED <<handed, fresh>>
  \/ /\ v = None /\ u = "dkg"
     /\ fresh < MaxFresh
     /\ fresh' = fresh + 1
     /\ Begin(u, "store", op[u].file, fresh)
     /\ UNCHANGED handed

Load(u) ==
  /\ At(u, "load", "lock")
  /\ Free
  /\ Loaded(u, data[op[u].file])
  /\ UNCHANGED <<disk, holder, stored, spoilt, loose, faults, chmods, restarts>>

LoadFails(u) ==
  /\ At(u, "load", "lock")
  /\ Free
  /\ Fault
  /\ Loaded(u, None)
  /\ UNCHANGED <<disk, holder, stored, spoilt, loose, chmods, restarts>>

-----------------------------------------------------------------------------
(* WriteFile: stat, remove a file of another mode, truncate, write.         *)

Stat(u) ==
  /\ At(u, "store", "lock")
  /\ holder = None
  /\ holder' = u
  /\ Goes(u, IF data[op[u].file] # None /\ ~strict[op[u].file] THEN "remove" ELSE "open")
  /\ UNCHANGED <<disk, history, bounds>>

Remove(u) ==
  /\ At(u, "store", "remove")
  /\ data' = [data EXCEPT ![op[u].file] = None]
  /\ Goes(u, "open")
  /\ UNCHANGED <<strict, temp, holder, history, bounds>>

\* A file that exists keeps its mode.
Open(u) ==
  LET f == op[u].file
  IN /\ At(u, "store", "open")
     /\ f \in Shares => temp
     /\ data' = [data EXCEPT ![f] = Torn]
     /\ strict' = [strict EXCEPT ![f] = @ \/ data[f] = None]
     /\ Goes(u, "write")
     /\ UNCHANGED <<temp, holder, history, bounds>>

Write(u) ==
  LET f == op[u].file
  IN /\ At(u, "store", "write")
     /\ data' = [data EXCEPT ![f] = op[u].value]
     /\ stored' = [stored EXCEPT ![f] = op[u].value]
     /\ handed' = IF f \in Sessions THEN [handed EXCEPT ![f] = @ \cup {op[u].value}] ELSE handed
     /\ spoilt' = spoilt \ {f}
     /\ loose' = loose \ {f}
     /\ holder' = None
     /\ Returns(u)
     /\ UNCHANGED <<strict, temp, bounds>>

\* Any of these calls fails, or temp/ is missing: the store returns an error.
StoreFails(u) ==
  /\ Running(u, "store")
  /\ holder = u
  /\ \/ Fault
     \/ op[u].at = "open" /\ op[u].file \in Shares /\ ~temp /\ UNCHANGED faults
  /\ spoilt' = spoilt \cup {op[u].file}
  /\ holder' = None
  /\ Returns(u)
  /\ UNCHANGED <<disk, handed, stored, loose, fresh, chmods, restarts>>

-----------------------------------------------------------------------------
(* Cleanup: RemoveAll and CreateDir, both errors ignored.                   *)

BeginCleanup ==
  /\ At("signing", "cleanup", "lock")
  /\ holder = None
  /\ holder' = "signing"
  /\ Goes("signing", "remove")
  /\ UNCHANGED <<disk, history, bounds>>

RemoveAll ==
  /\ At("signing", "cleanup", "remove")
  /\ data' = [f \in Files |-> IF f \in Shares THEN None ELSE data[f]]
  /\ temp' = FALSE
  /\ Goes("signing", "create")
  /\ UNCHANGED <<strict, holder, history, bounds>>

\* Some files are gone and some are not.
RemoveAllFails ==
  /\ At("signing", "cleanup", "remove")
  /\ Fault
  /\ \E gone \in SUBSET Shares :
       /\ data' = [f \in Files |-> IF f \in gone THEN None ELSE data[f]]
       /\ spoilt' = spoilt \cup (Shares \ gone)
  /\ Goes("signing", "create")
  /\ UNCHANGED <<strict, temp, holder, handed, stored, loose, fresh, chmods, restarts>>

CreateTemp ==
  /\ At("signing", "cleanup", "create")
  /\ \/ temp' = TRUE /\ UNCHANGED faults
     \/ ~temp /\ Fault /\ UNCHANGED temp
  /\ stored' = [f \in Files |-> IF f \in Shares THEN None ELSE stored[f]]
  /\ holder' = None
  /\ Returns("signing")
  /\ UNCHANGED <<data, strict, handed, spoilt, loose, fresh, chmods, restarts>>

-----------------------------------------------------------------------------
\* Nobody changes the mode of the file that is being written.
Chmod(f) ==
  /\ chmods < MaxChmods
  /\ chmods' = chmods + 1
  /\ holder = None
  /\ data[f] # None
  /\ strict' = [strict EXCEPT ![f] = FALSE]
  /\ loose' = loose \cup {f}
  /\ UNCHANGED <<data, temp, calls, handed, stored, spoilt, fresh, faults, restarts>>

\* New creates the directories that are missing.
Restart ==
  /\ restarts < MaxRestarts
  /\ restarts' = restarts + 1
  /\ op' = [u \in Users |-> None]
  /\ holder' = None
  /\ temp' = TRUE
  /\ spoilt' = spoilt \cup (IF holder = None THEN {}
                            ELSE IF Running(holder, "store") THEN {op[holder].file} ELSE Shares)
  /\ UNCHANGED <<data, strict, handed, stored, loose, fresh, faults, chmods>>

Storing(u) == Stat(u) \/ Remove(u) \/ Open(u) \/ Write(u) \/ StoreFails(u)

Cleaning == BeginCleanup \/ RemoveAll \/ RemoveAllFails \/ CreateTemp

Next ==
  \/ \E u \in Users : CallLoad(u) \/ CallStore(u) \/ Load(u) \/ LoadFails(u) \/ Storing(u)
  \/ CallCleanup
  \/ Cleaning
  \/ \E f \in Files : Chmod(f)
  \/ Restart

Spec == Init /\ [][Next]_vars

-----------------------------------------------------------------------------
(* Properties.                                                              *)

Value == 0 .. MaxFresh - 1

TypeOK ==
  /\ data \in [Files -> Value \cup {Torn, None}]
  /\ strict \in [Files -> BOOLEAN]
  /\ temp \in BOOLEAN
  /\ \A u \in Users : op[u] # None =>
       /\ op[u].do \in {"load", "store", "cleanup"}
       /\ op[u].at \in {"lock", "remove", "open", "write", "create"}
       /\ op[u].do = "store" <=> op[u].value \in Value
       /\ (op[u].at # "lock") <=> (holder = u)
  /\ holder \in Users \cup {None}
  /\ holder # None => op[holder] # None
  /\ handed \in [Sessions -> SUBSET (Value \cup {Torn})]
  /\ stored \in [Files -> Value \cup {None}]
  /\ {spoilt, loose} \subseteq SUBSET Files
  /\ <<fresh, faults, chmods, restarts>>
       \in (0 .. MaxFresh) \X (0 .. MaxFaults) \X (0 .. MaxChmods) \X (0 .. MaxRestarts)

\* What a load finds is what the last store left, or nothing after a cleanup: the
\* other goroutine's write is never seen half way, and a fault or a crash spoils
\* no other file than the one it hit.  A session key or a secret it hit is the old
\* one, gone or torn, and never one that no store has completed.
LoadFindsLastStore ==
  [][\A u \in Users : Load(u) =>
       LET f == op[u].file
       IN \/ data[f] = stored[f]
          \/ f \in spoilt /\ (f \in Shares \/ data[f] \in {Torn, None})]_vars

\* No secret is written into a file that others may read: one with another mode
\* was changed after the last store.
FilesAreRestricted ==
  \A f \in Files : data[f] \in Value /\ ~strict[f] => f \in loose \/ f \in spoilt

\* What NewSessionSigner says of itself, that a session created already is the one
\* it returns, holds until a call has failed or a crash has hit the file; and the
\* signing service, which reads the file at any moment of it, gets the same key.
SessionIsKept ==
  \A f \in Sessions :
    Cardinality(handed[f]) > 1 \/ Torn \in handed[f] => f \in spoilt \/ faults > 0

\* What every state of the files satisfies on its own.
FilesInv == TypeOK /\ FilesAreRestricted /\ SessionIsKept
=============================================================================
