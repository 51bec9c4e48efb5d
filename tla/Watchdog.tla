------------------------------ MODULE Watchdog ------------------------------
(***************************************************************************)
(* The heartbeat watchdog (lib/pkg/watchdog/watchdog.go).  Goroutines watch *)
(* and beat targets, one goroutine scans them.  Every operation reads the   *)
(* clock first and takes the mutex afterwards, so what it writes is older   *)
(* than the moment it is written.                                           *)
(*                                                                          *)
(* A time stamp is kept as its age, which Tick increases and which is not   *)
(* counted beyond Horizon.  MaxStall is what the scheduler, the mutex and   *)
(* the callback may cost an operation between the clock and its end.        *)
(***************************************************************************)
EXTENDS Integers

CONSTANTS Ids, Callers,
          Period,      \* Period[id]: how long id may be silent
          ScanPeriod, FirePeriod, SelfPeriod,
          MaxStall,    \* bound: ticks from reading the clock to the end
          Horizon,     \* bound: ages are counted up to here
          None

ASSUME WatchdogAssumption ==
  /\ Period \in [Ids -> Nat]
  /\ {ScanPeriod, FirePeriod, MaxStall, Horizon} \subseteq Nat
  /\ SelfPeriod \in Int
  /\ None \notin Ids

\* What new() demands.
ASSUME PeriodsAssumption == 0 < ScanPeriod /\ ScanPeriod < FirePeriod

\* An age beyond the horizon is beyond every period it is compared with.
ASSUME HorizonAssumption ==
  /\ FirePeriod + MaxStall < Horizon
  /\ SelfPeriod + MaxStall < Horizon
  /\ \A id \in Ids : Period[id] + MaxStall < Horizon

VARIABLES
  targets,    \* the ids in the map
  beat,       \* beat[id]: age of lastHeartbeat
  fired,      \* fired[id]: age of lastFire
  call,       \* call[c]: [op, id, age] of the call c is in, or None
  scan,       \* "wait", "read", "fire" (mutex held) or "stopped"
  scanAge,    \* age of the time the scan has read
  overdue,    \* overdueIDs
  toTick,     \* ticks until the ticker fires
  ticked,     \* a tick waits in the ticker's channel
  ctx,        \* "running" or "cancelled"
  selfBeat,   \* age of selfLastHeartbeat
  stored,     \* history: stored[id]: age of the last write by Watch or Heartbeat
  reported,   \* history: reported[id]: age of the last callback
  logged      \* history: age of the last self heartbeat

map == <<targets, beat, fired>>
loop == <<scan, scanAge, overdue>>
ticker == <<toTick, ticked>>
history == <<stored, reported, logged>>
vars == <<map, call, loop, ticker, ctx, selfBeat, history>>

Ages == 0 .. Horizon
Older(age) == IF age < Horizon THEN age + 1 ELSE age
AllOlder(f) == [id \in Ids |-> Older(f[id])]

Init ==
  /\ targets = {}
  /\ beat = [id \in Ids |-> Horizon]
  /\ fired = [id \in Ids |-> Horizon]
  /\ call = [c \in Callers |-> None]
  /\ scan = "wait"
  /\ scanAge = 0
  /\ overdue = {}
  /\ toTick = ScanPeriod
  /\ ticked = FALSE
  /\ ctx = "running"
  /\ selfBeat = 0
  /\ stored = [id \in Ids |-> Horizon]
  /\ reported = [id \in Ids |-> Horizon]
  /\ logged = Horizon

-----------------------------------------------------------------------------
(* Time.                                                                    *)

Busy == scan \in {"read", "fire"}

\* Mutant: a tick that finds the loop busy is lost.
TickerDrops ==
  /\ toTick' = IF toTick = 1 THEN ScanPeriod ELSE toTick - 1
  /\ ticked' = (ticked \/ (toTick = 1 /\ ~Busy))

\* The ticker keeps one tick for a loop that is late.
TickerTicks ==
  /\ toTick' = IF toTick = 1 THEN ScanPeriod ELSE toTick - 1
  /\ ticked' = (ticked \/ toTick = 1)

\* A loop that can take a tick takes it, and nothing stalls beyond the bound.
Tick ==
  /\ ~(scan = "wait" /\ ticked)
  /\ Busy => scanAge < MaxStall
  /\ \A c \in Callers : call[c] # None => call[c].age < MaxStall
  /\ beat' = AllOlder(beat)
  /\ fired' = AllOlder(fired)
  /\ call' = [c \in Callers |->
               IF call[c] = None THEN None ELSE [call[c] EXCEPT !.age = @ + 1]]
  /\ scanAge' = IF Busy THEN scanAge + 1 ELSE scanAge
  /\ TickerTicks
  /\ selfBeat' = Older(selfBeat)
  /\ stored' = AllOlder(stored)
  /\ reported' = AllOlder(reported)
  /\ logged' = Older(logged)
  /\ UNCHANGED <<targets, scan, overdue, ctx>>

-----------------------------------------------------------------------------
(* Watch, Heartbeat and Unwatch.                                            *)

MutexIsFree == scan # "fire"

ReadClock(c, op, id) ==
  /\ call[c] = None
  /\ call' = [call EXCEPT ![c] = [op |-> op, id |-> id, age |-> 0]]
  /\ UNCHANGED <<map, loop, ticker, ctx, selfBeat, history>>

In(c, op) == call[c] # None /\ call[c].op = op

Returns(c) == call' = [call EXCEPT ![c] = None]

\* Mutant: a target that is watched again may be reported at once.
FinishWatchUnfired(c) ==
  /\ In(c, "watch")
  /\ MutexIsFree
  /\ LET id == call[c].id
     IN /\ targets' = targets \cup {id}
        /\ beat' = [beat EXCEPT ![id] = call[c].age]
        /\ fired' = [fired EXCEPT ![id] = Horizon]
        /\ stored' = [stored EXCEPT ![id] = 0]
  /\ Returns(c)
  /\ UNCHANGED <<loop, ticker, ctx, selfBeat, reported, logged>>

FinishWatch(c) ==
  /\ In(c, "watch")
  /\ MutexIsFree
  /\ LET id == call[c].id
     IN /\ targets' = targets \cup {id}
        /\ beat' = [beat EXCEPT ![id] = call[c].age]
        /\ fired' = [fired EXCEPT ![id] = call[c].age]
        /\ stored' = [stored EXCEPT ![id] = 0]
  /\ Returns(c)
  /\ UNCHANGED <<loop, ticker, ctx, selfBeat, reported, logged>>

FinishHeartbeat(c) ==
  /\ In(c, "heartbeat")
  /\ MutexIsFree
  /\ LET id == call[c].id
     IN IF id \in targets
        THEN /\ beat' = [beat EXCEPT ![id] = call[c].age]
             /\ stored' = [stored EXCEPT ![id] = 0]
        ELSE UNCHANGED <<beat, stored>>
  /\ Returns(c)
  /\ UNCHANGED <<targets, fired, loop, ticker, ctx, selfBeat, reported, logged>>

Unwatch(id) ==
  /\ id \in targets
  /\ MutexIsFree
  /\ targets' = targets \ {id}
  /\ UNCHANGED <<beat, fired, call, loop, ticker, ctx, selfBeat, history>>

-----------------------------------------------------------------------------
(* The scan loop.                                                           *)

BeginScan ==
  /\ scan = "wait"
  /\ ticked
  /\ ticked' = FALSE
  /\ scan' = "read"
  /\ scanAge' = 0
  /\ UNCHANGED <<map, call, overdue, toTick, ctx, selfBeat, history>>

\* Mutant: the period is counted from the last report.
DueAfterFire(id) == fired[id] > Period[id] /\ fired[id] - scanAge > FirePeriod

\* The heartbeat is measured now, the last report at the start of the scan.
Due(id) == beat[id] > Period[id] /\ fired[id] - scanAge > FirePeriod

LockAndCollect ==
  /\ scan = "read"
  /\ scan' = "fire"
  /\ overdue' = {id \in targets : Due(id)}
  /\ UNCHANGED <<map, call, scanAge, ticker, ctx, selfBeat, history>>

\* The callback, and the target's lastFire.
Fire(id) ==
  /\ scan = "fire"
  /\ id \in overdue
  /\ overdue' = overdue \ {id}
  /\ reported' = [reported EXCEPT ![id] = 0]
  /\ fired' = [fired EXCEPT ![id] = scanAge]
  /\ UNCHANGED <<targets, beat, call, scan, scanAge, ticker, ctx, selfBeat, stored, logged>>

SelfDue == selfBeat > SelfPeriod

EndScan ==
  /\ scan = "fire"
  /\ overdue = {}
  /\ scan' = "wait"
  /\ IF SelfDue THEN selfBeat' = scanAge /\ logged' = 0
                ELSE UNCHANGED <<selfBeat, logged>>
  /\ UNCHANGED <<map, call, scanAge, overdue, ticker, ctx, stored, reported>>

Cancel ==
  /\ ctx = "running"
  /\ ctx' = "cancelled"
  /\ UNCHANGED <<map, call, loop, ticker, selfBeat, history>>

\* With a tick waiting as well, either of them is received.
StopScanning ==
  /\ scan = "wait"
  /\ ctx = "cancelled"
  /\ scan' = "stopped"
  /\ UNCHANGED <<map, call, scanAge, overdue, ticker, ctx, selfBeat, history>>

-----------------------------------------------------------------------------
Calls(c) ==
  \/ \E id \in Ids : ReadClock(c, "watch", id) \/ ReadClock(c, "heartbeat", id)
  \/ FinishWatch(c)
  \/ FinishHeartbeat(c)

Scanning ==
  \/ BeginScan
  \/ LockAndCollect
  \/ \E id \in Ids : Fire(id)
  \/ EndScan
  \/ StopScanning

Next ==
  \/ Tick
  \/ \E c \in Callers : Calls(c)
  \/ \E id \in Ids : Unwatch(id)
  \/ Scanning
  \/ Cancel

Spec == Init /\ [][Next]_vars

-----------------------------------------------------------------------------
(* Properties.                                                              *)

Call == [op : {"watch", "heartbeat"}, id : Ids, age : 0 .. MaxStall]

TypeOK ==
  /\ targets \subseteq Ids
  /\ {beat, fired, stored, reported} \subseteq [Ids -> Ages]
  /\ call \in [Callers -> Call \cup {None}]
  /\ scan \in {"wait", "read", "fire", "stopped"}
  /\ scanAge \in 0 .. MaxStall
  /\ overdue \subseteq (IF scan = "fire" THEN targets ELSE {})
  /\ toTick \in 1 .. ScanPeriod
  /\ ticked \in BOOLEAN
  /\ ctx \in {"running", "cancelled"}
  /\ {selfBeat, logged} \subseteq Ages

Fires(id) == id \in overdue /\ id \notin overdue'

\* The callback is invoked at most once per firePeriod for a target, also when
\* calls, scans and callbacks are late; lateness shows as MaxStall at most.
FiresAreSpaced ==
  [][\A id \in Ids : Fires(id) => reported[id] > FirePeriod - MaxStall]_vars

\* A target is reported only if nothing was heard of it for its period, although
\* a late heartbeat may overwrite a later one.
SilenceIsReal ==
  [][\A id \in Ids : Fires(id) => stored[id] > Period[id] - MaxStall]_vars

\* A self heartbeat does not appear more often than selfHeartbeatPeriod.
SelfIsSpaced == [][EndScan /\ SelfDue => logged > SelfPeriod - MaxStall]_vars

\* As long as the loop runs, a target that is silent and was not reported for its
\* periods is reported by the next scan,
\* which may be waiting for a late one.
Slack == MaxStall + (IF ScanPeriod < MaxStall THEN MaxStall ELSE ScanPeriod)
OverdueIsReported ==
  ctx = "running" =>
    \A id \in targets : beat[id] <= Period[id] + Slack \/ fired[id] <= FirePeriod + Slack
=============================================================================
