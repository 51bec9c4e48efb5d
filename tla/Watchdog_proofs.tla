-------------------------- MODULE Watchdog_proofs --------------------------
(***************************************************************************)
(* Proofs about Watchdog for every set of targets and callers and for every *)
(* choice of the periods and of the stall.                                  *)
(***************************************************************************)
EXTENDS Watchdog, TLAPS

\* What the horizon is for, and the types of the constants.
LEMMA ConstantsType ==
  /\ ScanPeriod \in Nat /\ FirePeriod \in Nat /\ MaxStall \in Nat /\ Horizon \in Nat
  /\ 0 < ScanPeriod /\ FirePeriod + MaxStall < Horizon
  /\ \A id \in Ids : Period[id] \in Nat /\ Period[id] + MaxStall < Horizon
BY WatchdogAssumption, PeriodsAssumption, HorizonAssumption

LEMMA OlderType ==
  ASSUME NEW age \in Ages
  PROVE  Older(age) \in Ages /\ Older(age) <= age + 1
BY ConstantsType DEF Older, Ages

LEMMA AllOlderType ==
  ASSUME NEW f \in [Ids -> Ages]
  PROVE  AllOlder(f) \in [Ids -> Ages] /\ \A id \in Ids : AllOlder(f)[id] = Older(f[id])
BY OlderType DEF AllOlder

-----------------------------------------------------------------------------
(* Type correctness.                                                        *)

LEMMA TypeInit == Init => TypeOK
<1> SUFFICES ASSUME Init PROVE TypeOK
  OBVIOUS
<1>1. 0 \in Ages /\ Horizon \in Ages
  BY ConstantsType DEF Ages
<1>2. /\ beat \in [Ids -> Ages] /\ fired \in [Ids -> Ages]
      /\ stored \in [Ids -> Ages] /\ reported \in [Ids -> Ages]
      /\ selfBeat \in Ages /\ logged \in Ages
  BY <1>1 DEF Init
<1>3. scanAge \in 0 .. MaxStall /\ toTick \in 1 .. ScanPeriod
  BY ConstantsType DEF Init
<1>4. call \in [Callers -> Call \cup {None}]
  BY DEF Init
<1> QED BY <1>2, <1>3, <1>4 DEF Init, TypeOK

LEMMA TypeTick == TypeOK /\ Tick => TypeOK'
<1> SUFFICES ASSUME TypeOK, Tick PROVE TypeOK'
  OBVIOUS
<1>1. ({beat, fired, stored, reported} \subseteq [Ids -> Ages])'
  BY AllOlderType DEF TypeOK, Tick
<1>2. (call \in [Callers -> Call \cup {None}])'
  <2>1. ASSUME NEW c \in Callers, call[c] # None
        PROVE  [call[c] EXCEPT !.age = @ + 1] \in Call
    <3>1. call[c] \in Call /\ call[c].age < MaxStall
      BY <2>1 DEF TypeOK, Tick
    <3> QED BY <3>1, ConstantsType DEF Call
  <2> QED BY <2>1 DEF Tick, TypeOK
<1>3. (scanAge \in 0 .. MaxStall)'
  BY ConstantsType DEF Tick, TypeOK
<1>4. (toTick \in 1 .. ScanPeriod /\ ticked \in BOOLEAN)'
  BY ConstantsType DEF Tick, TypeOK, TickerTicks
<1>5. ({selfBeat, logged} \subseteq Ages)'
  BY OlderType DEF Tick, TypeOK
<1> QED BY <1>1, <1>2, <1>3, <1>4, <1>5 DEF Tick, TypeOK

LEMMA TypeCalls ==
  ASSUME TypeOK, NEW c \in Callers, Calls(c)
  PROVE  TypeOK'
<1>0. MaxStall \in Ages /\ 0 .. MaxStall \subseteq Ages /\ 0 \in Ages
  BY ConstantsType DEF Ages
<1>1. ASSUME NEW id \in Ids, NEW op \in {"watch", "heartbeat"}, ReadClock(c, op, id)
      PROVE  TypeOK'
  <2>1. [op |-> op, id |-> id, age |-> 0] \in Call
    BY ConstantsType DEF Call
  <2>2. (call \in [Callers -> Call \cup {None}])'
    BY <1>1, <2>1 DEF ReadClock, TypeOK
  <2> QED BY <1>1, <2>2 DEF ReadClock, TypeOK, map, loop, ticker, history
<1>2. ASSUME FinishWatch(c) PROVE TypeOK'
  <2>1. call[c] \in Call
    BY <1>2 DEF FinishWatch, In, TypeOK
  <2>2. call[c].id \in Ids /\ call[c].age \in Ages
    BY <2>1, <1>0 DEF Call
  <2>3. (call \in [Callers -> Call \cup {None}])'
    BY <1>2 DEF FinishWatch, Returns, TypeOK
  <2>4. ({beat, fired, stored, reported} \subseteq [Ids -> Ages])'
    BY <1>2, <2>2, <1>0 DEF FinishWatch, TypeOK
  <2>5. targets' \subseteq Ids
    BY <1>2, <2>2 DEF FinishWatch, TypeOK
  <2>6. scan # "fire" /\ overdue = {}
    BY <1>2 DEF FinishWatch, MutexIsFree, TypeOK
  <2> QED BY <1>2, <2>3, <2>4, <2>5, <2>6 DEF FinishWatch, TypeOK, loop, ticker
<1>3. ASSUME FinishHeartbeat(c) PROVE TypeOK'
  <2>1. call[c] \in Call
    BY <1>3 DEF FinishHeartbeat, In, TypeOK
  <2>2. call[c].id \in Ids /\ call[c].age \in Ages
    BY <2>1, <1>0 DEF Call
  <2>3. (call \in [Callers -> Call \cup {None}])'
    BY <1>3 DEF FinishHeartbeat, Returns, TypeOK
  <2>4. ({beat, stored} \subseteq [Ids -> Ages])'
    BY <1>3, <2>2, <1>0 DEF FinishHeartbeat, TypeOK
  <2> QED BY <1>3, <2>3, <2>4 DEF FinishHeartbeat, TypeOK, loop, ticker
<1> QED BY <1>1, <1>2, <1>3 DEF Calls

LEMMA TypeUnwatch ==
  ASSUME TypeOK, NEW id \in Ids, Unwatch(id)
  PROVE  TypeOK'
<1>1. scan # "fire" /\ overdue = {}
  BY DEF Unwatch, MutexIsFree, TypeOK
<1> QED BY <1>1 DEF Unwatch, TypeOK, loop, ticker, history

LEMMA TypeScanning == TypeOK /\ Scanning => TypeOK'
<1>0. 0 .. MaxStall \subseteq Ages /\ 0 \in Ages /\ 0 \in 0 .. MaxStall
  BY ConstantsType DEF Ages
<1>1. ASSUME TypeOK, BeginScan PROVE TypeOK'
  BY <1>0, <1>1 DEF BeginScan, TypeOK, map, history
<1>2. ASSUME TypeOK, LockAndCollect PROVE TypeOK'
  BY <1>2 DEF LockAndCollect, TypeOK, map, ticker, history
<1>3. ASSUME TypeOK, NEW id \in Ids, Fire(id) PROVE TypeOK'
  <2>1. ({fired, reported} \subseteq [Ids -> Ages])'
    BY <1>0, <1>3 DEF Fire, TypeOK
  <2> QED BY <1>3, <2>1 DEF Fire, TypeOK, ticker
<1>4. ASSUME TypeOK, EndScan PROVE TypeOK'
  <2>1. ({selfBeat, logged} \subseteq Ages)'
    BY <1>0, <1>4 DEF EndScan, TypeOK
  <2> QED BY <1>4, <2>1 DEF EndScan, TypeOK, map, ticker
<1>5. ASSUME TypeOK, StopScanning PROVE TypeOK'
  BY <1>5 DEF StopScanning, TypeOK, map, ticker, history
<1> QED BY <1>1, <1>2, <1>3, <1>4, <1>5 DEF Scanning

LEMMA TypeNext == TypeOK /\ [Next]_vars => TypeOK'
<1>1. ASSUME TypeOK, Cancel PROVE TypeOK'
  BY <1>1 DEF Cancel, TypeOK, map, loop, ticker, history
<1>2. ASSUME TypeOK, UNCHANGED vars PROVE TypeOK'
  BY <1>2 DEF vars, TypeOK, map, loop, ticker, history
<1> QED BY <1>1, <1>2, TypeTick, TypeCalls, TypeUnwatch, TypeScanning DEF Next

\* The type invariant of the watchdog: among others, that the scan reports
\* targets of the map only, and that nothing takes longer than the stall.
THEOREM TypeCorrect == Spec => []TypeOK
<1> QED BY TypeInit, TypeNext, PTL DEF Spec

-----------------------------------------------------------------------------
(* Late writes.  A time stamp in the map may be older than the moment it    *)
(* was written, by no more than the stall.                                  *)

LateByStall ==
  /\ \A id \in Ids : beat[id] <= stored[id] + MaxStall
  /\ \A id \in Ids : fired[id] <= reported[id] + MaxStall
  /\ selfBeat <= logged + MaxStall

\* What is collected under the mutex stays due until it is reported.
StaysDue == \A id \in overdue : Due(id)

LEMMA LateInit == Init => LateByStall /\ StaysDue
BY ConstantsType DEF Init, LateByStall, StaysDue

\* Two ages grow together, and the horizon is not crossed by the older only.
LEMMA GrowTogether ==
  ASSUME NEW x \in Ages, NEW y \in Ages, x <= y + MaxStall
  PROVE  Older(x) <= Older(y) + MaxStall
BY ConstantsType DEF Ages, Older

LEMMA LateTick == TypeOK /\ LateByStall /\ StaysDue /\ Tick => LateByStall' /\ StaysDue'
<1> SUFFICES ASSUME TypeOK, LateByStall, StaysDue, Tick PROVE LateByStall' /\ StaysDue'
  OBVIOUS
<1>1. ASSUME NEW id \in Ids
      PROVE  /\ beat'[id] = Older(beat[id]) /\ stored'[id] = Older(stored[id])
             /\ fired'[id] = Older(fired[id]) /\ reported'[id] = Older(reported[id])
             /\ {beat[id], stored[id], fired[id], reported[id]} \subseteq Ages
  BY AllOlderType DEF TypeOK, Tick
<1>2. LateByStall'
  <2>1. ASSUME NEW id \in Ids
        PROVE  beat'[id] <= stored'[id] + MaxStall /\ fired'[id] <= reported'[id] + MaxStall
    BY <1>1, GrowTogether DEF LateByStall
  <2>2. selfBeat' <= logged' + MaxStall
    BY GrowTogether DEF LateByStall, Tick, TypeOK
  <2> QED BY <2>1, <2>2 DEF LateByStall
<1>3. StaysDue'
  <2>1. ASSUME NEW id \in overdue
        PROVE  beat'[id] > Period[id] /\ fired'[id] - scanAge' > FirePeriod
    <3>1. id \in Ids /\ scan = "fire"
      BY DEF TypeOK
    <3>2. scanAge' = scanAge + 1 /\ scanAge \in Nat /\ scanAge < MaxStall
      BY <3>1 DEF Tick, Busy, TypeOK
    <3>3. beat[id] > Period[id] /\ fired[id] - scanAge > FirePeriod
      BY DEF StaysDue, Due
    <3>4. beat'[id] > Period[id]
      BY <1>1, <3>1, <3>3, ConstantsType DEF Older, Ages
    <3>5. fired'[id] - scanAge' > FirePeriod
      BY <1>1, <3>1, <3>2, <3>3, ConstantsType DEF Older, Ages
    <3> QED BY <3>4, <3>5
  <2> QED BY <2>1 DEF StaysDue, Due, Tick
<1> QED BY <1>2, <1>3

LEMMA LateCalls ==
  ASSUME TypeOK, LateByStall, StaysDue, NEW c \in Callers, Calls(c)
  PROVE  LateByStall' /\ StaysDue'
<1>1. ASSUME NEW id \in Ids, NEW op \in {"watch", "heartbeat"}, ReadClock(c, op, id)
      PROVE  LateByStall' /\ StaysDue'
  BY <1>1 DEF ReadClock, LateByStall, StaysDue, Due, map, loop, history
<1>2. ASSUME FinishWatch(c) PROVE LateByStall' /\ StaysDue'
  <2>1. call[c] \in Call
    BY <1>2 DEF FinishWatch, In, TypeOK
  <2>2. call[c].id \in Ids /\ call[c].age \in 0 .. MaxStall
    BY <2>1 DEF Call
  <2>3. overdue' = {}
    BY <1>2 DEF FinishWatch, MutexIsFree, TypeOK, loop
  <2>4. ASSUME NEW id \in Ids
        PROVE  beat'[id] <= stored'[id] + MaxStall /\ fired'[id] <= reported'[id] + MaxStall
    BY <1>2, <2>2, ConstantsType DEF FinishWatch, LateByStall, TypeOK, Ages
  <2> QED BY <1>2, <2>3, <2>4 DEF FinishWatch, LateByStall, StaysDue
<1>3. ASSUME FinishHeartbeat(c) PROVE LateByStall' /\ StaysDue'
  <2>1. call[c] \in Call
    BY <1>3 DEF FinishHeartbeat, In, TypeOK
  <2>2. call[c].id \in Ids /\ call[c].age \in 0 .. MaxStall
    BY <2>1 DEF Call
  <2>3. overdue' = {}
    BY <1>3 DEF FinishHeartbeat, MutexIsFree, TypeOK, loop
  <2>4. ASSUME NEW id \in Ids
        PROVE  beat'[id] <= stored'[id] + MaxStall
    BY <1>3, <2>2, ConstantsType DEF FinishHeartbeat, LateByStall, TypeOK, Ages
  <2> QED BY <1>3, <2>3, <2>4 DEF FinishHeartbeat, LateByStall, StaysDue
<1> QED BY <1>1, <1>2, <1>3 DEF Calls

LEMMA LateScanning ==
  TypeOK /\ LateByStall /\ StaysDue /\ Scanning => LateByStall' /\ StaysDue'
<1> SUFFICES ASSUME TypeOK, LateByStall, StaysDue, Scanning PROVE LateByStall' /\ StaysDue'
  OBVIOUS
<1>1. CASE BeginScan
  <2>1. overdue' = {}
    BY <1>1 DEF BeginScan, TypeOK
  <2> QED BY <1>1, <2>1 DEF BeginScan, LateByStall, StaysDue, map, history
<1>2. CASE LockAndCollect
  BY <1>2 DEF LockAndCollect, LateByStall, StaysDue, Due, map, history
<1>3. ASSUME NEW id \in Ids, Fire(id) PROVE LateByStall' /\ StaysDue'
  <2>1. ASSUME NEW other \in Ids
        PROVE  fired'[other] <= reported'[other] + MaxStall
    BY <1>3, ConstantsType DEF Fire, LateByStall, TypeOK, Ages
  <2>2. ASSUME NEW other \in overdue' PROVE Due(other)'
    <3>1. other \in overdue /\ other # id /\ fired'[other] = fired[other]
      BY <1>3, <2>2 DEF Fire, TypeOK
    <3> QED BY <1>3, <3>1 DEF Fire, StaysDue, Due
  <2> QED BY <1>3, <2>1, <2>2 DEF Fire, LateByStall, StaysDue
<1>4. CASE EndScan
  <2>1. selfBeat' <= logged' + MaxStall
    BY <1>4, ConstantsType DEF EndScan, LateByStall, TypeOK
  <2> QED BY <1>4, <2>1 DEF EndScan, LateByStall, StaysDue, map
<1>5. CASE StopScanning
  BY <1>5 DEF StopScanning, LateByStall, StaysDue, Due, map, history
<1> QED BY <1>1, <1>2, <1>3, <1>4, <1>5 DEF Scanning

LEMMA LateNext ==
  TypeOK /\ LateByStall /\ StaysDue /\ [Next]_vars => LateByStall' /\ StaysDue'
<1>1. ASSUME LateByStall, StaysDue, NEW id \in Ids, Unwatch(id)
      PROVE  LateByStall' /\ StaysDue'
  BY <1>1 DEF Unwatch, LateByStall, StaysDue, Due, loop, history
<1>2. ASSUME LateByStall, StaysDue, Cancel \/ UNCHANGED vars
      PROVE  LateByStall' /\ StaysDue'
  BY <1>2 DEF Cancel, LateByStall, StaysDue, Due, vars, map, loop, history
<1> QED BY <1>1, <1>2, LateTick, LateCalls, LateScanning DEF Next

LEMMA LateAlways == Spec => [](TypeOK /\ LateByStall /\ StaysDue)
BY TypeInit, TypeNext, LateInit, LateNext, PTL DEF Spec

LEMMA FiringIsDue ==
  ASSUME TypeOK, LateByStall, StaysDue, NEW id \in Ids, Fires(id)
  PROVE  reported[id] > FirePeriod - MaxStall /\ stored[id] > Period[id] - MaxStall
<1>1. Due(id)
  BY DEF Fires, StaysDue
<1>2. /\ beat[id] \in Nat /\ fired[id] \in Nat /\ stored[id] \in Nat /\ reported[id] \in Nat
      /\ scanAge \in Nat
  BY DEF TypeOK, Ages
<1>3. beat[id] <= stored[id] + MaxStall /\ fired[id] <= reported[id] + MaxStall
  BY DEF LateByStall
<1> QED BY <1>1, <1>2, <1>3, ConstantsType DEF Due

\* Whatever is late, a target is reported at most once per firePeriod less the
\* stall: lastFire is written with the mutex held, with a time no older.
THEOREM FiringIsSpaced == Spec => FiresAreSpaced
<1>1. TypeOK /\ LateByStall /\ StaysDue
      => [\A id \in Ids : Fires(id) => reported[id] > FirePeriod - MaxStall]_vars
  BY FiringIsDue
<1> QED BY <1>1, LateAlways, PTL DEF FiresAreSpaced

\* A target is reported only after a silence of its period less the stall.
THEOREM ReportedIsSilent == Spec => SilenceIsReal
<1>1. TypeOK /\ LateByStall /\ StaysDue
      => [\A id \in Ids : Fires(id) => stored[id] > Period[id] - MaxStall]_vars
  BY FiringIsDue
<1> QED BY <1>1, LateAlways, PTL DEF SilenceIsReal

\* The self heartbeat appears at most once per its period less the stall.
THEOREM SelfHeartbeatIsSpaced == Spec => SelfIsSpaced
<1>1. TypeOK /\ LateByStall /\ StaysDue
      => [EndScan /\ SelfDue => logged > SelfPeriod - MaxStall]_vars
  BY WatchdogAssumption DEF SelfDue, LateByStall, TypeOK, Ages
<1> QED BY <1>1, LateAlways, PTL DEF SelfIsSpaced

-----------------------------------------------------------------------------
(* Nothing overdue is missed.  LateBy(id) is how far an id of the map may be *)
(* beyond its periods: the time since the last scan while the loop waits,    *)
(* and more while a scan that was late has not come to the id.               *)

Longest == IF ScanPeriod < MaxStall THEN MaxStall ELSE ScanPeriod

LateBy(id) ==
  IF scan = "wait" THEN (IF ticked THEN Longest ELSE ScanPeriod - toTick)
  ELSE IF scan = "read" \/ id \in overdue THEN scanAge + Longest
  ELSE scanAge

Within(id) == beat[id] <= Period[id] + LateBy(id) \/ fired[id] <= FirePeriod + LateBy(id)

ScanInv ==
  /\ scan # "stopped" => \A id \in targets : Within(id)
  /\ Busy /\ ~ticked => scanAge <= ScanPeriod - toTick
  /\ scan = "stopped" => ctx = "cancelled"

LEMMA LongestType == Longest \in Nat /\ ScanPeriod <= Longest /\ MaxStall <= Longest
BY ConstantsType DEF Longest

LEMMA LateByType ==
  ASSUME TypeOK, NEW id \in Ids
  PROVE  LateBy(id) \in Nat
BY LongestType, ConstantsType DEF LateBy, TypeOK

LEMMA ScanInit == Init => ScanInv
BY DEF Init, ScanInv, Busy

LEMMA ScanTick == TypeOK /\ ScanInv /\ Tick => ScanInv'
<1> SUFFICES ASSUME TypeOK, ScanInv, Tick PROVE ScanInv'
  OBVIOUS
<1>1. /\ targets' = targets /\ scan' = scan /\ overdue' = overdue /\ ctx' = ctx
      /\ scanAge' = (IF Busy THEN scanAge + 1 ELSE scanAge)
      /\ toTick' = (IF toTick = 1 THEN ScanPeriod ELSE toTick - 1)
      /\ ticked' = (ticked \/ toTick = 1)
      /\ ~(scan = "wait" /\ ticked)
  BY DEF Tick, TickerTicks
<1>2. scanAge \in Nat /\ toTick \in Nat /\ 1 <= toTick /\ toTick <= ScanPeriod
  BY ConstantsType DEF TypeOK
<1>3. ASSUME scan # "stopped", NEW id \in targets PROVE Within(id)'
  <2>1. id \in Ids /\ Within(id)
    BY <1>3 DEF TypeOK, ScanInv
  <2>2. /\ beat'[id] \in Nat /\ beat[id] \in Nat /\ beat'[id] <= beat[id] + 1
        /\ fired'[id] \in Nat /\ fired[id] \in Nat /\ fired'[id] <= fired[id] + 1
    BY <2>1, AllOlderType, OlderType DEF Tick, TypeOK, Ages
  <2>3. LateBy(id) \in Nat
    BY <2>1, LateByType
  <2>4. LateBy(id)' \in Nat /\ LateBy(id) + 1 <= LateBy(id)'
    <3>1. CASE scan = "wait"
      <4>1. ~ticked /\ LateBy(id) = ScanPeriod - toTick
        BY <1>1, <3>1 DEF LateBy
      <4>2. CASE toTick = 1
        <5>1. LateBy(id)' = Longest
          BY <1>1, <3>1, <4>2 DEF LateBy, Longest
        <5> QED BY <4>1, <4>2, <5>1, LongestType, ConstantsType
      <4>3. CASE toTick # 1
        <5>1. ~ticked' /\ toTick' = toTick - 1
          BY <1>1, <4>1, <4>3
        <5>2. LateBy(id)' = ScanPeriod - (toTick - 1)
          BY <1>1, <3>1, <5>1 DEF LateBy
        <5> QED BY <1>2, <4>1, <4>3, <5>2, ConstantsType
      <4> QED BY <4>2, <4>3
    <3>2. CASE scan \in {"read", "fire"}
      BY <1>1, <1>2, <3>2, LongestType DEF LateBy, Busy
    <3> QED BY <1>3, <3>1, <3>2 DEF TypeOK
  <2> QED BY <2>1, <2>2, <2>3, <2>4, ConstantsType DEF Within
<1>4. (Busy /\ ~ticked => scanAge <= ScanPeriod - toTick)'
  <2> SUFFICES ASSUME Busy', ~ticked' PROVE scanAge' <= ScanPeriod - toTick'
    OBVIOUS
  <2>1. Busy /\ ~ticked /\ toTick # 1
    BY <1>1 DEF Busy
  <2>2. scanAge <= ScanPeriod - toTick
    BY <2>1 DEF ScanInv
  <2>3. scanAge' = scanAge + 1 /\ toTick' = toTick - 1
    BY <1>1, <2>1
  <2> QED BY <1>2, <2>2, <2>3, ConstantsType
<1> QED BY <1>1, <1>3, <1>4 DEF ScanInv

LEMMA ScanCalls ==
  ASSUME MaxStall <= FirePeriod, \A id \in Ids : MaxStall <= Period[id],
         TypeOK, ScanInv, NEW c \in Callers, Calls(c)
  PROVE  ScanInv'
<1>1. ASSUME NEW id \in Ids, NEW op \in {"watch", "heartbeat"}, ReadClock(c, op, id)
      PROVE  ScanInv'
  BY <1>1 DEF ReadClock, ScanInv, Within, LateBy, Busy, map, loop, ticker
<1>2. ASSUME FinishWatch(c) \/ FinishHeartbeat(c) PROVE ScanInv'
  <2>1. call[c] \in Call
    BY <1>2 DEF FinishWatch, FinishHeartbeat, In, TypeOK
  <2>2. call[c].id \in Ids /\ call[c].age \in Nat /\ call[c].age <= MaxStall
    BY <2>1, ConstantsType DEF Call
  <2>3. scan' = scan /\ scanAge' = scanAge /\ toTick' = toTick /\ ticked' = ticked
        /\ overdue' = overdue /\ ctx' = ctx
    BY <1>2 DEF FinishWatch, FinishHeartbeat, loop, ticker
  <2>4. ASSUME scan # "stopped", NEW id \in targets' PROVE Within(id)'
    <3>0. id \in Ids /\ (id \in targets \/ id = call[c].id)
      BY <1>2, <2>2, <2>4 DEF FinishWatch, FinishHeartbeat, TypeOK
    <3>1. LateBy(id)' = LateBy(id) /\ LateBy(id) \in Nat
      BY <2>3, <3>0, LateByType DEF LateBy
    <3>2. CASE id = call[c].id /\ (FinishWatch(c) \/ id \in targets)
      <4>1. beat'[id] = call[c].age
        BY <1>2, <3>0, <3>2 DEF FinishWatch, FinishHeartbeat, TypeOK
      <4> QED BY <2>2, <3>0, <3>1, <4>1, ConstantsType DEF Within
    <3>3. CASE id # call[c].id
      <4>1. id \in targets /\ beat'[id] = beat[id] /\ fired'[id] = fired[id]
        BY <1>2, <3>0, <3>3 DEF FinishWatch, FinishHeartbeat, TypeOK
      <4> QED BY <2>4, <3>1, <4>1 DEF Within, ScanInv
    <3>4. id \in targets \/ FinishWatch(c)
      BY <1>2, <2>4 DEF FinishHeartbeat
    <3> QED BY <3>2, <3>3, <3>4
  <2> QED BY <2>3, <2>4 DEF ScanInv, Busy
<1> QED BY <1>1, <1>2 DEF Calls

LEMMA ScanScanning == TypeOK /\ ScanInv /\ Scanning => ScanInv'
<1> SUFFICES ASSUME TypeOK, ScanInv, Scanning PROVE ScanInv'
  OBVIOUS
<1>0. /\ scanAge \in Nat /\ scanAge <= MaxStall
      /\ toTick \in Nat /\ 1 <= toTick /\ toTick <= ScanPeriod
      /\ \A id \in targets : id \in Ids /\ beat[id] \in Nat /\ fired[id] \in Nat
  BY ConstantsType DEF TypeOK, Ages
<1>1. CASE BeginScan
  <2>1. scanAge' = 0 /\ scan' = "read" /\ toTick' = toTick /\ scan = "wait" /\ ticked
    BY <1>1 DEF BeginScan
  <2>2. \A id \in targets : LateBy(id)' = LateBy(id)
    BY <2>1, LongestType DEF LateBy
  <2> QED BY <1>0, <1>1, <2>1, <2>2, ConstantsType DEF BeginScan, ScanInv, Within, Busy, map
<1>2. CASE LockAndCollect
  <2>1. scanAge' = scanAge /\ ticked' = ticked /\ toTick' = toTick /\ targets' = targets
        /\ beat' = beat /\ fired' = fired /\ scan' = "fire" /\ scan = "read"
        /\ overdue' = {id \in targets : Due(id)}
    BY <1>2 DEF LockAndCollect, map, ticker
  <2>2. ASSUME NEW id \in targets PROVE Within(id)'
    <3>1. CASE Due(id)
      <4>1. LateBy(id)' = LateBy(id)
        BY <2>1, <3>1 DEF LateBy
      <4> QED BY <2>1, <4>1 DEF Within, ScanInv
    <3>2. CASE ~Due(id)
      <4>1. LateBy(id)' = scanAge
        BY <2>1, <3>2 DEF LateBy
      <4> QED BY <1>0, <2>1, <3>2, <4>1, ConstantsType DEF Within, Due
    <3> QED BY <3>1, <3>2
  <2> QED BY <2>1, <2>2 DEF ScanInv, Busy
<1>3. ASSUME NEW id \in Ids, Fire(id) PROVE ScanInv'
  <2>1. scanAge' = scanAge /\ ticked' = ticked /\ toTick' = toTick /\ targets' = targets
        /\ beat' = beat /\ scan' = scan /\ scan = "fire"
        /\ overdue' = overdue \ {id} /\ fired' = [fired EXCEPT ![id] = scanAge]
    BY <1>3 DEF Fire, ticker
  <2>2. ASSUME NEW other \in targets PROVE Within(other)'
    <3>1. CASE other = id
      <4>1. LateBy(other)' = scanAge /\ fired'[other] = scanAge
        BY <2>1, <3>1 DEF LateBy, TypeOK
      <4> QED BY <1>0, <4>1, ConstantsType DEF Within
    <3>2. CASE other # id
      <4>1. LateBy(other)' = LateBy(other) /\ fired'[other] = fired[other]
        BY <1>0, <2>1, <3>2 DEF LateBy, TypeOK
      <4> QED BY <2>1, <4>1 DEF Within, ScanInv
    <3> QED BY <3>1, <3>2
  <2> QED BY <2>1, <2>2 DEF ScanInv, Busy
<1>4. CASE EndScan
  <2>1. scanAge' = scanAge /\ ticked' = ticked /\ toTick' = toTick /\ targets' = targets
        /\ beat' = beat /\ fired' = fired /\ scan' = "wait" /\ scan = "fire" /\ overdue = {}
    BY <1>4 DEF EndScan, map, ticker
  <2>2. ASSUME NEW id \in targets PROVE Within(id)'
    <3>1. LateBy(id) = scanAge
      BY <2>1 DEF LateBy
    <3>2. LateBy(id)' \in Nat /\ scanAge <= LateBy(id)'
      <4>1. LateBy(id)' = IF ticked THEN Longest ELSE ScanPeriod - toTick
        BY <2>1 DEF LateBy
      <4>2. ~ticked => scanAge <= ScanPeriod - toTick
        BY <2>1 DEF ScanInv, Busy
      <4> QED BY <1>0, <4>1, <4>2, LongestType, ConstantsType
    <3>3. Within(id)
      BY <2>1 DEF ScanInv
    <3> QED BY <1>0, <2>1, <3>1, <3>2, <3>3, ConstantsType DEF Within
  <2> QED BY <2>1, <2>2 DEF ScanInv, Busy
<1>5. CASE StopScanning
  BY <1>5 DEF StopScanning, ScanInv, Busy
<1> QED BY <1>1, <1>2, <1>3, <1>4, <1>5 DEF Scanning

LEMMA ScanNext ==
  ASSUME MaxStall <= FirePeriod, \A id \in Ids : MaxStall <= Period[id]
  PROVE  TypeOK /\ ScanInv /\ [Next]_vars => ScanInv'
<1>1. ASSUME ScanInv, NEW id \in Ids, Unwatch(id) PROVE ScanInv'
  BY <1>1 DEF Unwatch, ScanInv, Within, LateBy, Busy, loop, ticker
<1>2. ASSUME ScanInv, Cancel PROVE ScanInv'
  BY <1>2 DEF Cancel, ScanInv, Within, LateBy, Busy, map, loop, ticker
<1>3. ASSUME ScanInv, UNCHANGED vars PROVE ScanInv'
  BY <1>3 DEF ScanInv, Within, LateBy, Busy, vars, map, loop, ticker
<1> QED BY <1>1, <1>2, <1>3, ScanTick, ScanCalls, ScanScanning DEF Next

LEMMA ScanReports == TypeOK /\ ScanInv => OverdueIsReported
<1> SUFFICES ASSUME TypeOK, ScanInv, ctx = "running", NEW id \in targets
             PROVE  beat[id] <= Period[id] + Slack \/ fired[id] <= FirePeriod + Slack
  BY DEF OverdueIsReported
<1>1. id \in Ids /\ beat[id] \in Nat /\ fired[id] \in Nat
  BY DEF TypeOK, Ages
<1>2. Within(id)
  BY DEF ScanInv
<1>3. LateBy(id) \in Nat /\ LateBy(id) <= Slack /\ Slack \in Nat
  <2>1. Slack = MaxStall + Longest
    BY DEF Slack, Longest
  <2> QED BY <1>1, <2>1, LongestType, ConstantsType DEF LateBy, TypeOK
<1> QED BY <1>1, <1>2, <1>3, ConstantsType DEF Within

\* No silent target is missed, however late calls, scans and callbacks are, as
\* long as the stall is within the periods: the ticker keeps the tick that a
\* late scan could not take.
THEOREM OverdueReported ==
  ASSUME MaxStall <= FirePeriod, \A id \in Ids : MaxStall <= Period[id]
  PROVE  Spec => []OverdueIsReported
<1>1. TypeOK /\ ScanInv /\ [Next]_vars => ScanInv'
  BY ScanNext
<1> QED BY <1>1, TypeCorrect, ScanInit, ScanReports, PTL DEF Spec
=============================================================================
