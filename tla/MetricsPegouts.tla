--------------------------- MODULE MetricsPegouts ---------------------------
(***************************************************************************)
(* Two alerts of the metrics service over the table the indexer's pegout    *)
(* manager writes: alert_pegout_in_mempool follows one signed pegout at a   *)
(* time until the Bitcoin node knows its transaction, and                   *)
(* alert_pegout_fee_not_reset looks for a pegout in a confirmed block whose *)
(* fee is still set.  The services share only the database, and the alerts  *)
(* nothing.  A question of an alert that fails makes the alert critical or  *)
(* counts as "not known", whichever the code says.                          *)
(***************************************************************************)
EXTENDS PegoutManager

CONSTANTS QueryLimit,      \* the limit of LastSignedPegoutsDB
          Warn, Crit,      \* ticks after which a missing transaction is reported
          MaxAlertFaults   \* bound: unanswered questions and restarts of the service

ASSUME MetricsPegoutsAssumption ==
  /\ QueryLimit \in Nat \ {0}
  /\ {Warn, Crit, MaxAlertFaults} \subseteq Nat
  /\ 0 < Warn /\ Warn < Crit

VARIABLES
  ids,       \* pegouts in the order of their row ids
  toCheck,   \* pegoutToCheck, or None
  lastId,    \* lastCheckedPegoutId
  waited,    \* ticks since beginTimestamp
  mempool,   \* severity of alert_pegout_in_mempool
  fee,       \* severity of alert_pegout_fee_not_reset
  checked,   \* the first alert ran in this tick
  signedFor, \* history: ticks since the pegout was signed
  alertFaults \* faults so far

alert == <<toCheck, lastId, waited, mempool, fee>>
allVars == <<vars, ids, alert, checked, signedFor, alertFaults>>

\* Ages are counted up to Crit, beyond which nothing changes.
Later(n) == IF n < Crit THEN n + 1 ELSE n

AlertInit ==
  /\ Init
  /\ ids = <<>>
  /\ toCheck = None
  /\ lastId = 0
  /\ waited = 0
  /\ mempool = "OK"
  /\ fee = "OK"
  /\ checked = FALSE
  /\ signedFor = [p \in Pegouts |-> 0]
  /\ alertFaults = 0

-----------------------------------------------------------------------------
(* The indexer and time.                                                    *)

New == {p \in Pegouts : status[p] = None /\ status'[p] # None}

Indexer ==
  /\ Next
  /\ ids' = ids \o SetToSeq(New)
  /\ UNCHANGED <<alert, checked, signedFor, alertFaults>>

\* The alerts are checked more often than a tick of this clock.
Tick ==
  /\ checked
  /\ checked' = FALSE
  /\ waited' = Later(waited)
  /\ signedFor' = [p \in Pegouts |->
                    IF status[p] \in {"SIGNED", "CONFIRMED"} THEN Later(signedFor[p]) ELSE 0]
  /\ UNCHANGED <<vars, ids, toCheck, lastId, mempool, fee, alertFaults>>

-----------------------------------------------------------------------------
(* alert_pegout_in_mempool.                                                 *)

Id(p) == CHOOSE i \in DOMAIN ids : ids[i] = p

\* LastSignedPegouts: the newest rows, oldest first.
SignedIds == {i \in DOMAIN ids : status[ids[i]] = "SIGNED"}
LastSigned == {i \in SignedIds : Cardinality({j \in SignedIds : j > i}) < QueryLimit}

Candidates == {i \in LastSigned : i > lastId}

First(S) == CHOOSE i \in S : \A j \in S : i <= j

\* Mutants: the clock of the last pegout goes on; the clock starts again at every
\* check; the id of the pegout is not kept.
TakenKeepsClock ==
  IF toCheck # None THEN <<toCheck, lastId, waited>>
  ELSE IF Candidates = {} THEN <<None, lastId, waited>>
  ELSE <<ids[First(Candidates)], First(Candidates), waited>>
TakenResets ==
  IF toCheck # None THEN <<toCheck, lastId, 0>>
  ELSE IF Candidates = {} THEN <<None, lastId, waited>>
  ELSE <<ids[First(Candidates)], First(Candidates), 0>>

TakenWithoutId ==
  IF toCheck # None THEN <<toCheck, lastId, waited>>
  ELSE IF Candidates = {} THEN <<None, lastId, waited>>
  ELSE <<ids[First(Candidates)], lastId, 0>>

\* The pegout that is followed from now on, and the ticks it was waited for.
Taken ==
  IF toCheck # None THEN <<toCheck, lastId, waited>>
  ELSE IF Candidates = {} THEN <<None, lastId, waited>>
  ELSE <<ids[First(Candidates)], First(Candidates), 0>>

Severity(ticks) == IF ticks >= Crit THEN "CRITICAL" ELSE IF ticks >= Warn THEN "WARNING" ELSE "OK"

\* A node that does not answer counts as one that does not know.
Answers(p) == {Found(p)} \cup (IF alertFaults < MaxAlertFaults THEN {FALSE} ELSE {})

\* The alert asks the node about the pegout it follows.
AskNode ==
  LET followed == Taken[1] IN
  /\ lastId' = Taken[2]
  /\ waited' = Taken[3]
  /\ IF followed = None
     THEN /\ mempool' = "OK"
          /\ UNCHANGED <<toCheck, alertFaults>>
     ELSE \E answer \in Answers(followed) :
            /\ alertFaults' = IF answer = Found(followed) THEN alertFaults ELSE alertFaults + 1
            /\ toCheck' = IF answer THEN None ELSE followed
            /\ mempool' = IF answer THEN "OK" ELSE Severity(Taken[3])

\* The query for the pegouts fails: critical, and nothing is followed.
NoRows ==
  /\ toCheck = None
  /\ alertFaults < MaxAlertFaults
  /\ alertFaults' = alertFaults + 1
  /\ mempool' = "CRITICAL"
  /\ UNCHANGED <<toCheck, lastId, waited>>

CheckMempool ==
  /\ AskNode \/ NoRows
  /\ checked' = TRUE
  /\ UNCHANGED <<vars, ids, fee, signedFor>>

-----------------------------------------------------------------------------
(* alert_pegout_fee_not_reset.                                              *)

Newest(S) == CHOOSE i \in S : \A j \in S : j <= i

\* The last signed row; one without a block hash is not looked at.  deep are the
\* pegouts whose block is below the confirmed height, svb that next_svb is positive.
FeeNotReset(deep, svb) ==
  /\ SignedIds # {}
  /\ LET newest == ids[Newest(SignedIds)] IN hash[newest] # "" /\ newest \in deep /\ svb

InBlock == {p \in Pegouts : chain[p] = "block"}

\* Any of the questions may fail, the first one in every check: critical.
CheckFee(deep, svb) ==
  /\ \/ /\ fee' = IF FeeNotReset(deep, svb) THEN "CRITICAL" ELSE "OK"
        /\ UNCHANGED alertFaults
     \/ /\ alertFaults < MaxAlertFaults
        /\ alertFaults' = alertFaults + 1
        /\ fee' = "CRITICAL"
  /\ UNCHANGED <<vars, ids, toCheck, lastId, waited, mempool, checked, signedFor>>

AlertRestart ==
  /\ alertFaults < MaxAlertFaults
  /\ alertFaults' = alertFaults + 1
  /\ toCheck' = None
  /\ lastId' = 0
  /\ waited' = 0
  /\ mempool' = "OK"
  /\ fee' = "OK"
  /\ UNCHANGED <<vars, ids, checked, signedFor>>

-----------------------------------------------------------------------------
AlertNext ==
  \/ Indexer
  \/ Tick
  \/ CheckMempool
  \/ \E deep \in SUBSET InBlock, svb \in BOOLEAN : CheckFee(deep, svb)
  \/ AlertRestart

AlertSpec == AlertInit /\ [][AlertNext]_allVars

\* Time passes and the first alert is checked for ever, whatever the indexer does.
AlertFairness ==
  /\ WF_allVars(Tick)
  /\ WF_allVars(CheckMempool)

-----------------------------------------------------------------------------
(* Properties.                                                              *)

AlertTypeOK ==
  /\ {ids[i] : i \in DOMAIN ids} = {p \in Pegouts : status[p] # None}
  /\ toCheck \in Pegouts \cup {None}
  /\ toCheck # None => lastId = Id(toCheck)
  /\ lastId \in 0 .. Len(ids)
  /\ waited \in 0 .. Crit
  /\ mempool \in {"OK", "WARNING", "CRITICAL"}
  /\ fee \in {"OK", "CRITICAL"}
  /\ checked \in BOOLEAN
  /\ signedFor \in [Pegouts -> 0 .. Crit]
  /\ alertFaults \in 0 .. MaxAlertFaults

\* What every state of the rows, the node and the alerts satisfies on its own: the
\* rows as the pegout manager leaves them, and the row ids the alerts keep of them.
PegoutsWithAlertsInv == PegoutsInv /\ AlertTypeOK

\* A transaction is called missing for as long as the severity says only if it
\* was signed that long ago and the node was just asked in vain; without one, the
\* alert is critical only when the table could not be read.
MempoolAlertIsFounded ==
  [][CheckMempool /\ mempool' # "OK" =>
       IF toCheck' = None THEN mempool' = "CRITICAL" /\ alertFaults' # alertFaults
       ELSE /\ signedFor[toCheck'] >= (IF mempool' = "CRITICAL" THEN Crit ELSE Warn)
            /\ Found(toCheck') => alertFaults' # alertFaults]_allVars

\* If the alerts are checked for ever, a transaction that stays missing makes the
\* alert critical, whichever pegout it names, unless the alert has passed its row
\* id: it asks for nothing behind the last pegout it followed.
Missing(p) == status[p] = "SIGNED" /\ ~Found(p)
Unpassed(p) == toCheck = p \/ Id(p) > lastId
Reported == mempool = "CRITICAL" /\ toCheck # None
UnpassedIsReported ==
  AlertFairness =>
    \A p \in Pegouts :
      (Missing(p) /\ Unpassed(p)) ~> (~Missing(p) \/ ~Unpassed(p) \/ Reported)

\* If both loops of the pegout manager go on, every signed pegout is confirmed in
\* the end, under the conditions of PegoutsAreConfirmed; no alert has a part in it.
SignedPegoutsAreConfirmed == Fairness => PegoutsAreConfirmed
=============================================================================
