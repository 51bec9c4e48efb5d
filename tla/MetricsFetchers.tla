--------------------------- MODULE MetricsFetchers ---------------------------
(***************************************************************************)
(* The collecting half of the metrics service: fetchers poll contracts and  *)
(* Bitcoin, hand what they read to one database writer over a bounded       *)
(* channel and beat the watchdog after every round; balances are written by *)
(* their fetcher itself.  SIGTERM cancels the context, which each goroutine *)
(* sees only where it selects on it.  The process may be killed or started  *)
(* again; the tables stay.                                                  *)
(***************************************************************************)
EXTENDS Integers, Sequences, SequencesExt, FiniteSets

CONSTANTS Fetchers,
          Groups,       \* bound: sets of fetchers that run together
          Kinds,        \* Kinds[f]: the payload types f fetches in a round
          Direct,       \* fetchers that write to the database themselves
          Payloads,
          Capacity,     \* WriterDbChainSize
          MaxChanges,   \* bound: changes of what is fetched
          MaxFailures,    \* bound: fetches and statements that fail
          MaxStarts,  \* bound: starts of the process after the first
          Nil

AllKinds == UNION {Range(Kinds[f]) : f \in Fetchers}

ASSUME MetricsFetchersAssumption ==
  /\ IsFiniteSet(Fetchers)
  /\ \A f \in Fetchers : Kinds[f] \in Seq(AllKinds) \ {<<>>}
  /\ \A f, g \in Fetchers : f # g => Range(Kinds[f]) \cap Range(Kinds[g]) = {}
  /\ Direct \subseteq Fetchers
  /\ Groups \subseteq SUBSET Fetchers
  /\ Capacity \in Nat \ {0}
  /\ {MaxChanges, MaxFailures, MaxStarts} \subseteq Nat
  /\ Nil \notin Payloads

VARIABLES
  group,     \* the fetchers that run in this behaviour
  source,    \* source[k]: what the contract or the node answers, or Nil
  past,      \* history: past[k]: the answers source[k] has been
  rows,      \* rows[k]: metrics_data or metrics_balances, oldest row first
  pc,        \* pc[f]: "start", "wait", "fetch", "send" or "done"
  step,      \* step[f]: position in the round
  item,      \* item[f]: the payload f has fetched
  ch,        \* chDB: <<kind, payload>>
  writer,    \* "wait", "write" or "done"
  taken,     \* the payload the writer has received
  watch,     \* watch[f]: Nil, "beat" or "quiet", as the watchdog sees f
  reports,   \* targets it has called "not responding" since their last heartbeat
  ctx,       \* "running" or "cancelled"
  main,      \* "up" or "exited"
  changes,
  failures,
  starts

fetching == <<pc, step, item>>
writing == <<writer, taken>>
dog == <<watch, reports>>
process == <<group, ctx, main, starts>>
sources == <<source, past, changes>>
fetchersVars == <<sources, rows, fetching, ch, writing, dog, process, failures>>

Everyone(v) == [f \in Fetchers |-> v]

\* A fetcher outside the group takes no step.
Starting(g) == [f \in Fetchers |-> IF f \in g THEN "start" ELSE "done"]

FetchersInit ==
  /\ group \in Groups
  /\ source = [k \in AllKinds |-> Nil]
  /\ past = [k \in AllKinds |-> <<>>]
  /\ rows = [k \in AllKinds |-> <<>>]
  /\ pc = Starting(group)
  /\ step = Everyone(1)
  /\ item = Everyone(Nil)
  /\ ch = <<>>
  /\ writer = "wait"
  /\ taken = Nil
  /\ watch = Everyone(Nil)
  /\ reports = {}
  /\ ctx = "running"
  /\ main = "up"
  /\ changes = 0
  /\ failures = 0
  /\ starts = 0

Up == main = "up"

Change(k) ==
  /\ changes < MaxChanges
  /\ changes' = changes + 1
  /\ \E p \in (Payloads \cup {Nil}) \ {source[k]} :
       /\ source' = [source EXCEPT ![k] = p]
       /\ past' = IF p = Nil THEN past ELSE [past EXCEPT ![k] = Append(@, p)]
  /\ UNCHANGED <<rows, fetching, ch, writing, dog, process, failures>>

Lose ==
  /\ failures < MaxFailures
  /\ failures' = failures + 1

-----------------------------------------------------------------------------
(* Fetchers.                                                                *)

\* Mutant: the loop starts without a Watch.
StartUnwatched(f) ==
  /\ Up
  /\ pc[f] = "start"
  /\ pc' = [pc EXCEPT ![f] = "wait"]
  /\ UNCHANGED <<sources, rows, step, item, ch, writing, dog, process, failures>>

\* Work up to its loop.  Balances prepare their table first.
Start(f) ==
  /\ Up
  /\ pc[f] = "start"
  /\ pc' = [pc EXCEPT ![f] = "wait"]
  /\ watch' = [watch EXCEPT ![f] = "beat"]
  /\ UNCHANGED <<sources, rows, step, item, ch, writing, reports, process, failures>>

PrepareFails(f) ==
  /\ Up
  /\ pc[f] = "start"
  /\ f \in Direct
  /\ Lose
  /\ pc' = [pc EXCEPT ![f] = "done"]
  /\ UNCHANGED <<sources, rows, step, item, ch, writing, dog, process>>

TickFetcher(f) ==
  /\ Up
  /\ pc[f] = "wait"
  /\ pc' = [pc EXCEPT ![f] = "fetch"]
  /\ step' = [step EXCEPT ![f] = 1]
  /\ UNCHANGED <<sources, rows, item, ch, writing, dog, process, failures>>

\* Mutant: every part of the round fetches the first payload.
KindFirst(f) == Kinds[f][1]

Kind(f) == Kinds[f][step[f]]

\* The next part of the round, or the heartbeat at its end.
ToNext(f) ==
  IF step[f] < Len(Kinds[f])
  THEN /\ pc' = [pc EXCEPT ![f] = "fetch"]
       /\ step' = [step EXCEPT ![f] = @ + 1]
       /\ UNCHANGED dog
  ELSE /\ pc' = [pc EXCEPT ![f] = "wait"]
       /\ watch' = IF watch[f] = Nil THEN watch ELSE [watch EXCEPT ![f] = "beat"]
       /\ reports' = reports \ {f}
       /\ UNCHANGED step

Fetch(f) ==
  /\ Up
  /\ pc[f] = "fetch"
  /\ source[Kind(f)] # Nil
  /\ item' = [item EXCEPT ![f] = source[Kind(f)]]
  /\ pc' = [pc EXCEPT ![f] = "send"]
  /\ UNCHANGED <<sources, rows, step, ch, writing, dog, process, failures>>

FetchNothing(f) ==
  /\ Up
  /\ pc[f] = "fetch"
  /\ \/ source[Kind(f)] = Nil /\ UNCHANGED failures
     \/ Lose
  /\ ToNext(f)
  /\ UNCHANGED <<sources, rows, item, ch, writing, process>>

HasRoom == Len(ch) < Capacity

\* The send does not look at the context.
Send(f) ==
  /\ Up
  /\ pc[f] = "send"
  /\ f \notin Direct
  /\ HasRoom
  /\ ch' = Append(ch, <<Kind(f), item[f]>>)
  /\ item' = [item EXCEPT ![f] = Nil]
  /\ ToNext(f)
  /\ UNCHANGED <<sources, rows, writing, process, failures>>

\* A payload is inserted unless the last row of its type holds the same one.
Insert(k, p) == IF rows[k] # <<>> /\ Last(rows[k]) = p THEN rows[k] ELSE Append(rows[k], p)

WriteBalance(f) ==
  /\ Up
  /\ pc[f] = "send"
  /\ f \in Direct
  /\ \/ rows' = [rows EXCEPT ![Kind(f)] = Insert(Kind(f), item[f])] /\ UNCHANGED failures
     \/ Lose /\ UNCHANGED rows
  /\ item' = [item EXCEPT ![f] = Nil]
  /\ ToNext(f)
  /\ UNCHANGED <<sources, ch, writing, process>>

\* Mutant: the loop does not select on the context.
StopNever(f) ==
  /\ pc[f] = "wait"
  /\ ctx \notin {"running", "cancelled"}
  /\ pc' = [pc EXCEPT ![f] = "done"]
  /\ UNCHANGED <<sources, rows, step, item, ch, writing, dog, process, failures>>

Stop(f) ==
  /\ Up
  /\ pc[f] = "wait"
  /\ ctx = "cancelled"
  /\ pc' = [pc EXCEPT ![f] = "done"]
  /\ watch' = [watch EXCEPT ![f] = Nil]
  /\ UNCHANGED <<sources, rows, step, item, ch, writing, reports, process, failures>>

-----------------------------------------------------------------------------
(* The writer.                                                              *)

\* Mutant: the newest payload is received first.
ReceiveLast ==
  /\ Up
  /\ writer = "wait"
  /\ ch # <<>>
  /\ writer' = "write"
  /\ taken' = Last(ch)
  /\ ch' = Front(ch)
  /\ UNCHANGED <<sources, rows, fetching, dog, process, failures>>

Receive ==
  /\ Up
  /\ writer = "wait"
  /\ ch # <<>>
  /\ writer' = "write"
  /\ taken' = Head(ch)
  /\ ch' = Tail(ch)
  /\ UNCHANGED <<sources, rows, fetching, dog, process, failures>>

Write ==
  /\ Up
  /\ writer = "write"
  /\ rows' = [rows EXCEPT ![taken[1]] = Insert(taken[1], taken[2])]
  /\ writer' = "wait"
  /\ taken' = Nil
  /\ UNCHANGED <<sources, fetching, ch, dog, process, failures>>

\* The payload is dropped; the next round of its fetcher brings it again.
WriteFails ==
  /\ Up
  /\ writer = "write"
  /\ Lose
  /\ writer' = "wait"
  /\ taken' = Nil
  /\ UNCHANGED <<sources, rows, fetching, ch, dog, process>>

WriterStops ==
  /\ Up
  /\ writer = "wait"
  /\ ctx = "cancelled"
  /\ writer' = "done"
  /\ UNCHANGED <<sources, rows, fetching, ch, taken, dog, process, failures>>

-----------------------------------------------------------------------------
(* The watchdog, as far as a fetcher can tell, and the process.             *)

\* The period of f passes; a cancelled context ends the scans too.
Lapse(f) ==
  /\ Up
  /\ ctx = "running"
  /\ watch[f] # Nil
  /\ watch' = [watch EXCEPT ![f] = "quiet"]
  /\ reports' = IF watch[f] = "quiet" THEN reports \cup {f} ELSE reports
  /\ <<watch, reports>>' # <<watch, reports>>
  /\ UNCHANGED <<sources, rows, fetching, ch, writing, process, failures>>

Cancel ==
  /\ Up
  /\ ctx = "running"
  /\ ctx' = "cancelled"
  /\ UNCHANGED <<sources, rows, fetching, ch, writing, dog, group, main, starts, failures>>

AllDone == writer = "done" /\ \A f \in Fetchers : pc[f] = "done"

\* When all goroutines are done, or five seconds later.
Exit ==
  /\ Up
  /\ ctx = "cancelled"
  /\ main' = "exited"
  /\ UNCHANGED <<sources, rows, fetching, ch, writing, dog, group, ctx, starts, failures>>

\* A crash, or the start after an exit.
RestartService ==
  /\ starts < MaxStarts
  /\ starts' = starts + 1
  /\ pc' = Starting(group)
  /\ step' = Everyone(1)
  /\ item' = Everyone(Nil)
  /\ ch' = <<>>
  /\ writer' = "wait"
  /\ taken' = Nil
  /\ watch' = Everyone(Nil)
  /\ reports' = {}
  /\ ctx' = "running"
  /\ main' = "up"
  /\ UNCHANGED <<sources, rows, group, failures>>

-----------------------------------------------------------------------------
Polling(f) ==
  \/ f \notin Direct /\ Start(f)
  \/ TickFetcher(f)
  \/ Fetch(f)
  \/ FetchNothing(f)
  \/ Send(f)

\* What a fetcher does with statements of its own.
Stating(f) ==
  \/ f \in Direct /\ Start(f)
  \/ PrepareFails(f)
  \/ WriteBalance(f)

Fetching(f) == Polling(f) \/ Stating(f)

Writing == Receive \/ Write \/ WriteFails

FetchersNext ==
  \/ \E k \in AllKinds : Change(k)
  \/ \E f \in Fetchers : Fetching(f) \/ Stop(f) \/ Lapse(f)
  \/ Writing
  \/ WriterStops
  \/ Cancel
  \/ Exit
  \/ RestartService

\* Tickers tick, calls return, the watchdog runs; a select with two ready cases
\* takes each of them sooner or later.
FetchersFairness ==
  /\ \A f \in Fetchers : WF_fetchersVars(Polling(f)) /\ SF_fetchersVars(Stop(f)) /\ WF_fetchersVars(Lapse(f))
  /\ SF_fetchersVars(WriterStops)

FetchersSpec == FetchersInit /\ [][FetchersNext]_fetchersVars

\* The database may leave a statement without an answer, whoever makes it: none of
\* them has a timeout.
HangingSpec == FetchersSpec /\ FetchersFairness

\* It does not.
DatabaseAnswers ==
  /\ WF_fetchersVars(Writing)
  /\ \A f \in Fetchers : WF_fetchersVars(Stating(f))

-----------------------------------------------------------------------------
(* Properties.                                                              *)

FetchersTypeOK ==
  /\ group \in Groups
  /\ source \in [AllKinds -> Payloads \cup {Nil}]
  /\ past \in [AllKinds -> Seq(Payloads)]
  /\ rows \in [AllKinds -> Seq(Payloads)]
  /\ pc \in [Fetchers -> {"start", "wait", "fetch", "send", "done"}]
  /\ step \in [Fetchers -> Nat]
  /\ item \in [Fetchers -> Payloads \cup {Nil}]
  /\ \A f \in Fetchers : step[f] \in DOMAIN Kinds[f] /\ (item[f] # Nil <=> pc[f] = "send")
  /\ ch \in Seq(AllKinds \X Payloads) /\ Len(ch) <= Capacity
  /\ writer \in {"wait", "write", "done"}
  /\ taken \in (IF writer = "write" THEN AllKinds \X Payloads ELSE {Nil})
  /\ watch \in [Fetchers -> {Nil, "beat", "quiet"}]
  /\ reports \subseteq Fetchers
  /\ ctx \in {"running", "cancelled"}
  /\ main \in {"up", "exited"}
  /\ changes \in 0 .. MaxChanges
  /\ failures \in 0 .. MaxFailures
  /\ starts \in 0 .. MaxStarts

\* Two rows of a type that follow each other differ: the service does not repeat
\* what it has written, over losses and restarts.
NeighboursDiffer ==
  \A k \in AllKinds : \A i \in 1 .. Len(rows[k]) - 1 : rows[k][i] # rows[k][i + 1]

\* What is written is what the source has answered, in the order of its answers:
\* no row is followed by one for an older state.
RowsFollowSource ==
  \A k \in AllKinds : \E at \in [DOMAIN rows[k] -> DOMAIN past[k]] :
    /\ \A i \in DOMAIN rows[k] : rows[k][i] = past[k][at[i]]
    /\ \A i, j \in DOMAIN rows[k] : i < j => at[i] < at[j]

\* What every state of the tables satisfies on its own.
RowsInv == FetchersTypeOK /\ NeighboursDiffer /\ RowsFollowSource

\* When the source stays what it is, its answer ends up as the last row, unless
\* the service is stopping or the fetcher never started.
LatestIsStored == DatabaseAnswers =>
  \A f \in Fetchers : \A k \in Range(Kinds[f]) :
    <>[](source[k] # Nil => rows[k] # <<>> /\ Last(rows[k]) = source[k])
      \/ <>[](ctx = "cancelled" \/ pc[f] = "done")

\* A stop hangs, until it is cut off, only if a fetcher waits for room that the
\* writer, which has left, will not make.
StopHangsOnSend == DatabaseAnswers =>
  (ctx = "cancelled" ~>
    \/ AllDone
    \/ ctx = "running" \/ main = "exited"
    \/ writer = "done" /\ ~HasRoom /\ \E f \in Fetchers : pc[f] = "send")

\* A fetcher that is held up by a database that does not answer, in a statement of
\* its own or behind the writer's, is reported, and again after each recovery,
\* unless the service is stopped first.
Held(f) == pc[f] = "send" /\ ctx = "running" /\ Up
StuckIsReported == \A f \in Fetchers : Held(f) ~> (~Held(f) \/ f \in reports)
=============================================================================
