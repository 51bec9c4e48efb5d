---------------------------- MODULE EventLedger ----------------------------
(***************************************************************************)
(* What the indexer promises of the contracts' events: the database knows   *)
(* an event only after the contract raised it, all of it at once, and for   *)
(* good; and in the end it knows every event.  How the event gets there is  *)
(* the business of IndexerEvents, which implements this specification.      *)
(***************************************************************************)
CONSTANT Events

VARIABLES raised,   \* the events on the chain
          ledger    \* the events the database knows

vars == <<raised, ledger>>

Init == raised = {} /\ ledger = {}

Raise(e) ==
  /\ e \notin raised
  /\ raised' = raised \cup {e}
  /\ UNCHANGED ledger

Record(e) ==
  /\ e \in raised \ ledger
  /\ ledger' = ledger \cup {e}
  /\ UNCHANGED raised

Next == \E e \in Events : Raise(e) \/ Record(e)

Spec == Init /\ [][Next]_vars

Fairness == \A e \in Events : WF_vars(Record(e))
=============================================================================
