------------------------------ MODULE EventLog ------------------------------
(***************************************************************************)
(* What the durable event store of GodZilla promises to the rest of the    *)
(* system, with no locks, transactions, processes or failures in it: one   *)
(* growing log of accepted submissions, and delivery of a submission to    *)
(* downstream consumers only after it is in the log and at most once.      *)
(* Journal.tla is the detailed specification that implements this one.     *)
(***************************************************************************)
EXTENDS Naturals, Sequences

CONSTANT Submission     \* what a producer hands to EventJournal.publish

VARIABLES
  log,                  \* accepted submissions, in the order of acceptance
  delivered             \* ids handed to downstream consumers, oldest first

vars == <<log, delivered>>

Elements(s) == {s[i] : i \in 1 .. Len(s)}

Init ==
  /\ log = <<>>
  /\ delivered = <<>>

\* A submission can follow what is in the log when it reuses neither identity,
\* does not go back in receipt time and claims no projection row already taken.
MayFollow(s, old) ==
  /\ s.event.id # old.event.id
  /\ s.key # old.key
  /\ old.event.received <= s.event.received
  /\ s.event.rows \cap old.event.rows = {}

Accept(s) ==
  /\ \A old \in Elements(log) : MayFollow(s, old)
  /\ log' = Append(log, s)
  /\ UNCHANGED delivered

Deliver(s) ==
  /\ s \in Elements(log)
  /\ s.event.id \notin Elements(delivered)
  /\ delivered' = Append(delivered, s.event.id)
  /\ UNCHANGED log

Next == \E s \in Submission : Accept(s) \/ Deliver(s)

Spec == Init /\ [][Next]_vars

=============================================================================
