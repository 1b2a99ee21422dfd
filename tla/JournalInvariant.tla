--------------------------- MODULE JournalInvariant ---------------------------
(***************************************************************************)
(* The inductive invariant behind the properties of Journal.  The audit    *)
(* properties speak of committed rows; what makes them inductive is what   *)
(* is known of the one transaction that holds the advisory lock, whether   *)
(* its client is still there or not: its row fits the log as it stands.    *)
(***************************************************************************)
EXTENDS Journal

InTransaction == {"lookup", "tail", "insert", "commit"}

\* At most one session is inside the locked section, and it is the holder.
LockHeld ==
  /\ \A t \in Thread : pc[t] \in InTransaction <=> holder = t
  /\ orphan # NoWork <=> holder = Abandoned

\* What a thread's locals are at each label.
Locals ==
  \A t \in Thread :
    /\ pc[t] # "idle" => call[t] \in Call
    /\ pc[t] \in {"tail", "insert", "emit"} => call[t].op = "append"
    /\ pc[t] = "emit" => call[t].emits
    /\ pc[t] = "commit" => staged[t] \in Work /\ staged[t].kind = call[t].op

\* The position of each row in the log, by index.
Chained ==
  \A i \in 1 .. Len(audit) :
    /\ audit[i].previous = IF i = 1 THEN Genesis ELSE audit[i - 1].chain
    /\ audit[i].chain = ChainHash(audit[i].previous, audit[i].sub)
    /\ audit[i].sequence < nextSequence

ProjectionsAreAudited ==
  /\ projections = UNION {r.sub.event.rows : r \in Elements(audit)}
  /\ \A i, j \in 1 .. Len(audit) :
       i # j => audit[i].sub.event.rows \cap audit[j].sub.event.rows = {}

Fresh(s) ==
  \A i \in 1 .. Len(audit) : audit[i].sub.event.id # s.event.id /\ audit[i].sub.key # s.key

LastRow == IF audit = <<>> THEN Nothing ELSE audit[Len(audit)]

\* A flushed row can be appended to the log as it stands.
Fits(row) ==
  /\ Fresh(row.sub)
  /\ \A i \in 1 .. Len(audit) :
       /\ audit[i].sequence < row.sequence
       /\ audit[i].sub.event.received <= row.sub.event.received
  /\ row.sequence < nextSequence
  /\ row.sub.event.rows \cap projections = {}
  /\ row.previous = PreviousHash(LastRow)
  /\ row.chain = ChainHash(row.previous, row.sub)

WorkFits(work) ==
  /\ work.kind = "append" => Fits(work.row)
  /\ work.kind = "master" => SameId(work.snapshot) = {}

TransactionFits ==
  /\ \A t \in Thread :
       /\ pc[t] \in {"tail", "insert"} => Fresh(call[t].sub)
       /\ pc[t] = "insert" => tail[t] = LastRow /\ InReceiptOrder(tail[t], call[t].sub)
       /\ pc[t] = "commit" => WorkFits(staged[t])
  /\ WorkFits(orphan)

AuditInv ==
  /\ Chained
  /\ AuditInOrder
  /\ IdentitiesUnique
  /\ ProjectionsAreAudited
  /\ MastersUnique

\* Who wrote a staged row, and that an orphaned one is already given up.
GivenUp(row) ==
  row.emits => blocked[row.owner] \/ ~up[row.owner] \/ life[row.owner] # row.life

Provenance ==
  /\ \A t \in Thread :
       /\ ~up[ProcessOf[t]] => pc[t] = "idle"
       /\ pc[t] = "commit" /\ staged[t].kind = "append" =>
            /\ staged[t].row.sub = call[t].sub
            /\ staged[t].row.owner = ProcessOf[t]
            /\ staged[t].row.life = life[ProcessOf[t]]
            /\ staged[t].row.emits = call[t].emits
  /\ \A i \in 1 .. Len(audit) : audit[i].life <= life[audit[i].owner]
  /\ orphan.kind = "append" =>
       orphan.row.life <= life[orphan.row.owner] /\ GivenUp(orphan.row)

\* Dispatch is of committed events, once, and by one thread at a time.
Dispatching ==
  /\ \A m, n \in 1 .. Len(dispatched) : m # n => dispatched[m] # dispatched[n]
  /\ \A n \in 1 .. Len(dispatched) :
       \E i \in 1 .. Len(audit) : dispatched[n] = audit[i].sub.event.id
  /\ \A t \in Thread : pc[t] = "emit" =>
       /\ \E i \in 1 .. Len(audit) :
            call[t].sub = audit[i].sub /\ audit[i].owner = ProcessOf[t]
       /\ \A n \in 1 .. Len(dispatched) : dispatched[n] # call[t].sub.event.id
       /\ \A u \in Thread \ {t} :
            pc[u] = "emit" => call[u].sub.event.id # call[t].sub.event.id

\* Each process publishes from one thread.
OnePublisherEach == \A t, u \in Thread : ProcessOf[t] = ProcessOf[u] => t = u

\* What a thread is about to dispatch is later in the log than all that was
\* dispatched of its process.
EmitsLatest ==
  \A t \in Thread : pc[t] = "emit" =>
    \A i, j \in 1 .. Len(audit), n \in 1 .. Len(dispatched) :
      /\ audit[i].sub = call[t].sub
      /\ audit[j].sub.event.id = dispatched[n]
      /\ audit[j].owner = ProcessOf[t]
      => j < i

SafetyInv == TypeOK /\ LockHeld /\ Locals /\ AuditInv /\ TransactionFits

\* The whole inductive invariant.
IInv ==
  /\ SafetyInv /\ Provenance /\ Dispatching /\ NoSilentLoss
  /\ OnePublisherEach => EmitsLatest /\ DispatchInLogOrder

=============================================================================
