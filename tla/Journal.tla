------------------------------- MODULE Journal -------------------------------
(***************************************************************************)
(* EventJournal.publish and save_instruments over PostgresRepository.      *)
(*                                                                         *)
(* A process owns one EventJournal, whose halt latch lives in memory only; *)
(* its threads publish through it concurrently.  Every append is one       *)
(* database transaction, modelled statement by statement: the advisory     *)
(* lock, the lookup of both identities, the read of the tail row, the      *)
(* flush of the audit row and its projections, the commit.  A connection   *)
(* may be lost and a process may die between any two statements; the       *)
(* server session then lives on, holding the lock, until the server aborts *)
(* it or, when COMMIT was already sent, finishes it.                       *)
(*                                                                         *)
(* SHA256 is collision free here: a chain hash is the sequence of the      *)
(* submissions it covers, and two envelopes have the same digest when they *)
(* are equal.                                                              *)
(***************************************************************************)
EXTENDS Naturals, Sequences, FiniteSets

CONSTANTS
  Thread, Process, ProcessOf, \* threads of the processes that share the store
  Submission,                 \* event envelope, idempotency key, optional state
  EventId, Key, Projection,   \* identities; unique keys of projection tables
  State, Scope, NoState,      \* SystemStateSnapshot and its primary key
  Snapshot, SnapshotId,       \* instrument masters: records [id, content]
  Free, Abandoned,            \* who holds the advisory lock when no thread does
  Nothing,                    \* an unset Python local
  MaxLife                     \* bound on the incarnations of one process

Event == [id : EventId, received : Nat, rows : SUBSET Projection]

ASSUME ThreadsBelongToProcesses == ProcessOf \in [Thread -> Process]
ASSUME SubmissionsAreTyped ==
  \A s \in Submission :
    /\ s = [event |-> s.event, key |-> s.key, state |-> s.state]
    /\ s.event \in Event
    /\ s.key \in Key
    /\ s.state \in State \cup {NoState}
ASSUME StatesHaveScopes == \A st \in State : st.scope \in Scope
ASSUME NoStateIsNoState == NoState \notin State
ASSUME SnapshotsHaveIds == \A m \in Snapshot : m.id \in SnapshotId
ASSUME LockTokensAreNotThreads == {Free, Abandoned} \cap Thread = {} /\ Free # Abandoned
ASSUME LivesAreBounded == MaxLife \in Nat

VARIABLES
  audit,         \* committed rows of audit_events, in the order of commit
  nextSequence,  \* the identity column's generator, which never rolls back
  projections,   \* unique keys present in the projection tables
  systemState,   \* system_state: the last state merged for each scope
  masters,       \* instrument_versions
  holder,        \* owner of pg_advisory_xact_lock(471104)
  orphan,        \* what a server session without a client may still commit
  up, life,      \* is the process running, and its incarnation
  blocked,       \* EventJournal._blocked
  validated,     \* EventJournal._validated
  pc, call,      \* where a thread is, and the arguments of its call
  tail,          \* local "tail" of append
  staged,        \* the rows its open transaction has flushed
  dispatched     \* ids whose emit returned, in that order

dbVars == <<audit, nextSequence, projections, systemState, masters>>
lockVars == <<holder, orphan>>
journalVars == <<up, life, blocked, validated>>
threadVars == <<pc, call, tail, staged>>
vars == <<dbVars, lockVars, journalVars, threadVars, dispatched>>

-----------------------------------------------------------------------------
(* Rows and the work of a transaction. *)

Elements(s) == {s[i] : i \in 1 .. Len(s)}

\* An audit row.  The fields owner, life and emits are not stored: they record
\* which call wrote the row, for the properties.
Row == [sequence : Nat, sub : Submission,
        previous : Seq(Submission), chain : Seq(Submission),
        owner : Process, life : Nat, emits : BOOLEAN]

Call == [op : {"append"}, sub : Submission, emits : BOOLEAN]
          \cup [op : {"master"}, snapshot : Snapshot]

Work == [kind : {"append"}, row : Row] \cup [kind : {"master"}, snapshot : Snapshot]
NoWork == [kind |-> "none"]
Doomed == [kind |-> "doomed"]

ASSUME NothingIsUnset == Nothing \notin Row /\ Nothing \notin Call

Genesis == <<>>
ChainHash(previous, s) == Append(previous, s)
PreviousHash(row) == IF row = Nothing THEN Genesis ELSE row.chain

\* mutant: the lookup compares event ids only
Matches_IdOnly(s) == {r \in Elements(audit) : r.sub.event.id = s.event.id}

\* The rows the duplicate query selects: either identity is enough.
Matches(s) == {r \in Elements(audit) : r.sub.event.id = s.event.id \/ r.sub.key = s.key}

\* The row with the highest sequence number, if there is a row.
IsTail(row) ==
  \/ audit = <<>> /\ row = Nothing
  \/ /\ row \in Elements(audit)
     /\ \A r \in Elements(audit) : r.sequence <= row.sequence

\* mutant: projections are merged into their tables instead of inserted
ProjectionsFree_Merged(s) == s \in Submission

ProjectionsFree(s) == s.event.rows \cap projections = {}

\* mutant: a master is looked up by its whole content
SameId_ByContent(m) == masters \cap {m}

SameId(m) == {n \in masters : n.id = m.id}

WriteState(s) ==
  systemState' = IF s.state = NoState THEN systemState
                 ELSE [systemState EXCEPT ![s.state.scope] = s.state]

\* The effect of COMMIT: everything the transaction flushed becomes visible.
Apply(work) ==
  \/ /\ work.kind = "append"
     /\ audit' = Append(audit, work.row)
     /\ projections' = projections \cup work.row.sub.event.rows
     /\ WriteState(work.row.sub)
     /\ UNCHANGED <<nextSequence, masters>>
  \/ /\ work.kind = "master"
     /\ masters' = masters \cup {work.snapshot}
     /\ UNCHANGED <<audit, nextSequence, projections, systemState>>

-----------------------------------------------------------------------------
(* Leaving a call. *)

Journal(t) == ProcessOf[t]
ThreadsOf(p) == {t \in Thread : ProcessOf[t] = p}

Finish(threads) ==
  /\ pc' = [t \in Thread |-> IF t \in threads THEN "idle" ELSE pc[t]]
  /\ call' = [t \in Thread |-> IF t \in threads THEN Nothing ELSE call[t]]
  /\ tail' = [t \in Thread |-> IF t \in threads THEN Nothing ELSE tail[t]]
  /\ staged' = [t \in Thread |-> IF t \in threads THEN NoWork ELSE staged[t]]

Latch(t) == blocked' = [blocked EXCEPT ![Journal(t)] = TRUE]
Validate(t) == validated' = [validated EXCEPT ![Journal(t)] = TRUE]

Goto(t, label) == pc' = [pc EXCEPT ![t] = label]

\* mutant: the failed transaction is left open
Raise_LeftOpen(t) ==
  /\ Latch(t)
  /\ Finish({t})
  /\ UNCHANGED <<holder, orphan, up, life, validated, dispatched>>

\* An exception inside the transaction: rollback frees the lock, publish latches.
Raise(t) ==
  /\ holder' = Free
  /\ Latch(t)
  /\ Finish({t})
  /\ UNCHANGED <<orphan, up, life, validated, dispatched>>

\* The client side of some transactions is gone.  The server may still finish
\* the one that had sent COMMIT; any other can only be aborted.
Abandon(threads) ==
  /\ Finish(threads)
  /\ IF holder \in threads
     THEN /\ holder' = Abandoned
          /\ orphan' = IF pc[holder] = "commit" THEN staged[holder] ELSE Doomed
     ELSE UNCHANGED lockVars

Init ==
  /\ audit = <<>>
  /\ nextSequence = 1
  /\ projections = {}
  /\ systemState = [sc \in Scope |-> NoState]
  /\ masters = {}
  /\ holder = Free
  /\ orphan = NoWork
  /\ up = [p \in Process |-> TRUE]
  /\ life = [p \in Process |-> 0]
  /\ blocked = [p \in Process |-> FALSE]
  /\ validated = [p \in Process |-> FALSE]
  /\ pc = [t \in Thread |-> "idle"]
  /\ call = [t \in Thread |-> Nothing]
  /\ tail = [t \in Thread |-> Nothing]
  /\ staged = [t \in Thread |-> NoWork]
  /\ dispatched = <<>>

-----------------------------------------------------------------------------
(* Calls. *)

CanCall(t) == up[Journal(t)] /\ pc[t] = "idle"

Begin(t, c) ==
  /\ CanCall(t)
  /\ ~blocked[Journal(t)]
  /\ call' = [call EXCEPT ![t] = c]
  /\ Goto(t, "lock")
  /\ UNCHANGED <<dbVars, lockVars, journalVars, tail, staged, dispatched>>

Publish(t) ==
  \E s \in Submission, emits \in BOOLEAN :
    Begin(t, [op |-> "append", sub |-> s, emits |-> emits])

SaveInstruments(t) ==
  \E m \in Snapshot : Begin(t, [op |-> "master", snapshot |-> m])

\* A malformed key, or a state that does not reference the event, raises
\* before any SQL, inside publish's try: it latches the journal too.
PublishMalformed(t) ==
  /\ CanCall(t)
  /\ ~blocked[Journal(t)]
  /\ Latch(t)
  /\ UNCHANGED <<dbVars, lockVars, up, life, validated, threadVars, dispatched>>

\* A latched journal refuses every call and changes nothing.
CallRefused(t) ==
  /\ CanCall(t)
  /\ blocked[Journal(t)]
  /\ UNCHANGED vars

\* mutant: the advisory lock is taken in shared mode
AcquireLock_Shared(t) ==
  /\ pc[t] = "lock"
  /\ holder # Abandoned
  /\ holder' = t
  /\ Goto(t, "lookup")
  /\ UNCHANGED <<dbVars, orphan, journalVars, call, tail, staged, dispatched>>

AcquireLock(t) ==
  /\ pc[t] = "lock"
  /\ holder = Free
  /\ holder' = t
  /\ Goto(t, "lookup")
  /\ UNCHANGED <<dbVars, orphan, journalVars, call, tail, staged, dispatched>>

-----------------------------------------------------------------------------
(* PostgresRepository.append under the lock. *)

LookupMiss(t) ==
  /\ pc[t] = "lookup" /\ call[t].op = "append"
  /\ Matches(call[t].sub) = {}
  /\ Goto(t, "tail")
  /\ UNCHANGED <<dbVars, lockVars, journalVars, call, tail, staged, dispatched>>

\* mutant: a redelivery is dispatched again
Redelivered_Emits(t) ==
  /\ pc[t] = "lookup" /\ call[t].op = "append"
  /\ \E r \in Matches(call[t].sub) : r.sub = call[t].sub
  /\ holder' = Free
  /\ Validate(t)
  /\ Goto(t, "emit")
  /\ UNCHANGED <<dbVars, orphan, up, life, blocked, call, tail, staged, dispatched>>

\* Same envelope, key and state projection: append returns False, publish
\* counts a success and emits nothing.
Redelivered(t) ==
  /\ pc[t] = "lookup" /\ call[t].op = "append"
  /\ \E r \in Matches(call[t].sub) : r.sub = call[t].sub
  /\ holder' = Free
  /\ Validate(t)
  /\ Finish({t})
  /\ UNCHANGED <<dbVars, orphan, up, life, blocked, dispatched>>

LookupConflict(t) ==
  /\ pc[t] = "lookup" /\ call[t].op = "append"
  /\ \E r \in Matches(call[t].sub) : r.sub # call[t].sub
  /\ Raise(t)
  /\ UNCHANGED dbVars

\* mutant: the receipt check is dropped
InReceiptOrder_Any(row, s) == row = Nothing \/ s \in Submission

\* With no tail, or a tail that was not received later, the append goes on.
InReceiptOrder(row, s) == row # Nothing => row.sub.event.received <= s.event.received

ReadTail(t) ==
  /\ pc[t] = "tail"
  /\ \E row \in Elements(audit) \cup {Nothing} :
       /\ IsTail(row)
       /\ InReceiptOrder(row, call[t].sub)
       /\ tail' = [tail EXCEPT ![t] = row]
  /\ Goto(t, "insert")
  /\ UNCHANGED <<dbVars, lockVars, journalVars, call, staged, dispatched>>

ReceiptRegression(t) ==
  /\ pc[t] = "tail"
  /\ \E row \in Elements(audit) \cup {Nothing} :
       IsTail(row) /\ ~InReceiptOrder(row, call[t].sub)
  /\ Raise(t)
  /\ UNCHANGED dbVars

NewRow(t) ==
  [sequence |-> nextSequence,
   sub      |-> call[t].sub,
   previous |-> PreviousHash(tail[t]),
   chain    |-> ChainHash(PreviousHash(tail[t]), call[t].sub),
   owner    |-> Journal(t),
   life     |-> life[Journal(t)],
   emits    |-> call[t].emits]

InsertRow(t) ==
  /\ pc[t] = "insert"
  /\ ProjectionsFree(call[t].sub)
  /\ nextSequence' = nextSequence + 1
  /\ staged' = [staged EXCEPT ![t] = [kind |-> "append", row |-> NewRow(t)]]
  /\ Goto(t, "commit")
  /\ UNCHANGED <<audit, projections, systemState, masters, lockVars, journalVars,
                 call, tail, dispatched>>

\* A unique constraint of a projection table fails: the flushed audit row goes
\* too, and leaves a gap in the sequence.
InsertConflict(t) ==
  /\ pc[t] = "insert"
  /\ ~ProjectionsFree(call[t].sub)
  /\ nextSequence' = nextSequence + 1
  /\ Raise(t)
  /\ UNCHANGED <<audit, projections, systemState, masters>>

-----------------------------------------------------------------------------
(* PostgresRepository.save_master under the lock. *)

MasterMiss(t) ==
  /\ pc[t] = "lookup" /\ call[t].op = "master"
  /\ SameId(call[t].snapshot) = {}
  /\ staged' = [staged EXCEPT ![t] = [kind |-> "master", snapshot |-> call[t].snapshot]]
  /\ Goto(t, "commit")
  /\ UNCHANGED <<dbVars, lockVars, journalVars, call, tail, dispatched>>

MasterKnown(t) ==
  /\ pc[t] = "lookup" /\ call[t].op = "master"
  /\ call[t].snapshot \in SameId(call[t].snapshot)
  /\ holder' = Free
  /\ Validate(t)
  /\ Finish({t})
  /\ UNCHANGED <<dbVars, orphan, up, life, blocked, dispatched>>

MasterConflict(t) ==
  /\ pc[t] = "lookup" /\ call[t].op = "master"
  /\ \E m \in SameId(call[t].snapshot) : m # call[t].snapshot
  /\ Raise(t)
  /\ UNCHANGED dbVars

-----------------------------------------------------------------------------
(* Commit, dispatch. *)

\* COMMIT is acknowledged; an accepted event with a consumer goes to dispatch.
CommitAndEmit(t) ==
  /\ pc[t] = "commit" /\ call[t].op = "append" /\ call[t].emits
  /\ Apply(staged[t])
  /\ holder' = Free
  /\ Validate(t)
  /\ Goto(t, "emit")
  /\ UNCHANGED <<orphan, up, life, blocked, call, tail, staged, dispatched>>

CommitAndReturn(t) ==
  /\ pc[t] = "commit" /\ ~(call[t].op = "append" /\ call[t].emits)
  /\ Apply(staged[t])
  /\ holder' = Free
  /\ Validate(t)
  /\ Finish({t})
  /\ UNCHANGED <<orphan, up, life, blocked, dispatched>>

\* mutant: the consumer is given the idempotency key for an identity
Emit_ByKey(t) ==
  /\ pc[t] = "emit"
  /\ dispatched' = Append(dispatched, call[t].sub.key)
  /\ Finish({t})
  /\ UNCHANGED <<dbVars, lockVars, journalVars>>

Emit(t) ==
  /\ pc[t] = "emit"
  /\ dispatched' = Append(dispatched, call[t].sub.event.id)
  /\ Finish({t})
  /\ UNCHANGED <<dbVars, lockVars, journalVars>>

\* mutant: the exception of a consumer is swallowed
EmitFails_Swallowed(t) ==
  /\ pc[t] = "emit"
  /\ Finish({t})
  /\ UNCHANGED <<dbVars, lockVars, journalVars, dispatched>>

EmitFails(t) ==
  /\ pc[t] = "emit"
  /\ Latch(t)
  /\ Finish({t})
  /\ UNCHANGED <<dbVars, lockVars, up, life, validated, dispatched>>

-----------------------------------------------------------------------------
(* Failures. *)

\* Any statement of the transaction may fail with its connection.
LoseConnection(t) ==
  /\ pc[t] \notin {"idle", "emit"}
  /\ Latch(t)
  /\ Abandon({t})
  /\ UNCHANGED <<dbVars, up, life, validated, dispatched>>

Crash(p) ==
  /\ up[p]
  /\ life[p] < MaxLife
  /\ up' = [up EXCEPT ![p] = FALSE]
  /\ Abandon(ThreadsOf(p))
  /\ UNCHANGED <<dbVars, life, blocked, validated, dispatched>>

\* A new EventJournal starts unblocked and unvalidated: the latch is in memory.
Restart(p) ==
  /\ ~up[p]
  /\ up' = [up EXCEPT ![p] = TRUE]
  /\ life' = [life EXCEPT ![p] = @ + 1]
  /\ blocked' = [blocked EXCEPT ![p] = FALSE]
  /\ validated' = [validated EXCEPT ![p] = FALSE]
  /\ UNCHANGED <<dbVars, lockVars, threadVars, dispatched>>

OrphanAborts ==
  /\ holder = Abandoned
  /\ holder' = Free
  /\ orphan' = NoWork
  /\ UNCHANGED <<dbVars, journalVars, threadVars, dispatched>>

OrphanCommits ==
  /\ holder = Abandoned
  /\ orphan # Doomed
  /\ Apply(orphan)
  /\ holder' = Free
  /\ orphan' = NoWork
  /\ UNCHANGED <<journalVars, threadVars, dispatched>>

-----------------------------------------------------------------------------

\* What a thread does once its call has begun, the wait for the lock aside.
Proceed(t) ==
  \/ LookupMiss(t) \/ Redelivered(t) \/ LookupConflict(t)
  \/ ReadTail(t) \/ ReceiptRegression(t)
  \/ InsertRow(t) \/ InsertConflict(t)
  \/ MasterMiss(t) \/ MasterKnown(t) \/ MasterConflict(t)
  \/ CommitAndEmit(t) \/ CommitAndReturn(t)
  \/ Emit(t) \/ EmitFails(t)

Next ==
  \/ \E t \in Thread :
       \/ Publish(t) \/ SaveInstruments(t) \/ PublishMalformed(t) \/ CallRefused(t)
       \/ AcquireLock(t)
       \/ Proceed(t)
       \/ LoseConnection(t)
  \/ \E p \in Process : Crash(p) \/ Restart(p)
  \/ OrphanAborts \/ OrphanCommits

Spec == Init /\ [][Next]_vars

\* Statements return (the server answers or the connection is lost), lock waits
\* are served in turn, and the server ends the session of a dead client.
Fairness ==
  /\ \A t \in Thread : SF_vars(AcquireLock(t)) /\ WF_vars(Proceed(t))
  /\ WF_vars(OrphanAborts)

FairSpec == Spec /\ Fairness

-----------------------------------------------------------------------------
(* Properties. *)

Labels == {"idle", "lock", "lookup", "tail", "insert", "commit", "emit"}

\* Every variable keeps its type; in particular whatever a transaction stages,
\* by EventJournal.publish or save_instruments, is a whole row or snapshot.
TypeOK ==
  /\ audit \in Seq(Row)
  /\ nextSequence \in Nat
  /\ projections \subseteq Projection
  /\ systemState \in [Scope -> State \cup {NoState}]
  /\ masters \subseteq Snapshot
  /\ holder \in Thread \cup {Free, Abandoned}
  /\ orphan \in Work \cup {NoWork, Doomed}
  /\ up \in [Process -> BOOLEAN]
  /\ life \in [Process -> Nat]
  /\ blocked \in [Process -> BOOLEAN]
  /\ validated \in [Process -> BOOLEAN]
  /\ pc \in [Thread -> Labels]
  /\ call \in [Thread -> Call \cup {Nothing}]
  /\ tail \in [Thread -> Row \cup {Nothing}]
  /\ staged \in [Thread -> Work \cup {NoWork}]
  /\ dispatched \in Seq(EventId)

\* read_events accepts the log whatever commits, crashes and races produced it:
\* taken by sequence number, each row continues the hash chain of the row before.
ChainIntact ==
  \A r \in Elements(audit) :
    LET below == {q \in Elements(audit) : q.sequence < r.sequence}
    IN /\ r.chain = ChainHash(r.previous, r.sub)
       /\ \/ below = {} /\ r.previous = Genesis
          \/ \E q \in below : /\ \A x \in below : x.sequence <= q.sequence
                              /\ r.previous = q.chain

\* A row never becomes visible below a sequence number a reader has already
\* seen (read_events pages on it), and receipt times never go back along it.
AuditInOrder ==
  \A i, j \in 1 .. Len(audit) :
    i < j => /\ audit[i].sequence < audit[j].sequence
             /\ audit[i].sub.event.received <= audit[j].sub.event.received

\* append's lookup and the advisory lock keep both identities unique, although
\* each retry and each concurrent duplicate is looked up before it is inserted.
IdentitiesUnique ==
  \A i, j \in 1 .. Len(audit) :
    i # j => /\ audit[i].sub.event.id # audit[j].sub.event.id
             /\ audit[i].sub.key # audit[j].sub.key

LastStateOf(sc, st) ==
  \E i \in 1 .. Len(audit) :
    /\ audit[i].sub.state = st
    /\ \A j \in i + 1 .. Len(audit) :
         audit[j].sub.state = NoState \/ audit[j].sub.state.scope # sc

\* Projection tables and system_state say exactly what the log says: no torn
\* transaction, no projection row claimed twice, no redelivery rewriting state.
TablesMatchAudit ==
  /\ projections = UNION {r.sub.event.rows : r \in Elements(audit)}
  /\ \A i, j \in 1 .. Len(audit) :
       i # j => audit[i].sub.event.rows \cap audit[j].sub.event.rows = {}
  /\ \A sc \in Scope :
       \/ systemState[sc] # NoState /\ LastStateOf(sc, systemState[sc])
       \/ /\ systemState[sc] = NoState
          /\ \A r \in Elements(audit) : r.sub.state = NoState \/ r.sub.state.scope # sc

\* save_master never stores two contents under one snapshot id, whoever races.
MastersUnique == \A m, n \in masters : m.id = n.id => m = n

\* EventJournal.health.
Health(p) ==
  IF blocked[p] THEN "UNHEALTHY" ELSE IF validated[p] THEN "HEALTHY" ELSE "UNKNOWN"

AboutToEmit(id) == \E t \in Thread : pc[t] = "emit" /\ call[t].sub.event.id = id

\* A committed event whose consumer was never told is either about to be
\* dispatched, or the journal that committed it says UNHEALTHY, or is gone:
\* publish has no path on which a dispatch is lost silently.
NoSilentLoss ==
  \A r \in Elements(audit) :
    r.emits =>
      \/ r.sub.event.id \in Elements(dispatched)
      \/ AboutToEmit(r.sub.event.id)
      \/ Health(r.owner) = "UNHEALTHY"
      \/ ~up[r.owner] \/ life[r.owner] # r.life

\* Publishing implements the abstract event log: the audit table is its log,
\* and consumers are told of committed events only, each at most once.
AbstractLog ==
  INSTANCE EventLog WITH log <- [i \in 1 .. Len(audit) |-> audit[i].sub],
                         delivered <- dispatched
ImplementsEventLog == AbstractLog!Spec

\* With one publishing thread per process, consumers of a process hear of its
\* events in the order the audit table (and so a replay) has them.
DispatchInLogOrder ==
  \A i, j \in 1 .. Len(audit), m, n \in 1 .. Len(dispatched) :
    /\ audit[i].sub.event.id = dispatched[m]
    /\ audit[j].sub.event.id = dispatched[n]
    /\ audit[i].owner = audit[j].owner
    /\ i < j
    => m < n

\* Every publish and save_instruments call ends, whoever dies holding the lock.
CallsReturn == \A t \in Thread : pc[t] # "idle" ~> pc[t] = "idle"

=============================================================================
