---------------------------- MODULE JournalProofs ----------------------------
(***************************************************************************)
(* Theorems about Journal for every number of threads and processes and    *)
(* every set of submissions.                                               *)
(***************************************************************************)
EXTENDS JournalInvariant, TLAPS

-----------------------------------------------------------------------------
(* Helpers on rows and calls. *)

\* The elements of a typed sequence are typed, and are its values by index.
LEMMA ElementsTyped ==
  ASSUME NEW S, NEW s \in Seq(S)
  PROVE  /\ Elements(s) \subseteq S
         /\ \A x : x \in Elements(s) <=> \E i \in 1 .. Len(s) : x = s[i]
BY DEF Elements

\* A call that is not a save of instruments carries a typed submission.
LEMMA AppendCallTyped ==
  ASSUME NEW c \in Call, c.op = "append"
  PROVE  /\ c.sub \in Submission /\ c.emits \in BOOLEAN
         /\ c.sub.event \in Event /\ c.sub.event.id \in EventId
         /\ c.sub.event.rows \subseteq Projection /\ c.sub.event.received \in Nat
         /\ c.sub.key \in Key
         /\ c.sub.state \in State \cup {NoState}
BY SubmissionsAreTyped DEF Call, Event

\* A call that saves instruments brings a snapshot.
LEMMA MasterCallTyped ==
  ASSUME NEW c \in Call, c.op = "master"
  PROVE  c.snapshot \in Snapshot
BY DEF Call

\* The fields of a row.
LEMMA RowTyped ==
  ASSUME NEW r \in Row
  PROVE  /\ r.sub \in Submission /\ r.sequence \in Nat /\ r.life \in Nat
         /\ r.owner \in Process /\ r.emits \in BOOLEAN
         /\ r.previous \in Seq(Submission) /\ r.chain \in Seq(Submission)
         /\ r.sub.event.rows \subseteq Projection /\ r.sub.event.received \in Nat
         /\ r.sub.event.id \in EventId /\ r.sub.key \in Key
         /\ r.sub.state \in State \cup {NoState}
         /\ r # Nothing
BY SubmissionsAreTyped, NothingIsUnset DEF Row, Event

\* What a transaction may stage.
LEMMA WorkTyped ==
  ASSUME NEW w \in Work
  PROVE  /\ w.kind \in {"append", "master"}
         /\ w.kind = "append" => w.row \in Row
         /\ w.kind = "master" => w.snapshot \in Snapshot
         /\ w # NoWork /\ w # Doomed
BY DEF Work, NoWork, Doomed


-----------------------------------------------------------------------------
(* Type correctness.  It is inductive together with what the labels say of *)
(* a thread's locals.                                                      *)

TypeInv == TypeOK /\ Locals

\* Leaving a call resets the locals of the threads that leave, and only those.
LEMMA FinishTypes ==
  ASSUME TypeInv, NEW threads, Finish(threads)
  PROVE  /\ pc' \in [Thread -> Labels]
         /\ call' \in [Thread -> Call \cup {Nothing}]
         /\ tail' \in [Thread -> Row \cup {Nothing}]
         /\ staged' \in [Thread -> Work \cup {NoWork}]
         /\ Locals'
BY DEF TypeInv, TypeOK, Locals, Finish, Labels

\* What COMMIT makes visible is typed when the transaction's work is.
LEMMA ApplyTypes ==
  ASSUME TypeOK, NEW work \in Work, Apply(work)
  PROVE  /\ audit' \in Seq(Row)
         /\ nextSequence' \in Nat
         /\ projections' \subseteq Projection
         /\ systemState' \in [Scope -> State \cup {NoState}]
         /\ masters' \subseteq Snapshot
<1>1. CASE work.kind = "append"
  <2>1. work.row \in Row /\ work.kind # "master"
    BY <1>1, WorkTyped
  <2>2. systemState' \in [Scope -> State \cup {NoState}]
    <3>1. CASE work.row.sub.state = NoState
      BY <1>1, <2>1, <3>1 DEF Apply, WriteState, TypeOK
    <3>2. CASE work.row.sub.state # NoState
      <4>1. work.row.sub.state \in State
        BY <2>1, <3>2, RowTyped
      <4>2. work.row.sub.state.scope \in Scope
        BY <4>1, StatesHaveScopes
      <4> QED BY <1>1, <2>1, <3>2, <4>1, <4>2 DEF Apply, WriteState, TypeOK
    <3> QED BY <3>1, <3>2
  <2>3. projections' \subseteq Projection
    BY <1>1, <2>1, RowTyped DEF Apply, TypeOK
  <2>4. audit' \in Seq(Row)
    <3>1. audit' = Append(audit, work.row) /\ audit \in Seq(Row)
      BY <1>1, <2>1 DEF Apply, TypeOK
    <3> QED BY <2>1, <3>1
  <2> QED BY <1>1, <2>1, <2>2, <2>3, <2>4 DEF Apply, TypeOK
<1>2. CASE work.kind = "master"
  BY <1>2, WorkTyped DEF Apply, TypeOK
<1> QED BY <1>1, <1>2, WorkTyped

\* Giving up a transaction leaves the lock with the server session, together
\* with work that is staged or can only be aborted.
LEMMA AbandonTypes ==
  ASSUME TypeInv, NEW threads \in SUBSET Thread, Abandon(threads)
  PROVE  /\ holder' \in Thread \cup {Free, Abandoned}
         /\ orphan' \in Work \cup {NoWork, Doomed}
BY DEF TypeInv, TypeOK, Locals, Abandon, lockVars

\* The first state is typed.
LEMMA InitTypes == Init => TypeInv
BY LivesAreBounded DEF Init, TypeInv, TypeOK, Locals, Labels, Work, NoWork, Doomed

\* Every step keeps the types.
LEMMA NextTypes == TypeInv /\ [Next]_vars => TypeInv'
<1> SUFFICES ASSUME TypeInv, [Next]_vars
             PROVE  TypeInv'
  OBVIOUS
<1> USE DEF TypeInv
<1>1. ASSUME NEW t \in Thread, NEW c \in Call, Begin(t, c)
      PROVE  TypeInv'
  BY <1>1 DEF Begin, CanCall, Goto, TypeOK, Locals, Labels,
              dbVars, lockVars, journalVars
<1>2. ASSUME NEW t \in Thread, Publish(t) \/ SaveInstruments(t)
      PROVE  TypeInv'
  <2>1. PICK c \in Call : Begin(t, c)
    BY <1>2 DEF Publish, SaveInstruments, Call
  <2> QED BY <2>1, <1>1
<1>3. ASSUME NEW t \in Thread, PublishMalformed(t)
      PROVE  TypeInv'
  BY <1>3 DEF PublishMalformed, Latch, TypeOK, Locals, dbVars, lockVars, threadVars
<1>4. ASSUME NEW t \in Thread, AcquireLock(t)
      PROVE  TypeInv'
  BY <1>4 DEF AcquireLock, Goto, TypeOK, Locals, Labels, dbVars, journalVars
<1>5. ASSUME NEW t \in Thread, LookupMiss(t)
      PROVE  TypeInv'
  BY <1>5 DEF LookupMiss, Goto, TypeOK, Locals, Labels, dbVars, lockVars, journalVars
<1>6. ASSUME NEW t \in Thread, Redelivered(t) \/ MasterKnown(t)
      PROVE  TypeInv'
  <2>1. Finish({t}) /\ Validate(t) /\ holder' = Free
        /\ UNCHANGED <<dbVars, orphan, up, life, blocked, dispatched>>
    BY <1>6 DEF Redelivered, MasterKnown
  <2> QED BY <2>1, FinishTypes DEF Validate, TypeOK, dbVars
<1>7. ASSUME NEW t \in Thread, Raise(t), nextSequence' \in Nat,
             UNCHANGED <<audit, projections, systemState, masters>>
      PROVE  TypeInv'
  BY <1>7, FinishTypes DEF Raise, Latch, TypeOK
<1>8. ASSUME NEW t \in Thread,
             LookupConflict(t) \/ ReceiptRegression(t) \/ MasterConflict(t) \/ InsertConflict(t)
      PROVE  TypeInv'
  BY <1>7, <1>8 DEF LookupConflict, ReceiptRegression, MasterConflict, InsertConflict,
                    dbVars, TypeOK
<1>9. ASSUME NEW t \in Thread, ReadTail(t)
      PROVE  TypeInv'
  <2>1. PICK row \in Row \cup {Nothing} : tail' = [tail EXCEPT ![t] = row]
    BY <1>9, ElementsTyped DEF ReadTail, TypeOK
  <2> QED BY <1>9, <2>1 DEF ReadTail, Goto, TypeOK, Locals, Labels, dbVars, lockVars, journalVars
<1>10. ASSUME NEW t \in Thread, InsertRow(t)
       PROVE  TypeInv'
  <2>1. NewRow(t) \in Row
    <3>1. call[t].sub \in Submission /\ call[t].emits \in BOOLEAN
      BY <1>10, AppendCallTyped DEF InsertRow, TypeOK, Locals
    <3>2. PreviousHash(tail[t]) \in Seq(Submission)
      BY RowTyped DEF PreviousHash, Genesis, TypeOK
    <3>3. ChainHash(PreviousHash(tail[t]), call[t].sub) \in Seq(Submission)
      BY <3>1, <3>2 DEF ChainHash
    <3>4. Journal(t) \in Process /\ life[Journal(t)] \in Nat
      BY ThreadsBelongToProcesses DEF Journal, TypeOK
    <3> QED BY <3>1, <3>2, <3>3, <3>4 DEF NewRow, Row, TypeOK
  <2>2. [kind |-> "append", row |-> NewRow(t)] \in Work
    BY <2>1 DEF Work
  <2> QED BY <1>10, <2>2 DEF InsertRow, Goto, TypeOK, Locals, Labels, lockVars, journalVars
<1>11. ASSUME NEW t \in Thread, MasterMiss(t)
       PROVE  TypeInv'
  <2>1. [kind |-> "master", snapshot |-> call[t].snapshot] \in Work
    BY <1>11, MasterCallTyped DEF MasterMiss, Work, TypeOK, Locals
  <2> QED BY <1>11, <2>1 DEF MasterMiss, Goto, TypeOK, Locals, Labels, dbVars, lockVars, journalVars
<1>12. ASSUME NEW t \in Thread, CommitAndEmit(t)
       PROVE  TypeInv'
  <2>1. staged[t] \in Work
    BY <1>12 DEF CommitAndEmit, Locals
  <2> QED BY <1>12, <2>1, ApplyTypes
          DEF CommitAndEmit, Validate, Goto, TypeOK, Locals, Labels
<1>13. ASSUME NEW t \in Thread, CommitAndReturn(t)
       PROVE  TypeInv'
  <2>1. staged[t] \in Work
    BY <1>13 DEF CommitAndReturn, Locals
  <2> QED BY <1>13, <2>1, ApplyTypes, FinishTypes DEF CommitAndReturn, Validate, TypeOK
<1>14. ASSUME NEW t \in Thread, Emit(t)
       PROVE  TypeInv'
  <2>1. call[t].sub.event.id \in EventId
    BY <1>14, AppendCallTyped DEF Emit, TypeOK, Locals
  <2> QED BY <1>14, <2>1, FinishTypes DEF Emit, TypeOK, dbVars, lockVars, journalVars
<1>15. ASSUME NEW t \in Thread, EmitFails(t)
       PROVE  TypeInv'
  BY <1>15, FinishTypes DEF EmitFails, Latch, TypeOK, dbVars, lockVars
<1>16. ASSUME NEW t \in Thread, LoseConnection(t)
       PROVE  TypeInv'
  BY <1>16, FinishTypes, AbandonTypes DEF LoseConnection, Abandon, Latch, TypeOK, dbVars
<1>17. ASSUME NEW p \in Process, Crash(p)
       PROVE  TypeInv'
  <2>1. ThreadsOf(p) \in SUBSET Thread /\ Abandon(ThreadsOf(p))
    BY <1>17 DEF Crash, ThreadsOf
  <2> QED BY <1>17, <2>1, FinishTypes, AbandonTypes DEF Crash, Abandon, TypeOK, dbVars
<1>18. ASSUME NEW p \in Process, Restart(p)
       PROVE  TypeInv'
  BY <1>18 DEF Restart, TypeOK, Locals, dbVars, lockVars, threadVars
<1>19. CASE OrphanAborts
  BY <1>19 DEF OrphanAborts, TypeOK, Locals, dbVars, journalVars, threadVars
<1>20. CASE OrphanCommits
  <2>1. orphan \in Work
    BY <1>20 DEF OrphanCommits, Apply, TypeOK, NoWork
  <2> QED BY <1>20, <2>1, ApplyTypes DEF OrphanCommits, TypeOK, Locals, journalVars, threadVars
<1>21. CASE UNCHANGED vars
  BY <1>21 DEF vars, TypeOK, Locals, dbVars, lockVars, journalVars, threadVars
<1> QED BY <1>2, <1>3, <1>4, <1>5, <1>6, <1>8, <1>9, <1>10, <1>11, <1>12, <1>13, <1>14,
           <1>15, <1>16, <1>17, <1>18, <1>19, <1>20, <1>21
        DEF Next, Proceed, CallRefused

\* TypeInv is inductive.
LEMMA TypesHold == Spec => []TypeInv
BY InitTypes, NextTypes, PTL DEF Spec

\* Every state of every journal, under any interleaving of calls, crashes and
\* lost connections, is typed: TypeOK.
THEOREM TypeCorrect == Spec => []TypeOK
<1>1. TypeInv => TypeOK
  BY DEF TypeInv
<1> QED BY <1>1, TypesHold, PTL


-----------------------------------------------------------------------------
(* The advisory lock: one session at a time is inside the locked section.  *)

\* At the start nobody is inside the locked section.
LEMMA InitLocks == Init => LockHeld
BY LockTokensAreNotThreads DEF Init, LockHeld, InTransaction

\* A step that ends the holder's call, and frees the lock, leaves nobody inside.
LEMMA LeaveFreesLock ==
  ASSUME TypeInv, LockHeld, NEW t \in Thread, holder = t, holder' = Free,
         orphan' = orphan, NEW label \in {"idle", "emit"},
         pc' = [pc EXCEPT ![t] = label]
  PROVE  LockHeld'
BY LockTokensAreNotThreads DEF TypeInv, TypeOK, LockHeld, InTransaction

\* A thread that finishes leaves the others alone.
LEMMA FinishOne ==
  ASSUME TypeInv, NEW t \in Thread, Finish({t})
  PROVE  /\ pc' = [pc EXCEPT ![t] = "idle"]
         /\ \A u \in Thread \ {t} :
              call'[u] = call[u] /\ tail'[u] = tail[u] /\ staged'[u] = staged[u]
BY DEF TypeInv, TypeOK, Finish

\* Every step keeps whoever is inside the locked section the holder of the advisory lock.
LEMMA LockNext == TypeInv /\ LockHeld /\ [Next]_vars => LockHeld'
<1> SUFFICES ASSUME TypeInv, LockHeld, [Next]_vars
             PROVE  LockHeld'
  OBVIOUS
<1> USE LockTokensAreNotThreads
<1>a. holder \in Thread \cup {Free, Abandoned} /\ pc \in [Thread -> Labels]
  BY DEF TypeInv, TypeOK
<1>1. ASSUME NEW t \in Thread, Publish(t) \/ SaveInstruments(t)
      PROVE  LockHeld'
  BY <1>a, <1>1 DEF Publish, SaveInstruments, Begin, CanCall, Goto, LockHeld, InTransaction, lockVars
<1>2. ASSUME NEW t \in Thread, AcquireLock(t)
      PROVE  LockHeld'
  BY <1>a, <1>2 DEF AcquireLock, Goto, LockHeld, InTransaction
<1>3. ASSUME NEW t \in Thread, LookupMiss(t) \/ ReadTail(t) \/ InsertRow(t) \/ MasterMiss(t)
      PROVE  LockHeld'
  BY <1>a, <1>3 DEF LookupMiss, ReadTail, InsertRow, MasterMiss, Goto, LockHeld, InTransaction, lockVars
<1>4. ASSUME NEW t \in Thread,
             \/ Redelivered(t) \/ MasterKnown(t) \/ LookupConflict(t) \/ ReceiptRegression(t)
             \/ InsertConflict(t) \/ MasterConflict(t) \/ CommitAndReturn(t)
      PROVE  LockHeld'
  <2>1. /\ pc[t] \in InTransaction
        /\ Finish({t}) /\ holder' = Free /\ orphan' = orphan
    BY <1>4 DEF Redelivered, MasterKnown, LookupConflict, ReceiptRegression, InsertConflict,
                MasterConflict, CommitAndReturn, Raise, InTransaction
  <2>2. holder = t
    BY <2>1 DEF LockHeld
  <2> QED BY <2>1, <2>2, FinishOne, LeaveFreesLock
<1>5. ASSUME NEW t \in Thread, CommitAndEmit(t)
      PROVE  LockHeld'
  BY <1>5, LeaveFreesLock DEF CommitAndEmit, Goto, LockHeld, InTransaction
<1>6. ASSUME NEW t \in Thread, Emit(t) \/ EmitFails(t)
      PROVE  LockHeld'
  <2>1. pc[t] = "emit" /\ Finish({t}) /\ UNCHANGED lockVars
    BY <1>6 DEF Emit, EmitFails
  <2> QED BY <1>a, <2>1, FinishOne DEF LockHeld, InTransaction, lockVars
<1>7. ASSUME NEW threads \in SUBSET Thread, Abandon(threads)
      PROVE  LockHeld'
  <2>1. CASE holder \in threads
    <3>1. /\ holder' = Abandoned
          /\ \A t \in Thread : t \in threads => pc'[t] = "idle"
          /\ \A t \in Thread : t \notin threads => pc'[t] = pc[t]
      BY <1>7, <2>1 DEF Abandon, Finish
    <3>2. orphan' # NoWork
      BY <1>7, <2>1, WorkTyped
         DEF Abandon, TypeInv, TypeOK, Locals, Doomed, NoWork
    <3> QED BY <1>a, <2>1, <3>1, <3>2 DEF LockHeld, InTransaction
  <2>2. CASE holder \notin threads
    BY <1>a, <1>7, <2>2 DEF Abandon, Finish, LockHeld, InTransaction, lockVars
  <2> QED BY <2>1, <2>2
<1>8. ASSUME NEW t \in Thread, LoseConnection(t)
      PROVE  LockHeld'
  BY <1>7, <1>8 DEF LoseConnection
<1>9. ASSUME NEW p \in Process, Crash(p)
      PROVE  LockHeld'
  BY <1>7, <1>9 DEF Crash, ThreadsOf
<1>10. CASE OrphanAborts \/ OrphanCommits
  BY <1>a, <1>10 DEF OrphanAborts, OrphanCommits, LockHeld, InTransaction, threadVars
<1>11. ASSUME UNCHANGED <<lockVars, pc>>
       PROVE  LockHeld'
  BY <1>11 DEF LockHeld, lockVars
<1> QED BY <1>1, <1>2, <1>3, <1>4, <1>5, <1>6, <1>8, <1>9, <1>10, <1>11
        DEF Next, Proceed, CallRefused, PublishMalformed, Restart, vars, threadVars


-----------------------------------------------------------------------------
(* The log: what the holder's transaction has read and flushed still fits  *)
(* the log when it commits, because nobody else commits in between.        *)

\* Nothing that was true of a transaction's row is undone by a step that
\* leaves the tables alone and at most draws a sequence number.
LEMMA FitsStable ==
  ASSUME TypeOK, UNCHANGED <<audit, projections, masters>>,
         nextSequence' \in Nat, nextSequence <= nextSequence'
  PROVE  /\ \A s : Fresh(s) => Fresh(s)'
         /\ \A row \in Row : Fits(row) => Fits(row)'
         /\ \A w \in Work \cup {NoWork, Doomed} : WorkFits(w) => WorkFits(w)'
         /\ LastRow' = LastRow
         /\ AuditInv => AuditInv'
<1>1. LastRow' = LastRow
  BY DEF LastRow
<1>2. \A s : Fresh(s) => Fresh(s)'
  BY DEF Fresh
<1>3. ASSUME NEW row \in Row, Fits(row)
      PROVE  Fits(row)'
  <2>1. row.sequence \in Nat /\ nextSequence \in Nat
    BY RowTyped DEF TypeOK
  <2> QED BY <1>1, <1>2, <1>3, <2>1 DEF Fits, PreviousHash
<1>4. ASSUME NEW w \in Work \cup {NoWork, Doomed}, WorkFits(w)
      PROVE  WorkFits(w)'
  <2>1. w.kind = "append" => w.row \in Row
    BY WorkTyped DEF NoWork, Doomed
  <2> QED BY <1>3, <1>4, <2>1 DEF WorkFits, SameId
<1>5. ASSUME AuditInv PROVE AuditInv'
  <2>1. \A i \in 1 .. Len(audit) : audit[i].sequence \in Nat
    BY RowTyped DEF TypeOK
  <2>2. Chained'
    BY <1>5, <2>1 DEF AuditInv, Chained, TypeOK
  <2> QED BY <1>5, <2>2
          DEF AuditInv, AuditInOrder, IdentitiesUnique, ProjectionsAreAudited, MastersUnique
<1> QED BY <1>1, <1>2, <1>3, <1>4, <1>5

\* The row with the highest sequence number is the last one committed.
LEMMA TailIsLast ==
  ASSUME TypeOK, AuditInOrder, NEW row \in Elements(audit) \cup {Nothing}, IsTail(row)
  PROVE  row = LastRow
<1>1. CASE audit = <<>>
  BY <1>1 DEF IsTail, LastRow, Elements
<1>2. CASE audit # <<>>
  <2> DEFINE n == Len(audit)
  <2>1. n \in Nat /\ n \in 1 .. n
    BY <1>2 DEF TypeOK
  <2>2. PICK i \in 1 .. n : row = audit[i]
    BY <1>2 DEF IsTail, Elements
  <2>3. audit[n].sequence <= audit[i].sequence
    BY <1>2, <2>1, <2>2 DEF IsTail, Elements
  <2>4. audit[n].sequence \in Nat /\ audit[i].sequence \in Nat
    BY <2>1, RowTyped DEF TypeOK
  <2>5. i = n
    BY <2>1, <2>3, <2>4 DEF AuditInOrder
  <2> QED BY <1>2, <2>2, <2>5 DEF LastRow
<1> QED BY <1>1, <1>2

\* A row that fits can be appended: the log stays chained, ordered and unique.
LEMMA ApplyKeepsAudit ==
  ASSUME TypeOK, AuditInv, NEW work \in Work, WorkFits(work), Apply(work)
  PROVE  AuditInv'
<1>1. CASE work.kind = "append"
  <2> DEFINE row == work.row
             n == Len(audit)
  <2>1. row \in Row /\ Fits(row) /\ n \in Nat /\ audit \in Seq(Row)
    BY <1>1, WorkTyped DEF WorkFits, TypeOK
  <2>2. /\ audit' = Append(audit, row)
        /\ projections' = projections \cup row.sub.event.rows
        /\ nextSequence' = nextSequence /\ masters' = masters
    BY <1>1, WorkTyped DEF Apply
  <2>3. /\ Len(audit') = n + 1
        /\ \A i \in 1 .. n : audit'[i] = audit[i]
        /\ audit'[n + 1] = row
    BY <2>1, <2>2
  <2> HIDE DEF row, n
  <2>4. Chained'
    <3> SUFFICES ASSUME NEW i \in 1 .. n + 1
                 PROVE  /\ audit'[i].previous = IF i = 1 THEN Genesis ELSE audit'[i - 1].chain
                        /\ audit'[i].chain = ChainHash(audit'[i].previous, audit'[i].sub)
                        /\ audit'[i].sequence < nextSequence
      BY <2>2, <2>3 DEF Chained
    <3>1. CASE i \in 1 .. n
      BY <2>1, <2>3, <3>1 DEF AuditInv, Chained, n
    <3>2. CASE i = n + 1
      <4>1. row.previous = IF i = 1 THEN Genesis ELSE audit[n].chain
        <5>1. CASE n = 0
          BY <2>1, <3>2, <5>1 DEF Fits, LastRow, PreviousHash, n
        <5>2. CASE n # 0
          <6>1. audit # <<>> /\ n \in 1 .. n /\ audit[n] \in Row
            BY <2>1, <5>2 DEF n
          <6> QED BY <2>1, <3>2, <6>1, RowTyped DEF Fits, LastRow, PreviousHash, n
        <5> QED BY <5>1, <5>2
      <4>2. i # 1 => i - 1 \in 1 .. n /\ i - 1 = n
        BY <2>1, <3>2
      <4> QED BY <2>1, <2>3, <3>2, <4>1, <4>2 DEF Fits
    <3> QED BY <2>1, <3>1, <3>2
  <2>5. AuditInOrder'
    BY <2>1, <2>3 DEF AuditInv, AuditInOrder, Fits, n
  <2>6. IdentitiesUnique'
    BY <2>1, <2>3 DEF AuditInv, IdentitiesUnique, Fits, Fresh, n
  <2>7. ProjectionsAreAudited'
    <3>1. Elements(audit') = Elements(audit) \cup {row}
      BY <2>1, <2>2, <2>3 DEF Elements, n
    <3>2. projections' = UNION {r.sub.event.rows : r \in Elements(audit')}
      BY <2>2, <3>1 DEF AuditInv, ProjectionsAreAudited
    <3>3. \A i \in 1 .. n : audit[i].sub.event.rows \subseteq projections
      BY DEF AuditInv, ProjectionsAreAudited, Elements, n
    <3>4. \A i, j \in 1 .. n + 1 :
            i # j => audit'[i].sub.event.rows \cap audit'[j].sub.event.rows = {}
      <4> SUFFICES ASSUME NEW i \in 1 .. n + 1, NEW j \in 1 .. n + 1, i # j
                   PROVE  audit'[i].sub.event.rows \cap audit'[j].sub.event.rows = {}
        OBVIOUS
      <4>1. row.sub.event.rows \cap projections = {}
        BY <2>1 DEF Fits
      <4>2. CASE i \in 1 .. n /\ j \in 1 .. n
        BY <2>3, <4>2 DEF AuditInv, ProjectionsAreAudited, n
      <4>3. CASE i = n + 1 /\ j \in 1 .. n
        BY <2>3, <3>3, <4>1, <4>3
      <4>4. CASE j = n + 1 /\ i \in 1 .. n
        BY <2>3, <3>3, <4>1, <4>4
      <4> QED BY <2>1, <4>2, <4>3, <4>4
    <3> QED BY <2>3, <3>2, <3>4 DEF ProjectionsAreAudited
  <2> QED BY <2>2, <2>4, <2>5, <2>6, <2>7 DEF AuditInv, MastersUnique
<1>2. CASE work.kind = "master"
  <2>1. /\ masters' = masters \cup {work.snapshot}
        /\ UNCHANGED <<audit, nextSequence, projections>>
    BY <1>2, WorkTyped DEF Apply
  <2>2. MastersUnique'
    BY <1>2, <2>1 DEF AuditInv, MastersUnique, WorkFits, SameId
  <2> QED BY <2>1, <2>2 DEF AuditInv, Chained, AuditInOrder, IdentitiesUnique, ProjectionsAreAudited
<1> QED BY <1>1, <1>2, WorkTyped


\* Where no thread is inside and no orphan is left, there is nothing to fit.
LEMMA NobodyInside ==
  ASSUME TypeInv', LockHeld', holder' = Free
  PROVE  TransactionFits'
<1>1. \A t \in Thread : pc'[t] \notin InTransaction
  BY LockTokensAreNotThreads DEF LockHeld
<1>2. orphan' = NoWork
  BY LockTokensAreNotThreads DEF LockHeld
<1> QED BY <1>1, <1>2 DEF TransactionFits, InTransaction, WorkFits, NoWork

\* What one thread does inside the section says nothing about the others, who
\* are not inside.
LEMMA OneInside ==
  ASSUME TypeInv, LockHeld, NEW t \in Thread, holder' = t, TypeInv', LockHeld',
         pc'[t] \in {"tail", "insert"} => Fresh(call[t].sub)' /\ call'[t] = call[t],
         pc'[t] = "insert" => (tail[t] = LastRow /\ InReceiptOrder(tail[t], call[t].sub))',
         pc'[t] = "commit" => WorkFits(staged[t])'
  PROVE  TransactionFits'
<1>1. \A u \in Thread \ {t} : pc'[u] \notin InTransaction
  BY DEF LockHeld
<1>2. orphan' = NoWork
  BY LockTokensAreNotThreads DEF LockHeld
<1>3. WorkFits(orphan)'
  BY <1>2 DEF WorkFits, NoWork
<1> QED BY <1>1, <1>3 DEF TransactionFits, InTransaction

\* Steps of threads that are not inside leave the holder's transaction alone.
LEMMA OthersStable ==
  ASSUME TypeInv, TransactionFits, orphan' = orphan, NEW threads \in SUBSET Thread,
         UNCHANGED <<audit, nextSequence, projections, masters>>,
         \A u \in Thread \ threads :
           pc'[u] = pc[u] /\ call'[u] = call[u] /\ tail'[u] = tail[u] /\ staged'[u] = staged[u],
         \A u \in threads : pc'[u] \notin InTransaction \/ pc'[u] = "lookup"
  PROVE  TransactionFits'
<1>2. ASSUME NEW u \in Thread \ threads
      PROVE  /\ pc'[u] \in {"tail", "insert"} => Fresh(call[u].sub)'
             /\ pc'[u] = "insert" => (tail[u] = LastRow /\ InReceiptOrder(tail[u], call[u].sub))'
             /\ pc'[u] = "commit" => WorkFits(staged[u])'
  <2>1. pc'[u] = pc[u] /\ call'[u] = call[u] /\ tail'[u] = tail[u] /\ staged'[u] = staged[u]
    OBVIOUS
  <2>2. pc'[u] \in {"tail", "insert"} => Fresh(call[u].sub)'
    BY <2>1 DEF TransactionFits, Fresh
  <2>3. pc'[u] = "insert" => (tail[u] = LastRow /\ InReceiptOrder(tail[u], call[u].sub))'
    BY <2>1 DEF TransactionFits, LastRow, InReceiptOrder
  <2>4. pc'[u] = "commit" => WorkFits(staged[u])'
    <3>1. ASSUME pc'[u] = "commit" PROVE WorkFits(staged[u])
      BY <2>1, <3>1 DEF TransactionFits
    <3>2. staged'[u] = staged[u] /\ (WorkFits(staged[u]) => WorkFits(staged[u])')
      BY <2>1 DEF WorkFits, Fits, Fresh, LastRow, PreviousHash, SameId
    <3> QED BY <3>1, <3>2
  <2> QED BY <2>2, <2>3, <2>4
<1>3. WorkFits(orphan)'
  BY DEF TransactionFits, WorkFits, Fits, Fresh, LastRow, PreviousHash, SameId
<1> QED BY <1>2, <1>3 DEF TransactionFits, InTransaction

\* What staged transactions rest on holds as long as the database and the threads stand still.
LEMMA NobodyMoves ==
  ASSUME TypeInv, TransactionFits,
         UNCHANGED <<orphan, audit, nextSequence, projections, masters, pc, call, tail, staged>>
  PROVE  TransactionFits'
<1>1. /\ {} \in SUBSET Thread
      /\ \A u \in Thread \ {} :
           pc'[u] = pc[u] /\ call'[u] = call[u] /\ tail'[u] = tail[u] /\ staged'[u] = staged[u]
      /\ \A u \in {} : pc'[u] \notin InTransaction \/ pc'[u] = "lookup"
  OBVIOUS
<1> QED BY <1>1, OthersStable

\* A row built from the last row and the next sequence number fits.
LEMMA NewRowFits ==
  ASSUME TypeInv, AuditInv, TransactionFits, NEW t \in Thread, InsertRow(t),
         NEW row, row = NewRow(t)
  PROVE  Fits(row)'
<1>1. /\ row.sub = call[t].sub /\ row.sequence = nextSequence
      /\ row.previous = PreviousHash(LastRow)
      /\ row.chain = ChainHash(row.previous, row.sub)
  BY DEF NewRow, TransactionFits, InsertRow
<1>2. /\ Fresh(call[t].sub) /\ InReceiptOrder(LastRow, call[t].sub)
      /\ call[t].sub.event.rows \cap projections = {}
      /\ call[t].sub.event.received \in Nat
  BY AppendCallTyped DEF InsertRow, TransactionFits, ProjectionsFree, TypeInv, TypeOK, Locals
<1>3. /\ nextSequence \in Nat /\ nextSequence' = nextSequence + 1
      /\ UNCHANGED <<audit, projections>>
  BY DEF InsertRow, TypeInv, TypeOK
<1>4. \A i \in 1 .. Len(audit) :
        audit[i].sequence < nextSequence
        /\ audit[i].sub.event.received <= call[t].sub.event.received
  <2> SUFFICES ASSUME NEW i \in 1 .. Len(audit)
               PROVE  audit[i].sub.event.received <= call[t].sub.event.received
    BY DEF AuditInv, Chained
  <2> DEFINE n == Len(audit)
  <2>1. n \in Nat /\ n \in 1 .. n /\ audit # <<>> /\ LastRow = audit[n]
    BY DEF TypeInv, TypeOK, LastRow
  <2>2. /\ audit[n] \in Row /\ audit[i] \in Row
    BY <2>1 DEF TypeInv, TypeOK
  <2>3. audit[n].sub.event.received <= call[t].sub.event.received
    BY <1>2, <2>1, <2>2, RowTyped DEF InReceiptOrder
  <2>4. audit[i].sub.event.received <= audit[n].sub.event.received
    BY <2>1, <2>2, RowTyped DEF AuditInv, AuditInOrder
  <2> QED BY <1>2, <2>2, <2>3, <2>4, RowTyped
<1>5. row.sequence < nextSequence'
  BY <1>1, <1>3
<1>6. Fits(row)'
  <2>1. Fresh(row.sub)' /\ (row.sub.event.rows \cap projections)' = {}
    BY <1>1, <1>2, <1>3 DEF Fresh
  <2>2. (PreviousHash(LastRow))' = PreviousHash(LastRow)
    BY <1>3 DEF PreviousHash, LastRow
  <2> QED
    BY <1>1, <1>3, <1>4, <1>5, <2>1, <2>2 DEF Fits
<1> QED BY <1>6


\* An empty database is audited.
LEMMA InitSafe == Init => AuditInv /\ TransactionFits
BY DEF Init, AuditInv, Chained, AuditInOrder, IdentitiesUnique, ProjectionsAreAudited,
       MastersUnique, TransactionFits, WorkFits, NoWork, Elements

\* Every step keeps the audit log chained, in order and unique, and the projections those of its rows.
LEMMA AuditNext ==
  TypeInv /\ LockHeld /\ AuditInv /\ TransactionFits /\ [Next]_vars => AuditInv'
<1> SUFFICES ASSUME TypeInv, LockHeld, AuditInv, TransactionFits, [Next]_vars
             PROVE  AuditInv'
  OBVIOUS
<1> USE DEF TypeInv
<1>1. ASSUME UNCHANGED <<audit, projections, masters>>,
             nextSequence' \in {nextSequence, nextSequence + 1}
      PROVE  AuditInv'
  BY <1>1, FitsStable DEF TypeOK
<1>2. ASSUME NEW t \in Thread, CommitAndEmit(t) \/ CommitAndReturn(t)
      PROVE  AuditInv'
  <2>1. pc[t] = "commit" /\ Apply(staged[t])
    BY <1>2 DEF CommitAndEmit, CommitAndReturn
  <2>2. staged[t] \in Work /\ WorkFits(staged[t])
    BY <2>1 DEF Locals, TransactionFits
  <2> QED BY <2>1, <2>2, ApplyKeepsAudit
<1>3. CASE OrphanCommits
  <2>1. orphan \in Work /\ Apply(orphan)
    BY <1>3 DEF OrphanCommits, Apply, TypeOK, NoWork
  <2> QED BY <2>1, ApplyKeepsAudit DEF TransactionFits
<1>4. ASSUME NEW t \in Thread,
             \/ Publish(t) \/ SaveInstruments(t) \/ PublishMalformed(t) \/ CallRefused(t)
             \/ AcquireLock(t) \/ LookupMiss(t) \/ Redelivered(t) \/ LookupConflict(t)
             \/ ReadTail(t) \/ ReceiptRegression(t)
             \/ MasterMiss(t) \/ MasterKnown(t) \/ MasterConflict(t)
             \/ Emit(t) \/ EmitFails(t) \/ LoseConnection(t)
      PROVE  AuditInv'
  BY <1>1, <1>4 DEF Publish, SaveInstruments, Begin, PublishMalformed, CallRefused, AcquireLock,
       LookupMiss, Redelivered, LookupConflict, ReadTail, ReceiptRegression,
       MasterMiss, MasterKnown, MasterConflict, Emit, EmitFails, LoseConnection, vars, dbVars
<1>5. ASSUME NEW t \in Thread, InsertRow(t) \/ InsertConflict(t)
      PROVE  AuditInv'
  BY <1>1, <1>5 DEF InsertRow, InsertConflict
<1>6. ASSUME NEW p \in Process, Crash(p) \/ Restart(p)
      PROVE  AuditInv'
  BY <1>1, <1>6 DEF Crash, Restart, dbVars
<1>7. CASE OrphanAborts \/ UNCHANGED vars
  BY <1>1, <1>7 DEF OrphanAborts, vars, dbVars
<1> QED BY <1>2, <1>3, <1>4, <1>5, <1>6, <1>7 DEF Next, Proceed

\* Every step keeps a transaction under the lock fitting to the end of the log that it has read.
LEMMA TransactionNext ==
  /\ TypeInv /\ LockHeld /\ AuditInv /\ TransactionFits /\ [Next]_vars
  /\ TypeInv' /\ LockHeld'
  => TransactionFits'
<1> SUFFICES ASSUME TypeInv, LockHeld, AuditInv, TransactionFits, [Next]_vars,
                    TypeInv', LockHeld'
             PROVE  TransactionFits'
  OBVIOUS
<1>1. ASSUME NEW t \in Thread,
             \/ Publish(t) \/ SaveInstruments(t) \/ PublishMalformed(t) \/ CallRefused(t)
             \/ AcquireLock(t)
      PROVE  TransactionFits'
  <2>1. /\ orphan' = orphan
        /\ UNCHANGED <<audit, nextSequence, projections, masters>>
        /\ \A u \in Thread \ {t} :
             pc'[u] = pc[u] /\ call'[u] = call[u] /\ tail'[u] = tail[u] /\ staged'[u] = staged[u]
        /\ \A u \in {t} : pc'[u] \notin InTransaction \/ pc'[u] = "lookup"
        /\ {t} \in SUBSET Thread
    BY <1>1 DEF Publish, SaveInstruments, Begin, CanCall, Goto, PublishMalformed, CallRefused,
         AcquireLock, vars, dbVars, lockVars, threadVars, TypeInv, TypeOK, InTransaction
  <2> QED BY <2>1, OthersStable
<1>2. ASSUME NEW t \in Thread, Emit(t) \/ EmitFails(t)
      PROVE  TransactionFits'
  <2>1. /\ orphan' = orphan /\ Finish({t})
        /\ UNCHANGED <<audit, nextSequence, projections, masters>>
    BY <1>2 DEF Emit, EmitFails, dbVars, lockVars
  <2>2. /\ pc' = [pc EXCEPT ![t] = "idle"]
        /\ \A u \in Thread \ {t} :
             call'[u] = call[u] /\ tail'[u] = tail[u] /\ staged'[u] = staged[u]
    BY <2>1, FinishOne
  <2>3. pc'[t] = "idle" /\ \A u \in Thread \ {t} : pc'[u] = pc[u]
    BY <2>2 DEF TypeInv, TypeOK
  <2>4. /\ {t} \in SUBSET Thread
        /\ \A u \in Thread \ {t} :
             pc'[u] = pc[u] /\ call'[u] = call[u] /\ tail'[u] = tail[u] /\ staged'[u] = staged[u]
        /\ \A u \in {t} : pc'[u] \notin InTransaction \/ pc'[u] = "lookup"
    BY <2>2, <2>3 DEF InTransaction
  <2> QED BY <2>1, <2>4, OthersStable
<1>3. ASSUME NEW t \in Thread,
             \/ Redelivered(t) \/ MasterKnown(t) \/ LookupConflict(t) \/ ReceiptRegression(t)
             \/ InsertConflict(t) \/ MasterConflict(t) \/ CommitAndReturn(t) \/ CommitAndEmit(t)
      PROVE  TransactionFits'
  <2>1. holder' = Free
    BY <1>3 DEF Redelivered, MasterKnown, LookupConflict, ReceiptRegression, InsertConflict,
                MasterConflict, CommitAndReturn, CommitAndEmit, Raise
  <2> QED BY <2>1, NobodyInside
<1>4. ASSUME NEW t \in Thread, LookupMiss(t)
      PROVE  TransactionFits'
  <2>1. holder' = t /\ pc'[t] = "tail" /\ call' = call /\ audit' = audit
    BY <1>4 DEF LookupMiss, Goto, LockHeld, InTransaction, lockVars, dbVars, TypeInv, TypeOK
  <2>2. Fresh(call[t].sub)
    BY <1>4, ElementsTyped DEF LookupMiss, Matches, Fresh, TypeInv, TypeOK
  <2>3. Fresh(call[t].sub)'
    BY <2>1, <2>2 DEF Fresh
  <2> QED BY <2>1, <2>3, OneInside
<1>5. ASSUME NEW t \in Thread, ReadTail(t)
      PROVE  TransactionFits'
  <2>1. holder' = t /\ pc'[t] = "insert" /\ call' = call /\ audit' = audit
    BY <1>5 DEF ReadTail, Goto, LockHeld, InTransaction, lockVars, dbVars, TypeInv, TypeOK
  <2>2. Fresh(call[t].sub)'
    BY <1>5, <2>1 DEF ReadTail, TransactionFits, Fresh
  <2>3. tail'[t] = LastRow /\ InReceiptOrder(tail'[t], call[t].sub)
    BY <1>5, TailIsLast DEF ReadTail, TypeInv, TypeOK, AuditInv
  <2>4. (tail[t] = LastRow /\ InReceiptOrder(tail[t], call[t].sub))'
    BY <2>1, <2>3 DEF LastRow, InReceiptOrder
  <2> QED BY <2>1, <2>2, <2>4, OneInside
<1>6. ASSUME NEW t \in Thread, InsertRow(t)
      PROVE  TransactionFits'
  <2>1. holder' = t /\ pc'[t] = "commit"
    BY <1>6 DEF InsertRow, Goto, LockHeld, InTransaction, lockVars, TypeInv, TypeOK
  <2>2. PICK row : row = NewRow(t)
    OBVIOUS
  <2>3. staged'[t] = [kind |-> "append", row |-> row]
    BY <1>6, <2>2 DEF InsertRow, TypeInv, TypeOK
  <2>4. Fits(row)'
    BY <1>6, <2>2, NewRowFits
  <2>5. WorkFits(staged[t])'
    BY <2>3, <2>4 DEF WorkFits
  <2> QED BY <2>1, <2>5, OneInside
<1>7. ASSUME NEW t \in Thread, MasterMiss(t)
      PROVE  TransactionFits'
  <2>1. holder' = t /\ pc'[t] = "commit" /\ masters' = masters
        /\ staged'[t] = [kind |-> "master", snapshot |-> call[t].snapshot]
    BY <1>7 DEF MasterMiss, Goto, LockHeld, InTransaction, lockVars, dbVars, TypeInv, TypeOK
  <2>2. WorkFits(staged[t])'
    BY <1>7, <2>1 DEF MasterMiss, WorkFits, SameId
  <2> QED BY <2>1, <2>2, OneInside
<1>8. ASSUME NEW threads \in SUBSET Thread, Abandon(threads), UNCHANGED dbVars
      PROVE  TransactionFits'
  <2>1. CASE holder \in threads
    <3>1. /\ holder' = Abandoned
          /\ orphan' = IF pc[holder] = "commit" THEN staged[holder] ELSE Doomed
      BY <1>8, <2>1 DEF Abandon
    <3>2. \A u \in Thread : pc'[u] \notin InTransaction
      BY <3>1, LockTokensAreNotThreads DEF LockHeld
    <3>3. WorkFits(orphan')
      BY <2>1, <3>1 DEF TransactionFits, WorkFits, Doomed
    <3>4. orphan' \in Work \cup {NoWork, Doomed}
      BY DEF TypeInv, TypeOK
    <3>5. WorkFits(orphan)'
      <4>1. PICK w \in Work \cup {NoWork, Doomed} : w = orphan'
        BY <3>4
      <4>2. WorkFits(w)'
        BY <1>8, <3>3, <4>1, FitsStable DEF dbVars, TypeInv, TypeOK
      <4> QED BY <4>1, <4>2 DEF WorkFits
    <3> QED BY <3>2, <3>5 DEF TransactionFits, InTransaction
  <2>2. CASE holder \notin threads
    <3>1. /\ orphan' = orphan
          /\ \A u \in threads : pc'[u] = "idle"
          /\ \A u \in Thread \ threads :
               pc'[u] = pc[u] /\ call'[u] = call[u] /\ tail'[u] = tail[u] /\ staged'[u] = staged[u]
      BY <1>8, <2>2 DEF Abandon, Finish, lockVars
    <3> QED BY <1>8, <3>1, OthersStable DEF dbVars, InTransaction
  <2> QED BY <2>1, <2>2
<1>9. ASSUME NEW t \in Thread, LoseConnection(t)
      PROVE  TransactionFits'
  BY <1>8, <1>9 DEF LoseConnection
<1>10. ASSUME NEW p \in Process, Crash(p)
       PROVE  TransactionFits'
  BY <1>8, <1>10 DEF Crash, ThreadsOf
<1>11. ASSUME NEW p \in Process, Restart(p)
       PROVE  TransactionFits'
  BY <1>11, NobodyMoves DEF Restart, dbVars, lockVars, threadVars
<1>12. CASE OrphanAborts \/ OrphanCommits
  BY <1>12, NobodyInside DEF OrphanAborts, OrphanCommits
<1>13. CASE UNCHANGED vars
  BY <1>13, NobodyMoves DEF vars, dbVars, lockVars, threadVars
<1> QED BY <1>1, <1>2, <1>3, <1>4, <1>5, <1>6, <1>7, <1>9, <1>10, <1>11, <1>12, <1>13
        DEF Next, Proceed

\* The inductive invariant of the audit properties.
SafeInv == TypeInv /\ LockHeld /\ AuditInv /\ TransactionFits

\* SafeInv is inductive.
LEMMA SafetyHolds == Spec => []SafeInv
<1>1. Init => SafeInv
  BY InitTypes, InitLocks, InitSafe DEF SafeInv
<1>2. SafeInv /\ [Next]_vars => SafeInv'
  BY NextTypes, LockNext, AuditNext, TransactionNext DEF SafeInv
<1> QED BY <1>1, <1>2, PTL DEF Spec


\* A log chained by index is one that read_events, which goes by sequence
\* number, validates.
LEMMA ChainedIsIntact == TypeOK /\ Chained /\ AuditInOrder => ChainIntact
<1> SUFFICES ASSUME TypeOK, Chained, AuditInOrder, NEW r \in Elements(audit)
             PROVE  LET below == {q \in Elements(audit) : q.sequence < r.sequence}
                    IN /\ r.chain = ChainHash(r.previous, r.sub)
                       /\ \/ below = {} /\ r.previous = Genesis
                          \/ \E q \in below : /\ \A x \in below : x.sequence <= q.sequence
                                              /\ r.previous = q.chain
  BY DEF ChainIntact
<1> DEFINE n == Len(audit)
           below == {q \in Elements(audit) : q.sequence < r.sequence}
<1>1. n \in Nat /\ \A i \in 1 .. n : audit[i] \in Row /\ audit[i].sequence \in Nat
  BY RowTyped DEF TypeOK
<1>2. PICK k \in 1 .. n : r = audit[k]
  BY DEF Elements
<1>3. \A i \in 1 .. n : audit[i].sequence < r.sequence => i < k
  BY <1>1, <1>2 DEF AuditInOrder
<1>4. r.chain = ChainHash(r.previous, r.sub)
  BY <1>2 DEF Chained
<1>5. CASE k = 1
  <2>1. below = {}
    BY <1>1, <1>3, <1>5 DEF Elements
  <2>2. r.previous = Genesis
    BY <1>2, <1>5 DEF Chained
  <2> QED BY <1>4, <2>1, <2>2
<1>6. CASE k # 1
  <2>1. k - 1 \in 1 .. n /\ k - 1 < k
    BY <1>1, <1>2, <1>6
  <2>2. audit[k - 1] \in below
    BY <1>2, <2>1 DEF Elements, AuditInOrder
  <2>3. \A x \in below : x.sequence <= audit[k - 1].sequence
    <3> SUFFICES ASSUME NEW x \in below PROVE x.sequence <= audit[k - 1].sequence
      OBVIOUS
    <3>1. PICK i \in 1 .. n : x = audit[i]
      BY DEF Elements
    <3>2. i < k
      BY <1>3, <3>1
    <3>3. CASE i = k - 1
      BY <1>1, <2>1, <3>1, <3>3
    <3>4. CASE i < k - 1
      BY <1>1, <2>1, <3>1, <3>4 DEF AuditInOrder
    <3> QED BY <1>2, <3>1, <3>2, <3>3, <3>4
  <2>4. r.previous = audit[k - 1].chain
    BY <1>2, <1>6 DEF Chained
  <2> QED BY <1>4, <2>2, <2>3, <2>4
<1> QED BY <1>5, <1>6

\* Whatever interleaving of appends, retries, rollbacks, lost connections and
\* crashes produced the log, read_events accepts it: ChainIntact.
THEOREM ChainAlwaysValid == Spec => []ChainIntact
<1>1. SafeInv => ChainIntact
  BY ChainedIsIntact DEF SafeInv, AuditInv, TypeInv
<1> QED BY <1>1, SafetyHolds, PTL

\* The commit order of append is its sequence order, and receipt times never
\* regress along it: AuditInOrder.
THEOREM LogStaysInOrder == Spec => []AuditInOrder
<1>1. SafeInv => AuditInOrder
  BY DEF SafeInv, AuditInv
<1> QED BY <1>1, SafetyHolds, PTL

\* append never stores an event id or an idempotency key twice, under any
\* races and retries: IdentitiesUnique.
THEOREM NoIdentityTwice == Spec => []IdentitiesUnique
<1>1. SafeInv => IdentitiesUnique
  BY DEF SafeInv, AuditInv
<1> QED BY <1>1, SafetyHolds, PTL

\* save_master never stores two contents under one snapshot id: MastersUnique.
THEOREM MastersStayUnique == Spec => []MastersUnique
<1>1. SafeInv => MastersUnique
  BY DEF SafeInv, AuditInv
<1> QED BY <1>1, SafetyHolds, PTL

-----------------------------------------------------------------------------
(***************************************************************************)
(* What follows a commit: that the tables agree with the log, that no      *)
(* dispatch is lost silently, and that Journal implements EventLog.  This  *)
(* rests on SafeInv above and on Provenance and Dispatching of             *)
(* JournalInvariant, which say who wrote a row and who still has to        *)
(* dispatch it.                                                            *)
(***************************************************************************)

(* What one step of a thread leaves alone. *)

ThreadStep(t) ==
  \/ Publish(t) \/ SaveInstruments(t) \/ PublishMalformed(t) \/ CallRefused(t)
  \/ AcquireLock(t)
  \/ Proceed(t)
  \/ LoseConnection(t)

\* A step is one of a thread, the end or the start of a process, or the database ending an orphan.
LEMMA Steps ==
  ASSUME [Next]_vars
  PROVE  \/ \E t \in Thread : ThreadStep(t)
         \/ \E p \in Process : Crash(p) \/ Restart(p)
         \/ OrphanAborts \/ OrphanCommits \/ UNCHANGED vars
BY DEF Next, ThreadStep

\* Nobody else moves, and no process starts or ends.
LEMMA ThreadFrame ==
  ASSUME TypeInv, NEW t \in Thread, ThreadStep(t)
  PROVE  /\ \A u \in Thread \ {t} :
              pc'[u] = pc[u] /\ call'[u] = call[u] /\ staged'[u] = staged[u]
         /\ up' = up /\ life' = life
<1>a. /\ pc \in [Thread -> Labels]
      /\ call \in [Thread -> Call \cup {Nothing}]
      /\ staged \in [Thread -> Work \cup {NoWork}]
  BY DEF TypeInv, TypeOK
<1>1. ASSUME Finish({t})
      PROVE  \A u \in Thread \ {t} :
               pc'[u] = pc[u] /\ call'[u] = call[u] /\ staged'[u] = staged[u]
  BY <1>1 DEF Finish
<1>2. CASE Publish(t) \/ SaveInstruments(t) \/ AcquireLock(t) \/ LookupMiss(t) \/ ReadTail(t)
  BY <1>a, <1>2 DEF Publish, SaveInstruments, Begin, Goto, AcquireLock, LookupMiss, ReadTail,
       journalVars
<1>3. CASE PublishMalformed(t) \/ CallRefused(t)
  BY <1>3 DEF PublishMalformed, CallRefused, vars, threadVars, journalVars
<1>4. CASE InsertRow(t) \/ MasterMiss(t) \/ CommitAndEmit(t)
  BY <1>a, <1>4 DEF InsertRow, MasterMiss, CommitAndEmit, Goto, journalVars
<1>5. CASE \/ Redelivered(t) \/ LookupConflict(t) \/ ReceiptRegression(t) \/ InsertConflict(t)
           \/ MasterKnown(t) \/ MasterConflict(t) \/ CommitAndReturn(t) \/ Emit(t) \/ EmitFails(t)
           \/ LoseConnection(t)
  <2>1. Finish({t}) /\ up' = up /\ life' = life
    BY <1>5 DEF Redelivered, LookupConflict, ReceiptRegression, InsertConflict, MasterKnown,
         MasterConflict, CommitAndReturn, Emit, EmitFails, LoseConnection, Raise, Abandon, journalVars
  <2> QED BY <1>1, <2>1
<1> QED BY <1>2, <1>3, <1>4, <1>5 DEF ThreadStep, Proceed

\* Where a thread's step can take it.
LEMMA ThreadMoves ==
  ASSUME TypeInv, NEW t \in Thread, ThreadStep(t)
  PROVE  /\ pc'[t] # "idle" => pc[t] # "idle" \/ up[ProcessOf[t]]
         /\ pc'[t] = "commit" =>
              \/ InsertRow(t) \/ MasterMiss(t)
              \/ pc[t] = "commit" /\ call'[t] = call[t] /\ staged'[t] = staged[t]
         /\ pc'[t] = "emit" => CommitAndEmit(t)
         /\ pc[t] = "emit" => Emit(t) \/ EmitFails(t)
         /\ pc[t] = "emit" => pc'[t] = "idle"
<1>a. pc \in [Thread -> Labels]
  BY DEF TypeInv, TypeOK
<1>1. CASE Publish(t) \/ SaveInstruments(t)
  BY <1>a, <1>1 DEF Publish, SaveInstruments, Begin, CanCall, Goto, Journal
<1>2. CASE PublishMalformed(t) \/ CallRefused(t)
  BY <1>2 DEF PublishMalformed, CallRefused, CanCall, vars, threadVars
<1>3. CASE AcquireLock(t) \/ LookupMiss(t) \/ ReadTail(t)
  BY <1>a, <1>3 DEF AcquireLock, LookupMiss, ReadTail, Goto
<1>4. CASE InsertRow(t) \/ MasterMiss(t) \/ CommitAndEmit(t)
  BY <1>a, <1>4 DEF InsertRow, MasterMiss, CommitAndEmit, Goto
<1>5. CASE \/ Redelivered(t) \/ LookupConflict(t) \/ ReceiptRegression(t) \/ InsertConflict(t)
           \/ MasterKnown(t) \/ MasterConflict(t) \/ CommitAndReturn(t) \/ Emit(t) \/ EmitFails(t)
           \/ LoseConnection(t)
  <2>1. Finish({t})
    BY <1>5 DEF Redelivered, LookupConflict, ReceiptRegression, InsertConflict, MasterKnown,
         MasterConflict, CommitAndReturn, Emit, EmitFails, LoseConnection, Raise, Abandon
  <2>2. pc'[t] = "idle"
    BY <2>1 DEF Finish
  <2>3. pc[t] = "emit" => Emit(t) \/ EmitFails(t)
    BY <1>5 DEF Redelivered, LookupConflict, ReceiptRegression, InsertConflict, MasterKnown,
         MasterConflict, CommitAndReturn, LoseConnection
  <2> QED BY <2>2, <2>3
<1> QED BY <1>1, <1>2, <1>3, <1>4, <1>5 DEF ThreadStep, Proceed

\* Only a commit writes the log, only Emit dispatches, only a lost connection
\* leaves an orphan.
LEMMA ThreadEffects ==
  ASSUME NEW t \in Thread, ThreadStep(t)
  PROVE  /\ CommitAndEmit(t) \/ CommitAndReturn(t) \/ UNCHANGED <<audit, projections, systemState>>
         /\ Emit(t) \/ dispatched' = dispatched
         /\ LoseConnection(t) \/ orphan' = orphan
<1>1. CASE \/ Publish(t) \/ SaveInstruments(t) \/ PublishMalformed(t) \/ CallRefused(t)
           \/ AcquireLock(t) \/ LookupMiss(t) \/ ReadTail(t) \/ MasterMiss(t) \/ MasterKnown(t)
           \/ Redelivered(t) \/ InsertRow(t)
  BY <1>1 DEF Publish, SaveInstruments, Begin, PublishMalformed, CallRefused, AcquireLock,
       LookupMiss, ReadTail, MasterMiss, MasterKnown, Redelivered, InsertRow, vars, dbVars, lockVars
<1>2. CASE \/ LookupConflict(t) \/ ReceiptRegression(t) \/ InsertConflict(t) \/ MasterConflict(t)
           \/ CommitAndReturn(t) \/ CommitAndEmit(t) \/ Emit(t) \/ EmitFails(t) \/ LoseConnection(t)
  BY <1>2 DEF LookupConflict, ReceiptRegression, InsertConflict, MasterConflict, Raise,
       CommitAndReturn, CommitAndEmit, Emit, EmitFails, LoseConnection, dbVars, lockVars
<1> QED BY <1>1, <1>2 DEF ThreadStep, Proceed

-----------------------------------------------------------------------------
(* What a commit does. *)

\* A commit writes instrument snapshots, or one row with the state that it carries.
LEMMA CommitEffect ==
  ASSUME SafeInv, NEW work \in Work, WorkFits(work), Apply(work)
  PROVE  \/ work.kind = "master" /\ UNCHANGED <<audit, projections, systemState>>
         \/ /\ work.kind = "append" /\ work.row \in Row /\ Fits(work.row)
            /\ audit' = Append(audit, work.row)
            /\ WriteState(work.row.sub)
BY WorkTyped DEF Apply, WorkFits

\* A thread that commits applies what it staged for its own call.
LEMMA ThreadWork ==
  ASSUME SafeInv, NEW t \in Thread, CommitAndEmit(t) \/ CommitAndReturn(t)
  PROVE  /\ staged[t] \in Work /\ WorkFits(staged[t]) /\ Apply(staged[t])
         /\ staged[t].kind = call[t].op
         /\ pc[t] = "commit" /\ orphan' = orphan /\ dispatched' = dispatched /\ blocked' = blocked
BY DEF SafeInv, TypeInv, Locals, TransactionFits, CommitAndEmit, CommitAndReturn

\* An orphaned transaction that commits applies what its thread had staged.
LEMMA OrphanWork ==
  ASSUME SafeInv, OrphanCommits
  PROVE  orphan \in Work /\ WorkFits(orphan) /\ Apply(orphan) /\ orphan' = NoWork
BY DEF SafeInv, TypeInv, TypeOK, LockHeld, TransactionFits, OrphanCommits

\* Whoever commits, the log grows by one row that fits.
LEMMA LogGrowth ==
  ASSUME SafeInv, [Next]_vars
  PROVE  \/ UNCHANGED <<audit, projections, systemState>>
         \/ \E row \in Row :
              Fits(row) /\ audit' = Append(audit, row) /\ WriteState(row.sub)
<1>1. ASSUME NEW t \in Thread, ThreadStep(t), ~(CommitAndEmit(t) \/ CommitAndReturn(t))
      PROVE  UNCHANGED <<audit, projections, systemState>>
  BY <1>1, ThreadEffects
<1>2. ASSUME NEW t \in Thread, CommitAndEmit(t) \/ CommitAndReturn(t)
      PROVE  \/ UNCHANGED <<audit, projections, systemState>>
             \/ \E row \in Row :
                  Fits(row) /\ audit' = Append(audit, row) /\ WriteState(row.sub)
  BY <1>2, ThreadWork, CommitEffect
<1>3. ASSUME NEW p \in Process, Crash(p) \/ Restart(p)
      PROVE  UNCHANGED <<audit, projections, systemState>>
  BY <1>3 DEF Crash, Restart, dbVars
<1>4. CASE OrphanCommits
  BY <1>4, OrphanWork, CommitEffect
<1>5. CASE OrphanAborts \/ UNCHANGED vars
  BY <1>5 DEF OrphanAborts, vars, dbVars
<1> QED BY <1>1, <1>2, <1>3, <1>4, <1>5, Steps

\* A row keeps its place in the log.
LEMMA AppendKeeps ==
  ASSUME TypeOK, NEW row \in Row, audit' = Append(audit, row)
  PROVE  /\ Len(audit) \in Nat /\ Len(audit') = Len(audit) + 1
         /\ audit'[Len(audit) + 1] = row
         /\ \A i \in 1 .. Len(audit) : i \in 1 .. Len(audit') /\ audit'[i] = audit[i]
         /\ \A i \in 1 .. Len(audit') : i \in 1 .. Len(audit) \/ i = Len(audit) + 1
BY DEF TypeOK

\* system_state holds, for each scope, the last state the log has for it.
StateMatches ==
  \A sc \in Scope :
    \/ systemState[sc] # NoState /\ LastStateOf(sc, systemState[sc])
    \/ /\ systemState[sc] = NoState
       /\ \A r \in Elements(audit) : r.sub.state = NoState \/ r.sub.state.scope # sc

\* append_event writes the row and the state in one transaction, so they keep matching.
LEMMA StateNext == SafeInv /\ StateMatches /\ [Next]_vars => StateMatches'
<1> SUFFICES ASSUME SafeInv, StateMatches, [Next]_vars, NEW sc \in Scope
             PROVE  \/ systemState'[sc] # NoState /\ LastStateOf(sc, systemState[sc])'
                    \/ /\ systemState'[sc] = NoState
                       /\ \A r \in Elements(audit') :
                            r.sub.state = NoState \/ r.sub.state.scope # sc
  BY DEF StateMatches
<1>a. TypeOK /\ audit \in Seq(Row) /\ systemState \in [Scope -> State \cup {NoState}]
  BY DEF SafeInv, TypeInv, TypeOK
<1>1. CASE UNCHANGED <<audit, projections, systemState>>
  BY <1>1 DEF StateMatches, LastStateOf
<1>2. ASSUME NEW row \in Row, audit' = Append(audit, row), WriteState(row.sub)
      PROVE  \/ systemState'[sc] # NoState /\ LastStateOf(sc, systemState[sc])'
             \/ /\ systemState'[sc] = NoState
                /\ \A r \in Elements(audit') :
                     r.sub.state = NoState \/ r.sub.state.scope # sc
  <2> DEFINE n == Len(audit)
  <2>a. /\ n \in Nat /\ Len(audit') = n + 1 /\ audit'[n + 1] = row
        /\ \A i \in 1 .. n : i \in 1 .. n + 1 /\ audit'[i] = audit[i]
        /\ \A i \in 1 .. n + 1 : i \in 1 .. n \/ i = n + 1
    BY <1>a, <1>2, AppendKeeps
  <2>b. row.sub.state \in State \cup {NoState}
    <3>1. row.sub \in Submission
      BY RowTyped
    <3> QED BY <3>1, SubmissionsAreTyped
  <2>1. CASE row.sub.state # NoState /\ row.sub.state.scope = sc
    <3>1. systemState'[sc] = row.sub.state
      BY <1>a, <1>2, <2>1 DEF WriteState
    <3>2. LastStateOf(sc, systemState[sc])'
      <4>1. n + 1 \in 1 .. Len(audit') /\ audit'[n + 1].sub.state = systemState'[sc]
        BY <2>a, <3>1
      <4>2. \A j \in n + 1 + 1 .. Len(audit') : FALSE
        BY <2>a
      <4> QED BY <4>1, <4>2 DEF LastStateOf
    <3> QED BY <2>1, <3>1, <3>2
  <2>2. CASE row.sub.state = NoState \/ row.sub.state.scope # sc
    <3>1. systemState'[sc] = systemState[sc]
      BY <1>a, <1>2, <2>2, <2>b, StatesHaveScopes DEF WriteState
    <3>2. CASE systemState[sc] # NoState /\ LastStateOf(sc, systemState[sc])
      <4>1. PICK i \in 1 .. n :
              /\ audit[i].sub.state = systemState[sc]
              /\ \A j \in i + 1 .. n :
                   audit[j].sub.state = NoState \/ audit[j].sub.state.scope # sc
        BY <3>2 DEF LastStateOf
      <4>2. i \in 1 .. Len(audit') /\ audit'[i].sub.state = systemState'[sc]
        BY <2>a, <3>1, <4>1
      <4>3. ASSUME NEW j \in i + 1 .. Len(audit')
            PROVE  audit'[j].sub.state = NoState \/ audit'[j].sub.state.scope # sc
        <5>1. j \in i + 1 .. n \/ j = n + 1
          BY <2>a
        <5>2. CASE j \in i + 1 .. n
          <6>1. j \in 1 .. n
            BY <2>a, <5>2
          <6> QED BY <2>a, <4>1, <5>2, <6>1
        <5>3. CASE j = n + 1
          BY <2>a, <2>2, <5>3
        <5> QED BY <5>1, <5>2, <5>3
      <4> QED BY <3>1, <3>2, <4>2, <4>3 DEF LastStateOf
    <3>3. CASE /\ systemState[sc] = NoState
               /\ \A r \in Elements(audit) : r.sub.state = NoState \/ r.sub.state.scope # sc
      <4>1. ASSUME NEW r \in Elements(audit')
            PROVE  r.sub.state = NoState \/ r.sub.state.scope # sc
        <5>1. PICK i \in 1 .. Len(audit') : r = audit'[i]
          BY DEF Elements
        <5>2. CASE i \in 1 .. n
          BY <2>a, <3>3, <5>1, <5>2 DEF Elements
        <5>3. CASE i = n + 1
          BY <2>a, <2>2, <5>1, <5>3
        <5> QED BY <2>a, <5>1, <5>2, <5>3
      <4> QED BY <3>1, <3>3, <4>1
    <3> QED BY <3>2, <3>3 DEF StateMatches
  <2> QED BY <2>1, <2>2
<1> QED BY <1>1, <1>2, LogGrowth

\* Projection tables and system_state agree with the log after every commit,
\* rollback, redelivery and crash: TablesMatchAudit.
THEOREM TablesAgree == Spec => []TablesMatchAudit
<1>1. Init => StateMatches
  BY DEF Init, StateMatches, Elements
<1>2. SafeInv /\ StateMatches => TablesMatchAudit
  BY DEF SafeInv, AuditInv, ProjectionsAreAudited, StateMatches, TablesMatchAudit
<1> QED BY <1>1, <1>2, StateNext, SafetyHolds, PTL DEF Spec

-----------------------------------------------------------------------------
(* Dispatch: committed events only, each at most once, never lost silently. *)

\* At the start nothing is committed and nothing is dispatched.
LEMMA InitDispatch == Init => Provenance /\ Dispatching /\ NoSilentLoss
BY DEF Init, Provenance, Dispatching, NoSilentLoss, Elements, NoWork

\* A row that was given up stays so: only Restart clears a latch, and it starts
\* a later incarnation.
LEMMA GivenUpStable ==
  ASSUME TypeOK, TypeOK', NEW row \in Row, GivenUp(row), row.life <= life[row.owner],
         \/ /\ life' = life
            /\ \A p \in Process : (blocked[p] => blocked'[p]) /\ (up'[p] => up[p])
         \/ \E p \in Process : Restart(p)
  PROVE  GivenUp(row)' /\ row.life <= life'[row.owner]
<1> DEFINE o == row.owner
<1>1. /\ o \in Process /\ row.life \in Nat /\ life[o] \in Nat
      /\ blocked[o] \in BOOLEAN /\ up[o] \in BOOLEAN
  BY RowTyped DEF TypeOK
<1>2. CASE /\ life' = life
           /\ \A p \in Process : (blocked[p] => blocked'[p]) /\ (up'[p] => up[p])
  BY <1>1, <1>2 DEF GivenUp
<1>3. ASSUME NEW p \in Process, Restart(p)
      PROVE  GivenUp(row)' /\ row.life <= life'[o]
  <2>1. CASE p = o
    <3>1. life'[o] = life[o] + 1
      BY <1>1, <1>3, <2>1 DEF Restart, TypeOK
    <3> QED BY <1>1, <3>1 DEF GivenUp
  <2>2. CASE p # o
    <3>1. life'[o] = life[o] /\ up'[o] = up[o] /\ blocked'[o] = blocked[o]
      BY <1>1, <1>3, <2>2 DEF Restart, TypeOK
    <3> QED BY <3>1 DEF GivenUp
  <2> QED BY <2>1, <2>2
<1> QED BY <1>2, <1>3

\* Unless a process restarts, incarnations stay, latches stay set, and processes only end.
LEMMA LivesStable ==
  ASSUME TypeOK, [Next]_vars
  PROVE  \/ /\ life' = life
            /\ \A p \in Process : (blocked[p] => blocked'[p]) /\ (up'[p] => up[p])
         \/ \E p \in Process : Restart(p)
<1>1. ASSUME NEW t \in Thread, Latch(t), life' = life, up' = up
      PROVE  \A p \in Process : (blocked[p] => blocked'[p]) /\ (up'[p] => up[p])
  BY <1>1 DEF Latch, TypeOK
<1>2. ASSUME NEW t \in Thread,
             \/ PublishMalformed(t) \/ LookupConflict(t) \/ ReceiptRegression(t)
             \/ InsertConflict(t) \/ MasterConflict(t) \/ EmitFails(t) \/ LoseConnection(t)
      PROVE  Latch(t) /\ life' = life /\ up' = up
  BY <1>2 DEF PublishMalformed, LookupConflict, ReceiptRegression, InsertConflict,
              MasterConflict, EmitFails, LoseConnection, Raise
<1>3. ASSUME NEW t \in Thread,
             \/ Publish(t) \/ SaveInstruments(t) \/ CallRefused(t) \/ AcquireLock(t)
             \/ LookupMiss(t) \/ Redelivered(t) \/ ReadTail(t) \/ InsertRow(t)
             \/ MasterMiss(t) \/ MasterKnown(t) \/ CommitAndEmit(t) \/ CommitAndReturn(t) \/ Emit(t)
      PROVE  UNCHANGED <<life, up, blocked>>
  BY <1>3 DEF Publish, SaveInstruments, Begin, CallRefused, AcquireLock, LookupMiss, Redelivered,
       ReadTail, InsertRow, MasterMiss, MasterKnown, CommitAndEmit, CommitAndReturn, Emit,
       vars, journalVars
<1>4. ASSUME NEW p \in Process, Crash(p)
      PROVE  life' = life /\ blocked' = blocked /\ \A q \in Process : up'[q] => up[q]
  BY <1>4 DEF Crash, TypeOK
<1>5. CASE OrphanAborts \/ OrphanCommits \/ UNCHANGED vars
  BY <1>5 DEF OrphanAborts, OrphanCommits, vars, journalVars
<1> QED BY <1>1, <1>2, <1>3, <1>4, <1>5 DEF Next, Proceed

\* Nothing but a disconnect and a crash leaves an orphan; both give up its row.
LEMMA AbandonedWork ==
  ASSUME TypeInv, NEW threads \in SUBSET Thread, Abandon(threads)
  PROVE  \/ orphan' = orphan
         \/ orphan' = Doomed
         \/ holder \in threads /\ pc[holder] = "commit" /\ orphan' = staged[holder]
BY DEF Abandon, lockVars

\* Only threads of running processes are inside a call.
LEMMA OnlyTheLiveRun ==
  ASSUME TypeInv, \A t \in Thread : ~up[ProcessOf[t]] => pc[t] = "idle", [Next]_vars
  PROVE  \A t \in Thread : ~up'[ProcessOf[t]] => pc'[t] = "idle"
<1>a. /\ pc \in [Thread -> Labels] /\ up \in [Process -> BOOLEAN]
      /\ \A t \in Thread : ProcessOf[t] \in Process
  BY ThreadsBelongToProcesses DEF TypeInv, TypeOK
<1>1. ASSUME NEW t \in Thread, ThreadStep(t), NEW u \in Thread, ~up'[ProcessOf[u]]
      PROVE  pc'[u] = "idle"
  BY <1>1, ThreadFrame, ThreadMoves
<1>2. ASSUME NEW p \in Process, Crash(p), NEW u \in Thread, ~up'[ProcessOf[u]]
      PROVE  pc'[u] = "idle"
  BY <1>a, <1>2 DEF Crash, Abandon, Finish, ThreadsOf
<1>3. ASSUME NEW p \in Process, Restart(p), NEW u \in Thread, ~up'[ProcessOf[u]]
      PROVE  pc'[u] = "idle"
  BY <1>a, <1>3 DEF Restart, threadVars
<1>4. CASE OrphanAborts \/ OrphanCommits \/ UNCHANGED vars
  BY <1>4 DEF OrphanAborts, OrphanCommits, vars, journalVars, threadVars
<1> QED BY <1>1, <1>2, <1>3, <1>4, Steps

\* A staged row names the call, the process and the incarnation that staged it.
Signed(t) ==
  pc[t] = "commit" /\ staged[t].kind = "append" =>
    /\ staged[t].row.sub = call[t].sub
    /\ staged[t].row.owner = ProcessOf[t]
    /\ staged[t].row.life = life[ProcessOf[t]]
    /\ staged[t].row.emits = call[t].emits

\* What a thread has staged bears the incarnation and the dispatch request of its call.
LEMMA RowsAreSigned ==
  ASSUME TypeInv, \A t \in Thread : ~up[ProcessOf[t]] => pc[t] = "idle",
         \A t \in Thread : Signed(t), [Next]_vars
  PROVE  \A t \in Thread : Signed(t)'
<1>a. /\ pc \in [Thread -> Labels] /\ staged \in [Thread -> Work \cup {NoWork}]
      /\ life \in [Process -> Nat] /\ up \in [Process -> BOOLEAN]
      /\ \A t \in Thread : ProcessOf[t] \in Process
  BY ThreadsBelongToProcesses DEF TypeInv, TypeOK
<1>1. ASSUME NEW t \in Thread, ThreadStep(t), NEW u \in Thread
      PROVE  Signed(u)'
  <2>1. CASE u # t
    BY <1>1, <2>1, ThreadFrame DEF Signed
  <2>2. CASE u = t /\ InsertRow(t)
    <3>1. PICK row : row = NewRow(t)
      OBVIOUS
    <3>2. /\ row.sub = call[t].sub /\ row.owner = ProcessOf[t]
          /\ row.life = life[ProcessOf[t]] /\ row.emits = call[t].emits
      BY <3>1 DEF NewRow, Journal
    <3>3. staged'[t] = [kind |-> "append", row |-> row] /\ call' = call /\ life' = life
      BY <1>a, <2>2, <3>1 DEF InsertRow, journalVars
    <3>4. staged'[t].row = row
      BY <3>3
    <3> QED BY <2>2, <3>2, <3>3, <3>4 DEF Signed
  <2>3. CASE u = t /\ MasterMiss(t)
    <3>1. staged'[t].kind = "master"
      BY <1>a, <2>3 DEF MasterMiss
    <3> QED BY <2>3, <3>1 DEF Signed
  <2>4. CASE u = t /\ pc[t] = "commit" /\ call'[t] = call[t] /\ staged'[t] = staged[t]
    BY <1>1, <2>4, ThreadFrame DEF Signed
  <2>5. CASE u = t /\ pc'[t] # "commit"
    BY <2>5 DEF Signed
  <2> QED BY <1>1, <2>1, <2>2, <2>3, <2>4, <2>5, ThreadMoves
<1>2. ASSUME NEW p \in Process, Crash(p), NEW u \in Thread
      PROVE  Signed(u)'
  <2>1. life' = life /\ Finish(ThreadsOf(p))
    BY <1>2 DEF Crash, Abandon
  <2>2. \/ pc'[u] = "idle"
        \/ pc'[u] = pc[u] /\ call'[u] = call[u] /\ staged'[u] = staged[u]
    BY <2>1 DEF Finish
  <2> QED BY <2>1, <2>2 DEF Signed
<1>3. ASSUME NEW p \in Process, Restart(p), NEW u \in Thread
      PROVE  Signed(u)'
  <2>1. UNCHANGED <<pc, call, staged>>
    BY <1>3 DEF Restart, threadVars
  <2>2. CASE ProcessOf[u] = p
    BY <1>3, <2>1, <2>2 DEF Restart, Signed
  <2>3. CASE ProcessOf[u] # p
    <3>1. life'[ProcessOf[u]] = life[ProcessOf[u]]
      BY <1>a, <1>3, <2>3 DEF Restart
    <3> QED BY <2>1, <3>1 DEF Signed
  <2> QED BY <2>2, <2>3
<1>4. CASE OrphanAborts \/ OrphanCommits \/ UNCHANGED vars
  BY <1>4 DEF OrphanAborts, OrphanCommits, vars, journalVars, threadVars, Signed
<1> QED BY <1>1, <1>2, <1>3, <1>4, Steps

\* No row is of an incarnation still to come.
LivesPast == \A i \in 1 .. Len(audit) : audit[i].life <= life[audit[i].owner]

\* An orphaned row is of a call that nobody will answer as a success.
OrphanGivenUp ==
  orphan.kind = "append" => orphan.row.life <= life[orphan.row.owner] /\ GivenUp(orphan.row)

\* Incarnations only grow.
LEMMA LivesNeverShrink ==
  ASSUME TypeOK, TypeOK', [Next]_vars, NEW p \in Process
  PROVE  life[p] \in Nat /\ life'[p] \in Nat /\ life[p] <= life'[p]
<1>1. life[p] \in Nat /\ life'[p] \in Nat
  BY DEF TypeOK
<1>2. ASSUME NEW q \in Process, Restart(q)
      PROVE  life[p] <= life'[p]
  BY <1>1, <1>2 DEF Restart, TypeOK
<1> QED BY <1>1, <1>2, LivesStable

\* Every step keeps what is known of who wrote which row, and of which incarnation.
LEMMA ProvenanceNext == SafeInv /\ SafeInv' /\ Provenance /\ [Next]_vars => Provenance'
<1> SUFFICES ASSUME SafeInv, SafeInv', Provenance, [Next]_vars
             PROVE  Provenance'
  OBVIOUS
<1>a. /\ TypeInv /\ TypeOK /\ TypeOK' /\ LivesPast /\ OrphanGivenUp
      /\ \A t \in Thread : Signed(t)
      /\ \A t \in Thread : ~up[ProcessOf[t]] => pc[t] = "idle"
  BY DEF SafeInv, TypeInv, Provenance, LivesPast, OrphanGivenUp, Signed
<1>b. \A t \in Thread : ProcessOf[t] \in Process
  BY ThreadsBelongToProcesses
<1>1. \A t \in Thread : ~up'[ProcessOf[t]] => pc'[t] = "idle"
  BY <1>a, OnlyTheLiveRun
<1>2. \A t \in Thread : Signed(t)'
  BY <1>a, RowsAreSigned
<1>3. ASSUME NEW row \in Row, audit' = Append(audit, row), row.life <= life'[row.owner]
      PROVE  LivesPast'
  <2> DEFINE n == Len(audit)
  <2>a. /\ n \in Nat /\ Len(audit') = n + 1 /\ audit'[n + 1] = row
        /\ \A i \in 1 .. n : i \in 1 .. n + 1 /\ audit'[i] = audit[i]
        /\ \A i \in 1 .. n + 1 : i \in 1 .. n \/ i = n + 1
    BY <1>a, <1>3, AppendKeeps
  <2>1. ASSUME NEW i \in 1 .. n
        PROVE  audit[i].life <= life'[audit[i].owner]
    <3>1. audit[i].life \in Nat /\ audit[i].owner \in Process
      BY <1>a, RowTyped DEF TypeOK
    <3>2. audit[i].life <= life[audit[i].owner]
      BY <1>a DEF LivesPast
    <3>3. /\ life[audit[i].owner] \in Nat /\ life'[audit[i].owner] \in Nat
          /\ life[audit[i].owner] <= life'[audit[i].owner]
      BY <1>a, <3>1, LivesNeverShrink
    <3> QED BY <3>1, <3>2, <3>3
  <2> QED BY <1>3, <2>a, <2>1 DEF LivesPast
<1>4. ASSUME audit' = audit
      PROVE  LivesPast'
  <2>1. ASSUME NEW i \in 1 .. Len(audit)
        PROVE  audit[i].life <= life'[audit[i].owner]
    <3>1. audit[i].life \in Nat /\ audit[i].owner \in Process
      BY <1>a, RowTyped DEF TypeOK
    <3>2. audit[i].life <= life[audit[i].owner]
      BY <1>a DEF LivesPast
    <3>3. /\ life[audit[i].owner] \in Nat /\ life'[audit[i].owner] \in Nat
          /\ life[audit[i].owner] <= life'[audit[i].owner]
      BY <1>a, <3>1, LivesNeverShrink
    <3> QED BY <3>1, <3>2, <3>3
  <2> QED BY <1>4, <2>1 DEF LivesPast
\* The orphan is the one that was there.
<1>5. ASSUME orphan' = orphan
      PROVE  OrphanGivenUp'
  <2>1. CASE orphan.kind = "append"
    <3>1. orphan.row \in Row
      BY <1>a, <2>1, WorkTyped DEF TypeOK, NoWork, Doomed
    <3>2. GivenUp(orphan.row) /\ orphan.row.life <= life[orphan.row.owner]
      BY <1>a, <2>1 DEF OrphanGivenUp
    <3>3. PICK row : row = orphan.row
      OBVIOUS
    <3>4. row \in Row /\ GivenUp(row) /\ row.life <= life[row.owner]
      BY <3>1, <3>2, <3>3
    <3>5. GivenUp(row)' /\ row.life <= life'[row.owner]
      BY <1>a, <3>4, LivesStable, GivenUpStable
    <3> QED BY <1>5, <3>3, <3>5 DEF OrphanGivenUp, GivenUp
  <2>2. CASE orphan.kind # "append"
    BY <1>5, <2>2 DEF OrphanGivenUp
  <2> QED BY <2>1, <2>2
<1>6. ASSUME orphan' = Doomed \/ orphan' = NoWork
      PROVE  OrphanGivenUp'
  BY <1>6 DEF OrphanGivenUp, Doomed, NoWork
\* The orphan is what a thread of a process that has latched, or died, had staged.
<1>7. ASSUME NEW t \in Thread, pc[t] = "commit", orphan' = staged[t], life' = life,
             blocked'[ProcessOf[t]] \/ ~up'[ProcessOf[t]]
      PROVE  OrphanGivenUp'
  <2>1. CASE staged[t].kind = "append"
    <3>1. staged[t].row.owner = ProcessOf[t] /\ staged[t].row.life = life[ProcessOf[t]]
      BY <1>a, <1>7, <2>1 DEF Signed
    <3>2. life[ProcessOf[t]] \in Nat
      BY <1>a, <1>b DEF TypeOK
    <3> QED BY <1>7, <3>1, <3>2 DEF OrphanGivenUp, GivenUp
  <2>2. CASE staged[t].kind # "append"
    BY <1>7, <2>2 DEF OrphanGivenUp
  <2> QED BY <2>1, <2>2
<1>8. ASSUME NEW t \in Thread, ThreadStep(t)
      PROVE  LivesPast' /\ OrphanGivenUp'
  <2>1. life' = life /\ up' = up
    BY <1>a, <1>8, ThreadFrame
  <2>2. CASE CommitAndEmit(t) \/ CommitAndReturn(t)
    <3>1. /\ staged[t] \in Work /\ WorkFits(staged[t]) /\ Apply(staged[t])
          /\ pc[t] = "commit" /\ orphan' = orphan
      BY <2>2, ThreadWork
    <3>2. CASE staged[t].kind = "master" /\ audit' = audit
      BY <1>4, <1>5, <3>1, <3>2
    <3>3. CASE /\ staged[t].kind = "append" /\ staged[t].row \in Row
               /\ audit' = Append(audit, staged[t].row)
      <4>1. staged[t].row.life = life[ProcessOf[t]] /\ staged[t].row.owner = ProcessOf[t]
        BY <1>a, <3>1, <3>3 DEF Signed
      <4>2. life[ProcessOf[t]] \in Nat
        BY <1>a, <1>b DEF TypeOK
      <4>3. staged[t].row.life <= life'[staged[t].row.owner]
        BY <2>1, <4>1, <4>2
      <4>4. PICK row : row = staged[t].row
        OBVIOUS
      <4> QED BY <1>3, <1>5, <3>1, <3>3, <4>3, <4>4
    <3> QED BY <3>1, <3>2, <3>3, CommitEffect
  <2>3. CASE LoseConnection(t)
    <3>1. Abandon({t}) /\ Latch(t) /\ {t} \in SUBSET Thread /\ audit' = audit
      BY <2>3 DEF LoseConnection, dbVars
    <3>2. blocked'[ProcessOf[t]]
      BY <1>a, <1>b, <3>1 DEF Latch, Journal, TypeOK
    <3>3. \/ orphan' = orphan \/ orphan' = Doomed
          \/ holder = t /\ pc[holder] = "commit" /\ orphan' = staged[holder]
      BY <1>a, <3>1, AbandonedWork
    <3> QED BY <1>4, <1>5, <1>6, <1>7, <2>1, <3>1, <3>2, <3>3
  <2>4. CASE ~(CommitAndEmit(t) \/ CommitAndReturn(t)) /\ ~LoseConnection(t)
    BY <1>4, <1>5, <1>8, <2>4, ThreadEffects
  <2> QED BY <2>2, <2>3, <2>4
<1>9. ASSUME NEW p \in Process, Crash(p)
      PROVE  LivesPast' /\ OrphanGivenUp'
  <2>1. /\ Abandon(ThreadsOf(p)) /\ ThreadsOf(p) \in SUBSET Thread
        /\ audit' = audit /\ life' = life /\ ~up'[p]
    BY <1>a, <1>9 DEF Crash, dbVars, TypeOK, ThreadsOf
  <2>2. \/ orphan' = orphan \/ orphan' = Doomed
        \/ /\ holder \in Thread /\ ProcessOf[holder] = p
           /\ pc[holder] = "commit" /\ orphan' = staged[holder]
    BY <1>a, <2>1, AbandonedWork DEF ThreadsOf
  <2> QED BY <1>4, <1>5, <1>6, <1>7, <2>1, <2>2
<1>10. ASSUME NEW p \in Process, Restart(p)
       PROVE  LivesPast' /\ OrphanGivenUp'
  BY <1>4, <1>5, <1>10 DEF Restart, dbVars, lockVars
<1>11. ASSUME OrphanCommits
       PROVE  LivesPast' /\ OrphanGivenUp'
  <2>1. orphan \in Work /\ WorkFits(orphan) /\ Apply(orphan) /\ orphan' = NoWork
    BY <1>11, OrphanWork
  <2>2. CASE orphan.kind = "append" /\ orphan.row \in Row /\ audit' = Append(audit, orphan.row)
    <3>1. PICK row : row = orphan.row
      OBVIOUS
    <3>2. row.life <= life'[row.owner]
      BY <1>a, <1>11, <2>2, <3>1 DEF OrphanGivenUp, OrphanCommits, journalVars
    <3> QED BY <1>3, <1>6, <2>1, <2>2, <3>1, <3>2
  <2>3. CASE audit' = audit
    BY <1>4, <1>6, <2>1, <2>3
  <2> QED BY <2>1, <2>2, <2>3, CommitEffect
<1>12. ASSUME OrphanAborts \/ UNCHANGED vars
       PROVE  LivesPast' /\ OrphanGivenUp'
  BY <1>4, <1>5, <1>6, <1>12 DEF OrphanAborts, vars, dbVars, lockVars
<1>13. LivesPast' /\ OrphanGivenUp'
  BY <1>8, <1>9, <1>10, <1>11, <1>12, Steps
<1> QED BY <1>1, <1>2, <1>13 DEF Provenance, LivesPast, OrphanGivenUp, Signed

\* What Dispatching says of one thread.
DispatchingOf(t) ==
  pc[t] = "emit" =>
    /\ \E i \in 1 .. Len(audit) : call[t].sub = audit[i].sub /\ audit[i].owner = ProcessOf[t]
    /\ \A n \in 1 .. Len(dispatched) : dispatched[n] # call[t].sub.event.id
    /\ \A u \in Thread \ {t} :
         pc[u] = "emit" => call[u].sub.event.id # call[t].sub.event.id

OnceEach == \A m, n \in 1 .. Len(dispatched) : m # n => dispatched[m] # dispatched[n]
OnlyLogged ==
  \A n \in 1 .. Len(dispatched) :
    \E i \in 1 .. Len(audit) : dispatched[n] = audit[i].sub.event.id

\* No step changes or removes a row of the log.
LEMMA LogKeeps ==
  ASSUME SafeInv, [Next]_vars
  PROVE  \A i \in 1 .. Len(audit) : i \in 1 .. Len(audit') /\ audit'[i] = audit[i]
<1>1. TypeOK
  BY DEF SafeInv, TypeInv
<1> QED BY <1>1, LogGrowth, AppendKeeps

\* A step that dispatches nothing, after which nobody dispatches who did not
\* before.
LEMMA DispatchStable ==
  ASSUME SafeInv, [Next]_vars, Dispatching, dispatched' = dispatched,
         \A t \in Thread : pc'[t] = "emit" => pc[t] = "emit" /\ call'[t] = call[t]
  PROVE  Dispatching'
<1>1. \A i \in 1 .. Len(audit) : i \in 1 .. Len(audit') /\ audit'[i] = audit[i]
  BY LogKeeps
<1>2. OnceEach /\ OnlyLogged /\ \A t \in Thread : DispatchingOf(t)
  BY DEF Dispatching, OnceEach, OnlyLogged, DispatchingOf
<1>3. OnceEach' /\ OnlyLogged'
  <2>1. ASSUME NEW n \in 1 .. Len(dispatched)
        PROVE  \E i \in 1 .. Len(audit') : dispatched[n] = audit'[i].sub.event.id
    <3>1. PICK i \in 1 .. Len(audit) : dispatched[n] = audit[i].sub.event.id
      BY <1>2 DEF OnlyLogged
    <3>2. i \in 1 .. Len(audit') /\ audit'[i] = audit[i]
      BY <1>1
    <3> QED BY <3>1, <3>2
  <2> QED BY <1>2, <2>1 DEF OnceEach, OnlyLogged
<1>4. ASSUME NEW t \in Thread
      PROVE  DispatchingOf(t)'
  <2> SUFFICES ASSUME pc'[t] = "emit"
               PROVE  DispatchingOf(t)'
    BY DEF DispatchingOf
  <2>1. pc[t] = "emit" /\ call'[t] = call[t]
    OBVIOUS
  <2>2. PICK i \in 1 .. Len(audit) :
          call[t].sub = audit[i].sub /\ audit[i].owner = ProcessOf[t]
    BY <1>2, <2>1 DEF DispatchingOf
  <2>3. i \in 1 .. Len(audit') /\ call'[t].sub = audit'[i].sub /\ audit'[i].owner = ProcessOf[t]
    BY <1>1, <2>1, <2>2
  <2> QED BY <1>2, <2>1, <2>3 DEF DispatchingOf
<1> QED BY <1>3, <1>4 DEF Dispatching, OnceEach, OnlyLogged, DispatchingOf

\* Every step dispatches committed events only, each at most once.
LEMMA DispatchNext == SafeInv /\ Provenance /\ Dispatching /\ [Next]_vars => Dispatching'
<1> SUFFICES ASSUME SafeInv, Provenance, Dispatching, [Next]_vars
             PROVE  Dispatching'
  OBVIOUS
<1>a. /\ TypeInv /\ TypeOK /\ audit \in Seq(Row) /\ dispatched \in Seq(EventId)
      /\ OnceEach /\ OnlyLogged /\ \A t \in Thread : DispatchingOf(t) /\ Signed(t)
  BY DEF SafeInv, TypeInv, TypeOK, Provenance, Signed,
         Dispatching, OnceEach, OnlyLogged, DispatchingOf
<1>1. ASSUME NEW t \in Thread, Emit(t)
      PROVE  Dispatching'
  <2> DEFINE id == call[t].sub.event.id
             n == Len(dispatched)
  <2>1. /\ pc[t] = "emit" /\ Finish({t}) /\ audit' = audit
        /\ dispatched' = Append(dispatched, id)
    BY <1>1 DEF Emit, dbVars
  <2>2. /\ pc'[t] = "idle"
        /\ \A u \in Thread \ {t} : pc'[u] = pc[u] /\ call'[u] = call[u]
    BY <2>1 DEF Finish
  <2>3. call[t] \in Call /\ call[t].op = "append"
    BY <1>a, <2>1 DEF TypeInv, Locals
  <2>4. id \in EventId
    BY <2>3, AppendCallTyped
  <2>5. /\ n \in Nat /\ Len(dispatched') = n + 1 /\ dispatched'[n + 1] = id
        /\ \A m \in 1 .. n : dispatched'[m] = dispatched[m]
        /\ \A m \in 1 .. n + 1 : m \in 1 .. n \/ m = n + 1
    BY <1>a, <2>1, <2>4
  <2>6. OnceEach' /\ OnlyLogged'
    BY <1>a, <2>1, <2>5 DEF OnceEach, OnlyLogged, DispatchingOf
  <2>7. ASSUME NEW u \in Thread
        PROVE  DispatchingOf(u)'
    <3>1. CASE u = t
      BY <2>2, <3>1 DEF DispatchingOf
    <3>2. CASE u # t /\ pc[u] = "emit"
      <4>1. \A m \in 1 .. n + 1 : dispatched'[m] # call'[u].sub.event.id
        BY <1>a, <2>1, <2>2, <2>5, <3>2 DEF DispatchingOf
      <4>2. \A v \in Thread \ {u} : pc'[v] = "emit" => pc[v] = "emit" /\ call'[v] = call[v]
        BY <2>2
      <4>3. pc'[u] = pc[u] /\ call'[u] = call[u] /\ DispatchingOf(u)
        BY <1>a, <2>2, <3>2
      <4>4. \E i \in 1 .. Len(audit') :
              call'[u].sub = audit'[i].sub /\ audit'[i].owner = ProcessOf[u]
        BY <2>1, <3>2, <4>3 DEF DispatchingOf
      <4>5. \A v \in Thread \ {u} :
              pc'[v] = "emit" => call'[v].sub.event.id # call'[u].sub.event.id
        BY <3>2, <4>2, <4>3 DEF DispatchingOf
      <4> QED BY <2>5, <4>1, <4>4, <4>5 DEF DispatchingOf
    <3>3. CASE u # t /\ pc[u] # "emit"
      BY <2>2, <3>3 DEF DispatchingOf
    <3> QED BY <3>1, <3>2, <3>3
  <2> QED BY <2>6, <2>7 DEF Dispatching, OnceEach, OnlyLogged, DispatchingOf
<1>2. ASSUME NEW t \in Thread, CommitAndEmit(t)
      PROVE  Dispatching'
  <2>1. /\ staged[t] \in Work /\ WorkFits(staged[t]) /\ Apply(staged[t])
        /\ staged[t].kind = call[t].op /\ pc[t] = "commit" /\ dispatched' = dispatched
    BY <1>2, ThreadWork
  <2>2. call[t].op = "append" /\ call' = call /\ pc' = [pc EXCEPT ![t] = "emit"]
    BY <1>2 DEF CommitAndEmit, Goto
  <2>3. /\ staged[t].kind = "append" /\ staged[t].row \in Row /\ Fits(staged[t].row)
        /\ audit' = Append(audit, staged[t].row)
    BY <2>1, <2>2, CommitEffect
  <2>4. PICK row \in Row : row = staged[t].row
    BY <2>3
  <2>5. row.sub = call[t].sub /\ row.owner = ProcessOf[t]
    BY <1>a, <2>1, <2>3, <2>4 DEF Signed
  <2> DEFINE n == Len(audit)
  <2>6. /\ n \in Nat /\ Len(audit') = n + 1 /\ audit'[n + 1] = row
        /\ \A i \in 1 .. n : i \in 1 .. n + 1 /\ audit'[i] = audit[i]
    BY <1>a, <2>3, <2>4, AppendKeeps
  <2>7. \A i \in 1 .. n : audit[i].sub.event.id # call[t].sub.event.id
    BY <2>3, <2>4, <2>5 DEF Fits, Fresh
  <2>8. /\ pc'[t] = "emit" /\ \A u \in Thread \ {t} : pc'[u] = pc[u]
    BY <1>a, <2>2 DEF TypeOK
  <2>9. OnceEach' /\ OnlyLogged'
    BY <1>a, <2>1, <2>6 DEF OnceEach, OnlyLogged
  <2>10. \A m \in 1 .. Len(dispatched) : dispatched[m] # call[t].sub.event.id
    BY <1>a, <2>7 DEF OnlyLogged
  <2>11. \A u \in Thread \ {t} : pc[u] = "emit" => call[u].sub.event.id # call[t].sub.event.id
    BY <1>a, <2>7 DEF DispatchingOf
  <2>12. DispatchingOf(t)'
    <3>1. n + 1 \in 1 .. Len(audit') /\ call'[t].sub = audit'[n + 1].sub
          /\ audit'[n + 1].owner = ProcessOf[t]
      BY <2>2, <2>5, <2>6
    <3> QED BY <2>1, <2>2, <2>8, <2>10, <2>11, <3>1 DEF DispatchingOf
  <2>13. ASSUME NEW u \in Thread \ {t}, pc[u] = "emit"
         PROVE  DispatchingOf(u)'
    <3>1. PICK i \in 1 .. n : call[u].sub = audit[i].sub /\ audit[i].owner = ProcessOf[u]
      BY <1>a, <2>13 DEF DispatchingOf
    <3>2. i \in 1 .. Len(audit') /\ call'[u].sub = audit'[i].sub /\ audit'[i].owner = ProcessOf[u]
      BY <2>2, <2>6, <3>1
    <3>3. \A v \in Thread \ {u} :
            pc'[v] = "emit" => call'[v].sub.event.id # call'[u].sub.event.id
      BY <1>a, <2>2, <2>8, <2>11, <2>13 DEF DispatchingOf
    <3> QED BY <1>a, <2>1, <2>2, <2>13, <3>2, <3>3 DEF DispatchingOf
  <2>14. \A u \in Thread : DispatchingOf(u)'
    BY <2>8, <2>12, <2>13 DEF DispatchingOf
  <2> QED BY <2>9, <2>14 DEF Dispatching, OnceEach, OnlyLogged, DispatchingOf
<1>3. ASSUME NEW t \in Thread, ThreadStep(t), ~Emit(t), ~CommitAndEmit(t)
      PROVE  Dispatching'
  <2>1. dispatched' = dispatched /\ pc'[t] # "emit"
    BY <1>a, <1>3, ThreadEffects, ThreadMoves
  <2>2. \A u \in Thread : pc'[u] = "emit" => pc[u] = "emit" /\ call'[u] = call[u]
    BY <1>a, <1>3, <2>1, ThreadFrame
  <2> QED BY <2>1, <2>2, DispatchStable
<1>4. ASSUME NEW p \in Process, Crash(p)
      PROVE  Dispatching'
  <2>1. dispatched' = dispatched /\ Finish(ThreadsOf(p))
    BY <1>4 DEF Crash, Abandon
  <2>2. \A u \in Thread : pc'[u] = "emit" => pc[u] = "emit" /\ call'[u] = call[u]
    BY <2>1 DEF Finish
  <2> QED BY <2>1, <2>2, DispatchStable
<1>5. ASSUME \/ \E p \in Process : Restart(p)
             \/ OrphanAborts \/ OrphanCommits \/ UNCHANGED vars
      PROVE  Dispatching'
  <2>1. dispatched' = dispatched /\ pc' = pc /\ call' = call
    BY <1>5 DEF Restart, OrphanAborts, OrphanCommits, vars, threadVars
  <2> QED BY <2>1, DispatchStable
<1> QED BY <1>1, <1>2, <1>3, <1>4, <1>5, Steps

\* What NoSilentLoss says of one row.
Accounted(r) ==
  r.emits => \/ r.sub.event.id \in Elements(dispatched)
             \/ AboutToEmit(r.sub.event.id)
             \/ GivenUp(r)

\* NoSilentLoss says of every row that it is accounted for.
LEMMA AccountedIsNoLoss ==
  ASSUME TypeOK
  PROVE  NoSilentLoss <=> \A r \in Elements(audit) : Accounted(r)
<1>1. ASSUME NEW r \in Elements(audit)
      PROVE  Health(r.owner) = "UNHEALTHY" <=> blocked[r.owner]
  BY DEF Health
<1> QED BY <1>1 DEF NoSilentLoss, Accounted, GivenUp

\* Two rows with one event id are one row.
LEMMA SameIdSameRow ==
  ASSUME TypeOK, IdentitiesUnique, NEW r \in Elements(audit), NEW i \in 1 .. Len(audit),
         audit[i].sub.event.id = r.sub.event.id
  PROVE  r = audit[i]
<1>1. PICK j \in 1 .. Len(audit) : r = audit[j]
  BY DEF Elements
<1> QED BY <1>1 DEF IdentitiesUnique

\* The owner of the row a thread is dispatching is the thread's process.
LEMMA DispatcherOwns ==
  ASSUME TypeOK, IdentitiesUnique, Dispatching, NEW t \in Thread, pc[t] = "emit",
         NEW r \in Elements(audit), call[t].sub.event.id = r.sub.event.id
  PROVE  r.owner = ProcessOf[t]
<1>1. PICK i \in 1 .. Len(audit) : call[t].sub = audit[i].sub /\ audit[i].owner = ProcessOf[t]
  BY DEF Dispatching
<1>2. r = audit[i]
  BY <1>1, SameIdSameRow
<1> QED BY <1>1, <1>2

\* A row that is accounted for stays so.
LEMMA AccountedStable ==
  ASSUME SafeInv, SafeInv', Provenance, Dispatching, [Next]_vars,
         NEW r \in Elements(audit), Accounted(r)
  PROVE  Accounted(r)'
<1>a. /\ TypeInv /\ TypeOK /\ TypeOK' /\ IdentitiesUnique
      /\ r \in Row /\ r.owner \in Process /\ dispatched \in Seq(EventId)
      /\ pc \in [Thread -> Labels]
  <2>1. TypeInv /\ TypeOK /\ TypeOK' /\ IdentitiesUnique
    BY DEF SafeInv, TypeInv, AuditInv
  <2>2. r \in Row
    BY <2>1, ElementsTyped DEF TypeOK
  <2> QED BY <2>1, <2>2, RowTyped DEF TypeOK
<1>b. r.life <= life[r.owner]
  <2>1. PICK i \in 1 .. Len(audit) : r = audit[i]
    BY DEF Elements
  <2> QED BY <2>1 DEF Provenance
<1>1. CASE ~r.emits
  BY <1>1 DEF Accounted
<1>2. CASE GivenUp(r)
  BY <1>a, <1>b, <1>2, LivesStable, GivenUpStable DEF Accounted
<1>3. CASE r.sub.event.id \in Elements(dispatched)
  <2>1. \/ dispatched' = dispatched
        \/ \E t \in Thread : dispatched' = Append(dispatched, call[t].sub.event.id)
    <3>1. ASSUME NEW t \in Thread, ThreadStep(t)
          PROVE  dispatched' = dispatched \/ dispatched' = Append(dispatched, call[t].sub.event.id)
      BY <3>1, ThreadEffects DEF Emit
    <3>2. ASSUME \/ \E p \in Process : Crash(p) \/ Restart(p)
                 \/ OrphanAborts \/ OrphanCommits \/ UNCHANGED vars
          PROVE  dispatched' = dispatched
      BY <3>2 DEF Crash, Restart, OrphanAborts, OrphanCommits, vars
    <3> QED BY <3>1, <3>2, Steps
  <2>2. PICK n \in 1 .. Len(dispatched) : dispatched[n] = r.sub.event.id
    BY <1>3 DEF Elements
  <2>3. ASSUME NEW x, dispatched' = Append(dispatched, x)
        PROVE  n \in 1 .. Len(dispatched') /\ dispatched'[n] = dispatched[n]
    <3>1. dispatched' \in Seq(EventId)
      BY <1>a DEF TypeOK
    <3> QED BY <1>a, <2>3, <3>1
  <2>4. n \in 1 .. Len(dispatched') /\ dispatched'[n] = r.sub.event.id
    BY <2>1, <2>2, <2>3
  <2> QED BY <2>4 DEF Accounted, Elements
<1>4. CASE AboutToEmit(r.sub.event.id)
  <2>1. PICK u \in Thread : pc[u] = "emit" /\ call[u].sub.event.id = r.sub.event.id
    BY <1>4 DEF AboutToEmit
  <2>2. r.owner = ProcessOf[u]
    BY <1>a, <2>1, DispatcherOwns
  <2>3. CASE pc'[u] = "emit" /\ call'[u] = call[u]
    BY <2>1, <2>3 DEF Accounted, AboutToEmit
  <2>4. CASE Emit(u)
    <3>1. dispatched' = Append(dispatched, r.sub.event.id)
      BY <2>1, <2>4 DEF Emit
    <3>2. dispatched' \in Seq(EventId) /\ dispatched \in Seq(EventId)
      BY <1>a DEF TypeOK
    <3>3. Len(dispatched) + 1 \in 1 .. Len(dispatched')
          /\ dispatched'[Len(dispatched) + 1] = r.sub.event.id
      BY <3>1, <3>2
    <3> QED BY <3>3 DEF Accounted, Elements
  <2>5. CASE EmitFails(u)
    BY <1>a, <2>2, <2>5 DEF EmitFails, Latch, Journal, Accounted, GivenUp, TypeOK
  <2>6. ASSUME NEW t \in Thread, ThreadStep(t)
        PROVE  Accounted(r)'
    <3>1. CASE t = u
      BY <1>a, <2>1, <2>4, <2>5, <2>6, <3>1, ThreadMoves
    <3>2. CASE t # u
      BY <1>a, <2>1, <2>3, <2>6, <3>2, ThreadFrame
    <3> QED BY <3>1, <3>2
  <2>7. ASSUME NEW p \in Process, Crash(p)
        PROVE  Accounted(r)'
    <3>1. CASE p = ProcessOf[u]
      BY <1>a, <2>2, <2>7, <3>1 DEF Crash, TypeOK, Accounted, GivenUp
    <3>2. CASE p # ProcessOf[u]
      <4>1. pc'[u] = pc[u] /\ call'[u] = call[u]
        BY <2>7, <3>2 DEF Crash, Abandon, Finish, ThreadsOf
      <4> QED BY <2>1, <2>3, <4>1
    <3> QED BY <3>1, <3>2
  <2>8. ASSUME \/ \E p \in Process : Restart(p)
               \/ OrphanAborts \/ OrphanCommits \/ UNCHANGED vars
        PROVE  Accounted(r)'
    <3>1. pc' = pc /\ call' = call
      BY <2>8 DEF Restart, OrphanAborts, OrphanCommits, vars, threadVars
    <3> QED BY <2>1, <2>3, <3>1
  <2> QED BY <2>6, <2>7, <2>8, Steps
<1> QED BY <1>1, <1>2, <1>3, <1>4 DEF Accounted

\* Every step accounts for all rows: nothing is lost silently.
LEMMA LossNext ==
  /\ SafeInv /\ SafeInv' /\ Provenance /\ Dispatching /\ NoSilentLoss /\ [Next]_vars
  => NoSilentLoss'
<1> SUFFICES ASSUME SafeInv, SafeInv', Provenance, Dispatching, NoSilentLoss, [Next]_vars
             PROVE  NoSilentLoss'
  OBVIOUS
<1>a. /\ TypeOK /\ TypeOK' /\ audit \in Seq(Row)
      /\ \A t \in Thread : Signed(t)
  BY DEF SafeInv, TypeInv, TypeOK, Provenance, Signed
<1>b. \A r \in Elements(audit) : Accounted(r)'
  BY <1>a, AccountedIsNoLoss, AccountedStable
<1>c. NoSilentLoss' <=> \A r \in Elements(audit') : Accounted(r)'
  BY <1>a DEF NoSilentLoss, Accounted, GivenUp, Health
<1>1. ASSUME audit' = audit
      PROVE  NoSilentLoss'
  BY <1>1, <1>b, <1>c
<1>2. ASSUME NEW row \in Row, audit' = Append(audit, row), Accounted(row)'
      PROVE  NoSilentLoss'
  <2>1. Elements(audit') \subseteq Elements(audit) \cup {row}
    BY <1>a, <1>2, AppendKeeps DEF Elements
  <2> QED BY <1>2, <1>b, <1>c, <2>1
<1>3. ASSUME NEW t \in Thread, CommitAndEmit(t) \/ CommitAndReturn(t)
      PROVE  NoSilentLoss'
  <2>1. /\ staged[t] \in Work /\ WorkFits(staged[t]) /\ Apply(staged[t])
        /\ staged[t].kind = call[t].op /\ pc[t] = "commit"
    BY <1>3, ThreadWork
  <2>2. CASE staged[t].kind = "master" /\ audit' = audit
    BY <1>1, <2>2
  <2>3. CASE /\ staged[t].kind = "append" /\ staged[t].row \in Row
             /\ audit' = Append(audit, staged[t].row)
    <3>1. PICK row \in Row : row = staged[t].row
      BY <2>3
    <3>2. row.sub = call[t].sub /\ row.emits = call[t].emits
      BY <1>a, <2>1, <2>3, <3>1 DEF Signed
    <3>3. CASE CommitAndEmit(t)
      <4>1. pc'[t] = "emit" /\ call' = call
        BY <1>a, <3>3 DEF CommitAndEmit, Goto, TypeOK
      <4>2. Accounted(row)'
        BY <3>2, <4>1 DEF Accounted, AboutToEmit
      <4> QED BY <1>2, <2>3, <3>1, <4>2
    <3>4. CASE CommitAndReturn(t)
      <4>1. ~row.emits
        BY <2>1, <2>3, <3>2, <3>4 DEF CommitAndReturn
      <4>2. Accounted(row)'
        BY <4>1 DEF Accounted
      <4> QED BY <1>2, <2>3, <3>1, <4>2
    <3> QED BY <1>3, <3>3, <3>4
  <2> QED BY <2>1, <2>2, <2>3, CommitEffect
<1>4. ASSUME OrphanCommits
      PROVE  NoSilentLoss'
  <2>1. orphan \in Work /\ WorkFits(orphan) /\ Apply(orphan)
    BY <1>4, OrphanWork
  <2>2. CASE orphan.kind = "master" /\ audit' = audit
    BY <1>1, <2>2
  <2>3. CASE orphan.kind = "append" /\ orphan.row \in Row /\ audit' = Append(audit, orphan.row)
    <3>1. PICK row \in Row : row = orphan.row
      BY <2>3
    <3>2. GivenUp(row)
      BY <2>3, <3>1 DEF Provenance
    <3>3. UNCHANGED <<up, life, blocked>>
      BY <1>4 DEF OrphanCommits, journalVars
    <3>4. Accounted(row)'
      BY <3>2, <3>3 DEF Accounted, GivenUp
    <3> QED BY <1>2, <2>3, <3>1, <3>4
  <2> QED BY <2>1, <2>2, <2>3, CommitEffect
<1>5. ASSUME NEW t \in Thread, ThreadStep(t), ~(CommitAndEmit(t) \/ CommitAndReturn(t))
      PROVE  NoSilentLoss'
  BY <1>1, <1>5, ThreadEffects
<1>6. ASSUME \/ \E p \in Process : Crash(p) \/ Restart(p)
             \/ OrphanAborts \/ UNCHANGED vars
      PROVE  NoSilentLoss'
  <2>1. audit' = audit
    BY <1>6 DEF Crash, Restart, OrphanAborts, vars, dbVars
  <2> QED BY <1>1, <2>1
<1> QED BY <1>3, <1>4, <1>5, <1>6, Steps

\* The whole inductive invariant: SafeInv with what is known of dispatch.
DispatchInv == SafeInv /\ Provenance /\ Dispatching /\ NoSilentLoss

\* DispatchInv is inductive.
LEMMA DispatchHolds == Spec => []DispatchInv
<1>1. Init => DispatchInv
  BY InitTypes, InitLocks, InitSafe, InitDispatch DEF SafeInv, DispatchInv
<1>2. DispatchInv /\ [Next]_vars => DispatchInv'
  <2>1. SafeInv /\ [Next]_vars => SafeInv'
    BY NextTypes, LockNext, AuditNext, TransactionNext DEF SafeInv
  <2> QED BY <2>1, ProvenanceNext, DispatchNext, LossNext DEF DispatchInv
<1> QED BY <1>1, <1>2, PTL DEF Spec

\* A committed event that was to be dispatched is dispatched, about to be, or
\* its journal is latched or gone, whatever failed and whoever committed it:
\* publish loses nothing silently (NoSilentLoss).
THEOREM NothingLostSilently == Spec => []NoSilentLoss
<1>1. DispatchInv => NoSilentLoss
  BY DEF DispatchInv
<1> QED BY <1>1, DispatchHolds, PTL

-----------------------------------------------------------------------------
(* The order of dispatch. *)

OrderInv == EmitsLatest /\ DispatchInLogOrder

\* A step that dispatches nothing and lets nobody go to dispatch keeps the order:
\* a row that is appended was never dispatched.
LEMMA OrderStable ==
  ASSUME DispatchInv, OrderInv, [Next]_vars, dispatched' = dispatched,
         \A t \in Thread : pc'[t] = "emit" => pc[t] = "emit" /\ call'[t] = call[t]
  PROVE  OrderInv'
<1>a. /\ TypeOK /\ IdentitiesUnique /\ dispatched \in Seq(EventId)
      /\ OnlyLogged /\ \A t \in Thread : DispatchingOf(t)
  BY DEF DispatchInv, SafeInv, TypeInv, TypeOK, AuditInv, Dispatching, OnlyLogged, DispatchingOf
<1>1. CASE audit' = audit
  <2>1. DispatchInLogOrder'
    BY <1>1 DEF OrderInv, DispatchInLogOrder
  <2>2. ASSUME NEW t \in Thread, pc'[t] = "emit" PROVE pc[t] = "emit" /\ call'[t] = call[t]
    BY <2>2
  <2>3. EmitsLatest'
    BY <1>1, <2>2 DEF OrderInv, EmitsLatest
  <2> QED BY <2>1, <2>3 DEF OrderInv
<1>2. ASSUME NEW row \in Row, Fits(row), audit' = Append(audit, row)
      PROVE  OrderInv'
  <2> DEFINE n == Len(audit)
  <2>1. /\ n \in Nat /\ Len(audit') = n + 1 /\ audit'[n + 1] = row
        /\ \A i \in 1 .. n : audit'[i] = audit[i]
        /\ \A i \in 1 .. Len(audit') : i \in 1 .. n \/ i = n + 1
    BY <1>a, <1>2, AppendKeeps
  <2> HIDE DEF n
  <2>2. \A m \in 1 .. Len(dispatched) : dispatched[m] # row.sub.event.id
    BY <1>a, <1>2, <2>1 DEF OnlyLogged, Fits, Fresh, n
  <2>3. ASSUME NEW j \in 1 .. Len(audit'), NEW m \in 1 .. Len(dispatched),
               audit'[j].sub.event.id = dispatched[m]
        PROVE  j \in 1 .. n /\ audit'[j] = audit[j]
    BY <2>1, <2>2, <2>3
  <2>4. DispatchInLogOrder'
    BY <2>3 DEF OrderInv, DispatchInLogOrder, n
  <2>5. ASSUME NEW t \in Thread, pc'[t] = "emit",
               NEW i \in 1 .. Len(audit'), NEW j \in 1 .. Len(audit'),
               NEW m \in 1 .. Len(dispatched'),
               audit'[i].sub = call'[t].sub, audit'[j].sub.event.id = dispatched'[m],
               audit'[j].owner = ProcessOf[t]
        PROVE  j < i
    <3>1. pc[t] = "emit" /\ call'[t] = call[t]
      BY <2>5
    <3>2. j \in 1 .. n /\ audit'[j] = audit[j]
      BY <2>3, <2>5
    <3>3. CASE i \in 1 .. n
      BY <2>1, <2>5, <3>1, <3>2, <3>3 DEF OrderInv, EmitsLatest, n
    <3>4. CASE i = n + 1
      BY <2>1, <3>2, <3>4
    <3> QED BY <2>1, <3>3, <3>4
  <2> QED BY <2>4, <2>5 DEF OrderInv, EmitsLatest
<1> QED
  <2>1. SafeInv
    BY DEF DispatchInv
  <2> QED BY <1>1, <1>2, <2>1, LogGrowth

\* The row that a thread is dispatching is one row of its process.
LEMMA DispatchedRow ==
  ASSUME DispatchInv, NEW t \in Thread, pc[t] = "emit", NEW j \in 1 .. Len(audit),
         audit[j].sub.event.id = call[t].sub.event.id
  PROVE  audit[j].sub = call[t].sub /\ audit[j].owner = ProcessOf[t]
<1>1. PICK i \in 1 .. Len(audit) : call[t].sub = audit[i].sub /\ audit[i].owner = ProcessOf[t]
  BY DEF DispatchInv, Dispatching
<1>2. i = j
  BY <1>1 DEF DispatchInv, SafeInv, AuditInv, IdentitiesUnique
<1> QED BY <1>1, <1>2

\* With one publisher per process every step dispatches in the order of the log.
LEMMA OrderNext ==
  ASSUME OnePublisherEach
  PROVE  DispatchInv /\ OrderInv /\ [Next]_vars => OrderInv'
<1> SUFFICES ASSUME DispatchInv, OrderInv, [Next]_vars
             PROVE  OrderInv'
  OBVIOUS
<1>a. /\ TypeInv /\ TypeOK /\ IdentitiesUnique
      /\ audit \in Seq(Row) /\ dispatched \in Seq(EventId) /\ pc \in [Thread -> Labels]
      /\ OnlyLogged /\ \A t \in Thread : DispatchingOf(t)
  BY DEF DispatchInv, SafeInv, TypeInv, TypeOK, AuditInv, Dispatching, OnlyLogged, DispatchingOf
<1>1. ASSUME NEW t \in Thread, Emit(t)
      PROVE  OrderInv'
  <2> DEFINE id == call[t].sub.event.id
             n == Len(dispatched)
  <2>1. /\ pc[t] = "emit" /\ Finish({t}) /\ audit' = audit
        /\ dispatched' = Append(dispatched, id)
    BY <1>1 DEF Emit, dbVars
  <2>2. /\ pc'[t] = "idle"
        /\ \A u \in Thread \ {t} : pc'[u] = pc[u] /\ call'[u] = call[u]
    BY <2>1 DEF Finish
  <2>3. id \in EventId
    <3>1. call[t] \in Call /\ call[t].op = "append"
      BY <1>a, <2>1 DEF TypeInv, Locals
    <3> QED BY <3>1, AppendCallTyped
  <2> HIDE DEF id
  <2>4. /\ n \in Nat /\ Len(dispatched') = n + 1 /\ dispatched'[n + 1] = id
        /\ \A m \in 1 .. n : dispatched'[m] = dispatched[m]
        /\ \A m \in 1 .. n + 1 : m \in 1 .. n \/ m = n + 1
    BY <1>a, <2>1, <2>3
  <2>5. \A j \in 1 .. Len(audit) :
          audit[j].sub.event.id = id => audit[j].sub = call[t].sub /\ audit[j].owner = ProcessOf[t]
    BY <2>1, DispatchedRow DEF id
  <2>6. \A m \in 1 .. n : dispatched[m] # id
    BY <1>a, <2>1 DEF DispatchingOf, id
  <2> HIDE DEF n
  <2>7. ASSUME NEW i \in 1 .. Len(audit'), NEW j \in 1 .. Len(audit'),
               NEW l \in 1 .. Len(dispatched'), NEW m \in 1 .. Len(dispatched'),
               audit'[i].sub.event.id = dispatched'[l],
               audit'[j].sub.event.id = dispatched'[m],
               audit'[i].owner = audit'[j].owner, i < j
        PROVE  l < m
    <3>1. i \in 1 .. Len(audit) /\ j \in 1 .. Len(audit) /\ Len(audit) \in Nat
          /\ audit[i].sub.event.id = dispatched'[l] /\ audit[j].sub.event.id = dispatched'[m]
          /\ audit[i].owner = audit[j].owner
      BY <1>a, <2>1, <2>7
    <3>2. CASE l \in 1 .. n /\ m \in 1 .. n
      BY <2>4, <2>7, <3>1, <3>2 DEF OrderInv, DispatchInLogOrder, n
    <3>3. CASE l \in 1 .. n /\ m = n + 1
      BY <2>4, <3>3
    <3>4. CASE l = n + 1 /\ m \in 1 .. n
      <4>1. audit[i].sub = call[t].sub /\ audit[j].owner = ProcessOf[t]
        BY <2>4, <2>5, <3>1, <3>4
      <4>2. j < i
        BY <2>1, <2>4, <3>1, <3>4, <4>1 DEF OrderInv, EmitsLatest, n
      <4> QED BY <2>7, <3>1, <4>2
    <3>5. CASE l = n + 1 /\ m = n + 1
      BY <1>a, <2>7, <3>1, <3>5 DEF IdentitiesUnique
    <3> QED BY <2>4, <3>2, <3>3, <3>4, <3>5
  <2>8. ASSUME NEW u \in Thread, pc'[u] = "emit",
               NEW i \in 1 .. Len(audit'), NEW j \in 1 .. Len(audit'),
               NEW m \in 1 .. Len(dispatched'),
               audit'[i].sub = call'[u].sub, audit'[j].sub.event.id = dispatched'[m],
               audit'[j].owner = ProcessOf[u]
        PROVE  j < i
    <3>1. u # t /\ pc[u] = "emit" /\ call'[u] = call[u]
      BY <2>2, <2>8
    <3>2. ProcessOf[u] # ProcessOf[t]
      BY <3>1 DEF OnePublisherEach
    <3>3. m # n + 1
      BY <2>1, <2>4, <2>5, <2>8, <3>2
    <3> QED BY <2>1, <2>4, <2>8, <3>1, <3>3 DEF OrderInv, EmitsLatest, n
  <2>9. DispatchInLogOrder'
    BY <2>7 DEF DispatchInLogOrder
  <2> QED BY <2>8, <2>9 DEF OrderInv, EmitsLatest
<1>2. ASSUME NEW t \in Thread, CommitAndEmit(t)
      PROVE  OrderInv'
  <2>1. /\ staged[t] \in Work /\ WorkFits(staged[t]) /\ Apply(staged[t])
        /\ staged[t].kind = call[t].op /\ pc[t] = "commit" /\ dispatched' = dispatched
    BY <1>2, ThreadWork DEF DispatchInv
  <2>2. call[t].op = "append" /\ call' = call /\ pc' = [pc EXCEPT ![t] = "emit"]
    BY <1>2 DEF CommitAndEmit, Goto
  <2>3. /\ staged[t].row \in Row /\ Fits(staged[t].row)
        /\ audit' = Append(audit, staged[t].row)
    BY <2>1, <2>2, CommitEffect DEF DispatchInv
  <2>4. PICK row \in Row : row = staged[t].row
    BY <2>3
  <2>5. row.sub = call[t].sub
    BY <2>1, <2>2, <2>4 DEF DispatchInv, Provenance
  <2> DEFINE n == Len(audit)
  <2>6. /\ n \in Nat /\ Len(audit') = n + 1 /\ audit'[n + 1] = row
        /\ \A i \in 1 .. n : i \in 1 .. n + 1 /\ audit'[i] = audit[i]
        /\ \A i \in 1 .. n + 1 : i \in 1 .. n \/ i = n + 1
    BY <1>a, <2>3, <2>4, AppendKeeps
  <2>7. \A i \in 1 .. n : audit[i].sub.event.id # row.sub.event.id
    BY <2>3, <2>4 DEF Fits, Fresh
  <2>8. \A m \in 1 .. Len(dispatched) : dispatched[m] # row.sub.event.id
    BY <1>a, <2>7 DEF OnlyLogged
  <2> HIDE DEF n
  <2>9. ASSUME NEW j \in 1 .. Len(audit'), NEW m \in 1 .. Len(dispatched),
               audit'[j].sub.event.id = dispatched[m]
        PROVE  j \in 1 .. n /\ audit'[j] = audit[j]
    BY <2>6, <2>8, <2>9
  <2>10. DispatchInLogOrder'
    BY <2>1, <2>9 DEF OrderInv, DispatchInLogOrder, n
  <2>11. ASSUME NEW u \in Thread, pc'[u] = "emit",
                NEW i \in 1 .. Len(audit'), NEW j \in 1 .. Len(audit'),
                NEW m \in 1 .. Len(dispatched'),
                audit'[i].sub = call'[u].sub, audit'[j].sub.event.id = dispatched'[m],
                audit'[j].owner = ProcessOf[u]
         PROVE  j < i
    <3>1. j \in 1 .. n /\ audit'[j] = audit[j] /\ dispatched' = dispatched
      BY <2>1, <2>9, <2>11
    <3>2. CASE i = n + 1
      BY <2>6, <3>1, <3>2
    <3>3. CASE i \in 1 .. n /\ u = t
      BY <2>2, <2>5, <2>6, <2>7, <2>11, <3>3
    <3>4. CASE i \in 1 .. n /\ u # t
      <4>1. pc[u] = "emit" /\ call'[u] = call[u]
        BY <1>a, <2>2, <2>11, <3>4
      <4> QED BY <2>6, <2>11, <3>1, <3>4, <4>1 DEF OrderInv, EmitsLatest, n
    <3> QED BY <2>6, <3>2, <3>3, <3>4
  <2> QED BY <2>10, <2>11 DEF OrderInv, EmitsLatest
<1>3. ASSUME NEW t \in Thread, ThreadStep(t), ~Emit(t), ~CommitAndEmit(t)
      PROVE  OrderInv'
  <2>1. dispatched' = dispatched /\ pc'[t] # "emit"
    BY <1>a, <1>3, ThreadEffects, ThreadMoves
  <2>2. \A u \in Thread : pc'[u] = "emit" => pc[u] = "emit" /\ call'[u] = call[u]
    BY <1>a, <1>3, <2>1, ThreadFrame
  <2> QED BY <2>1, <2>2, OrderStable
<1>4. ASSUME NEW p \in Process, Crash(p)
      PROVE  OrderInv'
  <2>1. dispatched' = dispatched /\ Finish(ThreadsOf(p))
    BY <1>4 DEF Crash, Abandon
  <2>2. \A u \in Thread : pc'[u] = "emit" => pc[u] = "emit" /\ call'[u] = call[u]
    BY <2>1 DEF Finish
  <2> QED BY <2>1, <2>2, OrderStable
<1>5. ASSUME \/ \E p \in Process : Restart(p)
             \/ OrphanAborts \/ OrphanCommits \/ UNCHANGED vars
      PROVE  OrderInv'
  <2>1. dispatched' = dispatched /\ pc' = pc /\ call' = call
    BY <1>5 DEF Restart, OrphanAborts, OrphanCommits, vars, threadVars
  <2> QED BY <2>1, OrderStable
<1> QED BY <1>1, <1>2, <1>3, <1>4, <1>5, Steps

\* With one publishing thread in each process, a process dispatches its events
\* in the order of the audit table, although other processes commit in between,
\* and although its own connections are lost and it is started again.
THEOREM DispatchFollowsTheLog ==
  ASSUME OnePublisherEach
  PROVE  Spec => []DispatchInLogOrder
<1>1. Init => OrderInv
  BY DEF Init, OrderInv, EmitsLatest, DispatchInLogOrder
<1>2. DispatchInv /\ OrderInv /\ [Next]_vars => OrderInv'
  BY OrderNext
<1>3. OrderInv => DispatchInLogOrder
  BY DEF OrderInv
<1> QED BY <1>1, <1>2, <1>3, DispatchHolds, PTL DEF Spec

-----------------------------------------------------------------------------
(* Refinement of the abstract event log. *)

\* The abstract log of the refinement mapping.
Log == [i \in 1 .. Len(audit) |-> audit[i].sub]

\* The abstract log has a submission for every row.
LEMMA LogTyped ==
  ASSUME TypeOK
  PROVE  /\ Log \in Seq(Submission) /\ Len(Log) = Len(audit)
         /\ \A i \in 1 .. Len(audit) : Log[i] = audit[i].sub
<1>1. \A i \in 1 .. Len(audit) : audit[i].sub \in Submission
  BY RowTyped DEF TypeOK
<1> QED BY <1>1 DEF Log, TypeOK

\* A row more is a submission more.
LEMMA LogAppends ==
  ASSUME TypeOK, TypeOK', NEW row \in Row, audit' = Append(audit, row)
  PROVE  Log' = Append(Log, row.sub)
<1> DEFINE n == Len(audit)
<1>1. /\ n \in Nat /\ Len(audit') = n + 1 /\ audit'[n + 1] = row
      /\ \A i \in 1 .. n : audit'[i] = audit[i]
      /\ \A i \in 1 .. n + 1 : i \in 1 .. n \/ i = n + 1
  BY AppendKeeps
<1>2. Log \in Seq(Submission) /\ Len(Log) = n /\ \A i \in 1 .. n : Log[i] = audit[i].sub
  BY LogTyped
<1>3. row.sub \in Submission
  BY RowTyped
<1>4. Log' = [i \in 1 .. n + 1 |-> audit'[i].sub]
  BY <1>1 DEF Log
<1>5. /\ Append(Log, row.sub) = [i \in 1 .. n + 1 |-> Append(Log, row.sub)[i]]
      /\ \A i \in 1 .. n : Append(Log, row.sub)[i] = Log[i]
      /\ Append(Log, row.sub)[n + 1] = row.sub
  BY <1>1, <1>2, <1>3
<1>6. \A i \in 1 .. n + 1 : audit'[i].sub = Append(Log, row.sub)[i]
  BY <1>1, <1>2, <1>5
<1> QED BY <1>4, <1>5, <1>6

\* A commit is one acceptance by the abstract log.
LEMMA CommitAccepts ==
  ASSUME SafeInv, TypeOK', NEW row \in Row, Fits(row), audit' = Append(audit, row),
         dispatched' = dispatched
  PROVE  AbstractLog!Next
<1>a. TypeOK /\ ProjectionsAreAudited
  BY DEF SafeInv, TypeInv, AuditInv
<1>1. Log' = Append(Log, row.sub)
  BY <1>a, LogAppends
<1>2. row.sub \in Submission
  BY RowTyped
<1>3. ASSUME NEW i \in 1 .. Len(audit)
      PROVE  AbstractLog!MayFollow(row.sub, audit[i].sub)
  <2>1. audit[i].sub.event.id # row.sub.event.id /\ audit[i].sub.key # row.sub.key
    BY <1>3 DEF Fits, Fresh
  <2>2. audit[i].sub.event.received <= row.sub.event.received
    BY <1>3 DEF Fits
  <2>3. row.sub.event.rows \cap audit[i].sub.event.rows = {}
    <3>1. audit[i].sub.event.rows \subseteq projections
      BY <1>a DEF ProjectionsAreAudited, Elements
    <3> QED BY <3>1 DEF Fits
  <2> QED BY <2>1, <2>2, <2>3 DEF AbstractLog!MayFollow
<1>4. \A old \in AbstractLog!Elements(Log) : AbstractLog!MayFollow(row.sub, old)
  BY <1>a, <1>3, LogTyped DEF AbstractLog!Elements
<1>5. AbstractLog!Accept(row.sub)
  BY <1>1, <1>4 DEF AbstractLog!Accept, Log
<1> QED BY <1>2, <1>5 DEF AbstractLog!Next

\* Emit is one delivery.
LEMMA EmitDelivers ==
  ASSUME SafeInv, Dispatching, NEW t \in Thread, Emit(t)
  PROVE  AbstractLog!Next
<1>a. TypeOK /\ TypeInv
  BY DEF SafeInv, TypeInv
<1>1. /\ pc[t] = "emit" /\ audit' = audit
      /\ dispatched' = Append(dispatched, call[t].sub.event.id)
  BY DEF Emit, dbVars
<1>2. PICK i \in 1 .. Len(audit) : call[t].sub = audit[i].sub
  BY <1>1 DEF Dispatching
<1>3. \A n \in 1 .. Len(dispatched) : dispatched[n] # call[t].sub.event.id
  BY <1>1 DEF Dispatching
<1>4. call[t].sub \in Submission
  BY <1>a, <1>1, AppendCallTyped DEF TypeInv, Locals
<1>5. call[t].sub \in AbstractLog!Elements(Log)
  BY <1>a, <1>2, LogTyped DEF AbstractLog!Elements
<1>6. call[t].sub.event.id \notin AbstractLog!Elements(dispatched)
  BY <1>3 DEF AbstractLog!Elements
<1>7. AbstractLog!Deliver(call[t].sub)
  BY <1>1, <1>5, <1>6 DEF AbstractLog!Deliver, Log
<1> QED BY <1>4, <1>7 DEF AbstractLog!Next

\* Every journal, with its threads, transactions, crashes and lost connections,
\* implements the event log: what publish commits is one acceptance, what it
\* emits is one delivery, and nothing else shows (ImplementsEventLog).
THEOREM JournalRefinesEventLog == Spec => ImplementsEventLog
<1>1. Init => AbstractLog!Init
  BY DEF Init, AbstractLog!Init
<1>2. ASSUME DispatchInv, DispatchInv', [Next]_vars
      PROVE  [AbstractLog!Next]_(AbstractLog!vars)
  <2>a. SafeInv /\ Dispatching /\ TypeInv /\ TypeOK'
    BY <1>2 DEF DispatchInv, SafeInv, TypeInv
  <2>1. ASSUME audit' = audit, dispatched' = dispatched
        PROVE  UNCHANGED AbstractLog!vars
    BY <2>1 DEF AbstractLog!vars
  <2>2. ASSUME NEW t \in Thread, CommitAndEmit(t) \/ CommitAndReturn(t)
        PROVE  AbstractLog!Next \/ UNCHANGED AbstractLog!vars
    <3>1. /\ staged[t] \in Work /\ WorkFits(staged[t]) /\ Apply(staged[t])
          /\ dispatched' = dispatched
      BY <2>a, <2>2, ThreadWork
    <3> QED BY <2>a, <2>1, <3>1, CommitEffect, CommitAccepts
  <2>3. ASSUME NEW t \in Thread, ThreadStep(t), ~(CommitAndEmit(t) \/ CommitAndReturn(t))
        PROVE  AbstractLog!Next \/ UNCHANGED AbstractLog!vars
    BY <2>a, <2>1, <2>3, ThreadEffects, EmitDelivers
  <2>4. ASSUME OrphanCommits
        PROVE  AbstractLog!Next \/ UNCHANGED AbstractLog!vars
    <3>1. orphan \in Work /\ WorkFits(orphan) /\ Apply(orphan)
      BY <2>a, <2>4, OrphanWork
    <3>2. dispatched' = dispatched
      BY <2>4 DEF OrphanCommits
    <3> QED BY <2>a, <2>1, <3>1, <3>2, CommitEffect, CommitAccepts
  <2>5. ASSUME \/ \E p \in Process : Crash(p) \/ Restart(p)
               \/ OrphanAborts \/ UNCHANGED vars
        PROVE  UNCHANGED AbstractLog!vars
    <3>1. audit' = audit /\ dispatched' = dispatched
      BY <2>5 DEF Crash, Restart, OrphanAborts, vars, dbVars
    <3> QED BY <2>1, <3>1
  <2> QED BY <1>2, <2>2, <2>3, <2>4, <2>5, Steps
<1>3. Spec => AbstractLog!Spec
  BY <1>1, <1>2, DispatchHolds, PTL DEF Spec, AbstractLog!Spec
<1> QED BY <1>3 DEF ImplementsEventLog
=============================================================================
