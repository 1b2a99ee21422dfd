-------------------------------- MODULE Desk --------------------------------
(***************************************************************************)
(* One decision cycle after another: the router decides, the alphas'       *)
(* intents are normalized, the candidates are allocated, both decisions    *)
(* are published, and what is approved becomes a commitment that the next  *)
(* portfolio snapshot may or may not know yet.                             *)
(*                                                                         *)
(* External: the router's decision, the alphas and the data of allocate    *)
(* are drawn from constants; approval and closing belong to the risk and   *)
(* execution layers, which the documents ask to recheck what they reserve. *)
(***************************************************************************)
EXTENDS Allocator

CONSTANTS
  Master, Universe,   \* the snapshots in use
  DeskCalendar,       \* the calendar
  Instant,            \* decision times
  Request,            \* intents before they are stamped
  Outlook,            \* what the router may decide
  Supply,             \* health, liquidity, estimates and correlations
  MaxBatch            \* bound on the intents of a cycle

ASSUME InstantsAreTicks == Instant \subseteq Nat /\ MaxBatch \in Nat
ASSUME SnapshotsLoad == SessionsOrdered(DeskCalendar)

\* Intents have legs, and far fewer of them than a quantum has parts.
ASSUME RequestsAreTyped ==
  /\ IsFiniteSet(Request)
  /\ \A r \in Request :
       /\ {r.id, r.score} \subseteq Int
       /\ IsFiniteSet(DOMAIN r.legs) /\ DOMAIN r.legs # {}
       /\ Cardinality(DOMAIN r.legs) + 1 < Quantum
       /\ \A t \in DOMAIN r.legs : r.legs[t] \in Int \ {0}

\* The bounds of the fields of what the providers supply.
ASSUME SuppliesAreTyped ==
  /\ \A o \in Outlook : o.multiplier \in Nat
  /\ \A s \in Supply :
       /\ {s.health, s.capacity} \subseteq Nat
       /\ s.loss \in 1 .. One /\ s.volatility \in Nat /\ s.volatility >= One
       /\ IsFiniteSet(s.correlations) /\ \A e \in s.correlations : e.value \in Nat

VARIABLES
  clock,      \* the time of decision
  routed,     \* the last StateDecision
  book,       \* existing and pending positions
  portfolio,  \* the last PortfolioSnapshot
  ensemble,   \* the last EnsembleDecision
  plan,       \* the last PortfolioDecision
  published,  \* decisions in the journal
  halted      \* the journal has met a conflict

deskVars == <<clock, routed, book, portfolio, ensemble, plan, published, halted>>

\* A decision of the router at an instant; its hash is its kind and its time.
Routed(outlook, at) ==
  [at |-> at, id |-> <<outlook.state, at>>, state |-> outlook.state,
   release |-> outlook.release, multiplier |-> outlook.multiplier, allowed |-> outlook.allowed,
   health |-> [at |-> at - outlook.age, blocks |-> outlook.blocks,
               system |-> outlook.system, risk |-> outlook.risk],
   healthMaxAge |-> Caps.maxInputAge]

\* An intent as an alpha makes it now, or made it age ticks ago.
Stamped(request) ==
  [id |-> request.id, kind |-> request.kind, alpha |-> request.alpha,
   action |-> request.action, evidence |-> request.evidence, score |-> request.score,
   legs |-> request.legs, release |-> request.release, master |-> request.master,
   universe |-> Universe.id, at |-> clock - request.age, state |-> routed.id]

\* What the providers hand to allocate, each item of the age it has.
InputsFrom(supply) ==
  [ensemble |-> ensemble, portfolio |-> portfolio, state |-> routed, at |-> clock,
   mode |-> supply.mode,
   health |-> {[alpha |-> a, at |-> clock - supply.healthAge, maxAge |-> Caps.maxInputAge,
                value |-> supply.health, minimum |-> 0, maximum |-> One,
                release |-> supply.release] : a \in supply.alphas},
   liquidity |-> {[entity |-> i.entity, at |-> clock - supply.age, until |-> clock + 1,
                   eligible |-> supply.eligible, notional |-> supply.capacity,
                   volume |-> supply.capacity, turnover |-> supply.capacity]
                    : i \in Master.instruments},
   estimates |-> {[id |-> ensemble.candidates[n].id, at |-> clock - supply.age,
                   loss |-> supply.loss, volatility |-> supply.volatility]
                    : n \in DOMAIN ensemble.candidates},
   correlations |-> [at |-> clock - supply.age, trained |-> clock - supply.trainedAge,
                     estimates |-> supply.correlations]]

DeskInit ==
  /\ clock \in Instant /\ \A i \in Instant : clock <= i
  /\ \E o \in Outlook : routed = Routed(o, clock)
  /\ book = {}
  /\ portfolio = [at |-> clock, positions |-> {}, complete |-> TRUE, blocks |-> FALSE]
  /\ ensemble = Absent
  /\ plan = Absent
  /\ published = {}
  /\ halted = FALSE

\* The caller of the next cycle still holds the decisions of this one, or not.
Advance(keep) ==
  /\ clock' \in Instant /\ clock < clock'
  /\ IF keep THEN UNCHANGED <<ensemble, plan>> ELSE ensemble' = Absent /\ plan' = Absent
  /\ UNCHANGED <<routed, book, portfolio, published, halted>>

Route(outlook) ==
  /\ routed' = Routed(outlook, clock)
  /\ UNCHANGED <<clock, book, portfolio, ensemble, plan, published, halted>>

TakeSnapshot(complete, blocks) ==
  /\ portfolio' = [at |-> clock, positions |-> book, complete |-> complete, blocks |-> blocks]
  /\ UNCHANGED <<clock, routed, book, ensemble, plan, published, halted>>

Normalize(batch) ==
  /\ ensemble' = NormalizeIntents({Stamped(r) : r \in batch}, Master, Universe, routed, clock)
  /\ UNCHANGED <<clock, routed, book, portfolio, plan, published, halted>>

Propose(supply) ==
  /\ ensemble # Absent
  /\ plan' = Allocate(InputsFrom(supply), DeskCalendar)
  /\ UNCHANGED <<clock, routed, book, portfolio, ensemble, published, halted>>

\* publish_decision: the event id and the idempotency key are those of the
\* decision; other content under them halts the journal.
Publish(decision) ==
  /\ ~halted
  /\ decision # Absent
  /\ IF \E d \in published : d.identity = decision.identity /\ d # decision
     THEN halted' = TRUE /\ UNCHANGED published
     ELSE published' = published \cup {decision} /\ UNCHANGED halted
  /\ UNCHANGED <<clock, routed, book, portfolio, ensemble, plan>>

\* What a plan proposes for a group, and for the first n candidates.
ProposedFor(group) == {p \in plan.targets : p.proposed /\ p.group = group}
PlannedBefore(n) ==
  {p \in plan.targets : p.proposed => \E m \in 1 .. n - 1 : plan.allocations[m].id = p.group}

Committed(positions) == {[p EXCEPT !.proposed = FALSE] : p \in positions}

\* External: the first n groups of a plan that was made from the book as it is
\* are reserved, each whole.
Approve(n) ==
  /\ plan # Absent /\ n \in DOMAIN plan.allocations
  /\ book = Committed(PlannedBefore(n))
  /\ ProposedFor(plan.allocations[n].id) # {}
  /\ book' = book \cup Committed(ProposedFor(plan.allocations[n].id))
  /\ UNCHANGED <<clock, routed, portfolio, ensemble, plan, published, halted>>

\* External: a group is closed.
Close(group) ==
  /\ book' = {p \in book : p.group # group}
  /\ UNCHANGED <<clock, routed, portfolio, ensemble, plan, published, halted>>

DeskNext ==
  \/ \E keep \in BOOLEAN : Advance(keep)
  \/ \E o \in Outlook : Route(o)
  \/ \E complete, blocks \in BOOLEAN : TakeSnapshot(complete, blocks)
  \/ \E k \in 0 .. MaxBatch : \E batch \in kSubset(k, Request) : Normalize(batch)
  \/ \E s \in Supply : Propose(s)
  \/ Publish(ensemble) \/ Publish(plan)
  \/ \E n \in 1 .. MaxBatch : Approve(n)
  \/ \E group \in GroupsOf(book) : Close(group)

DeskSpec == DeskInit /\ [][DeskNext]_deskVars

-----------------------------------------------------------------------------
(* Properties of the ensemble decision. *)

Chosen == {ensemble.candidates[n] : n \in DOMAIN ensemble.candidates}
Intents == ensemble.identity.intents
Because(reason) == {id \in DOMAIN ensemble.rejected : ensemble.rejected[id] = reason}

\* Types: every intent is a candidate or rejected with one reason.
DeskTypeOK ==
  /\ clock \in Instant
  /\ ensemble # Absent =>
       /\ \A c \in Chosen : c.strength \in 0 .. One /\ c.alpha \in DOMAIN Registry
       /\ IdsOf(Intents) = IdsOf(Chosen) \cup DOMAIN ensemble.rejected
       /\ IdsOf(Chosen) \cap DOMAIN ensemble.rejected = {}
  /\ \A p \in book : p.risk \in Nat /\ p.notional \in Int /\ ~p.proposed

\* phase-12-allocation.md: opposite directions on a shared security reject all
\* affected bundles, hedge legs included, and no candidates overlap.  An intent
\* that would normalize and opposes a candidate cannot exist.
CandidatesDoNotContradict ==
  ensemble # Absent =>
    /\ \A c, d \in Chosen : c # d => EntitiesOf(c) \cap EntitiesOf(d) = {}
    /\ \A i \in Intents, c \in Chosen :
         (i.id \in Because("SAME_SECURITY_DUPLICATE")
            \/ i.id \in Because("OPPOSITE_DIRECTION_CONFLICT")) =>
           \A t \in DOMAIN i.legs, leg \in c.legs :
             InstrumentOf(Master, t).entity = leg.entity => i.legs[t] * leg.weight > 0

\* Same-direction overlaps retain the strongest: a duplicate lost to a candidate
\* that is really there, never to one that lost as well.
LosersLostToAWinner ==
  ensemble # Absent =>
    \A i \in Intents : i.id \in Because("SAME_SECURITY_DUPLICATE") =>
      \E c \in Chosen :
        /\ Stronger(c, Candidate(i, Master))
        /\ EntitiesOf(c) \cap EntitiesOf(Candidate(i, Master)) # {}

\* An intent that is refused or loses has no influence: without it the same
\* candidates come out.
RejectedDoNotInterfere ==
  ensemble # Absent /\ ensemble.reason = "NORMALIZED_CONFLICTS_RESOLVED" =>
    \A i \in Intents :
      i.id \in DOMAIN ensemble.rejected \ Because("OPPOSITE_DIRECTION_CONFLICT") =>
        NormalizeIntents(Intents \ {i}, Master, Universe, ensemble.identity.state,
                         ensemble.at).candidates = ensemble.candidates

\* Who survives normalization is consistent, and whoever does not lost to a survivor.
SelectionIsFair ==
  CandidatesDoNotContradict /\ LosersLostToAWinner /\ RejectedDoNotInterfere

-----------------------------------------------------------------------------
(* Properties of the plan. *)

Proposals == {p \in plan.targets : p.proposed}

\* The caps of AllocatorSettings, summed leg by leg and exceeded by slack at most.
OverCap(positions, measure, cap) == SumFunctionOnSet(measure, positions) > cap
CapsHold(positions, slack) ==
  LET gross == [p \in positions |-> IF p.notional < 0 THEN -p.notional ELSE p.notional]
      signed == [p \in positions |-> p.notional]
      risk == [p \in positions |-> p.risk]
      part(field, value) == {p \in positions : p[field] = value}
  IN /\ ~OverCap(positions, gross, Caps.gross + slack)
     /\ ~OverCap(positions, signed, Caps.net + slack)
     /\ ~OverCap(positions, [p \in positions |-> -signed[p]], Caps.net + slack)
     /\ ~OverCap(positions, risk, Caps.risk + slack)
     /\ \A p \in positions :
          /\ ~OverCap(part("alpha", p.alpha), gross, Caps.alpha + slack)
          /\ ~OverCap(part("sector", p.sector), gross, Caps.sector + slack)
          /\ ~OverCap(part("entity", p.entity), gross, Caps.symbol + slack)

\* Unused capacity of one alpha never goes to another, and what an alpha holds
\* already counts: with its new proposals it stays within its budget, up to the
\* rounding of their legs, which is less than a quantum.
BudgetsHold ==
  plan # Absent =>
    \A alpha \in {p.alpha : p \in Proposals} :
      Gross(OfAlpha(plan.targets, alpha)) < Budget(plan.identity, alpha) + Quantum

\* ADR-0012: existing commitments are preserved and whole groups are added.  A
\* proposal has every leg of its candidate, on its side and in the hedge ratio of
\* the intent, up to the rounding of a leg to the nearest part.
BundlesStayWhole ==
  plan # Absent =>
    /\ plan.targets \ Proposals = plan.identity.portfolio.positions
    /\ \A group \in GroupsOf(Proposals) :
         \E i \in plan.identity.ensemble.identity.intents :
           /\ i.id = group
           /\ {p.entity : p \in ProposedFor(group)} =
                {InstrumentOf(Master, t).entity : t \in DOMAIN i.legs}
           /\ \A p, q \in ProposedFor(group), t, u \in DOMAIN i.legs :
                /\ InstrumentOf(Master, t).entity = p.entity
                /\ InstrumentOf(Master, u).entity = q.entity
                => /\ AbsoluteValue(p.notional * i.legs[u] - q.notional * i.legs[t])
                        <= AbsoluteValue(i.legs[t]) + AbsoluteValue(i.legs[u])
                   /\ p.notional * i.legs[t] >= 0

\* A plan that proposes is within the caps, existing positions included.
PlanWithinCaps ==
  plan # Absent /\ Proposals # {} => CapsHold(plan.targets, 0)

\* Each proposal is clipped, so the final check has only the rounding of the legs
\* to refuse: a candidate without capacity is one of which the limits leave
\* nothing, or one whose legs exceed the caps by less than a quantum.
ClippingSuffices ==
  plan # Absent =>
    \A n \in DOMAIN plan.allocations :
      plan.allocations[n].reason = "NO_CAPACITY" =>
        \E c \in {plan.identity.ensemble.candidates[m] :
                    m \in DOMAIN plan.identity.ensemble.candidates} :
          LET amount == Amount(plan.identity, c, PlannedBefore(n))
          IN /\ c.id = plan.allocations[n].id
             /\ \/ amount = 0
                \/ CapsHold(PlannedBefore(n) \cup Additions(plan.identity, c, amount), Quantum - 1)

\* The calendar's own phase and allocate's reading of the session agree.
EntriesOnlyWhileOpen ==
  plan # Absent /\ Proposals # {} => StateAt(DeskCalendar, plan.at) = "OPEN"

\* Over the cycles: what is approved group by group, each from a plan made of the
\* book as it was, never takes a book that is within the caps beyond them.
ApprovalKeepsCaps ==
  [][ book \subseteq book' => (CapsHold(book, 0) => CapsHold(book', 0)) ]_deskVars

\* One group holds a security, whatever was closed in between.
OneGroupPerSecurity == \A p, q \in book : p.entity = q.entity => p.group = q.group

\* What a plan may ask for, and what therefore comes into the book.
PlanIsSound ==
  PlanWithinCaps /\ BudgetsHold /\ BundlesStayWhole /\ EntriesOnlyWhileOpen /\ OneGroupPerSecurity

\* phase-12-allocation.md: the input hash identifies the reproducible decision,
\* and duplicates are idempotent.  So publishing never meets another decision
\* under the identity of one that is in the journal.
IdentityIsReproducible == ~halted
=============================================================================
