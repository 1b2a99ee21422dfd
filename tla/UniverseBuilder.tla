--------------------------- MODULE UniverseBuilder ---------------------------
(***************************************************************************)
(* The instrument master and the daily universe that is built from it, and *)
(* what the alphas ask of both before they use them.                       *)
(*                                                                         *)
(* A master: [id, asOf, generated, instruments]; an instrument: [token,    *)
(* entity, sector, from, to, flags, fo], where the entity is what          *)
(* security_id derives from the listing and flags are SUSPENDED,           *)
(* UNTRADABLE, SURVEILLANCE and AMBIGUOUS.                                  *)
(***************************************************************************)
EXTENDS Calendar, FiniteSetsExt, SequencesExt

InstrumentOf(master, token) == CHOOSE i \in master.instruments : i.token = token

ActiveOn(instrument, day) == instrument.from <= day /\ day <= instrument.to

\* rules: UniverseSettings and the short rule of the compliance profile.
BaseExclusions(instrument, rules, day) ==
  (IF ActiveOn(instrument, day) THEN {} ELSE {"NOT_EFFECTIVE"})
  \cup (instrument.flags \cap {"SUSPENDED", "UNTRADABLE"})
  \cup (IF rules.excludeSurveillance THEN instrument.flags \cap {"SURVEILLANCE"} ELSE {})
  \cup (IF rules.excludeAmbiguous THEN instrument.flags \cap {"AMBIGUOUS"} ELSE {})
  \cup (IF instrument.entity \in rules.symbols THEN {"CONFIG_SYMBOL"} ELSE {})
  \cup (IF instrument.sector \in rules.sectors THEN {"CONFIG_SECTOR"} ELSE {})

ShortExclusions(instrument, rules) ==
  (IF rules.shortsAllowed THEN {} ELSE {"SHORT_NOT_PERMITTED"})
  \cup (IF rules.shortsNeedFo /\ ~instrument.fo THEN {"SHORT_NOT_FO_ELIGIBLE"} ELSE {})

\* build, for the day of the master; the id is a digest of what is built and not
\* of when.
BuildUniverse(master, rules, at) ==
  LET day == master.asOf
      base(i) == BaseExclusions(i, rules, day)
      long == {i \in master.instruments : base(i) = {}}
      short == {i \in long : ShortExclusions(i, rules) = {}}
      tokens(instruments) == {i.token : i \in instruments}
  IN [id |-> <<master.id, rules>>, asOf |-> day, generated |-> at, master |-> master.id,
      long |-> tokens(long), short |-> tokens(short),
      exclusions |-> {[token |-> i.token,
                       reasons |-> IF i \in long THEN ShortExclusions(i, rules) ELSE base(i)]
                        : i \in master.instruments \ short}]

\* Of today, known by now, and the universe built from this master.
UniverseOfDay(master, universe, at) ==
  /\ universe.asOf = Day(at) /\ master.asOf = Day(at)
  /\ universe.generated <= at /\ master.generated <= at
  /\ universe.master = master.id

\* Active, in force, not under surveillance and not ambiguous.
Unencumbered(instrument, day) == ActiveOn(instrument, day) /\ instrument.flags = {}

\* The permission to sell a security short, asked again of the instrument.
ShortPermitted(token, master, universe) ==
  token \in universe.short /\ InstrumentOf(master, token).fo

\* Every token once, all of them listed, and each a security of its own.
CrossSectionComplete(observations, master, universe) ==
  LET long == {i \in master.instruments : i.token \in universe.long}
  IN /\ {o.token : o \in observations} = universe.long
     /\ \A o, p \in observations : o # p => o.token # p.token
     /\ universe.short \subseteq universe.long
     /\ \A i, j \in master.instruments : i # j => i.token # j.token
     /\ universe.long = {i.token : i \in long}
     /\ \A i, j \in long : i # j => i.entity # j.entity

-----------------------------------------------------------------------------
(* What the router permits: [at, state, sides, multiplier, allowed, health]. *)

Permitted(decision, alpha, at) ==
  decision.at = at /\ decision.multiplier > 0 /\ alpha \in decision.allowed

DirectionalSide(decision) ==
  CASE decision.state = "TREND_UP" /\ "LONG" \in decision.sides    -> "LONG"
    [] decision.state = "TREND_DOWN" /\ "SHORT" \in decision.sides -> "SHORT"
    [] OTHER                                                        -> Absent

\* The veto of the vwap and relative value alphas.
Vetoed(decision, at) ==
  \/ decision.at # at \/ decision.multiplier <= 0
  \/ decision.state \in {"RISK_OFF", "OPEN_SHOCK"}
  \/ decision.health.blocks
  \/ decision.health.system # "HEALTHY" \/ decision.health.risk # "HEALTHY"
  \/ at < decision.health.at \/ at - decision.health.at > decision.healthMaxAge

\* Bar.require_strategy_ready does not raise: a five-minute bar without flags that has
\* closed and arrived.
Ready(bar, at) == bar.clean /\ bar.end <= at /\ bar.received <= at

\* percentiles: twice the population times the mid-distribution rank of a value.
Rank(value, key, population) ==
  LET less == {k \in population : value[k] < value[key]}
      equal == {k \in population : value[k] = value[key]}
  IN 2 * Cardinality(less) + Cardinality(equal)
=============================================================================
