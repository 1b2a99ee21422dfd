---------------------------- MODULE StreamRecovery ----------------------------
(***************************************************************************)
(* A market-data stream that drops and comes back: ReconnectController     *)
(* together with the QuoteFreshnessTracker it validates a recovery         *)
(* against.  Quotes reach the tracker through MarketDataService in any     *)
(* order and with any stamps: late, repeated, from the future, malformed.  *)
(* The clock is the wall clock.  It ticks between any two calls, moves     *)
(* before the transport reports a disconnect, and may be set back.         *)
(***************************************************************************)
EXTENDS Integers, FiniteSets

CONSTANTS
  Instrument,
  StaleAfter,      \* stale_seconds of the tracker
  MaxAttempts,     \* max_attempts of ExponentialBackoff
  Unset,           \* None of the code
  MaxWall          \* bound on the clock; also bounds the attempts that are counted

ASSUME LimitsArePositive == StaleAfter \in Nat \ {0} /\ MaxAttempts \in Nat \ {0}
ASSUME ClockIsBounded == MaxWall \in Nat
ASSUME NoneIsNoTime == Unset \notin Nat

WallTime == 0 .. MaxWall

\* sound: positive prices, bid at most ask, no flags set by the provider
Quote == [timestamp : WallTime, received : WallTime, sound : BOOLEAN]

VARIABLES
  wall,
  quotes, invalid,               \* QuoteFreshnessTracker._quotes, ._invalid
  streamState, attempts, connectedAt,  \* ReconnectController
  granted,    \* history: retry times handed out since the last recovery
  renewed,    \* history: instruments with a quote accepted since the last disconnect
  steady      \* history: the clock was never set back

trackerVars == <<quotes, invalid>>
controllerVars == <<streamState, attempts, connectedAt>>
historyVars == <<granted, renewed, steady>>
streamVars == <<wall, trackerVars, controllerVars, historyVars>>

StreamInit ==
  /\ wall = 0
  /\ quotes = [i \in Instrument |-> Unset]
  /\ invalid = {}
  /\ streamState = "DISCONNECTED"
  /\ attempts = 0
  /\ connectedAt = Unset
  /\ granted = 0
  /\ renewed = {}
  /\ steady = TRUE

-----------------------------------------------------------------------------
(* QuoteFreshnessTracker. *)

IsNewer(i, quote) == quotes[i] # Unset => quote.timestamp > quotes[i].timestamp

\* mutant: the prices and the provider's own flags are not looked at
Acceptable_AnyPrice(i, quote) ==
  /\ quote.timestamp <= quote.received
  /\ quote.received <= wall
  /\ wall - quote.timestamp <= StaleAfter
  /\ IsNewer(i, quote)

\* No quality flag is raised on the quote.
Acceptable(i, quote) ==
  /\ quote.sound
  /\ quote.timestamp <= quote.received
  /\ quote.received <= wall
  /\ wall - quote.timestamp <= StaleAfter
  /\ IsNewer(i, quote)

Update(i, quote) ==
  /\ IF Acceptable(i, quote)
     THEN /\ quotes' = [quotes EXCEPT ![i] = quote]
          /\ invalid' = invalid \ {i}
          /\ renewed' = renewed \cup {i}
     ELSE /\ invalid' = invalid \cup {i}
          /\ UNCHANGED <<quotes, renewed>>
  /\ UNCHANGED <<wall, controllerVars, granted, steady>>

Healthy(i) ==
  /\ quotes[i] # Unset
  /\ wall - quotes[i].timestamp \in 0 .. StaleAfter
  /\ i \notin invalid

-----------------------------------------------------------------------------
(* ReconnectController. *)

\* The transport reports a disconnect some time after the last quote it brought.
Disconnected ==
  /\ wall < MaxWall
  /\ wall' = wall + 1
  /\ streamState' = "DISCONNECTED"
  /\ connectedAt' = Unset
  /\ renewed' = {}
  /\ UNCHANGED <<trackerVars, attempts, granted, steady>>

CanRetry == streamState \in {"DISCONNECTED", "EXHAUSTED"}

NextRetryAt ==
  /\ CanRetry
  /\ attempts < MaxAttempts
  /\ attempts' = attempts + 1
  /\ granted' = granted + 1
  /\ UNCHANGED <<wall, trackerVars, streamState, connectedAt, renewed, steady>>

\* backoff.delay returns None: every call still counts an attempt.
RetriesExhausted ==
  /\ CanRetry
  /\ attempts >= MaxAttempts
  /\ attempts <= MaxWall
  /\ attempts' = attempts + 1
  /\ streamState' = "EXHAUSTED"
  /\ UNCHANGED <<wall, trackerVars, connectedAt, historyVars>>

\* mutant: every connection starts a new count of attempts
Connected_Resets ==
  /\ streamState' = "SNAPSHOT_REQUIRED"
  /\ connectedAt' = wall
  /\ attempts' = 0
  /\ UNCHANGED <<wall, trackerVars, historyVars>>

Connected ==
  /\ streamState' = "SNAPSHOT_REQUIRED"
  /\ connectedAt' = wall
  /\ UNCHANGED <<wall, trackerVars, attempts, historyVars>>

\* mutant: any healthy quote will do, whichever connection brought it
PostConnect_Ignored(i) == connectedAt # Unset

PostConnect(i) == connectedAt # Unset /\ quotes[i].received >= connectedAt

\* validate_recovery with gaps_reconciled; in every other case it raises.
ValidateRecovery(instruments) ==
  /\ streamState = "SNAPSHOT_REQUIRED"
  /\ instruments # {}
  /\ \A i \in instruments : Healthy(i) /\ PostConnect(i)
  /\ streamState' = "RECOVERY_VALIDATED"
  /\ attempts' = 0
  /\ granted' = 0
  /\ UNCHANGED <<wall, trackerVars, connectedAt, renewed, steady>>

-----------------------------------------------------------------------------

WallTicks ==
  /\ wall < MaxWall
  /\ wall' = wall + 1
  /\ UNCHANGED <<trackerVars, controllerVars, historyVars>>

ClockStepsBack ==
  /\ wall > 0
  /\ wall' = wall - 1
  /\ steady' = FALSE
  /\ UNCHANGED <<trackerVars, controllerVars, granted, renewed>>

StreamNext ==
  \/ \E i \in Instrument, quote \in Quote : Update(i, quote)
  \/ Disconnected \/ Connected
  \/ NextRetryAt \/ RetriesExhausted
  \/ \E instruments \in SUBSET Instrument : ValidateRecovery(instruments)
  \/ WallTicks \/ ClockStepsBack

StreamSpec == StreamInit /\ [][StreamNext]_streamVars

-----------------------------------------------------------------------------
(* Properties. *)

\* Types; a stored quote is a sound one that was not from the future.
StreamTypeOK ==
  /\ wall \in WallTime
  /\ quotes \in [Instrument -> Quote \cup {Unset}]
  /\ \A i \in Instrument : quotes[i] # Unset =>
       quotes[i].sound /\ quotes[i].timestamp <= quotes[i].received
  /\ invalid \subseteq Instrument
  /\ streamState \in {"DISCONNECTED", "SNAPSHOT_REQUIRED", "RECOVERY_VALIDATED", "EXHAUSTED"}
  /\ attempts \in Nat
  /\ connectedAt \in WallTime \cup {Unset}
  /\ granted \in Nat
  /\ renewed \subseteq Instrument
  /\ steady \in BOOLEAN

\* The retry budget survives flapping: until data recovery is validated, no
\* sequence of connects and disconnects gets more retry times than the limit.
RetriesAreBounded == granted <= MaxAttempts

RecoversWith(instruments) == ValidateRecovery(instruments) /\ streamState' # streamState

\* ADR-0003: a successful connection requires a new fresh snapshot before data
\* recovery validates.  New: accepted since the stream was last down, unless the clock
\* was set back.  Fresh: by its exchange time, when recovery is validated and not
\* when it arrived.
RecoveryHasNewSnapshots ==
  [][\A instruments \in SUBSET Instrument :
       RecoversWith(instruments) =>
         /\ steady => instruments \subseteq renewed
         /\ \A i \in instruments : wall - quotes[i].timestamp <= StaleAfter]_streamVars

\* The same sentence of ADR-0003, which knows no exception for the clock.
RecoveryHasNewSnapshotsAlways ==
  [][\A instruments \in SUBSET Instrument :
       RecoversWith(instruments) => instruments \subseteq renewed]_streamVars

=============================================================================
