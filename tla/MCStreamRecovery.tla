--------------------------- MODULE MCStreamRecovery ---------------------------
(***************************************************************************)
(* Instances of StreamRecovery for TLC.  Of the quotes only those near the *)
(* clock are sent: an older one is stale whatever its stamps, and one from *)
(* further in the future is flagged like one from the next tick.           *)
(***************************************************************************)
EXTENDS StreamRecovery

CONSTANTS a, b

Near == {q \in Quote : /\ q.timestamp \in wall - StaleAfter - 1 .. wall + 1
                       /\ q.received \in wall - 2 .. wall + 1
                       /\ ~q.sound => q.timestamp = wall /\ q.received = wall}

MCStreamNext ==
  \/ \E i \in Instrument, quote \in Near : Update(i, quote)
  \/ Disconnected \/ Connected
  \/ NextRetryAt \/ RetriesExhausted
  \/ \E instruments \in SUBSET Instrument : ValidateRecovery(instruments)
  \/ WallTicks \/ ClockStepsBack

MCStreamSpec == StreamInit /\ [][MCStreamNext]_streamVars
=============================================================================
