------------------------------ MODULE Lifecycle ------------------------------
(***************************************************************************)
(* The process of `godzilla run`: app.cli._run drives LifecycleController, *)
(* and SIGTERM and SIGINT are handled by request_stop on the same thread,  *)
(* between any two steps of whatever runs there, another handler included. *)
(* The thread is a stack of frames: the top one runs, the bottom one is    *)
(* _run.  A frame's label names its next step; a transition is the two     *)
(* steps of LifecycleController.transition, check and assign.              *)
(*                                                                         *)
(* External: threading.Event, whose wait and set take one non-reentrant    *)
(* lock, and the operating system's delivery of signals.                   *)
(***************************************************************************)
EXTENDS Naturals, Sequences

CONSTANT MaxSignals    \* bound on the signals the process is sent

ASSUME MaxSignalsIsNatural == MaxSignals \in Nat

VARIABLES
  state,      \* LifecycleController._state
  frames,     \* the call stack, top frame first
  handled,    \* signals for which request_stop is installed
  stopped,    \* the flag of the Event
  eventLock,  \* is the lock inside the Event held
  exit,       \* how the process ended
  received,   \* signals delivered so far
  stops       \* of those, the ones whose request_stop ran to its end

vars == <<state, frames, handled, stopped, eventLock, exit, received, stops>>

Signal == {"SIGTERM", "SIGINT"}
SystemState ==
  {"STARTING", "READY", "DEGRADED", "HALTED", "EMERGENCY", "STOPPING", "STOPPED"}

\* _ALLOWED_TRANSITIONS
Allowed ==
  [s \in SystemState |->
     CASE s = "STARTING"  -> {"READY", "DEGRADED", "HALTED", "EMERGENCY", "STOPPING"}
       [] s = "READY"     -> {"DEGRADED", "HALTED", "EMERGENCY", "STOPPING"}
       [] s = "DEGRADED"  -> {"READY", "HALTED", "EMERGENCY", "STOPPING"}
       [] s = "HALTED"    -> {"EMERGENCY", "STOPPING"}
       [] s = "EMERGENCY" -> {"STOPPING"}
       [] s = "STOPPING"  -> {"STOPPED"}
       [] s = "STOPPED"   -> {"STARTING"}]

-----------------------------------------------------------------------------
(* The stack. *)

Frame(label, target) == [at |-> label, target |-> target]

\* In _run: nothing to transition to.
Main(label) == Frame(label, "STARTING")

At(label) == exit = "running" /\ Head(frames).at = label
Target == Head(frames).target
Continue(frame) == frames' = <<frame>> \o Tail(frames)
Return == frames' = Tail(frames)

\* After transition: mark_ready goes on to wait, request_stop to set the event,
\* mark_stopped to the end of _run.
AfterTransition ==
  CASE Target = "READY"    -> Main("wait")
    [] Target = "STOPPING" -> Frame("set", "STOPPING")
    [] Target = "STOPPED"  -> Main("return")

Init ==
  /\ state = "STARTING"
  /\ frames = <<Main("install")>>
  /\ handled = {}
  /\ stopped = FALSE
  /\ eventLock = FALSE
  /\ exit = "running"
  /\ received = 0
  /\ stops = 0

-----------------------------------------------------------------------------
(* LifecycleController.transition. *)

\* mutant: the table of transitions is not consulted
Check_Unchecked ==
  /\ At("check")
  /\ Continue(Frame("assign", Target))
  /\ UNCHANGED <<state, handled, stopped, eventLock, exit, received, stops>>

Check ==
  /\ At("check")
  /\ Target \in Allowed[state]
  /\ Continue(Frame("assign", Target))
  /\ UNCHANGED <<state, handled, stopped, eventLock, exit, received, stops>>

\* InvalidStateTransition unwinds the whole stack: main does not catch it.
CheckFails ==
  /\ At("check")
  /\ Target \notin Allowed[state]
  /\ exit' = "raised"
  /\ UNCHANGED <<state, frames, handled, stopped, eventLock, received, stops>>

Assign ==
  /\ At("assign")
  /\ state' = Target
  /\ Continue(AfterTransition)
  /\ UNCHANGED <<handled, stopped, eventLock, exit, received, stops>>

-----------------------------------------------------------------------------
(* _run. *)

InstallHandler ==
  /\ At("install")
  /\ IF "SIGTERM" \notin handled
     THEN /\ handled' = {"SIGTERM"}
          /\ UNCHANGED frames
     ELSE /\ handled' = Signal
          /\ Continue(Frame("check", "READY"))
  /\ UNCHANGED <<state, stopped, eventLock, exit, received, stops>>

\* stopped.wait() takes the Event's lock ...
WaitEnters ==
  /\ At("wait")
  /\ ~eventLock
  /\ eventLock' = TRUE
  /\ Continue(Main("waiting"))
  /\ UNCHANGED <<state, handled, stopped, exit, received, stops>>

\* ... and either sees the flag or releases the lock and sleeps on a waiter.
WaitSleeps ==
  /\ At("waiting")
  /\ ~stopped
  /\ eventLock' = FALSE
  /\ Continue(Main("asleep"))
  /\ UNCHANGED <<state, handled, stopped, exit, received, stops>>

WaitWakes ==
  /\ At("asleep")
  /\ stopped /\ ~eventLock
  /\ eventLock' = TRUE
  /\ Continue(Main("waiting"))
  /\ UNCHANGED <<state, handled, stopped, exit, received, stops>>

\* mutant: wait leaves without looking at the flag
WaitReturns_Early ==
  /\ At("waiting")
  /\ eventLock' = FALSE
  /\ Continue(Frame("assign", "STOPPED"))
  /\ UNCHANGED <<state, handled, stopped, exit, received, stops>>

WaitReturns ==
  /\ At("waiting")
  /\ stopped
  /\ eventLock' = FALSE
  /\ Continue(Frame("check", "STOPPED"))
  /\ UNCHANGED <<state, handled, stopped, exit, received, stops>>

RunReturns ==
  /\ At("return")
  /\ exit' = "returned"
  /\ UNCHANGED <<state, frames, handled, stopped, eventLock, received, stops>>

-----------------------------------------------------------------------------
(* Signals. *)

\* The handler runs on top of whatever the thread was doing.  Before it is
\* installed the default action of either signal ends the process.
Deliver(signal) ==
  /\ exit = "running"
  /\ received < MaxSignals
  /\ received' = received + 1
  /\ IF signal \in handled
     THEN frames' = <<Frame("stopping?", "STOPPING")>> \o frames /\ UNCHANGED exit
     ELSE exit' = "killed" /\ UNCHANGED frames
  /\ UNCHANGED <<state, handled, stopped, eventLock, stops>>

\* LifecycleController.request_stop.
RequestStop ==
  /\ At("stopping?")
  /\ state # "STOPPING"
  /\ Continue(Frame("check", "STOPPING"))
  /\ UNCHANGED <<state, handled, stopped, eventLock, exit, received, stops>>

StopInProgress ==
  /\ At("stopping?")
  /\ state = "STOPPING"
  /\ exit' = "raised"
  /\ UNCHANGED <<state, frames, handled, stopped, eventLock, received, stops>>

\* stopped.set(): waits for the Event's lock for ever if the frame below holds it.
SetEvent ==
  /\ At("set")
  /\ ~eventLock
  /\ stopped' = TRUE
  /\ Return
  /\ stops' = stops + 1
  /\ UNCHANGED <<state, handled, eventLock, exit, received>>

-----------------------------------------------------------------------------

Run ==
  \/ Check \/ CheckFails \/ Assign
  \/ InstallHandler
  \/ WaitEnters \/ WaitSleeps \/ WaitWakes \/ WaitReturns \/ RunReturns
  \/ RequestStop \/ StopInProgress \/ SetEvent

Next == Run \/ \E signal \in Signal : Deliver(signal)

Spec == Init /\ [][Next]_vars

\* The operating system schedules the process.
FairSpec == Spec /\ WF_vars(Run)

-----------------------------------------------------------------------------
(* Properties. *)

\* README.md: SIGINT and SIGTERM cause explicit STOPPING and STOPPED lifecycle
\* transitions.  A handled signal is never followed by an exit in another state.
StopIsExplicit == exit \in {"returned", "raised"} => state = "STOPPED"

\* The same sentence of README.md, as progress: a signal ends the process.
SignalsEndTheProcess == received > 0 ~> exit # "running"

\* lifecycle.py: InvalidStateTransition is raised when a transition is not
\* permitted; so the state only ever moves along _ALLOWED_TRANSITIONS.
OnlyAllowedTransitions == [][state' # state => state' \in Allowed[state]]_state

\* _run returns normally only when a handler set the event and the controller
\* went through STOPPING to STOPPED, however many handlers nested on the way.
CleanReturn == exit = "returned" => stopped /\ stops > 0 /\ state = "STOPPED"

\* A stopped controller stays stopped: a late signal, or a handler that was
\* interrupted between check and assign, cannot restart the shutdown.
StoppedIsFinal == [][state = "STOPPED" => state' = "STOPPED"]_state

=============================================================================
