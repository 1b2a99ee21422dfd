--------------------------- MODULE LifecycleProofs ---------------------------
(***************************************************************************)
(* What the shutdown of Lifecycle guarantees however many handlers nest:   *)
(* a return is clean, and a stopped controller stays stopped.              *)
(***************************************************************************)
EXTENDS Lifecycle, SequenceTheorems, TLAPS

-----------------------------------------------------------------------------
(* The frames there can be. *)

HandlerFrames == {Frame(label, "STOPPING") : label \in {"stopping?", "check", "assign", "set"}}

RunningFrames ==
  {Main(label) : label \in {"install", "wait", "waiting", "asleep"}}
  \cup {Frame("check", "READY"), Frame("assign", "READY")}
LeavingFrames == {Frame("check", "STOPPED"), Frame("assign", "STOPPED")}
MainFrames == RunningFrames \cup LeavingFrames \cup {Main("return")}
AllFrames == HandlerFrames \cup MainFrames

Bottom == frames[Len(frames)]

-----------------------------------------------------------------------------
(* The inductive invariant. *)

\* Handlers are stacked on _run, which stays at the bottom.
Stack ==
  /\ frames \in Seq(AllFrames) /\ Len(frames) > 0
  /\ Bottom \in MainFrames
  /\ \A i \in 1 .. Len(frames) - 1 : frames[i] \in HandlerFrames

Types ==
  /\ state \in SystemState
  /\ stopped \in BOOLEAN
  /\ stops \in Nat

\* _run leaves wait only after a handler has run to its end.
EventIsSet ==
  /\ Bottom \in LeavingFrames \cup {Main("return")} => stopped
  /\ stopped => stops > 0

\* The state is STOPPED exactly while _run has nothing left to do, and no handler is
\* then past the check that rejects it.
Settled ==
  /\ Bottom = Main("return") <=> state = "STOPPED"
  /\ state = "STOPPED" =>
       \A i \in 1 .. Len(frames) - 1 : frames[i].at \in {"stopping?", "check"}
  /\ exit = "returned" => Bottom = Main("return")

StopInv == Stack /\ Types /\ EventIsSet /\ Settled

-----------------------------------------------------------------------------
(* The stack under its operations. *)

\* A stack that is not just _run has a handler on top.
LEMMA NotOne ==
  ASSUME NEW n \in Nat, n > 0, n # 1
  PROVE  n > 1 /\ 1 \in 1 .. n - 1
  OBVIOUS

\* The top frame is a handler's exactly while a handler runs.
LEMMA TopFrame ==
  ASSUME Stack
  PROVE  /\ Len(frames) \in Nat /\ Len(frames) > 0
         /\ Head(frames) = frames[1]
         /\ Len(frames) = 1 => frames[1] = Bottom
         /\ Len(frames) = 1 => frames[1] \in MainFrames
         /\ Len(frames) # 1 => frames[1] \in HandlerFrames
  <1>1. /\ frames \in Seq(AllFrames) /\ Len(frames) > 0
        /\ \A i \in 1 .. Len(frames) - 1 : frames[i] \in HandlerFrames
        /\ frames[Len(frames)] \in MainFrames
    BY DEF Stack, Bottom
  <1>2. Len(frames) \in Nat /\ Head(frames) = frames[1]
    BY <1>1
  <1>3. Len(frames) # 1 => 1 \in 1 .. Len(frames) - 1
    BY <1>1, <1>2, NotOne
  <1> QED
    BY <1>1, <1>2, <1>3 DEF Bottom

\* Replacing the top frame leaves the frames below as they are.
LEMMA ReplaceTop ==
  ASSUME NEW S, NEW s \in Seq(S), Len(s) > 0, NEW f \in S
  PROVE  /\ <<f>> \o Tail(s) \in Seq(S)
         /\ Len(<<f>> \o Tail(s)) = Len(s)
         /\ (<<f>> \o Tail(s))[1] = f
         /\ \A i \in 2 .. Len(s) : (<<f>> \o Tail(s))[i] = s[i]
  <1>1. /\ Tail(s) \in Seq(S) /\ Len(Tail(s)) = Len(s) - 1
        /\ \A i \in 1 .. Len(Tail(s)) : Tail(s)[i] = s[i + 1]
    BY HeadTailProperties, Len(s) # Len(<<>>)
  <1>2. <<f>> \in Seq(S) /\ Len(<<f>>) = 1 /\ <<f>>[1] = f
    OBVIOUS
  <1> QED
    BY <1>1, <1>2, ConcatProperties

\* A frame moves on to a label of its own kind.
LEMMA Continued ==
  ASSUME Stack, NEW f, frames' = <<f>> \o Tail(frames),
         Len(frames) = 1 => f \in MainFrames,
         Len(frames) # 1 => f \in HandlerFrames
  PROVE  /\ Stack'
         /\ Len(frames) = 1 => Bottom' = f
         /\ Len(frames) # 1 => Bottom' = Bottom
         /\ Len(frames') = Len(frames)
         /\ frames'[1] = f
         /\ \A i \in 2 .. Len(frames) : frames'[i] = frames[i]
  <1>1. f \in AllFrames
    BY DEF AllFrames
  <1>2. /\ frames' \in Seq(AllFrames)
        /\ Len(frames') = Len(frames)
        /\ frames'[1] = f
        /\ \A i \in 2 .. Len(frames) : frames'[i] = frames[i]
    BY <1>1, ReplaceTop DEF Stack
  <1>3. Len(frames) \in Nat /\ Len(frames) > 0
    BY TopFrame
  <1>4. /\ Len(frames) = 1 => Bottom' = f
        /\ Len(frames) # 1 => Bottom' = Bottom
    BY <1>2, <1>3 DEF Bottom
  <1>5. Len(frames') > 0
    BY <1>2, <1>3
  <1>6. Bottom' \in MainFrames
    BY <1>4 DEF Stack
  <1>7. \A i \in 1 .. Len(frames') - 1 : frames'[i] \in HandlerFrames
    BY <1>2, <1>3 DEF Stack
  <1> QED
    BY <1>2, <1>4, <1>5, <1>6, <1>7 DEF Stack

\* A handler starts on top.
LEMMA Pushed ==
  ASSUME Stack, NEW f \in HandlerFrames, frames' = <<f>> \o frames
  PROVE  /\ Stack'
         /\ Bottom' = Bottom
         /\ Len(frames') = Len(frames) + 1
         /\ frames'[1] = f
         /\ \A i \in 2 .. Len(frames') : frames'[i] = frames[i - 1]
  <1>1. <<f>> \in Seq(AllFrames) /\ Len(<<f>>) = 1 /\ <<f>>[1] = f
    BY DEF AllFrames
  <1>2. Len(frames) \in Nat /\ Len(frames) > 0
    BY TopFrame
  <1>3. /\ frames' \in Seq(AllFrames)
        /\ Len(frames') = Len(frames) + 1
        /\ frames'[1] = f
        /\ \A i \in 2 .. Len(frames') : frames'[i] = frames[i - 1]
    BY <1>1, <1>2, ConcatProperties DEF Stack
  <1>4. Bottom' = Bottom
    BY <1>2, <1>3 DEF Bottom
  <1>5. Len(frames') > 0
    BY <1>2, <1>3
  <1>6. \A i \in 1 .. Len(frames') - 1 : frames'[i] \in HandlerFrames
    BY <1>2, <1>3 DEF Stack
  <1> QED
    BY <1>3, <1>4, <1>5, <1>6 DEF Stack

\* A handler that ends uncovers the frame it interrupted.
LEMMA Popped ==
  ASSUME Stack, Len(frames) # 1, frames' = Tail(frames)
  PROVE  /\ Stack'
         /\ Bottom' = Bottom
         /\ Len(frames') = Len(frames) - 1
         /\ \A i \in 1 .. Len(frames') : frames'[i] = frames[i + 1]
  <1>1. Len(frames) \in Nat /\ Len(frames) > 1
    BY TopFrame, NotOne
  <1>2. /\ frames' \in Seq(AllFrames)
        /\ Len(frames') = Len(frames) - 1
        /\ \A i \in 1 .. Len(frames') : frames'[i] = frames[i + 1]
    BY <1>1, Len(frames) # Len(<<>>), HeadTailProperties DEF Stack
  <1>3. Bottom' = Bottom
    BY <1>1, <1>2 DEF Bottom
  <1>4. Len(frames') > 0
    BY <1>1, <1>2
  <1>5. \A i \in 1 .. Len(frames') - 1 : frames'[i] \in HandlerFrames
    BY <1>1, <1>2 DEF Stack
  <1> QED
    BY <1>2, <1>3, <1>4, <1>5 DEF Stack

-----------------------------------------------------------------------------
(* The invariant is inductive. *)

\* What the invariant needs when the controller and the Event are left alone.
LEMMA SameController ==
  ASSUME StopInv, Stack', UNCHANGED <<state, stopped, stops>>,
         Bottom' = Main("return") <=> Bottom = Main("return"),
         Bottom' \in LeavingFrames =>
           stopped \/ Bottom \in LeavingFrames \cup {Main("return")},
         state = "STOPPED" =>
           \A i \in 1 .. Len(frames') - 1 : frames'[i].at \in {"stopping?", "check"},
         exit' = "returned" => exit = "returned" \/ Bottom = Main("return")
  PROVE  StopInv'
  <1>1. Types'
    BY DEF StopInv, Types
  <1>2. EventIsSet'
    BY DEF StopInv, EventIsSet
  <1>3. Settled'
    BY DEF StopInv, Settled
  <1> QED
    BY <1>1, <1>2, <1>3 DEF StopInv

\* The next step of _run, with no handler on top, to another place in _run.
LEMMA MainMoves ==
  ASSUME StopInv, NEW f \in RunningFrames \cup LeavingFrames, Len(frames) = 1,
         frames' = <<f>> \o Tail(frames), Bottom # Main("return"),
         f \in LeavingFrames => stopped \/ Bottom \in LeavingFrames,
         UNCHANGED <<state, stopped, stops, exit>>
  PROVE  StopInv'
  <1>1. f \in MainFrames /\ f # Main("return")
    BY DEF MainFrames, RunningFrames, LeavingFrames, Main, Frame
  <1>2. Stack' /\ Bottom' = f /\ Len(frames') = 1
    <2>1. Stack
      BY DEF StopInv
    <2>2. Stack' /\ (Len(frames) = 1 => Bottom' = f) /\ Len(frames') = Len(frames)
      BY <1>1, <2>1, Continued
    <2> QED
      BY <2>2
  <1>3. 1 .. 1 - 1 = {}
    OBVIOUS
  <1> QED
    BY <1>1, <1>2, <1>3, SameController

\* The top frame of a handler that moves on, the state not being STOPPED or the label
\* being one of those before the check has passed.
LEMMA HandlerMoves ==
  ASSUME StopInv, NEW f \in HandlerFrames, Len(frames) # 1,
         frames' = <<f>> \o Tail(frames),
         state = "STOPPED" => f.at \in {"stopping?", "check"},
         UNCHANGED <<state, stopped, stops, exit>>
  PROVE  StopInv'
  <1>1. Len(frames) \in Nat
    BY TopFrame DEF StopInv
  <1>2. /\ Stack' /\ Bottom' = Bottom /\ Len(frames') = Len(frames)
        /\ frames'[1] = f /\ \A i \in 2 .. Len(frames) : frames'[i] = frames[i]
    BY Continued DEF StopInv
  <1>3. state = "STOPPED" =>
          \A i \in 1 .. Len(frames') - 1 : frames'[i].at \in {"stopping?", "check"}
    BY <1>1, <1>2 DEF StopInv, Settled
  <1> QED
    BY <1>2, <1>3, SameController

\* The process ends where it stands.
LEMMA Ends ==
  ASSUME StopInv, UNCHANGED <<frames, state, stopped, stops>>,
         exit' = "returned" => Bottom = Main("return")
  PROVE  StopInv'
  BY DEF StopInv, Stack, Types, EventIsSet, Settled, Bottom

\* The label of the top frame tells whose it is.
LEMMA TopOfHandler ==
  ASSUME StopInv, NEW label \in {"stopping?", "set"}, At(label)
  PROVE  Len(frames) # 1 /\ frames[1] = Frame(label, "STOPPING")
  <1>0. Stack
    BY DEF StopInv
  <1>1. frames[1].at = label
    BY <1>0, TopFrame DEF At
  <1>2. Len(frames) # 1
    BY <1>1, <1>0, TopFrame
       DEF MainFrames, RunningFrames, LeavingFrames, Main, Frame
  <1>3. Len(frames) # 1 /\ frames[1] \in HandlerFrames
    BY <1>2, <1>0, TopFrame
  <1> QED
    BY <1>1, <1>3 DEF HandlerFrames, Frame

\* In the code of run itself no handler is on the stack.
LEMMA TopOfMain ==
  ASSUME StopInv, NEW label \in {"install", "wait", "waiting", "asleep", "return"}, At(label)
  PROVE  Len(frames) = 1 /\ Bottom = Main(label)
  <1>0. Stack
    BY DEF StopInv
  <1>1. frames[1].at = label
    BY <1>0, TopFrame DEF At
  <1>2. Len(frames) = 1
    BY <1>1, <1>0, TopFrame DEF HandlerFrames, Frame
  <1>3. frames[1] \in MainFrames /\ frames[1] = Bottom
    BY <1>2, <1>0, TopFrame
  <1> QED
    BY <1>1, <1>2, <1>3 DEF MainFrames, RunningFrames, LeavingFrames, Main, Frame

\* check and assign are steps of _run, for READY and STOPPED, and of handlers.
LEMMA TopOfTransition ==
  ASSUME StopInv, NEW label \in {"check", "assign"}, At(label)
  PROVE  \/ /\ Len(frames) = 1 /\ Target \in {"READY", "STOPPED"}
            /\ Bottom = Frame(label, Target)
         \/ Len(frames) # 1 /\ Target = "STOPPING" /\ frames[1] = Frame(label, "STOPPING")
  <1>0. Stack
    BY DEF StopInv
  <1>1. frames[1].at = label /\ Target = frames[1].target
    BY <1>0, TopFrame DEF At, Target
  <1>2. CASE Len(frames) = 1
    <2>1. frames[1] \in MainFrames /\ frames[1] = Bottom
      BY <1>2, <1>0, TopFrame
    <2> QED
      BY <1>1, <1>2, <2>1 DEF MainFrames, RunningFrames, LeavingFrames, Main, Frame
  <1>3. CASE Len(frames) # 1
    <2>1. frames[1] \in HandlerFrames
      BY <1>3, <1>0, TopFrame
    <2> QED
      BY <1>1, <1>3, <2>1 DEF HandlerFrames, Frame
  <1> QED
    BY <1>2, <1>3, <1>0, TopFrame

\* The process starts in the invariant.
LEMMA StopInvInit == Init => StopInv
  <1> SUFFICES ASSUME Init PROVE StopInv
    OBVIOUS
  <1>1. Main("install") \in MainFrames /\ Main("install") # Main("return")
        /\ Main("install") \notin LeavingFrames
    BY DEF MainFrames, RunningFrames, LeavingFrames, Main, Frame
  <1>2. frames \in Seq(AllFrames) /\ Len(frames) = 1 /\ frames[1] = Main("install")
    BY <1>1 DEF Init, AllFrames
  <1>3. 1 .. 1 - 1 = {}
    OBVIOUS
  <1>4. Stack /\ Bottom = Main("install")
    BY <1>1, <1>2, <1>3 DEF Stack, Bottom
  <1>5. Types
    BY DEF Init, Types, SystemState
  <1>6. EventIsSet /\ Settled
    BY <1>1, <1>4 DEF Init, EventIsSet, Settled
  <1> QED
    BY <1>4, <1>5, <1>6 DEF StopInv

\* The step that makes a transition: only _run assigns STOPPED, with no handler on top,
\* and no handler assigns anything once it has.
LEMMA AssignKeepsStopInv ==
  ASSUME StopInv, Assign
  PROVE  StopInv'
  <1>1. CASE Len(frames) = 1 /\ Target \in {"READY", "STOPPED"} /\ Bottom = Frame("assign", Target)
    <2> DEFINE f == AfterTransition
    <2>1. f = IF Target = "READY" THEN Main("wait") ELSE Main("return")
      BY <1>1 DEF AfterTransition
    <2>2. f \in MainFrames /\ (f = Main("return") <=> Target = "STOPPED")
          /\ f \notin LeavingFrames
      BY <1>1, <2>1 DEF MainFrames, RunningFrames, LeavingFrames, Main, Frame
    <2>3. Stack
      BY DEF StopInv
    <2>4. frames' = <<f>> \o Tail(frames)
      BY DEF Assign, Continue
    <2> HIDE DEF f
    <2>5. Stack' /\ Bottom' = f /\ Len(frames') = 1
      BY <1>1, <2>2, <2>3, <2>4, Continued
    <2>6. 1 .. 1 - 1 = {}
      OBVIOUS
    <2>7. state' = Target /\ UNCHANGED <<stopped, stops>> /\ exit' = "running"
      BY DEF Assign, At
    <2>8. Types'
      BY <1>1, <2>7 DEF StopInv, Types, SystemState
    <2>9. Target = "STOPPED" => stopped
      BY <1>1 DEF StopInv, EventIsSet, LeavingFrames
    <2>10. EventIsSet'
      BY <1>1, <2>2, <2>5, <2>7, <2>9 DEF StopInv, EventIsSet
    <2>11. Settled'
      BY <1>1, <2>2, <2>5, <2>6, <2>7 DEF Settled
    <2> QED
      BY <2>5, <2>8, <2>10, <2>11 DEF StopInv
  <1>2. CASE Len(frames) # 1 /\ Target = "STOPPING" /\ frames[1] = Frame("assign", "STOPPING")
    <2> DEFINE f == Frame("set", "STOPPING")
    <2>1. f \in HandlerFrames
      BY DEF HandlerFrames
    <2>2. Stack
      BY DEF StopInv
    <2>3. frames' = <<f>> \o Tail(frames)
      BY <1>2 DEF Assign, Continue, AfterTransition
    <2> HIDE DEF f
    <2>4. Stack' /\ Bottom' = Bottom
      BY <1>2, <2>1, <2>2, <2>3, Continued
    <2>5. state' = "STOPPING" /\ UNCHANGED <<stopped, stops>> /\ exit' = "running"
      BY <1>2 DEF Assign, At
    <2>6. 1 \in 1 .. Len(frames) - 1
      BY <1>2, <2>2, TopFrame, NotOne
    <2>7. state # "STOPPED"
      BY <1>2, <2>6 DEF StopInv, Settled, Frame
    <2>8. Types' /\ EventIsSet' /\ Settled'
      BY <2>4, <2>5, <2>7 DEF StopInv, Types, EventIsSet, Settled, SystemState
    <2> QED
      BY <2>4, <2>8 DEF StopInv
  <1> QED
    BY <1>1, <1>2, TopOfTransition DEF Assign

\* A handler sets the Event and returns to what it interrupted.
LEMMA SetEventKeepsStopInv ==
  ASSUME StopInv, SetEvent
  PROVE  StopInv'
  <1>1. Len(frames) # 1 /\ frames[1] = Frame("set", "STOPPING")
    BY TopOfHandler DEF SetEvent
  <1>2. Stack
    BY DEF StopInv
  <1>3. /\ Stack' /\ Bottom' = Bottom
        /\ Len(frames') = Len(frames) - 1
        /\ \A i \in 1 .. Len(frames') : frames'[i] = frames[i + 1]
    BY <1>1, <1>2, Popped DEF SetEvent, Return
  <1>4. UNCHANGED state /\ stopped' = TRUE /\ stops' = stops + 1 /\ exit' = "running"
    BY DEF SetEvent, At
  <1>5. Types' /\ EventIsSet'
    BY <1>4 DEF StopInv, Types, EventIsSet
  <1>6. 1 \in 1 .. Len(frames) - 1
    BY <1>1, <1>2, TopFrame, NotOne
  <1>7. state # "STOPPED"
    BY <1>1, <1>6 DEF StopInv, Settled, Frame
  <1>8. Settled'
    BY <1>3, <1>4, <1>7 DEF StopInv, Settled
  <1> QED
    BY <1>3, <1>5, <1>8 DEF StopInv

\* A signal may arrive at any label, in STOPPED too.
LEMMA DeliverKeepsStopInv ==
  ASSUME StopInv, NEW signal \in Signal, Deliver(signal)
  PROVE  StopInv'
  <1>1. CASE signal \in handled
    <2> DEFINE f == Frame("stopping?", "STOPPING")
    <2>1. f \in HandlerFrames /\ f.at = "stopping?"
      BY DEF HandlerFrames, Frame
    <2>2. Stack
      BY DEF StopInv
    <2>3. frames' = <<f>> \o frames /\ UNCHANGED <<exit, state, stopped, stops>>
      BY <1>1 DEF Deliver
    <2> HIDE DEF f
    <2>4. /\ Stack' /\ Bottom' = Bottom
          /\ Len(frames') = Len(frames) + 1
          /\ frames'[1] = f /\ \A i \in 2 .. Len(frames') : frames'[i] = frames[i - 1]
      BY <2>1, <2>2, <2>3, Pushed
    <2>5. Len(frames) \in Nat
      BY <2>2, TopFrame
    <2>6. state = "STOPPED" =>
            \A i \in 1 .. Len(frames') - 1 : frames'[i].at \in {"stopping?", "check"}
      BY <2>1, <2>4, <2>5 DEF StopInv, Settled
    <2> QED
      BY <2>3, <2>4, <2>6, SameController
  <1>2. CASE signal \notin handled
    BY <1>2, Ends DEF Deliver
  <1> QED
    BY <1>1, <1>2

\* The steps of _run that leave the controller alone.
LEMMA MainKeepsStopInv ==
  ASSUME StopInv, InstallHandler \/ WaitEnters \/ WaitSleeps \/ WaitWakes \/ WaitReturns
  PROVE  StopInv'
  <1>1. /\ \A label \in {"wait", "waiting", "asleep"} : Main(label) \in RunningFrames
        /\ \A label \in {"wait", "waiting", "asleep"} : Main(label) \notin LeavingFrames
        /\ Frame("check", "READY") \in RunningFrames \ LeavingFrames
        /\ Frame("check", "STOPPED") \in LeavingFrames
        /\ \A label \in {"install", "wait", "waiting", "asleep"} : Main(label) # Main("return")
    BY DEF RunningFrames, LeavingFrames, Main, Frame
  <1>2. CASE InstallHandler
    <2>1. Len(frames) = 1 /\ Bottom = Main("install")
      BY <1>2, TopOfMain DEF InstallHandler
    <2>2. UNCHANGED <<state, stopped, stops, exit>> /\ exit # "returned"
      BY <1>2 DEF InstallHandler, At
    <2>3. CASE UNCHANGED frames
      BY <2>2, <2>3, Ends
    <2>4. CASE frames' = <<Frame("check", "READY")>> \o Tail(frames)
      BY <1>1, <2>1, <2>2, <2>4, MainMoves
    <2> QED
      BY <1>2, <2>3, <2>4 DEF InstallHandler, Continue
  <1>3. CASE WaitEnters
    <2>1. Len(frames) = 1 /\ Bottom = Main("wait")
      BY <1>3, TopOfMain DEF WaitEnters
    <2>2. /\ frames' = <<Main("waiting")>> \o Tail(frames)
          /\ UNCHANGED <<state, stopped, stops, exit>>
      BY <1>3 DEF WaitEnters, Continue
    <2> QED
      BY <1>1, <2>1, <2>2, MainMoves
  <1>4. CASE WaitSleeps
    <2>1. Len(frames) = 1 /\ Bottom = Main("waiting")
      BY <1>4, TopOfMain DEF WaitSleeps
    <2>2. /\ frames' = <<Main("asleep")>> \o Tail(frames)
          /\ UNCHANGED <<state, stopped, stops, exit>>
      BY <1>4 DEF WaitSleeps, Continue
    <2> QED
      BY <1>1, <2>1, <2>2, MainMoves
  <1>5. CASE WaitWakes
    <2>1. Len(frames) = 1 /\ Bottom = Main("asleep")
      BY <1>5, TopOfMain DEF WaitWakes
    <2>2. /\ frames' = <<Main("waiting")>> \o Tail(frames)
          /\ UNCHANGED <<state, stopped, stops, exit>>
      BY <1>5 DEF WaitWakes, Continue
    <2> QED
      BY <1>1, <2>1, <2>2, MainMoves
  <1>6. CASE WaitReturns
    <2>1. Len(frames) = 1 /\ Bottom = Main("waiting")
      BY <1>6, TopOfMain DEF WaitReturns
    <2>2. /\ frames' = <<Frame("check", "STOPPED")>> \o Tail(frames) /\ stopped
          /\ UNCHANGED <<state, stopped, stops, exit>>
      BY <1>6 DEF WaitReturns, Continue
    <2> QED
      BY <1>1, <2>1, <2>2, MainMoves
  <1> QED
    BY <1>2, <1>3, <1>4, <1>5, <1>6

\* The check, of _run or of a handler; in STOPPED it lets no handler pass.
LEMMA CheckKeepsStopInv ==
  ASSUME StopInv, Check
  PROVE  StopInv'
  <1>1. /\ frames' = <<Frame("assign", Target)>> \o Tail(frames)
        /\ Target \in Allowed[state]
        /\ UNCHANGED <<state, stopped, stops, exit>>
    BY DEF Check, Continue
  <1>2. CASE Len(frames) = 1 /\ Target \in {"READY", "STOPPED"} /\ Bottom = Frame("check", Target)
    <2> DEFINE f == Frame("assign", Target)
    <2>1. /\ f \in RunningFrames \cup LeavingFrames
          /\ f \in LeavingFrames => Bottom \in LeavingFrames
          /\ Bottom # Main("return")
      BY <1>2 DEF RunningFrames, LeavingFrames, Main, Frame
    <2>2. frames' = <<f>> \o Tail(frames)
      BY <1>1
    <2> HIDE DEF f
    <2> QED
      BY <1>1, <1>2, <2>1, <2>2, MainMoves
  <1>3. CASE Len(frames) # 1 /\ Target = "STOPPING"
    <2>1. Frame("assign", "STOPPING") \in HandlerFrames
      BY DEF HandlerFrames
    <2>2. state # "STOPPED"
      BY <1>1, <1>3 DEF Allowed, SystemState
    <2>3. frames' = <<Frame("assign", "STOPPING")>> \o Tail(frames)
      BY <1>1, <1>3
    <2> QED
      BY <1>1, <1>3, <2>1, <2>2, <2>3, HandlerMoves
  <1> QED
    BY <1>2, <1>3, TopOfTransition DEF Check

\* Every step keeps the invariant.
LEMMA StopInvStep == StopInv /\ [Next]_vars => StopInv'
  <1> SUFFICES ASSUME StopInv, [Next]_vars PROVE StopInv'
    OBVIOUS
  <1>1. CASE CheckFails
    BY <1>1, Ends DEF CheckFails
  <1>2. CASE RunReturns
    <2>1. Bottom = Main("return")
      BY <1>2, TopOfMain DEF RunReturns
    <2> QED
      BY <1>2, <2>1, Ends DEF RunReturns
  <1>3. CASE StopInProgress
    BY <1>3, Ends DEF StopInProgress
  <1>4. CASE RequestStop
    <2>1. Len(frames) # 1
      BY <1>4, TopOfHandler DEF RequestStop
    <2>2. Frame("check", "STOPPING") \in HandlerFrames
          /\ Frame("check", "STOPPING").at = "check"
      BY DEF HandlerFrames, Frame
    <2>3. /\ frames' = <<Frame("check", "STOPPING")>> \o Tail(frames)
          /\ UNCHANGED <<state, stopped, stops, exit>>
      BY <1>4 DEF RequestStop, Continue
    <2> QED
      BY <2>1, <2>2, <2>3, HandlerMoves
  <1>5. CASE UNCHANGED vars
    <2>1. UNCHANGED <<frames, state, stopped, stops, exit>>
      BY <1>5 DEF vars
    <2>2. exit' = "returned" => Bottom = Main("return")
      BY <2>1 DEF StopInv, Settled
    <2> QED
      BY <2>1, <2>2, Ends
  <1> QED
    BY <1>1, <1>2, <1>3, <1>4, <1>5, CheckKeepsStopInv, AssignKeepsStopInv, SetEventKeepsStopInv,
       DeliverKeepsStopInv, MainKeepsStopInv
       DEF Next, Run

\* The stack, the Event and the state fit together in every reachable state.
THEOREM StopInvHolds == Spec => []StopInv
  BY StopInvInit, StopInvStep, PTL DEF Spec

-----------------------------------------------------------------------------
(* The theorems. *)

\* However many signals nest, _run returns only with the Event set by a handler that ran
\* to its end, and the controller STOPPED (CleanReturn).
THEOREM ReturnsAreClean == Spec => []CleanReturn
  <1>1. StopInv => CleanReturn
    BY DEF StopInv, EventIsSet, Settled, CleanReturn
  <1> QED
    BY <1>1, StopInvHolds, PTL

\* A stopped controller stays stopped, whatever arrives late or was interrupted between
\* check and assign (StoppedIsFinal).
THEOREM StoppedStays == Spec => StoppedIsFinal
  <1>1. StopInv /\ StopInv' /\ [Next]_vars => [state = "STOPPED" => state' = "STOPPED"]_state
    <2> SUFFICES ASSUME StopInv, [Next]_vars, state = "STOPPED" PROVE state' = "STOPPED"
      OBVIOUS
    <2>1. CASE Assign
      <3>1. CASE Len(frames) # 1 /\ frames[1] = Frame("assign", "STOPPING")
        <4>1. 1 \in 1 .. Len(frames) - 1
          BY <3>1, TopFrame, NotOne DEF StopInv
        <4> QED
          BY <3>1, <4>1 DEF StopInv, Settled, Frame
      <3>2. CASE Bottom = Frame("assign", Target)
        BY <3>2 DEF StopInv, Settled, Main, Frame
      <3> QED
        BY <2>1, <3>1, <3>2, TopOfTransition DEF Assign
    <2>2. CASE UNCHANGED state
      BY <2>2
    <2> QED
      BY <2>1, <2>2
         DEF Next, Run, vars, Check, CheckFails, InstallHandler, WaitEnters, WaitSleeps, WaitWakes,
             WaitReturns, RunReturns, RequestStop, StopInProgress, SetEvent, Deliver
  <1> QED
    BY <1>1, StopInvHolds, PTL DEF Spec, StoppedIsFinal

=============================================================================
