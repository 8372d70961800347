--------------------------- MODULE RunnerWakeProofs ---------------------------
(***************************************************************************)
(* Theorems about RunnerWake for every set of attempts, a local and a      *)
(* remote lane, and both interrupt policies. The invariant ties the three  *)
(* places an attempt pointer can be in (the poll loop's hand, the channel, *)
(* the inject loop's hand) to r.attempt.                                   *)
(***************************************************************************)
EXTENDS RunnerWake, TLAPS

\* Where the loops are decides what they hold: the poll loop holds an attempt
\* between enqueueWake's lock and its send, the inject loop from its receive on.
Hands ==
  /\ ppc = "send" => queued \in Attempt /\ queued # current
  /\ ppc # "send" => queued = None
  /\ ipc = "select" => current = None
  /\ ipc # "select" => current \in Attempt

\* An attempt waiting in the channel is not the one the inject loop holds.
Apart == wakeCh # None => wakeCh # current

\* The poll loop makes an attempt only after a tick that saw mail.
SawMail == ppc \in {"enqueue", "send"} => lastPending

\* A retired attempt is not outstanding, so a cancelled wait ends nothing.
Open == attempt # None => attempt \notin retired

IInv ==
  /\ TypeOK /\ Hands /\ Apart /\ SawMail /\ Open
  /\ WakeAccounted /\ NeverDropped /\ OutstandingSeen

USE AttemptAssumption, ModeAssumption, BoundAssumption

LEMMA InitInv == Init => IInv
<1> SUFFICES ASSUME Init PROVE IInv
  OBVIOUS
<1>1. recue \in [Attempt -> BOOLEAN]
  BY DEF Init
<1>2. mail \in 0..MaxMail /\ interrupts \in 0..4
  BY DEF Init
<1>3. TypeOK
  BY <1>1, <1>2 DEF Init, TypeOK
<1>4. Hands /\ Apart /\ SawMail /\ Open
  BY DEF Init, Hands, Apart, SawMail, Open
<1>5. WakeAccounted /\ NeverDropped /\ OutstandingSeen
  BY DEF Init, WakeAccounted, NeverDropped, OutstandingSeen
<1>6. QED
  BY <1>3, <1>4, <1>5 DEF IInv

LEMMA PollInv == IInv /\ PollStep /\ UNCHANGED remote => IInv'
<1> SUFFICES ASSUME IInv, PollStep, UNCHANGED remote PROVE IInv'
  OBVIOUS
<1> USE DEF IInv, TypeOK, Hands, Apart, SawMail, Open, WakeAccounted, NeverDropped,
            OutstandingSeen, inbox, shared, poll, inject
<1>1. CASE Tick
  BY <1>1 DEF Tick
<1>2. CASE ObserveEmpty
  <2>1. attempt' = None /\ wakeCh' = None /\ retired' \subseteq Attempt
    BY <1>2 DEF ObserveEmpty, Retire
  <2>2. retired \subseteq Attempt /\ interrupts' \in 0..4 /\ UNCHANGED recue
    BY <1>2 DEF ObserveEmpty
  <2>3. TypeOK'
    BY <1>2, <2>1, <2>2 DEF ObserveEmpty
  <2>4. QED
    BY <1>2, <2>1, <2>3 DEF ObserveEmpty
<1>3. CASE ObservePending
  BY <1>3 DEF ObservePending
<1>4. CASE EnqueueGated
  BY <1>4 DEF EnqueueGated
<1>5. CASE Enqueue
  BY <1>5 DEF Enqueue
<1>6. CASE Send
  BY <1>6 DEF Send
<1> HIDE DEF IInv, TypeOK, Hands, Apart, SawMail, Open, WakeAccounted, NeverDropped,
             OutstandingSeen, inbox, shared, poll, inject
<1>7. QED
  BY <1>1, <1>2, <1>3, <1>4, <1>5, <1>6 DEF PollStep

LEMMA InjectInv == IInv /\ InjectStep /\ UNCHANGED remote => IInv'
<1> SUFFICES ASSUME IInv, InjectStep, UNCHANGED remote PROVE IInv'
  OBVIOUS
<1> USE DEF IInv, TypeOK, Hands, Apart, SawMail, Open, WakeAccounted, NeverDropped,
            OutstandingSeen, inbox, shared, poll, inject
<1>1. CASE Receive
  BY <1>1 DEF Receive
<1>2. CASE WaitCancelled
  BY <1>2 DEF WaitCancelled, Back
<1>3. CASE WindowIdle
  BY <1>3 DEF WindowIdle
<1>4. CASE ForceOpen \/ Interrupt
  BY <1>4 DEF ForceOpen, Interrupt
<1>5. CASE Recheck
  BY <1>5 DEF Recheck
<1>6. CASE RetireDrained
  <2>1. CASE attempt = current
    <3>1. /\ attempt' = None /\ wakeCh' = None
          /\ retired' \subseteq Attempt /\ injected' = FALSE
      BY <1>6, <2>1 DEF RetireDrained, Retire
    <3>2. interrupts' \in 0..4 /\ ipc' = "select" /\ current' = None
      BY <1>6, <2>1 DEF RetireDrained, Back
    <3>3. UNCHANGED <<mail, cued, recue, due, lastPending, ppc, pending, asRecue, queued>>
      BY <1>6 DEF RetireDrained
    <3>4. ppc # "send"
      BY <2>1
    <3>5. TypeOK'
      BY <3>1, <3>2, <3>3
    <3>6. QED
      BY <3>1, <3>2, <3>3, <3>4, <3>5
  <2>2. CASE attempt # current
    BY <1>6, <2>2 DEF RetireDrained, Back, Retire
  <2>3. QED
    BY <2>1, <2>2
<1>7. CASE CheckOwner
  BY <1>7 DEF CheckOwner, Back
<1>8. CASE Write
  BY <1>8 DEF Write
<1>9. CASE WriteFails
  BY <1>9 DEF WriteFails
<1>10. CASE Complete
  <2>1. /\ ipc' = "select" /\ current' = None
        /\ UNCHANGED <<mail, cued, wakeCh, recue, retired, lastPending, ppc, pending,
                       asRecue, queued, interrupts>>
    BY <1>10 DEF Complete, Back
  <2>2. CASE attempt = current
    <3>1. attempt' = None /\ injected' = TRUE /\ due' = FALSE
      BY <1>10, <2>2 DEF Complete
    <3> QED BY <2>1, <2>2, <3>1
  <2>3. CASE attempt # current
    <3>1. UNCHANGED <<attempt, injected, due>>
      BY <1>10, <2>3 DEF Complete
    <3> QED BY <2>1, <2>3, <3>1
  <2>4. QED
    BY <2>2, <2>3
<1>11. CASE CompleteFailed
  BY <1>11 DEF CompleteFailed, Back
<1> HIDE DEF IInv, TypeOK, Hands, Apart, SawMail, Open, WakeAccounted, NeverDropped,
             OutstandingSeen, inbox, shared, poll, inject
<1>12. QED
  BY <1>1, <1>2, <1>3, <1>4, <1>5, <1>6, <1>7, <1>8, <1>9, <1>10, <1>11
     DEF InjectStep

LEMMA NextInv == IInv /\ [Next]_vars => IInv'
<1> SUFFICES ASSUME IInv, [Next]_vars PROVE IInv'
  OBVIOUS
<1> USE DEF IInv, TypeOK, Hands, Apart, SawMail, Open, WakeAccounted, NeverDropped,
            OutstandingSeen
<1>1. CASE Arrive /\ UNCHANGED remote
  BY <1>1 DEF Arrive, shared, poll, inject
<1>2. CASE AgentChecks /\ UNCHANGED remote
  BY <1>2 DEF AgentChecks, shared, poll, inject
<1>3. CASE RecueDue /\ UNCHANGED remote
  BY <1>3 DEF RecueDue, inbox, poll, inject
<1>4. CASE UNCHANGED vars
  BY <1>4 DEF vars, inbox, shared, poll, inject
<1> HIDE DEF IInv, TypeOK, Hands, Apart, SawMail, Open, WakeAccounted, NeverDropped,
             OutstandingSeen
<1>5. QED
  BY <1>1, <1>2, <1>3, <1>4, PollInv, InjectInv DEF Next

\* The invariant that the following theorems read off.
THEOREM Inductive == Spec => []IInv
<1>1. QED
  BY InitInv, NextInv, PTL DEF Spec

\* serve.go's wake state keeps its types: retireWakeLocked never closes the
\* channel of a nil attempt.
THEOREM TypeCorrect == Spec => []TypeOK
<1>1. IInv => TypeOK
  BY DEF IInv
<1>2. QED
  BY <1>1, Inductive, PTL

\* No attempt is outstanding without a goroutine that will end it, and the
\* non-blocking send always finds room: enqueueWake's gate cannot close for good,
\* whatever the interleaving of pollLoop and injectLoop, and a remote lane's
\* recheck agrees with the tick that made the attempt.
THEOREM InHand == Spec => []WakeInHand
<1>1. IInv => WakeInHand
  BY DEF IInv, WakeInHand
<1>2. QED
  BY <1>1, Inductive, PTL

\* A period's flag is set and its attempt ended only by the attempt's owner,
\* or by a tick that observed an empty inbox.
THEOREM Owned == Spec => PeriodOwned
<1> DEFINE A == /\ ~injected /\ injected' => attempt = current
                /\ attempt # None /\ attempt' = None =>
                     attempt = current \/ (ppc = "ticked" /\ ~pending)
<1>1. ASSUME IInv, PollStep PROVE A
  <2>1. CASE ObserveEmpty
    BY <2>1 DEF ObserveEmpty
  <2>2. CASE Tick \/ ObservePending \/ EnqueueGated \/ Enqueue \/ Send
    BY <1>1, <2>2 DEF IInv, TypeOK, Tick, ObservePending, EnqueueGated, Enqueue,
                      Send, shared
  <2>3. QED
    BY <1>1, <2>1, <2>2 DEF PollStep
<1>2. ASSUME IInv, InjectStep PROVE A
  BY <1>2 DEF IInv, TypeOK, InjectStep, Receive, WaitCancelled, WindowIdle,
              ForceOpen, Interrupt, Recheck, RetireDrained, Retire, CheckOwner, Write,
              WriteFails, Complete, CompleteFailed, shared
<1>3. ASSUME IInv, Arrive \/ AgentChecks \/ RecueDue PROVE A
  BY <1>3 DEF Arrive, AgentChecks, RecueDue, shared
<1>4. IInv /\ [Next]_vars => [A]_vars
  BY <1>1, <1>2, <1>3 DEF Next
<1>5. QED
  BY <1>4, Inductive, PTL DEF Spec, PeriodOwned

-----------------------------------------------------------------------------
(* Ctrl-C *)

\* What the inject loop holds and is no longer outstanding was retired.
Stale == current # None /\ current # attempt => current \in retired

\* A wake about to type Ctrl-C is a first cue.
FirstCue == ipc = "interrupt" => ~recue[current]

\* One that was retired meanwhile: its Ctrl-C goes to the next period.
Stray == ipc = "interrupt" /\ current # attempt

\* The outstanding attempt is past its window, or may still force it open.
Spent == /\ attempt # None /\ current = attempt
         /\ ipc \notin {"select", "wait", "interrupt"}
MayForce == attempt # None /\ ~recue[attempt] /\ ~Spent

\* pollOnce has read that the period is not injected, and is about to act on it.
Late == ppc = "enqueue" /\ ~asRecue

\* A stray Ctrl-C is the first of its period, since the inject loop handles one
\* wake at a time. Before the first injection only it and the outstanding attempt
\* have typed; after it one more may, made by a poll loop that read the flag before.
Budget == /\ Stray => ~injected /\ interrupts = 0
          /\ ~injected /\ ~Spent => interrupts <= 1
          /\ ~injected /\ Spent => interrupts <= 2
          /\ injected => interrupts <= 3
          /\ injected /\ (MayForce \/ Late) => interrupts <= 2
          /\ injected /\ Late => attempt = None

BInv == IInv /\ Stale /\ FirstCue /\ Budget

LEMMA InitBudget == Init => BInv
<1>1. Init => Stale /\ FirstCue /\ Budget
  BY DEF Init, Stale, FirstCue, Stray, Budget, Spent, MayForce, Late
<1>2. QED
  BY <1>1, InitInv DEF BInv

LEMMA PollBudget == BInv /\ PollStep => Stale' /\ FirstCue' /\ Budget'
<1> SUFFICES ASSUME BInv, PollStep PROVE Stale' /\ FirstCue' /\ Budget'
  OBVIOUS
<1>1. TypeOK /\ Hands /\ Open /\ NeverDropped /\ Stale /\ FirstCue /\ Budget
  BY DEF BInv, IInv
<1> USE DEF Stale, FirstCue, Stray, Budget, Spent, MayForce, Late, shared, inject
<1>2. CASE Tick
  BY <1>1, <1>2 DEF Tick
<1>3. CASE ObserveEmpty
  <2>1. /\ attempt' = None /\ injected' = FALSE /\ interrupts' = 0
        /\ UNCHANGED <<ipc, current, recue>>
    BY <1>3 DEF ObserveEmpty, Retire
  <2>2. current # None => current \in retired'
    BY <1>1, <1>3 DEF ObserveEmpty, Retire
  <2>3. QED
    BY <1>1, <2>1, <2>2
<1>4. CASE ObservePending
  BY <1>1, <1>4 DEF ObservePending
<1>5. CASE EnqueueGated
  BY <1>1, <1>5 DEF EnqueueGated
<1>6. CASE Enqueue
  <2>1. PICK a \in Attempt \ {wakeCh, current, queued} :
          /\ attempt' = a /\ recue' = [recue EXCEPT ![a] = asRecue]
          /\ retired' = retired \ {a}
    BY <1>6 DEF Enqueue
  <2>2. /\ ppc = "enqueue" /\ attempt = None /\ ppc' = "send"
        /\ UNCHANGED <<injected, ipc, current, interrupts>>
    BY <1>6 DEF Enqueue
  <2>3. recue'[a] = asRecue /\ recue'[current] = recue[current]
    BY <1>1, <2>1 DEF TypeOK
  <2>4. a # current /\ a # None /\ interrupts \in Nat /\ ~Spent /\ ~Spent'
    BY <1>1, <2>1, <2>2 DEF TypeOK
  <2>5. Stale' /\ FirstCue'
    <3>1. FirstCue'
      BY <1>1, <2>2, <2>3 DEF Hands
    <3>2. current # None => current \in retired'
      BY <1>1, <2>1, <2>2, <2>4
    <3> QED BY <2>2, <3>1, <3>2
  <2>6. Budget'
    <3>1. Stray' => ~injected' /\ interrupts' = 0
      BY <1>1, <2>2, <2>4 DEF Hands
    <3>2. injected' => interrupts' <= 3 /\ (MayForce' => interrupts' <= 2)
      <4>1. MayForce' => Late
        BY <2>1, <2>2, <2>3
      <4> QED BY <1>1, <2>2, <4>1
    <3>3. ~Late'
      BY <2>2
    <3> QED BY <1>1, <2>2, <2>4, <3>1, <3>2, <3>3
  <2>7. QED
    BY <2>5, <2>6
<1>7. CASE Send
  BY <1>1, <1>7 DEF Send
<1>8. QED
  BY <1>2, <1>3, <1>4, <1>5, <1>6, <1>7 DEF PollStep

LEMMA InjectBudget == BInv /\ InjectStep => Stale' /\ FirstCue' /\ Budget'
<1> SUFFICES ASSUME BInv, InjectStep PROVE Stale' /\ FirstCue' /\ Budget'
  OBVIOUS
<1>1. TypeOK /\ Hands /\ Open /\ NeverDropped /\ Stale /\ FirstCue /\ Budget
  BY DEF BInv, IInv
<1> USE DEF Stale, FirstCue, Stray, Budget, Spent, MayForce, Late, shared, poll
<1>2. CASE Receive
  BY <1>1, <1>2 DEF Receive, NeverDropped
<1>3. CASE WaitCancelled
  BY <1>1, <1>3 DEF WaitCancelled, Back, Open
<1>4. CASE WindowIdle
  <2>1. /\ UNCHANGED <<attempt, recue, retired, injected, current, ppc, asRecue, interrupts>>
        /\ ipc = "wait" /\ ipc' = "recheck" /\ interrupts \in Nat
    BY <1>1, <1>4 DEF WindowIdle, TypeOK
  <2>2. ~Spent /\ ~Stray' /\ FirstCue' /\ Stale'
    BY <1>1, <2>1
  <2>3. Spent' \/ ~Spent'
    OBVIOUS
  <2>4. ~injected => interrupts <= 1
    BY <1>1, <2>2
  <2> QED BY <1>1, <2>1, <2>2, <2>4
<1>5. CASE ForceOpen
  <2>1. current = attempt /\ current # None /\ ~recue[current]
    BY <1>1, <1>5 DEF ForceOpen, Hands
  <2>2. /\ UNCHANGED <<attempt, recue, retired, injected, current, ppc, asRecue, interrupts>>
        /\ ipc = "wait" /\ ipc' = "interrupt"
    BY <1>5 DEF ForceOpen
  <2>3. QED
    BY <1>1, <2>1, <2>2
<1>14. CASE Interrupt
  <2>1. /\ UNCHANGED <<attempt, recue, retired, injected, current, ppc, asRecue>>
        /\ ipc = "interrupt" /\ ipc' = "recheck"
        /\ interrupts \in Nat /\ interrupts' = interrupts + 1
    BY <1>1, <1>14 DEF Interrupt, TypeOK
  <2>2. CASE current = attempt
    <3>1. attempt # None /\ ~recue[attempt] /\ ~Spent
      BY <1>1, <2>1, <2>2 DEF Hands
    <3>2. interrupts <= 2 /\ (~injected => interrupts <= 1)
      <4>1. MayForce
        BY <3>1
      <4>2. interrupts <= 2 /\ (~injected => interrupts <= 1) /\ (injected => interrupts <= 2)
        BY <1>1, <2>1, <3>1, <4>1
      <4> QED BY <2>1, <4>2
    <3> QED BY <1>1, <2>1, <2>2, <3>1, <3>2
  <2>3. CASE current # attempt
    BY <1>1, <2>1, <2>3
  <2>4. QED
    BY <2>2, <2>3
<1>6. CASE Recheck
  BY <1>1, <1>6 DEF Recheck
<1>7. CASE RetireDrained
  <2>1. CASE attempt = current
    BY <1>1, <1>7, <2>1 DEF RetireDrained, Retire, Back, Hands
  <2>2. CASE attempt # current
    BY <1>1, <1>7, <2>2 DEF RetireDrained, Retire, Back
  <2>3. QED
    BY <2>1, <2>2
<1>8. CASE CheckOwner
  BY <1>1, <1>8 DEF CheckOwner, Back
<1>9. CASE Write
  BY <1>1, <1>9 DEF Write
<1>10. CASE WriteFails
  BY <1>1, <1>10 DEF WriteFails
<1>11. CASE Complete
  <2>1. CASE attempt = current
    BY <1>1, <1>11, <2>1 DEF Complete, Back, Hands, TypeOK
  <2>2. CASE attempt # current
    BY <1>1, <1>11, <2>2 DEF Complete, Back
  <2>3. QED
    BY <2>1, <2>2
<1>12. CASE CompleteFailed
  BY <1>1, <1>12 DEF CompleteFailed, Back
<1>13. QED
  BY <1>2, <1>3, <1>4, <1>5, <1>6, <1>7, <1>8, <1>9, <1>10, <1>11, <1>12, <1>14
     DEF InjectStep

\* A busy wrapper is interrupted at most three times for each period of pending
\* mail not cut short by a failed write, however the poll loop's looks at
\* injectedThisPeriod, its retirements and its enqueueWake are interleaved with
\* the inject loop and the writes it waits for.
THEOREM AtMostThrice == Spec => []InterruptsBounded
<1>1. BInv /\ [Next]_vars => BInv'
  <2> SUFFICES ASSUME BInv, [Next]_vars PROVE Stale' /\ FirstCue' /\ Budget'
    BY NextInv DEF BInv
  <2>1. Stale /\ FirstCue /\ Budget
    BY DEF BInv
  <2>2. CASE PollStep \/ InjectStep
    BY <2>2, PollBudget, InjectBudget
  <2>3. CASE Arrive \/ AgentChecks \/ RecueDue \/ UNCHANGED vars
    BY <2>1, <2>3 DEF Arrive, AgentChecks, RecueDue, vars, inbox, shared, poll, inject,
                      Stale, FirstCue, Stray, Budget, Spent, MayForce, Late
  <2>4. QED
    BY <2>2, <2>3 DEF Next
<1>2. BInv => InterruptsBounded
  BY DEF BInv, IInv, TypeOK, Budget, InterruptsBounded
<1>3. QED
  BY <1>1, <1>2, InitBudget, PTL DEF Spec
=============================================================================
