------------------------------ MODULE RunnerWake ------------------------------
(***************************************************************************)
(* How `agentchute serve` cues its agent (internal/cli/serve.go): the poll *)
(* loop observes the inbox and queues a wake attempt, the inject loop      *)
(* waits for a window, checks the inbox again and types the prompt. The    *)
(* two goroutines share the attempt, the period flag and a channel of      *)
(* capacity 1; every step below is one hold of r.mu, one channel operation *)
(* or one access to the inbox or the PTY, so the loops, the senders and    *)
(* the agent's own checks interleave anywhere.                             *)
(***************************************************************************)
EXTENDS Naturals

CONSTANTS Attempt,    \* wakeAttempt pointers; a fresh one differs from all in use
          None,       \* nil
          Escalate,   \* TRUE: --interrupt-policy after-grace or always
          MaxMail     \* bound: unread messages

ASSUME AttemptAssumption == None \notin Attempt
ASSUME ModeAssumption == Escalate \in BOOLEAN
ASSUME BoundAssumption == MaxMail \in Nat

VARIABLES remote,       \* the inbox is behind a hub, only ticks see it
          mail,         \* unread messages and malformed files in the inbox
          cued,         \* a cue was typed since the inbox last became non-empty
          attempt,      \* r.attempt: the outstanding attempt
          wakeCh,       \* the buffered attempt, or None
          recue,        \* recue[a]: a retry, which always waits for idle
          retired,      \* attempts whose retired channel is closed
          injected,     \* r.injectedThisPeriod
          due,          \* recueInterval has passed since r.lastInjection
          lastPending,  \* r.lastTickPending
          ppc, pending, asRecue, queued,   \* poll loop and its locals
          ipc, current,                    \* inject loop and its local
          interrupts    \* Ctrl-C typed since the inbox was observed empty or a write failed

inbox == <<mail, cued>>
shared == <<attempt, wakeCh, recue, retired, injected, due, lastPending>>
poll == <<ppc, pending, asRecue, queued>>
inject == <<ipc, current>>
vars == <<remote, inbox, shared, poll, inject, interrupts>>

-----------------------------------------------------------------------------
(* The poll loop: pollOnce *)

\* The tick counts the inbox; a listing failure counts as mail. A failed
\* tick changes nothing and is left out.
Tick ==
  /\ ppc = "idle"
  /\ pending' \in BOOLEAN /\ (mail > 0 => pending')
  /\ ppc' = "ticked"
  /\ UNCHANGED <<inbox, shared, asRecue, queued, inject, interrupts>>

\* retireWakeLocked: only the outstanding attempt is retired, and it is taken
\* out of the channel if the inject loop has not received it.
Retire(a) ==
  IF a # None /\ attempt = a
    THEN /\ retired' = retired \cup {a}
         /\ attempt' = None
         /\ injected' = FALSE
         /\ wakeCh' = None
    ELSE UNCHANGED <<retired, attempt, injected, wakeCh>>

\* An observed-empty inbox ends the period and the attempt.
ObserveEmpty ==
  /\ ppc = "ticked" /\ ~pending
  /\ lastPending' = FALSE
  /\ injected' = FALSE
  /\ \/ Retire(attempt)
     \/ attempt = None /\ UNCHANGED <<retired, attempt, wakeCh>>
  /\ interrupts' = 0
  /\ ppc' = "idle"
  /\ UNCHANGED <<inbox, recue, due, pending, asRecue, queued, inject>>

\* Mutant of ObservePending: one cue per period, never a second one.
ObservePendingOnce ==
  /\ ppc = "ticked" /\ pending
  /\ lastPending' = TRUE
  /\ asRecue' = injected
  /\ ppc' = IF ~injected THEN "enqueue" ELSE "idle"
  /\ UNCHANGED <<inbox, attempt, wakeCh, recue, retired, injected, due, pending,
                 queued, inject, interrupts>>

\* Mutant of ObservePending: a wake that is sent again counts as a first one.
ObservePendingFresh ==
  /\ ppc = "ticked" /\ pending
  /\ lastPending' = TRUE
  /\ asRecue' = FALSE
  /\ ppc' = IF ~injected \/ due THEN "enqueue" ELSE "idle"
  /\ UNCHANGED <<inbox, attempt, wakeCh, recue, retired, injected, due, pending,
                 queued, inject, interrupts>>

ObservePending ==
  /\ ppc = "ticked" /\ pending
  /\ lastPending' = TRUE
  /\ asRecue' = injected
  /\ ppc' = IF ~injected \/ due THEN "enqueue" ELSE "idle"
  /\ UNCHANGED <<inbox, attempt, wakeCh, recue, retired, injected, due, pending,
                 queued, inject, interrupts>>

\* enqueueWake, under the lock again: nothing while an attempt is outstanding.
EnqueueGated ==
  /\ ppc = "enqueue" /\ attempt # None
  /\ ppc' = "idle"
  /\ UNCHANGED <<inbox, shared, pending, asRecue, queued, inject, interrupts>>

Enqueue ==
  /\ ppc = "enqueue" /\ attempt = None
  /\ \E a \in Attempt \ {wakeCh, current, queued} :
       /\ attempt' = a /\ queued' = a
       /\ recue' = [recue EXCEPT ![a] = asRecue]
       /\ retired' = retired \ {a}
  /\ ppc' = "send"
  /\ UNCHANGED <<inbox, wakeCh, injected, due, lastPending, pending, asRecue,
                 inject, interrupts>>

\* The send does not block: a full channel drops the attempt.
Send ==
  /\ ppc = "send"
  /\ wakeCh' = IF wakeCh = None THEN queued ELSE wakeCh
  /\ queued' = None
  /\ ppc' = "idle"
  /\ UNCHANGED <<inbox, attempt, recue, retired, injected, due, lastPending,
                 pending, asRecue, inject, interrupts>>

-----------------------------------------------------------------------------
(* The inject loop: injectLoop, waitForInjectionWindow, injectIfPending *)

Receive ==
  /\ ipc = "select" /\ wakeCh # None
  /\ current' = wakeCh
  /\ wakeCh' = None
  /\ ipc' = "wait"
  /\ UNCHANGED <<inbox, attempt, recue, retired, injected, due, lastPending,
                 poll, interrupts>>

Back == ipc' = "select" /\ current' = None

WaitCancelled ==
  /\ ipc = "wait" /\ current \in retired
  /\ Back
  /\ UNCHANGED <<inbox, shared, poll, interrupts>>

\* The wrapper has been quiet for the idle grace.
WindowIdle ==
  /\ ipc = "wait" /\ current \notin retired
  /\ ipc' = "recheck"
  /\ UNCHANGED <<inbox, shared, poll, current, interrupts>>

\* after-grace and always: Ctrl-C opens the window, for a first cue only.
ForceOpen ==
  /\ ipc = "wait" /\ current \notin retired
  /\ Escalate /\ ~recue[current]
  /\ ipc' = "interrupt"
  /\ UNCHANGED <<inbox, shared, poll, current, interrupts>>

\* The write of the Ctrl-C, which may wait for ptmxMu or for the wrapper to
\* read. Nobody looks again whether the attempt was retired meanwhile.
Interrupt ==
  /\ ipc = "interrupt" /\ interrupts < 4             \* bound of the history
  /\ interrupts' = interrupts + 1
  /\ ipc' = "recheck"
  /\ UNCHANGED <<inbox, shared, poll, current>>

\* hasPendingInboxMail: the inbox itself, an unreadable one counting as mail;
\* for a remote lane what the last tick saw.
SeesMail(seen) == IF remote THEN seen = lastPending ELSE mail > 0 => seen

Recheck ==
  /\ ipc = "recheck"
  /\ \E seen \in BOOLEAN :
       SeesMail(seen) /\ ipc' = IF seen THEN "own" ELSE "drained"
  /\ UNCHANGED <<inbox, shared, poll, current, interrupts>>

RetireDrained ==
  /\ ipc = "drained"
  /\ Retire(current)
  /\ interrupts' = IF attempt = current THEN 0 ELSE interrupts
  /\ Back
  /\ UNCHANGED <<inbox, recue, due, lastPending, poll>>

CheckOwner ==
  /\ ipc = "own"
  /\ IF attempt = current THEN ipc' = "write" /\ UNCHANGED current ELSE Back
  /\ UNCHANGED <<inbox, shared, poll, interrupts>>

Write ==
  /\ ipc = "write"
  /\ cued' = TRUE
  /\ ipc' = "written"
  /\ UNCHANGED <<mail, shared, poll, current, interrupts>>

WriteFails ==
  /\ ipc = "write"
  /\ ipc' = "failed"
  /\ UNCHANGED <<inbox, shared, poll, current, interrupts>>

\* Mutant of Complete: whatever is outstanding is done.
CompleteAny ==
  /\ ipc = "written"
  /\ attempt' = None /\ injected' = TRUE /\ due' = FALSE
  /\ Back
  /\ UNCHANGED <<inbox, wakeCh, recue, retired, lastPending, poll, interrupts>>

\* completeLocked after a write: only the owner touches the period's state.
Complete ==
  /\ ipc = "written"
  /\ IF attempt = current
       THEN attempt' = None /\ injected' = TRUE /\ due' = FALSE
       ELSE UNCHANGED <<attempt, injected, due>>
  /\ Back
  /\ UNCHANGED <<inbox, wakeCh, recue, retired, lastPending, poll, interrupts>>

\* Mutant of CompleteFailed: a failed write leaves the attempt outstanding.
CompleteFailedNot ==
  /\ ipc = "failed"
  /\ interrupts' = 0
  /\ Back
  /\ UNCHANGED <<inbox, shared, poll>>

\* A failed write ends the attempt too, and neither starts the recue interval
\* nor counts as the period's first cue.
CompleteFailed ==
  /\ ipc = "failed"
  /\ attempt' = IF attempt = current THEN None ELSE attempt
  /\ interrupts' = 0
  /\ Back
  /\ UNCHANGED <<inbox, wakeCh, recue, retired, injected, due, lastPending, poll>>

-----------------------------------------------------------------------------
(* The environment: senders, the agent's own checks, the clock *)

Arrive ==
  /\ mail < MaxMail
  /\ mail' = mail + 1
  /\ cued' = (mail > 0 /\ cued)
  /\ UNCHANGED <<shared, poll, inject, interrupts>>

AgentChecks ==
  /\ mail > 0
  /\ mail' \in 0..(mail - 1)
  /\ UNCHANGED <<cued, shared, poll, inject, interrupts>>

RecueDue ==
  /\ ~due
  /\ due' = TRUE
  /\ UNCHANGED <<inbox, attempt, wakeCh, recue, retired, injected, lastPending,
                 poll, inject, interrupts>>

-----------------------------------------------------------------------------
\* A lane starts on an empty or a waiting inbox.
Init ==
  /\ remote \in BOOLEAN
  /\ mail \in 0..MaxMail /\ cued = FALSE
  /\ attempt = None /\ wakeCh = None
  /\ recue = [a \in Attempt |-> FALSE] /\ retired = {}
  /\ injected = FALSE /\ due = TRUE /\ lastPending = FALSE
  /\ ppc = "idle" /\ pending = FALSE /\ asRecue = FALSE /\ queued = None
  /\ ipc = "select" /\ current = None
  /\ interrupts = 0

PollStep == Tick \/ ObserveEmpty \/ ObservePending \/ EnqueueGated \/ Enqueue \/ Send

InjectStep ==
  \/ Receive \/ WaitCancelled \/ WindowIdle \/ ForceOpen \/ Interrupt \/ Recheck
  \/ RetireDrained \/ CheckOwner \/ Write \/ WriteFails \/ Complete \/ CompleteFailed

Next == /\ PollStep \/ InjectStep \/ Arrive \/ AgentChecks \/ RecueDue
        /\ UNCHANGED remote

Spec == Init /\ [][Next]_vars

\* The poll loop ticks for ever and the inject loop goes on; the wrapper is
\* quiet again and again, its PTY does not fail for ever, and an inbox with
\* mail in it is not for ever misread.
FairSpec == /\ Spec
            /\ WF_vars(PollStep /\ UNCHANGED remote)
            /\ WF_vars(/\ \/ Receive \/ WaitCancelled \/ Interrupt \/ Recheck
                          \/ RetireDrained \/ CheckOwner
                          \/ Complete \/ CompleteFailed
                       /\ UNCHANGED remote)
            /\ SF_vars(WindowIdle /\ UNCHANGED remote)
            /\ SF_vars(Write /\ UNCHANGED remote)
            /\ WF_vars(RecueDue /\ UNCHANGED remote)

-----------------------------------------------------------------------------
TypeOK ==
  /\ remote \in BOOLEAN
  /\ mail \in 0..MaxMail /\ cued \in BOOLEAN
  /\ attempt \in Attempt \cup {None} /\ wakeCh \in Attempt \cup {None}
  /\ recue \in [Attempt -> BOOLEAN] /\ retired \subseteq Attempt
  /\ injected \in BOOLEAN /\ due \in BOOLEAN /\ lastPending \in BOOLEAN
  /\ ppc \in {"idle", "ticked", "enqueue", "send"}
  /\ pending \in BOOLEAN /\ asRecue \in BOOLEAN /\ queued \in Attempt \cup {None}
  /\ ipc \in {"select", "wait", "interrupt", "recheck", "drained", "own", "write",
              "written", "failed"}
  /\ current \in Attempt \cup {None}
  /\ interrupts \in 0..4

\* The outstanding attempt always has a goroutine that will end it: the poll
\* loop about to send it, the channel, or the inject loop. Otherwise every
\* later wake would be gated for the runner's lifetime.
WakeAccounted ==
  attempt # None =>
    \/ ppc = "send" /\ queued = attempt
    \/ wakeCh = attempt
    \/ ipc # "select" /\ current = attempt

\* The non-blocking send never drops a wake: the channel is empty when it is
\* made, and what waits in the channel is the outstanding attempt, so the
\* inject loop never finds it stale (retireWakeLocked drains the channel).
NeverDropped ==
  /\ ppc = "send" => wakeCh = None /\ queued = attempt
  /\ wakeCh # None => wakeCh = attempt

\* While an attempt is outstanding the last tick saw mail: a remote lane,
\* whose recheck is that tick, never drops a wake it owns.
OutstandingSeen == attempt # None => lastPending

\* An outstanding wake is in somebody's hands, reaches them, and is not taken
\* for an old one: enqueueWake's gate cannot close for good.
WakeInHand == WakeAccounted /\ NeverDropped /\ OutstandingSeen

\* The inject loop types only for an attempt that was outstanding at its last
\* look, and an attempt retired since stays without effect on the period that
\* replaced it: the flag of a fresh period is set only by its own attempt.
PeriodOwned ==
  [][/\ ~injected /\ injected' => attempt = current
     /\ attempt # None /\ attempt' = None =>
          attempt = current \/ (ppc = "ticked" /\ ~pending)]_vars

\* Ctrl-C goes to a busy wrapper at most three times for each period of pending
\* mail that is not cut short by a failed write: for the first injection; once
\* more when pollOnce had read injectedThisPeriod before that one completed and
\* enqueueWake acts on it afterwards; and once for a wake of the period before,
\* retired between the look at its channel and its write
\* (waitForInjectionWindow's comment says once).
InterruptsBounded == interrupts <= 3

\* Mail that stays in the inbox is cued in the end.
CuedInTheEnd == []<>(cued \/ mail = 0)
=============================================================================
