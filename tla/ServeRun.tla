------------------------------ MODULE ServeRun ------------------------------
(***************************************************************************)
(* One life of `agentchute serve` (internal/cli: serve.go,                 *)
(* serve_identity.go): it takes the lease, starts the wrapper under a       *)
(* terminal of its own, and runs a poll loop, an inject loop and a signal   *)
(* handler beside it until the wrapper has ended.  Any step of the start    *)
(* may fail; the lease may be lost, the wrapper may be deaf to signals or   *)
(* not read what is typed into it, and serve itself may be killed.          *)
(***************************************************************************)
EXTENDS Naturals

VARIABLES
    remote,   \* the lane is served over a channel to a hub
    deaf,     \* the wrapper ignores SIGTERM and the hangup of its terminal
    full,     \* the wrapper does not read its terminal: a write to it may wait
    main,     \* where runWrapper, or runRemoteWrapperOnce, stands
    claim,    \* the lease: "none", "mine", or "lost": a rival's, or invalidated
    child,    \* the wrapper: "none", "run", "dying" (killed), "exited"
    pty,      \* serve holds the terminal open
    status,   \* runner.json: "none", "active", "offline"
    ident,    \* the identity record for a Muse wrapper is there
    down,     \* shutdownRequested
    stop,     \* stopCh is closed
    poll,     \* "off", "tick", "save", "wait", "done"
    inject,   \* "off", "wait", "ask", "lock", "type" (holds ptmxMu), "save", "done"
    typist,   \* copyInput: "off", "read", "lock", "type" (holds ptmxMu), "done"
    killer,   \* the goroutine of requestShutdown: "off", "hangup", "kill", "done"
    lost      \* remote: a tick's error is in channelErr

lane == <<remote, deaf, full>>
loops == <<poll, inject, typist, killer>>
flags == <<down, stop, lost>>
vars == <<lane, main, claim, child, pty, status, ident, flags, loops>>

Over == main \in {"ended", "killed"}
Goto(pc) == main' = pc
\* what happens next when a step of the start succeeds
After == [lease |-> IF remote THEN "register" ELSE "identity",
          identity |-> "spawn",
          spawn |-> IF remote THEN "raw" ELSE "register",
          register |-> IF remote THEN "identity" ELSE "raw"]

(***************************************************************************)
(* The start                                                               *)
(***************************************************************************)
\* flags, id, vendor and hook file are checked before anything is done.
Start ==
    /\ main = "start" /\ (Goto("lease") \/ Goto("ended"))
    /\ UNCHANGED <<lane, claim, child, pty, status, ident, flags, loops>>
Lease ==
    /\ main = "lease"
    /\ \/ claim' = "mine" /\ Goto(After.lease)
       \/ UNCHANGED claim /\ Goto("ended")        \* held by another, or an error
    /\ UNCHANGED <<lane, child, pty, status, ident, flags, loops>>
\* only for muse: sweep the records of dead runners, write ours by rename.
Identity ==
    /\ main = "identity"
    /\ \/ Goto(After.identity) /\ ident' \in BOOLEAN
       \/ Goto("release") /\ UNCHANGED ident
    /\ UNCHANGED <<lane, claim, child, pty, status, flags, loops>>

\* Mutant of SpawnFails: the lease that was taken is kept.
SpawnFailsHolding == Goto("ended") /\ ident' = FALSE

SpawnFails == Goto("release") /\ UNCHANGED ident
Spawn ==
    /\ main = "spawn"
    /\ \/ Goto(After.spawn) /\ child' = "run" /\ pty' = TRUE /\ UNCHANGED ident
       \/ SpawnFails /\ UNCHANGED <<child, pty>>
    /\ UNCHANGED <<lane, claim, status, flags, loops>>
Hit == child' = IF child = "run" THEN "dying" ELSE child
\* the terminal is closed and the wrapper killed; then it is waited for.
Undo == Goto("reap") /\ pty' = FALSE /\ Hit
Register ==
    /\ main = "register"
    /\ \/ Goto(After.register) /\ UNCHANGED <<child, pty>>
       \/ child # "none" /\ Undo
       \/ child = "none" /\ Goto("release") /\ UNCHANGED <<child, pty>>
    /\ UNCHANGED <<lane, claim, status, ident, flags, loops>>
Raw ==
    /\ main = "raw"
    /\ \/ Goto("active") /\ UNCHANGED <<child, pty>>
       \/ Undo
    /\ UNCHANGED <<lane, claim, status, ident, flags, loops>>

\* Mutant of Reaped: the wrapper was signalled, and that is enough.
ReapedAlready == TRUE

Reaped == child = "exited"
Reap ==
    /\ main = "reap" /\ Reaped /\ Goto("release") /\ status' = "offline"
    /\ UNCHANGED <<lane, claim, child, pty, ident, flags, loops>>
\* the record, then the loops.
Active ==
    /\ main = "active" /\ Goto("wait")
    /\ status' = "active" /\ poll' = "tick" /\ inject' = "wait" /\ typist' = "read"
    /\ UNCHANGED <<lane, claim, child, pty, ident, flags, killer>>

(***************************************************************************)
(* The end                                                                 *)
(***************************************************************************)
\* requestShutdown works once: it stops the loops, signals the wrapper, and
\* leaves a goroutine behind that hangs up and kills.
RequestShutdown ==
    /\ down' = TRUE /\ stop' = TRUE
    /\ killer' = IF down THEN killer ELSE "hangup"
Ended ==
    /\ main \in {"wait", "lost"} /\ child = "exited" /\ Goto("join") /\ stop' = TRUE
    /\ UNCHANGED <<lane, claim, child, pty, status, ident, down, lost, loops>>
\* remote: a tick has failed, whatever the reason.
ChannelLost ==
    /\ main = "wait" /\ lost /\ Goto("lost") /\ RequestShutdown
    /\ UNCHANGED <<lane, claim, child, pty, status, ident, lost, poll, inject, typist>>
\* whoever writes to the terminal holds ptmxMu until the write returns.
MutexFree == inject # "type" /\ typist # "type"
\* the poll loop is waited for, the inject loop is not; then closePTY.
Joined == poll = "done" /\ MutexFree
Join ==
    /\ main = "join" /\ Joined /\ Goto("offline") /\ pty' = FALSE
    /\ UNCHANGED <<lane, claim, child, status, ident, flags, loops>>
Offline ==
    /\ main = "offline" /\ Goto("release") /\ status' = "offline"
    /\ UNCHANGED <<lane, claim, child, pty, ident, flags, loops>>
\* a lease that is not ours any more is left alone.
Release ==
    /\ main = "release" /\ Goto("forget") /\ claim' = IF claim = "mine" THEN "none" ELSE claim
    /\ UNCHANGED <<lane, child, pty, status, ident, flags, loops>>
Forget ==
    /\ main = "forget" /\ Goto("ended") /\ ident' = FALSE
    /\ UNCHANGED <<lane, claim, child, pty, status, flags, loops>>

(***************************************************************************)
(* The goroutines                                                          *)
(***************************************************************************)
Running == ~Over
\* SIGINT, SIGTERM or SIGHUP to serve, once the handler is there.
Signal ==
    /\ main = "wait" /\ ~stop /\ RequestShutdown
    /\ UNCHANGED <<lane, main, claim, child, pty, status, ident, lost, poll, inject, typist>>
\* pollOnce.  Locally only a lost lease is an end; every other trouble is logged.
Fenced == claim # "mine"
Poll ==
    /\ Running /\ poll = "tick"
    /\ \/ Fenced /\ RequestShutdown /\ poll' = "wait" /\ lost' = remote
       \/ ~Fenced /\ poll' = "save" /\ UNCHANGED <<down, stop, lost, killer>>
       \/ remote /\ RequestShutdown /\ poll' = "wait" /\ lost' = TRUE
    /\ UNCHANGED <<lane, main, claim, child, pty, status, ident, inject, typist>>
PollSave ==
    /\ Running /\ poll = "save" /\ poll' = "wait" /\ status' = "active"
    /\ UNCHANGED <<lane, main, claim, child, pty, ident, flags, inject, typist, killer>>
PollWait ==
    /\ Running /\ poll = "wait" /\ poll' = IF stop THEN "done" ELSE "tick"
    /\ UNCHANGED <<lane, main, claim, child, pty, status, ident, flags, inject, typist, killer>>
\* a wake may be taken after the stop: select chooses among what is ready.
Wake ==
    /\ Running /\ inject = "wait" /\ ~down /\ inject' = "ask"
    /\ UNCHANGED <<lane, main, claim, child, pty, status, ident, flags, poll, typist, killer>>
\* writePTY refuses after the shutdown, else it asks for ptmxMu. A wake for mail
\* that is gone is retired and saved, a stale one is dropped.
Ask ==
    /\ Running /\ inject = "ask"
    /\ inject' \in (IF down THEN {} ELSE {"lock"}) \cup {"save", "wait"}
    /\ UNCHANGED <<lane, main, claim, child, pty, status, ident, flags, poll, typist, killer>>
\* it has ptmxMu: the terminal is gone, or the write begins.
InjectLock ==
    /\ Running /\ inject = "lock" /\ MutexFree /\ inject' = IF pty THEN "type" ELSE "save"
    /\ UNCHANGED <<lane, main, claim, child, pty, status, ident, flags, poll, typist, killer>>
\* the write has returned: after a Ctrl-C the cue follows, after the cue a save.
Typed ==
    /\ Running /\ inject = "type" /\ inject' \in {"ask", "save"}
    /\ UNCHANGED <<lane, main, claim, child, pty, status, ident, flags, poll, typist, killer>>
InjectSave ==
    /\ Running /\ inject = "save" /\ inject' = "wait" /\ status' = "active"
    /\ UNCHANGED <<lane, main, claim, child, pty, ident, flags, poll, typist, killer>>
InjectDone ==
    /\ Running /\ inject = "wait" /\ stop /\ inject' = "done"
    /\ UNCHANGED <<lane, main, claim, child, pty, status, ident, flags, poll, typist, killer>>
Inject == Wake \/ Ask \/ InjectLock \/ Typed \/ InjectSave \/ InjectDone
\* copyInput: what is typed into serve is written in the same way.
Copy(from, to) ==
    /\ Running /\ typist = from /\ typist' = to
    /\ UNCHANGED <<lane, main, claim, child, pty, status, ident, flags, poll, inject, killer>>
Typist ==
    \/ Copy("read", IF down THEN "done" ELSE "lock")
    \/ MutexFree /\ Copy("lock", IF pty THEN "type" ELSE "done")
    \/ Copy("type", "read")
\* closePTY, which waits for ptmxMu; only then the kill.
Hangup ==
    /\ Running /\ killer = "hangup" /\ MutexFree /\ killer' = "kill" /\ pty' = FALSE
    /\ UNCHANGED <<lane, main, claim, child, status, ident, flags, poll, inject, typist>>

\* Mutant of Kill: the hangup is all there is.
KillPolite == UNCHANGED child

Kill == Hit
KillerKills ==
    /\ Running /\ killer = "kill" /\ killer' = "done" /\ Kill
    /\ UNCHANGED <<lane, main, claim, pty, status, ident, flags, poll, inject, typist>>

(***************************************************************************)
(* The world                                                               *)
(***************************************************************************)
ChildEnds ==
    /\ child \in {"run", "dying"} /\ child' = "exited"
    /\ UNCHANGED <<lane, main, claim, pty, status, ident, flags, loops>>
\* a signal or a hangup ends a wrapper that listens; a killed one always ends.
Must == child = "dying" \/ (child = "run" /\ ~deaf /\ (down \/ ~pty))
\* a write returns when its bytes are read, or when nobody is left to read them.
Returns == ~full \/ child = "exited"
\* a rival's reclaim, an update's invalidation, a wipe
LeaseLost ==
    /\ claim = "mine" /\ ~Over /\ claim' = "lost"
    /\ UNCHANGED <<lane, main, child, pty, status, ident, flags, loops>>
\* SIGKILL, a panic, or a signal before the handler was there.
Killed ==
    /\ ~Over /\ main' = "killed" /\ pty' = FALSE
    /\ UNCHANGED <<lane, claim, child, status, ident, flags, loops>>

Init ==
    /\ remote \in BOOLEAN /\ deaf \in BOOLEAN /\ full \in BOOLEAN
    /\ main = "start" /\ claim = "none" /\ child = "none" /\ pty = FALSE
    /\ status = "none" /\ ident = FALSE /\ down = FALSE /\ stop = FALSE /\ lost = FALSE
    /\ poll = "off" /\ inject = "off" /\ typist = "off" /\ killer = "off"

Main == Start \/ Lease \/ Identity \/ Spawn \/ Register \/ Raw \/ Reap \/ Active
        \/ Ended \/ ChannelLost \/ Join \/ Offline \/ Release \/ Forget
PollLoop == Poll \/ PollSave \/ PollWait
Killer == Hangup \/ KillerKills
Next == Main \/ Signal \/ PollLoop \/ Inject \/ Typist \/ Killer
        \/ ChildEnds \/ LeaseLost \/ Killed

Spec == Init /\ [][Next]_vars
\* goroutines are scheduled, timers fire, a wrapper that must end does, a write
\* whose bytes are read returns, and ptmxMu is handed to who waits for it
FairSpec == Spec /\ WF_vars(Main) /\ WF_vars(PollLoop) /\ WF_vars(Killer)
                 /\ WF_vars(Must /\ ChildEnds)
                 /\ WF_vars(Returns /\ Typed) /\ WF_vars(Returns /\ Copy("type", "read"))
                 /\ SF_vars(Join)

(***************************************************************************)
(* Properties                                                              *)
(***************************************************************************)
\* The types; a serve that has ended, however early it failed, leaves no wrapper,
\* no lease of its own, no identity record and no open terminal behind.
TypeOK ==
    /\ {remote, deaf, full, pty, ident, down, stop, lost} \subseteq BOOLEAN
    /\ main \in {"start", "lease", "identity", "spawn", "register", "raw", "reap", "active",
                 "wait", "lost", "join", "offline", "release", "forget", "ended", "killed"}
    /\ claim \in {"none", "mine", "lost"} /\ child \in {"none", "run", "dying", "exited"}
    /\ status \in {"none", "active", "offline"}
    /\ poll \in {"off", "tick", "save", "wait", "done"}
    /\ inject \in {"off", "wait", "ask", "lock", "type", "save", "done"}
    /\ typist \in {"off", "read", "lock", "type", "done"} /\ ~(inject = "type" /\ typist = "type")
    /\ killer \in {"off", "hangup", "kill", "done"}
    /\ main = "ended" => child \in {"none", "exited"} /\ claim # "mine" /\ ~ident /\ ~pty

\* The lease is given back only when the wrapper is gone: nobody is admitted
\* beside a wrapper that is still there, not even one that could not be enrolled.
ReleasedAfterChild ==
    [][claim = "mine" /\ claim' = "none" => child \in {"none", "exited"}]_vars

\* No poll in flight writes "active" over the offline record; only a wake that was
\* being injected when the wrapper ended still can.
OfflineStays == [][status = "offline" /\ status' = "active" => inject = "save"]_vars

\* A lane that lost its lease, or was asked to stop, ends, with a wrapper that
\* listens to nothing as well; unless serve is killed, or a write into a wrapper
\* that neither listens nor reads never returns and keeps the killer waiting.
Jammed == ~MutexFree /\ deaf /\ full /\ killer = "hangup"
LostEnds == [](((main = "wait" /\ claim = "lost") \/ down) => <>Over \/ <>[]Jammed)

\* What pollOnce says of it: a lane whose claim was taken stops typing and ends.
FencedEnds == (main = "wait" /\ claim = "lost") ~> Over
=============================================================================
