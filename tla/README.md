# agentchute in TLA+

agentchute is a mail bus for coding agents: a directory tree shared by agents on
one or more hosts (the *loop*, or pool), one command line program that works on
it, and a supervisor (`agentchute serve`) that wraps an agent's terminal and
types a cue when mail is waiting. There is no daemon and no database: the state
is files, the transactions are `link`, `rename`, `unlink` and `fsync`, mutual
exclusion is one `flock` per agent. A pool on another machine (a *hub*) is
reached over ssh. This directory models the parts whose correctness depends on
the order in which processes, crashes, connections and harness callbacks fall,
and leaves formatting, path handling and configuration aside.

Paths below are relative to `src/internal/` unless they start with `src/`.

## 1. The system

| Part | State | Operations | Interacts with |
|---|---|---|---|
| Serve lease (`loop/lease.go`, `loop/filelock_*.go`) | `serve.claim`: token, host, pid, boot id, `last_seen`; the agent's `.lock` | acquire, reclaim, renew, release, invalidate all | serve processes, update and setup, every fenced writer |
| Fenced writers (`loop/floor.go`, `loop/seq.go`, `op/consume_fence.go`) | the token in their environment | mint a stamp, deliver, claim or archive a message | the lease, under the same or another lock |
| Mailbox (`loop/inbox.go`, `op/claim.go`, `op/ack.go`) | inbox, `.claimed`, archive, malformed | deliver, claim, redeliver, archive, quarantine | senders, check, ack, turn-end |
| Turn end (`loop/guard.go`, `cli/check.go`, `cli/ack.go`, `cli/turn_end.go`, `op/gate.go`) | `guard.latch`, `turn-end.last-block` | arm, clear, archive, evaluate, block or let go | the harness's Stop hook, the agent's own commands |
| Runner (`cli/serve.go`, `cli/serve_identity.go`) | wake attempt, pending period, wake channel; `runner.json`, identity record, the wrapper | launch, tick, enqueue, wait, type, complete; shut down, kill, release | the inbox, the PTY, the lease |
| Send path (`op/send.go`, `cli/send.go`, `loop/floor.go`, `loop/seq.go`) | `send.floor`, the spool of undelivered bodies | preflight, compose, mint, deliver, preserve | registrations, the recipient's lock, the owed ledger |
| Owed ledger (`loop/owed.go`, `op/cleanowed.go`) | `owed.json` of the asker | record, clear, prune | send, check |
| Roster (`loop/registration.go`, `loop/sweep.go`, `op/register.go`, `cli/clean.go`) | one row per agent, its inbox directory | register, boot, self-check, heartbeat, sweep, clean | serve's tick, send's reachability |
| Supervision channel (`op/channel.go`) | lease, row template, sweep throttle | acquire, register, tick, release | runner; local or across the hub |
| Hub session and wire (`cli/hub_session.go`, `hubwire/`, `hubclient/session.go`, `hubclient/channel.go`) | a forced-command ssh session, request ids | one request after the other, streamed events, a terminal frame | op layer on the hub, client commands |
| Hub join, keys, migration (`cli/hub_join.go`, `cli/hub_keys.go`, `cli/hub_migrate.go`, `cli/hub_authorize.go`, `cli/hub_lock_*.go`) | hub directory, key versions, `authorized_keys`, migration marker | join, rotate, authorize, revoke, move | remote lanes through shared locks |
| Setup, wipe, update (`cli/setup*.go`, `cli/update.go`, `cli/hooks.go`, `cli/hookmerge.go`, `cli/shims.go`, `cli/init.go`) | hook files, scaffold, dispatcher, profile, recorded choice, the installed binary; the pool's runtime state | install, swap, re-sync, fence; scan, plan, delete | every live lane |
| Guard denials, doctor, read side, discovery, PTY | none of their own | classify a command, report, resolve a path, copy bytes | harnesses |

### What is hard, and what makes each part right

- **Serve lease.** A lane may crash, its host may reboot and recycle pids, a
  clock may step back, a claim may come from an older binary or be torn. A
  paused holder may resume after its claim was taken. Right means: at most the
  token in the claim writes; a token that lost the claim never gets it back; a
  lane that this host can see running is not reclaimed.
- **Mailbox.** A move is up to five system calls, so a kill, a failed `fsync` or
  a power cut leaves two links, or one that is not on disk. Right means:
  accepted mail is in some place until it is settled, what was shown stays held
  or settled, nothing is archived twice or overwritten, nothing starves.
- **Turn end.** Commands of one lane overlap, are killed by timeouts, and a
  crashed lane comes back as another session over the same files. Right means:
  a session that holds shown mail is latched, a stop is let through only on
  evidence, and no agent is blocked for ever.
- **Runner.** Two goroutines hold one lock briefly, share a channel of capacity
  one and act on what they saw before; a shutdown has a third. Right means: no
  cue is lost for good, no stale attempt touches a newer period, the lease
  outlives the wrapper, and a lane that must end does.
- **Send path.** A stamp is written before the message, the obligation after it;
  the recipient may be swept in between. Right means: stamps grow, a reported
  failure means no delivery, an obligation is neither lost nor cleared by a third
  party.
- **Roster.** A sweep decides on a scan and deletes under a lock; a heartbeat
  writes beside it. Right means: a row that was refreshed, or whose lane is
  alive, survives, and a dead one goes in the end.
- **Hub session.** The connection may be lost after any frame. Right means: the
  client never reports as failed what may have been delivered, prints only what
  happened, and a vanished client does not keep the lease.
- **Hub join and move.** Every step can be the last; the command is run again.
  Right means: the authorized key is never destroyed, no file is removed that was
  not copied, no process has the directory renamed under it, and a repeated join
  ends.
- **Setup, update, wipe.** Right means: what people wrote survives a kill wherever
  the code makes a backup, a recorded choice stays, no lane is fenced into hooks
  that do not fit, nothing is deleted under a live lane.

## 2. Modules

| Module | What it is |
|---|---|
| `FencedOwner` | abstract: one owner token at a time, each token at most once, fenced writes by the owner only |
| `ServeLease`, `ServeLeaseProofs` | the claim file, its lock, serve processes, fenced commands, the invalidation sweep; its theorems |
| `Delivery` | abstract: a message is held, shown, settled |
| `Mailbox`, `MailboxProofs` | the moves of one recipient's mail, system call by system call; its theorems |
| `RunnerWake`, `RunnerWakeProofs` | the runner's poll and inject goroutines; its theorems |
| `ServeRun` | one life of `serve`: launch, loops, shutdown, release |
| `TurnEnd`, `TurnEndProofs` | a lane's check, ack and turn-end over its turns and launches; its theorems |
| `Send`, `SendProofs` | send processes, the floor, delivery, the spool, the owed ledger; its theorems |
| `Roster` | rows, inboxes, claims and everybody who writes or sweeps them |
| `HubSession` | client and hub sessions over connections that die |
| `HubJoin` | the keys of a joining machine and the hub's `authorized_keys` |
| `HubMove` | the move of a joined hub to a new URL |
| `Setup` | setup and update of one machine |
| `Wipe` | `setup --reset --wipe-state` |
| `RosterProofs`, `HubProofs`, `SetupProofs` | the theorems about `Roster` and `ServeRun`, about the hub's modules, and about `Setup` and `Wipe`; they extend the module that puts the parts together |
| `MCServeLease`, `MCMailbox`, `MCRunnerWake`, `MCTurnEnd`, `MCSend`, `MCRoster`, `MCHub`, `MCSetup` | instances for TLC |

Definitions whose comment starts with "Mutant of" are plausible bugs of the
definition they name. They are in no specification; substituting one for the
original makes the property it belongs to fail (`PROJECT.json`, "mutants"), which
shows that the property depends on the code.

How the modules meet. `ServeLease` is about one agent's claim; every other module
that needs a claim uses an abstraction of it: `Roster` a claim with a writer and
an age, `ServeRun` "mine" or "lost", `HubSession` the connection that holds it,
`Wipe` its age. `Send` ends where a message is linked into an inbox; `Mailbox`
begins there (`SendLink`), with landings that may repeat. `RunnerWake` assumes
that a lane runs, `ServeRun` what starts and ends it. `MCRoster`, `MCHub` and
`MCSetup` put components of one subsystem into one instance: a variable `side`
says which of them a behaviour is about, and the others stand still. They do so
because the parts share an instance and not because they share state.

### ServeLease

| TLA+ | code |
|---|---|
| `claim` | `serve.claim`; `Unreadable` is a torn or foreign file, `NoHost` and `NoBoot` fields an older binary left empty |
| `lock` | the flock of `state/<id>/.lock`, dropped by the kernel when its holder dies |
| `clock`, `Skew`, `boot` | a reference clock that may step back, each host's offset, each host's boot id |
| `pc`, `tok`, `view` | a serve process: where it is, its token, the record it is about to write |
| `cpc`, `ctok`, `cnow` | a short-lived command, the token it inherited (`NoToken` for none, `NoKey` for a hub request without the `serve_token` key), the time of its consume check |
| `Start` .. `AcquireRename` | `AcquireServeLease`: mint, lock, link, or decide on the holder and rename |
| `RenewVerify`, `RenewWrite`, `RenewFenced` | `RenewServeLease` |
| `ReleaseVerify`, `ReleaseRemove` | `ReleaseServeLease` |
| `Snapshot`, `InvalidateLock`, `InvalidateRemove`, `InvalidateSkip` | `InvalidateAllServeLeases` |
| `MintVerify`, `MintPersist` | the check and the write of `MintSendStamp`, one lock hold |
| `ConsumeVerify`, `ConsumeMove` | `fencedMutation`: `consumeFence` (`MayConsume`) and the move, one lock hold |
| `DeliverVerify`, `DeliverLink` | `DeliverUnderRecipientLock`, under *another* agent's lock |

A critical section is two steps, so whatever does not take the lock falls
between: crashes, reboots, clock steps, the deliveries. The claim file can be
damaged only while the lock is free. An unreadable claim stops acquire and renew
and lets the consume fence pass, as in the code. So does a check or ack request
from a client that predates the fence: the hub runs it `Unfenced`
(`cli/hub_session.go:322`), and it moves the mail of a live lane, whoever holds the
claim. `ConsumeExclusive` leaves these requests out, and only these. The initial
states include the
claim of a lane of an older binary. `spent` and `wrote` are history variables.
`SetClaim` is the one place the claim changes and the history with it.

`FencedOwner` is what the rest of the system relies on. `ServeLease` implements
it with `owner` = the token of a readable claim (`PromiseSpec`).

### Mailbox

| TLA+ | code |
|---|---|
| `file[m][place]` | the inode of identity `m` in inbox, `.claimed`, `archive` or `malformed` at a second; a second landing of an identity is a new inode |
| `disk` | what is certain to survive a power cut: a directory's entries at its last sync |
| `cmd[c].stage` | which loop of `Claim` or `Ack` the command is in |
| `cmd[c].step` | where in the current move: `want` the lock, `link`, `sync`, `remove`, `syncsrc`, `syncdst`, `show` |
| `Kind` | what check makes of the file: good, bad name, bad body, over the size cap |
| `Link`, `LinkExists`, `SourceGone`, `Sync`, `SyncFails`, `Remove`, `SyncSrc`, `SyncDst`, `StepFails` | `ClaimMessage`, `ArchiveMessage`, `QuarantineInboxFile`, `linkNoClobber` with their EEXIST and ENOENT cases |
| `SendLink`, `SendSync`, `SendSyncFails` | `writeTsMessage` |
| `Kill`, `SenderKilled`, `PowerCut`, `Tick` | the environment |

Kills, power cuts and I/O errors are counted in `faults` and bounded by `Kills`,
`Cuts`, `Errors`; they happen while `sec < MaxSec`, so that the last one is
followed by a fault-free suffix in which liveness can be asked. A refused lock
or fence is `Refused`. After a power cut every entry that differs from `disk`
is kept, reverted or gone, independently. The listing's order is the message
number. Not modelled: `--no-archive`, the owed discharge (in `Send`), the text of
a message.

`Mailbox` implements `Delivery` with held = claimed or inbox, settled = archived
or quarantined.

### RunnerWake

One step is one hold of `r.mu`, one channel operation, or one access to the
inbox or the PTY. `attempt`, `wakeCh`, `retired`, `recue`, `injected`, `due` and
`lastPending` are the runner's fields; `ppc`/`pending`/`asRecue`/`queued` and
`ipc`/`current` are the two goroutines' program counters and locals. Attempt
identities stand for pointers, so a fresh one differs from all that are still
referenced. `remote` is chosen in the initial state: a remote lane's recheck
reads the last tick, a local one's reads the inbox. `interrupts` is history.
A failed tick changes nothing and is left out.

### ServeRun

| TLA+ | code |
|---|---|
| `main` | where `runWrapper` (local) or `runRemoteWrapperOnce` (remote) stands; `After` is the order of their steps, which differs |
| `claim`, `child`, `pty`, `status`, `ident` | the lease, the wrapper process, its terminal, `runner.json`, the Muse identity record |
| `Spawn`, `Register`, `Raw`, `Undo`, `Reap` | the start, each step with its failure and what the failure takes back |
| `Signal`, `Fenced`, `ChannelLost`, `RequestShutdown` | what asks for the end: a signal, a lost lease, a failed channel |
| `Hangup`, `KillerKills` | the goroutine of `requestShutdown`, which closes the terminal and then kills |
| `Ask`, `InjectLock`, `Typed`, `Typist` | `writePTY` from `injectLoop` and from `copyInput`: refuse after the shutdown, take `ptmxMu`, write, let go; `MutexFree` |
| `Ended`, `Join`, `Offline`, `Release`, `Forget` | the end: stop the loops, wait for the poll loop, write offline, give the lease back |
| `Poll`, `PollSave`, `Wake`, `InjectSave` | the loops, as far as they write the runner's record |

`deaf` wrappers ignore SIGTERM and the hangup; `full` ones do not read what is
written to their terminal, so that a write may wait. `Killed` ends `serve` at any point
without its deferred calls. What the wrapper does is the environment's.

### TurnEnd

| TLA+ | code |
|---|---|
| `live` | the running session: serve token and harness session together; `Relaunch` starts the next one |
| `guarded` | sessions with a serve token and `AGENTCHUTE_GUARD=1` (`resolveGuardSession`) |
| `latch` | the session in `guard.latch`, 0 without a file |
| `hook` | the end-of-turn contract: `retry` (Claude Code, codex, Gemini CLI with evidence of the turn), `noturn` (the same without it, or a remote lane), `muse`, `agy` |
| `record`, `told` | `turn-end.last-block`; the blocks this turn returned (history) |
| `CheckStart` .. `CheckEnd` | `op.Claim` with the emitter of `cli/check.go`: arm at the first rendering, and on residue at the end |
| `AckStart` .. `AckDone` | `ack`, refused while the own latch is set |
| `StopHook`, `AckList`, `Commit`, `ClearLatch`, `Gate` | turn-end: archive unless the latch is foreign, clear, evaluate |
| `Clear`, `RetryHook`, `NoTurnHook`, `OtherHook` | the verdict |
| `Killed`, `CommitGone` | the hook dies or fails: the harness ends the turn without a verdict (`phase = "failed"`) |

A move of a file is one step here (its inside is `Mailbox`). Not modelled: a
latch that cannot be written (the code warns and goes on), a corrupt latch, a
`turn-end` run by hand, missing registrations and the other phases of the gate.
Malformed files count as unread mail for the gate and are not told apart.

### Send

| TLA+ | code |
|---|---|
| `job`, `send[s]` | what a send process was asked for; its stage, start, ref, identity, spool name |
| `floor`, `Mint` | `send.floor` and `MintSendStamp`: the clock or one more than the floor, saved before it is used |
| `Preflight`, `Compose` | `SendPreflight` without a lock; size cap and envelope in `cmdSend` |
| `DeliverLock`, `Recheck`, `Link`, `SyncInbox`, `SyncFails` | `DeliverUnderRecipientLock` and `writeTsMessage`; a link whose sync failed is a delivery whose failure is only a warning |
| `OweLock`, `Owe`, `OweFails` | `RecordOwed`, after the delivery |
| `TimesOut`, `Preserve` | lock timeouts; the spool of a body that was not delivered, `O_EXCL` |
| `keep`, `ClearLock`, `PruneStart`, `PruneLock`, `SaveLedger` | `ClearOwed` (a check that consumed the reply) and `CleanOwed`: read under the lock, rename |
| `SetClock`, `RowBack`, `RowAges`, `RowTorn`, `RowSwept`, `Killed` | the environment, counted by `faults` |

A stamp stands for an identity: the random suffix is left out, and with it the
retry of a collision, which needs two equal suffixes on equal stamps.
`send[s].after` (the stamps of the sender that had landed when the send began) is
history.

### Roster

| TLA+ | code |
|---|---|
| `row`, `inbox`, `claim`, `lock` | `agents/<id>.md` (age, readable or not, with a body or not, whose token wrote it), the inbox directory, the claim, the lock where a hold is more than a step |
| `Register`, `PublishInbox`, `PublishRow`, `Refuse` | `publishRegistrationOnce` as used by register, boot, self-check and a launch: inbox first, then the row, under one lock |
| `Launch`, `Tick`, `Renew`, `Beat`, `Release` | a lane: lease, then `Channel.Tick` (renew, heartbeat, sweep); the heartbeat takes no part in the publish |
| `Scan`, `SweepOne`, `SweepFails`, `SweepEnds` | `SweepStaleRegistrations`: clock and listing first, then each candidate under its lock, with the cap; a failed candidate does not end the pass |
| `CleanStart`, `CleanMailbox` | `clean --mailbox`: refusals first, asked again under the lock |
| `Killed`, `Torn`, `ClockTicks` | the environment |

The ten-minute throttle of the sweep is a choice in `Tick`.

### HubSession, HubJoin, HubMove

`HubSession`: every attempt has a connection of its own; `up` and `down` are the
frames in flight, `alive` whether the network still carries them, `hub[k]` the
session sshd started for it (`Hello`, `Acquire`, `Register`, `Tick`, `Send`,
`Query`, `Stream`, `ClaimOne`, `AckOne`, `Finish`, `End`), `client[c]` the client
process (`Dial`, `Write`, `HelloOK`, `Streamed`, `Answered`, `Lost`, `TimesOut`,
`LossCode`). `Cut` kills a connection and keeps any prefix of what was in flight.
`LossCode` is the decision that matters: a send whose frame went out is reported
as unknown. What the codec rejects, an operation refuses or a host lacks is one
refusal. A lane goes through lease, register and ticks and is relaunched after a
loss (`runRemoteWrapper`).

`HubJoin`: a key is the number of the `ssh-keygen` run that made it; `priv`,
`pub`, `broken`, `link` are the keys directory, `conf` and `pointer` what a join
records, `lines` the hub's `authorized_keys`, `auth[z]` a session of
`hub authorize` (over ssh, pasted by the operator, or of a peer). The actions
follow `prepareHubKey`, `ensureHubKeyPublic`, `mintHubKey`, `finishHubJoinKey`,
`promoteHubKey`, `pruneOlderHubKeys`, and `authorizeHubKey` under its file lock.
A kill after every step that leaves something on a disk; an unreachable hub, a
lost answer and a revocation are faults.

`HubMove`: `tree` is the old directory, the new one, the partial copy and the
frozen origin; `ex` and `sh` the hub locks; joins (`Find`, `Copy`, `Mark`,
`Rename`, `Point`, `Freeze`, `Verify`, `Delete`, `Unmark`, then the ordinary
join) and holders (`Resolve`, `Share`, `Identify`, `Write`, `Release`) run beside
each other. A file is a number. `live` is history: the files whose writers have
not replaced them.

### Setup, Wipe

`Setup`: `StartSetup` .. `StopEnds` are phases 0 to 3 of `applySetup` (hook files
brought up to date, verified; scaffold; hooks dropped and installed; dispatcher
and profile; the recorded choice; the lanes), `StartUpdate` .. `Cut` is
`cmdUpdate`, which replays the choice with the new binary and fences last. A hook
file is its state, the release of agentchute's part, and the project's own
entries; the merge is modelled by what it keeps. A write that truncates first is
two steps (`InitSpecWrite`, `InitEnrolWrite`, `DispatcherWrite`, `ProfileWrite`);
a hook file is replaced by rename and is one. `Edit`, `Break`, `Mend` are the
project's people. `wrote` and `theirs` are history.

`Wipe`: `Start` lists the ids once, `Stop`/`Wait` end the processes this host can
prove to be its own, `Scan` and `Rescan` look for signs of life before and after
the approval, `DeleteBoxes`/`DeleteRows`/`DeleteState` delete what was planned,
`LeftBoxes`/`LeftState` look again, `Clean` removes binary backups, `Report`
prints success. Lanes launch, enroll, beat and leave beside it. `renewed` and
`late` are history: what was written after the wipe's last look, which no scan
could have seen. A process on record is a sign of life in three ways: it is the
lane's (`Runs`), or its pid was given to another process meanwhile (`Reuse`, the
ambiguous case of `cli/setup_wipe.go:584`), or a poller of an old release left it
(`poller`, `cli/setup_wipe.go:594`). `Alive` is any of them, and each refuses the
wipe; `Stop` only ends the lane's own process and pollers. `OtherEnds` is the end
of another process.

## 3. Runs

| Run | Question | Instance | Distinct states |
|---|---|---|---|
| `Lease` | May a lost token come back, a live lane be robbed, a fenced write happen under another token? Does the claim implement `FencedOwner`? | two casts: three lanes on two hosts, 2 boots, clock to 2; or two lanes, a command and an update. 3 tokens, timeout 1 | 1.9 M |
| `MailKill` | Do races and kills lose, duplicate or hide mail? Is it a `Delivery`? | 2 commands, 2 messages, one landing twice, one too big; 1 kill | 2.2 M |
| `MailPower` | Do power cuts and I/O errors? Is everything settled in the end? | 1 command, 3 messages of 3 kinds, one landing twice; 1 cut, 1 error | 0.45 M |
| `MailKillThenCut` | violation: rendered and then lost | 1 command, 1 message, 1 kill, 1 cut between two commands; no ack | |
| `Wake` | Is every wake in somebody's hands and every mail cued? | 3 attempts, 2 mails at a time, interrupts on, local and remote | 0.63 M |
| `Turn` | Is a session that holds shown mail latched, and released? Who is let go, who is blocked for ever? | two casts: 2 commands and 1 message, or 1 and 2; 2 sessions, 2 turns, every hook | 0.63 M |
| `Send` | Do stamps grow, are reports true, are obligations kept? | 3 sends of two agents (an ask, its answer, one to herself; or two of one agent to one recipient and one refused, of which the first is tried twice), 1 keeper, clock to 2, 1 fault | 1.6 M |
| `Roster` | Do live rows stay, and stale ones go? Does a lane end, and in order? | five casts of lanes, commands and sweeps over three ids, clock to 3, cap 1, at most 1 fault; or one `serve`, local or remote, its wrapper deaf or not, reading or not | 0.50 M |
| `RosterJam` | violation: a fenced lane that never ends | as `Roster` | |
| `Hub` | Is what a client reports true? Is any key or file lost? Does a join converge? | five casts of two clients, 3 connections, 2 mails, up to 2 faults; 3 keys and 2 faults; 2 joins, 1 holder, 2 uses, 2 faults | 0.63 M |
| `Setup` | Is anything of the people's lost, are lanes fenced last, are live ones spared, does a repetition heal? | 2 wrappers, one with a settings file, 2 releases, 1 lane, 1 fault; or 2 agents, one on another host, 2 launches, or one and a fault | 0.82 M |
| `WipeRow` | violation: a fresh row is deleted | as `Setup` | |

Why these bounds are enough to meet the interesting cases. *Lease*: three tokens
are a holder, its reclaimer and one that comes after both; two lanes on one host
and one on another give pid evidence and its absence; two boots recycle pids;
the clock passes the timeout and steps back below it. *Mailbox*: two commands
give every overlap of two moves of one message; an identity that lands twice
gives the dedup paths; `MaxSec = 1` gives two archive names for one identity;
the too-big message is first so that whatever starves, starves the good one
behind it. *Wake*: a fresh attempt is made only while none is outstanding, and
then only the inject loop can hold an old one; a third attempt shows that no more
are referenced together. *Turn*: two sessions make a foreign latch, two turns a
foreign record, two messages a set that changes while its size does not. *Send*:
two sends of one agent meet under one floor, and two times are a clock that
stands or steps back; a retry needs one fault before it. *Roster*: stale, within
the tolerance and beyond it are three distances of a clock that goes to 3; two
stale rows under a cap of one show starvation, a third id sweeps them. *Hub*: a
lost first attempt, a relaunch, and a rival need three connections; a rotation
that is interrupted, adopted and rotated again needs three keys; a move, its
repetition after a kill, and another join between need two joins and two faults.
*Setup*: two releases are an upgrade and a downgrade; a kept and a dropped
wrapper need two.

`CHECK_DEADLOCK FALSE` is set for `Turn`, `Send`, `Roster`, `RosterJam`,
`Hub`, `Setup` and `WipeRow`: turns, jobs, processes and launches are bounded there, so
these systems really stop when all is done. The other models cannot stop except
at their bounds and are checked for deadlock.

### Properties

*Lease.* `Fencing`: whoever is past its fence check and inside the lock still
runs under the claim's token (`FencedWrite`), and a lane's mail is not moved under a
readable claim of somebody else that was fresh at the check, except by a request
without the key (`ConsumeExclusive`; no claim, an unreadable or a stale one leaves
nothing to steal from). `SpentForGood`: a token that lost the claim never
owns it again. `NoLiveSteal`, `SweepSparesNewcomers`, and the refinement
`PromiseSpec`.

*Mailbox.* `Placed`: an accepted message is in one of its places, also in the
middle of a move and after a kill, and in exactly one while nothing failed and
nobody is inside the lock. `CommittedSeen`: without a fault, what is archived was
rendered or is about to be. `Durable`: what was accepted, rendered or archived is
still there after a power cut or an I/O error. `Progress`: every accepted message
is rendered or settled in the end. `PromiseSpec` is the refinement of `Delivery`.

*Runner.* `WakeInHand`: an outstanding wake is being sent, buffered or handled;
the non-blocking send always finds room; and an outstanding wake means that the
last tick saw mail. `PeriodOwned`: only the outstanding attempt changes its
period. `InterruptsBounded`: a period is interrupted at most three times, by its
first cue, by one that was due before that cue completed, and by a wake of the
period before that was retired while its Ctrl-C waited to be written.
`CuedInTheEnd`. `EndOrder`: the lease goes back after the wrapper is gone, and
no poll in flight overwrites the offline record. `LostEnds`: a lane that lost its
lease or was asked to stop ends, with a wrapper that listens to nothing as well,
unless a write into a wrapper that does not read keeps the killer waiting for ever
(`Jammed`; the run `RosterJam`).

*Turn end.* `HoldingLatchedAlone`: the latch covers what was shown, unless a turn
ended with a check still running. `LatchReleased`: the end of a turn releases it.
`RetryProven`: a let-go was preceded by a block of the same mail in the same
turn. `TurnsEnd`: nobody is blocked for ever where turns can be told apart
(without evidence, and for Antigravity, the code blocks as long as there is
mail, on purpose).

*Send.* `SendOrder`: a stamp is greater than every stamp of the same sender that
had landed when the send began, whatever the clock does. `ReportTrue`: a failure
that may be repeated delivered nothing, a success delivered under the identity it
names, a body lands once, and the retry command sends the body it was printed
for. `AskKept`: an obligation leaves the ledger for its answer or its deadline
only. `LandsOnRow`: no message is linked into the inbox of an agent without a row.

*Roster.* `RowKept`: the row of a live lane is neither removed nor written by
others, and no refresh loses a body. `SweptWhole`: a swept row is old, and only a
heartbeat brings a row back without an inbox. `SweptInTheEnd`: no stale row stays
while one lane keeps ticking, in spite of the cap and of broken locks.

*Hub.* `ReportsTrue`: a send reported as undelivered did not and will not land,
a heeded report delivers once, what was printed happened, a check that succeeds
leaves nothing behind, and no lane meets an order error. `KeysSafe`: the
authorized key is one that the machine can present, a concurrent authorization is
not lost, a recorded join is not undone. `MoveSafe`: a move loses no file, takes
the directory from nobody who holds it, and leaves the checkout on a joined hub.
`HubHeals`: a join that is run again ends joined (except in the two states listed
below), and a dead session gives the lease back.

*Setup.* `PeopleKept`: the hook entries, the profile's lines and the `ac` program
of the project's people are in place or in a backup (`OwnKept`); the lines of an
enrollment file, which has no backup, are lost only by a command that stops between
truncating and writing that very file (`EnrolKept`); and an update changes neither a
recorded choice of wrappers nor a recorded staleness threshold, which setup changes
only to the one it was given (`ChoiceKept`). `FenceLast`: a lane is
stopped only when the hooks fit the installed binary. `WipeSpares`: a wipe spares
live lanes and fresh rows it could have seen, reports success only if no lane
kept a claim, and removes no file that took the place of its own. `RepeatHeals`:
repeating setup brings hooks and binary in step again, and a repeated wipe succeeds
some time unless a lane, a process with a lane's old pid or an old poller lives on:
then it refuses for as long as that process lives.

Each module has a type invariant; those of `Roster` and `ServeRun`, of the hub's
modules, and of `Setup` and `Wipe` are checked together (`LaneTypeOK`,
`HubTypeOK`, `HostTypeOK`). They say more than types where the code does: a
`serve` that ended holds neither lease, identity nor wrapper; a wrapper that is
kept is never dropped; the pool's identity survives a wipe. The type invariants
of `ServeLease`, `RunnerWake` and `TurnEnd` are proved and not run.

### What the violation runs show

1. `MailKillThenCut` / `ShownSurvives`. A check killed between the `link` and the
   `fsync` of a claim leaves both names, of which only the inbox's is on the disk.
   The next check renders the message as residue, then claims it once more and takes
   the EEXIST path (`loop/inbox.go:349`), which removes the inbox name and syncs the
   inbox but not `.claimed`. A power cut after that check, before any `ack`, may
   leave no entry of a message that was rendered.
2. `RosterJam` / `FencedEnds`. `writePTY` holds `ptmxMu` while it writes
   (`cli/serve.go:1460`). If the wrapper has stopped reading, that write waits; the
   goroutine that `requestShutdown` leaves behind then waits for the same mutex in
   `closePTY` and never comes to the `Kill` (`cli/serve.go:1441`). A wrapper that
   hangs, and so neither reads nor handles SIGTERM, keeps `serve` from ending for as
   long as it lives, after another lane has taken the id. `cli/serve.go:1017` says
   that a fenced lane must "stop injecting and shut down cleanly".
3. `WipeRow` / `FreshRowRefuses`. The wipe looks for fresh rows among the ids it
   listed at the start (`cli/setup_wipe.go:569`), while it reads the claims of the
   whole pool anew. The row of an agent that registers by hand after that listing
   and before the plan is planned for, seen by neither look, and deleted fresh.

### Other divergences met while modelling

No run states these; they are visible in the definitions named.

- `DeliverUnderRecipientLock` (`loop/seq.go:329`) checks the sender's token under
  the recipient's lock. A reclaim takes the sender's lock, so it may fall between
  the check and the link (`DeliverVerify`, `DeliverLink`); `AGENTCHUTE.md:163`
  says such a send fails closed. The stamp is safe (`Fencing`).
- `ack` archives whatever is in `.claimed` (`op/ack.go:52`), also what a killed
  check never rendered; `op/claim.go:17` says it must never be archived.
  `CommittedSeen` is therefore about runs without a fault.
- `pollOnce` reads `injectedThisPeriod` under one hold of the lock and enqueues
  under the next (`cli/serve.go:1071`), and a wake that is retired after its last
  look (`cli/serve.go:1252`) still writes its Ctrl-C, in the next period. So a
  period may be interrupted three times where `cli/serve.go:1239` says once.
  `InterruptsBounded` shows that it is never more.
- turn-end archives, then clears the latch (`cli/turn_end.go:203`). A check left
  running may show a message in between: `HoldingLatchedAlone` excepts it.
- A sweep reads its clock once, before its scan, and judges by it again under each
  row's lock (`loop/sweep.go:172`). A row written between the scan and its removal,
  later than the tolerance after that reading, counts as infinitely old
  (`loop/sweep.go:292`, `TooOld`) and is removed, although `loop/sweep.go:180`
  treats a row that changed as "refreshed since the outer scan; not stale anymore".
  `AGENTCHUTE.md:298` limits the tolerance to two seconds as "slack for the pass
  itself", where a pass may wait five for one lock. The beat of a running lane is
  not concerned, since its claim is looked at too; `SweptIsOld` states what holds.
- A heartbeat recreates a row without its inbox (`loop/registration.go:212`)
  where a register makes both (`op/register.go:237`). `SweptWhole` says it is the
  only one that does.
- A remote lane that meets a held lease is not launched again
  (`cli/serve.go:714`); `src/proposal/ssh-hub/DESIGN.md:1690` has it wait.
- A staged key whose public half never reached the disk stops every later join
  (`cli/hub_keys.go:95`, `cli/hub_join.go:450`): `StagedStuck` in `HubHeals`.
- A move is not resumed when the new directory was used in the meantime
  (`cli/hub_migrate.go:356`): `Diverged` in `HubHeals`.
- A failed check or ack over a hub says that nothing happened when its first frame
  did not come back (`hubclient/session.go:428`); the hub may have acted.
  `ReportsTrue` is about what was printed.
- The dispatcher, the specification and the enrollment files are written in place
  (`cli/shims.go:263`, `cli/init.go:357`); a kill leaves an empty file, and the
  enrollment files have no backup.
- With two commands and an I/O error, a check that redelivers may render a message
  by an entry of `.claimed` whose maker then takes it back (`SyncFails`), so that the
  message is in the inbox again although it was shown. Delivery is at least once,
  and the reader sees it twice; `ShownIsHeld` is therefore about commands that run
  one at a time, or a disk that does not fail.
- `update` prints that the leases were not invalidated also when the setup it ran
  failed after it had fenced them (`cli/update.go:324`).

### Fairness

Faults, clock steps, launches, edits and everything people do are never fair
unless listed.

- `Mailbox!FairSpec`: commands that were started go on, senders that hold the
  lock release it, the clock ticks, and the lane runs `check` again and again
  (strong fairness, since it may also run `ack`): the lane's cue repeats while
  mail is unread, which is what `RunnerWake` shows.
- `RunnerWake!FairSpec`: weak fairness of the goroutines; strong fairness of the
  window and of the write, since the wrapper may go in and out of its busy state
  and the PTY may fail now and then; the wrapper reads its input some time, so that
  a Ctrl-C does not wait for ever (`ServeRun` has the wrapper that does not); weak fairness of the timer behind `due`.
- `ServeRun!FairSpec`: weak fairness of the main function, the poll loop and the
  shutdown goroutine, of the end of a wrapper that has been killed or that obeys
  (`Must`), and of the return of a write whose bytes are read, or whose wrapper is
  gone (`Returns`); strong fairness of `Join`, because Go hands a mutex to whoever
  has waited for it for a millisecond.
- `TurnEnd!FairSpec`: commands go on; strong fairness of the Stop hook, since an
  agent may be busy in all its slots for a while but a turn ends at last.
- `Roster!FairSpec`: one lane that is not killed goes on; its sweep comes due again
  and again, and a lock that is free again and again is taken within
  `agentLockTimeout` some time (strong fairness of `Tick` with the sweep due and
  of `SweepOne`); whoever publishes a row finishes.
- `HubMove!FairSpec`, `HubJoin!FairSpec`: a join that was started goes on, the
  operator runs it again and pastes what it prints (their property is about
  exactly that), sessions of `hub authorize` and holders of a hub finish.
- `HubSession`: sshd reports a closed connection to the session (`HangsUp`), the
  only thing the return of a lease rests on.
- `Setup!FairSpec`, `Wipe!FairSpec`: a started command goes on, setup is run again
  and people mend hook files they broke; the wipe is run again, and the claims and
  rows of lanes that have ended grow old. No other process gives a pid back and no
  old poller has to end (`Reuse`, `OtherEnds` are not fair).
- `ServeLease` and `Send` have no liveness property: nothing forces anybody to
  launch or to repeat a send.

## 4. Proofs

Checked by TLAPS, for every value of the constants that satisfies the
assumptions named in the modules (actors of different kinds differ, a slot's
host and pid identify it, bounds are natural numbers).

**ServeLeaseProofs.** `IInv` is inductive. Besides the checked invariants it
needs: `LockHeld` (a process between the two halves of a critical section is the
lock's holder), `TokensApart` (tokens are handed out once, and one that is still
on its way to the claim file has never been there), `ViewBuilt` (what a process
is about to write names its writer), `OwnerRecord` (the claim of a running owner
describes that owner, as far as it says anything), `ReclaimSound` (a process
about to rename over a claim found no running owner on its own host) and
`SweepTarget` (an operator inside the lock still looks at the claim of its
snapshot). Without `TokensApart` a reclaim could hand a spent token back, so
`SpentForGood` is not inductive by itself; `NoLiveSteal` is an action property
that follows from `ReclaimSound`, which needs `OwnerRecord` because the evidence
(pid not alive, or another boot) is about the process that wrote the record.
There is one lemma for each group of conjuncts, with a case per action. Theorems:
`TypeCorrect`, `Fenced`, `LostForGood`, `NoSteal`, `NewcomersSpared`, and
`Implements`, the refinement of `FencedOwner`.

**MailboxProofs.** An entry of a directory is *open* while the command that made
it is inside the lock and may take it back, and it *lasts* otherwise. `BaseInv`
says who is inside the lock (`Locked`), what a command may be doing and which
names its move has (`Lawful`, `Linked`, `Landing`), that a name of the archive is
used once (`FinalFresh`), and that two places of one message only exist between a
link and the removal of the same move (`Single`, `Seen`). `KeepInv` adds what
power cuts need: a lasting entry is on the disk (`Firm`), and nothing is on the
disk that has no lasting entry (`OnDisk`). Each of the many system calls is one
of a few kinds of step (`Stays`, `Adds`, `Undoes`, `Moves`, ...); a kind is shown
once to keep the invariant. Theorems: `TypeCorrect`, `OnePlaceAlways`,
`CommittedWasSeen`, `ArchiveStays`; under "no power cuts, or no kills"
`NothingLost`, `AlwaysPlaced` and `MailIsDelivery`, the refinement of `Delivery`;
and if, besides, commands run one at a time, or links are never taken back,
`ShownIsHeld` and `Survives`. The first hypothesis is needed: the run
`MailKillThenCut` shows how a kill and a power cut together lose a message. Type
correctness has to assume that a message lands at least once (`MaxLand`).

**RunnerWakeProofs.** `IInv` adds to the checked invariants `Hands` (where a
loop is decides which attempt it holds), `Apart` (an attempt waiting in the
channel is not the one the inject loop holds), `SawMail` (the poll loop makes an
attempt only after a tick that saw mail) and `Open` (a retired attempt is not
outstanding). For the bound on interrupts `BInv` adds `Stale` (what the inject
loop holds and is not outstanding was retired), `FirstCue` (only a first cue is
about to type Ctrl-C) and `Budget`: a wake that was retired on the way to its Ctrl-C
types into a period that nobody has typed into yet; before the first injection only
it and the outstanding attempt have; after it one more may, made by a poll loop that
read the flag before.
Theorems: `TypeCorrect`, `InHand`, `Owned`, `AtMostThrice`.

**TurnEndProofs.** `IInv` adds to `HoldingLatchedAlone`: `OneTurnEnd` (one
turn-end at most, while the harness waits for it, and beside it only checks that
were left behind), `Prompted` (a turn that goes on has an identity), `Armed` (a
check that renders has armed, and what it armed still stands), `Taken` (what was
rendered has left the inbox, so claiming cannot bring it back), `Covered` (a
turn-end that commits has listed all that is claimed) and `Recorded` (a block
recorded for this session and turn was returned in this turn). Clearing the
latch keeps `HoldingLatchedAlone` because of `Covered`: with nothing left to
commit, nothing is claimed. `Covered` in turn survives because no check that
could claim more runs beside the turn-end, unless the turn ended over it; that
is the condition `~overlap`. `RetryProven` is an action property that follows
from `Recorded`: what the verdict compares with `Record(c)` was told. Theorems:
`TypeCorrect`, `LatchHeld`, `LetGoProven`.

**SendProofs.** `IInv` adds to the checked invariants `FloorHolds` (the floor of an
agent is at least every stamp of it that landed) and `Minted` (what a send is
about to link has a stamp up to the floor): a new stamp is above the floor, so it
is above all that landed, which `SendOrder` does not say by itself of a send that
has not linked yet. `Holds` says whose lock a stage has. From it follow
`RowStands` (a row that was checked is there until the lock is released, since
the sweep takes the same lock), hence `LandsOnRow`, and `Dropping` (what a
discharge is about to drop was answered or is past its deadline, and nobody else
writes that ledger meanwhile), hence `AskKept`. `Known`, `Linked` and `Preserved`
tie the inbox and the spool to the stage of the send that wrote them; they give
`ReportTrue`. Most steps only move a slot on: `Walks` and `Tends` show once what
those have in common, and each part of `IInv` then needs one case for them.
Theorems: `TypeCorrect`, `InOrder`, `Reported`, `Lands`, `AsksKept`.

**RosterProofs.** About `MCRoster`, for all lanes, commands and homes. `RosterInv`
says what a process between the two writes of a register (inbox, then row) can
rely on: it holds the lock of its id, the inbox is there, no other lane's claim on
the id is live, and it has the notes of the row it read. Everybody who could spoil
one of these takes the same lock, and the lock is held across steps by nobody
else (`LocksHeld`). A sweep decides by a time that it read earlier;
`DeadStaysDead` shows that a claim that was dead then is dead now, so only a row's
age can change under it, which is the exception that `SweptWhole` names. `RunInv`
says where `serve` stands in terms of what it has (`Begun`, `Wrapped`, `Taken`,
`Polled`); `EndOrder` follows from `Polled` and `Wrapped`, since the release comes
after the join of the loops. Theorems: `LaneTypesHold`, `RowsAreKept`,
`SweptWholly`, `EndsInOrder`. The assumptions (`RosterAssumption`) say that each
lane has a home id, that lanes and commands differ, and that the thresholds are
natural numbers in no particular order.

**HubProofs.** About `MCHub`, for all joins, lanes and authorizing sessions, with a
kill after every step. `MoveInv`: a join holds the locks that its stage implies
(`Locked`), and what it has seen of the directories still holds (`Knows`) because
nobody changes one without these locks (`TreesOf`); a holder of a hub shares its
lock (`Holds`); a frozen tree was moved away from a new one, and only a joined one
is marked (`Trees`). With these a step of any stage loses no file: the old tree
becomes the frozen one whole, and the frozen one is deleted only where the new one
has its files. `KeyInv`: what a join knows of the key files at each stage
(`Knows2`), that a public half belongs to its private half (`Files2`), that a key
on its way to the hub is kept and the joins that wait for it change no file
(`Underway`), and that a session that has read `authorized_keys` is alone with it
(`Alone2`). The code takes the newest version of a key; that there is a newest one
is `Greatest`, from the well-foundedness of the natural numbers.
`SInv` is about the sessions, for any number of clients, connections, messages and
faults and every cast of jobs. A client, the frames under way in both directions
and the hub's end of a connection each know only what has reached them, so the
invariant says how far they can be apart. A frame in flight is of a request that
the client has written: one before the request it is at, or that one with its
verb (`UpNow`, `DownNow`), and what it finds has been prepared for it: a
registration only reaches a session that has acquired the lease, a tick one that
has registered (`Channel`, `Beating`), or one that has ended. That is why `InOrder`
holds, and it is not inductive alone: a tick is written when the answer to the
registration is read, and that answer may pass the end of the session. For a send,
`Armed` is a session that runs with the request still unread: only one of a
client's connections is armed, and none once the message has landed or a refusal
is on its way (`Clear`); a report of one of the `Retriable` kinds, after which the
caller may repeat the send, is made by a client that is clear. For check and ack,
what a session did has been read by its client or lies in the stream before the
answer (`Streams`), so an "ok" that is read has all of it behind it; a connection
that died may have lost a tail of the stream, which is why the clause for an
unfinished stream asks for `alive`. `ClaimIs` says whose the lease is. The lemmas
`TakesIs`, `GoesOn` and `EndKeeps` show once what the hub's handlers have in
common (a frame is taken, answered, and the session stays or ends), and there is a
lemma for each request on top of them.
Theorems: `MovesSafely`, `KeysStaySafe`, `ReportsAreTrue`, and `HubTypesHold`
from the three invariants together. Assumed: the value for "none" is no tree,
process, client, connection, job or report, a cast gives each client a job or
none, bounds are natural numbers, and one key at least may be made.

**SetupProofs.** About `MCSetup`, for all wrappers, people's entries, versions, lanes
and agents. `SetupInv` gives for each stage what lies behind it (`Stages`): when
the lanes' turn comes, hooks fit, `ac` works and the choice is recorded, and no
step in between takes one of these back. `Carried` says that an update works with
the recorded choice and the recorded threshold; `EntriesKept`, `LinesKept` and
`ProgramKept` that what people wrote is in place or in a backup at every step between
a truncation and its write, and `LinesInHand` that the command rewriting the
enrollment file holds the lines it has to write back (`LinesLost` is the one way out
of that: a fault at that step).
`WipeInv`: a claim lies in a directory that a look at `state/` can see (`Seated`),
what the last look found dead is dead or was renewed since (`Dead`), and after the
last look every claim is of a lane launched since (`Quiet`). Theorems:
`HostTypesHold`, `PeopleAreKept`, `LanesFencedLast`, `WipesSpare`. The proofs need
that the pool's own files in `state/` are no agent's directory (`WipeAssumption`):
their names (`setup.json`, `pool.id`) have a dot, and `ValidateAgentID` lets no id
have one.

Only model-checked: liveness (`Progress`, `CuedInTheEnd`, `LatchReleased`,
`TurnsEnd`, `SweptInTheEnd`, `LostEnds`, `HubHeals`, `RepeatHeals`), which under
fairness is outside what the prover's backends do. Every invariant and every
action property that a passing run checks is stated by a theorem, and both
refinements are proved, that of `Delivery` under the hypothesis its run satisfies.

## 5. Not modelled, and the plan

`PROJECT.json` lists every component with its status. Planned: an abstract
specification of a send over a hub (a message lands at most once, and is reported
as undelivered only if it did not), implemented by `HubSession`; one of a lane's
life, implemented by `ServeRun`; and the steps that liveness rests on (who may wait
for whom) as invariants.

Left out of the modelled parts: the body file of a send, and encodings; host-key
pins and their carrying over, several agents of one machine, and the refusal to
move a hub while one of its lanes runs (the shared lock is modelled); two setups
at a time, `prepare-pool`, backup names (they have a resolution of one second);
downloading and verifying a release; corrupt or unwritable latches and the other
phases of the gate; window size, quiet detection and copying of terminal bytes.

Left out for good: guard denials (a classifier of command lines), JSON editing
of settings files, shim texts, the doctor, the read side, path discovery, ssh
command construction, the PTY, and the conformance kit: they have no state that
several actors change, or are pure input and output.
