------------------------------- MODULE Mailbox -------------------------------
(***************************************************************************)
(* One recipient's mail: inbox/<id>, inbox/<id>/.claimed, archive and      *)
(* malformed, as the senders (internal/loop/seq.go), `check`               *)
(* (internal/op/claim.go) and `ack` (internal/op/ack.go) move it with the  *)
(* link-then-remove moves of internal/loop/inbox.go.                       *)
(*                                                                         *)
(* A move is several system calls under the recipient's lock; a process    *)
(* can be killed between any two of them, an fsync can fail, and a power   *)
(* cut keeps or loses every directory entry that was not synced. Which     *)
(* command the consume fence lets pass is ServeLease's subject: here any   *)
(* command may be refused at any move, and several may pass.               *)
(***************************************************************************)
EXTENDS Naturals

CONSTANTS Msg,      \* message identities, numbered in the listing's order
          Kind,     \* what check makes of each message's file
          Cmd,      \* slots of check and ack processes
          Free,     \* the lock's value when nobody holds it
          MaxSec,   \* bound: seconds of the clock
          MaxLand,  \* bound: landings of each identity in the inbox
          Kills, Cuts, Errors    \* bounds: kills, power cuts, I/O errors

ASSUME MsgAssumption ==
  /\ Msg \subseteq Nat \ {0}
  /\ Kind \in [Msg -> {"good", "badname", "badbody", "toobig"}]
ASSUME CmdAssumption == Free \notin Cmd \cup Msg /\ Cmd \cap Msg = {}
ASSUME BoundAssumption == /\ {MaxSec, Kills, Cuts, Errors} \subseteq Nat
                          /\ MaxLand \in [Msg -> Nat \ {0}]

VARIABLES file,     \* file[m][place]: the inode there, 0 if none
          disk,     \* what a power cut would leave of it for certain
          landed,   \* landings per identity: each is a new inode
          accepted, \* messages whose delivery was synced
          sec,      \* the clock, in the seconds of archive names
          lock,     \* holder of state/<id>/.lock: a command, or m for m's sender
          cmd,      \* cmd[c]: how far a command is
          shown,    \* rendered at least once
          faults    \* kills, power cuts and errors so far

vars == <<file, disk, landed, accepted, sec, lock, cmd, shown, faults>>

Sec == 0..MaxSec
Place == [dir : {"inbox", "claimed"}, sec : {0}]
           \cup [dir : {"archive", "malformed"}, sec : Sec]
Inbox == [dir |-> "inbox", sec |-> 0]
Claimed == [dir |-> "claimed", sec |-> 0]
Archive(t) == [dir |-> "archive", sec |-> t]
Malformed(t) == [dir |-> "malformed", sec |-> t]

\* A command: the loop it is in, the step of its current move, the message
\* it moves, the time it started, its listings of the inbox and of .claimed,
\* and whether this check has taken a new message yet.
Idle == [stage |-> "idle", step |-> "list", op |-> "none", msg |-> 0, at |-> 0,
         news |-> {}, olds |-> {}, batch |-> FALSE]

Present(pl) == {m \in Msg : file[m][pl] # 0}
First(S, m) == m \in S /\ \A n \in S : m <= n

Listing(c, stage) == cmd[c].stage = stage /\ cmd[c].step = "list"
At(c, step) == cmd[c].step = step
M(c) == cmd[c].msg
Src(c) == IF cmd[c].stage \in {"names", "fresh"} THEN Inbox ELSE Claimed
Dst(c) == CASE cmd[c].op = "claim" -> Claimed
            [] cmd[c].op = "archive" -> Archive(cmd[c].at)
            [] OTHER -> Malformed(cmd[c].at)

Put(m, pl, i) == file' = [file EXCEPT ![m][pl] = i]
SyncDir(d) == disk' = [m \in Msg |-> [pl \in Place |->
                         IF pl.dir = d THEN file[m][pl] ELSE disk[m][pl]]]
Set(c, r) == cmd' = [cmd EXCEPT ![c] = r]
Go(c, step) == Set(c, [cmd[c] EXCEPT !.step = step])

\* A fault happens while its bound lasts; the clock can still move after it.
Fault(kind, bound) == /\ faults[kind] < bound /\ sec < MaxSec
                      /\ faults' = [faults EXCEPT ![kind] = @ + 1]

-----------------------------------------------------------------------------
(* Senders: writeTsMessage under the recipient's lock *)

SendLink(m) ==
  /\ lock = Free /\ file[m][Inbox] = 0 /\ landed[m] < MaxLand[m]
  /\ lock' = m
  /\ landed' = [landed EXCEPT ![m] = @ + 1]
  /\ Put(m, Inbox, landed[m] + 1)
  /\ UNCHANGED <<disk, accepted, sec, cmd, shown, faults>>

SendSync(m) ==
  /\ lock = m
  /\ SyncDir("inbox")
  /\ accepted' = accepted \cup {m}
  /\ lock' = Free
  /\ UNCHANGED <<file, landed, sec, cmd, shown, faults>>

\* linkNoClobber takes its link back when the directory cannot be synced.
SendSyncFails(m) ==
  /\ lock = m /\ Fault("error", Errors)
  /\ Put(m, Inbox, 0)
  /\ lock' = Free
  /\ UNCHANGED <<disk, landed, accepted, sec, cmd, shown>>

SenderKilled(m) ==
  /\ lock = m /\ Fault("kill", Kills)
  /\ lock' = Free
  /\ UNCHANGED <<file, disk, landed, accepted, sec, cmd, shown>>

-----------------------------------------------------------------------------
(* check: Claim *)

\* Mutant of CheckStart: the quarantine second is rounded up.
CheckStartRounded(c) ==
  /\ Listing(c, "idle")
  /\ Set(c, [Idle EXCEPT !.stage = "names", !.at = sec + 1, !.news = Present(Inbox)])
  /\ UNCHANGED <<file, disk, landed, accepted, sec, lock, shown, faults>>

CheckStart(c) ==
  /\ Listing(c, "idle")
  /\ Set(c, [Idle EXCEPT !.stage = "names", !.at = sec, !.news = Present(Inbox)])
  /\ UNCHANGED <<file, disk, landed, accepted, sec, lock, shown, faults>>

\* Starts a move of m. "enforce" is the quarantine of a protocol violation,
\* whose failure is only reported; "quarantine" that of an unreadable file.
Take(c, m, op, batch) ==
  /\ Set(c, [cmd[c] EXCEPT !.step = "want", !.op = op, !.msg = m,
                           !.news = @ \ {m}, !.olds = @ \ {m}, !.batch = batch])
  /\ UNCHANGED <<file, disk, landed, accepted, sec, lock, shown>>

BadNames(c) == {m \in cmd[c].news : Kind[m] = "badname"}

TakeBadName(c, m) ==
  /\ Listing(c, "names") /\ First(BadNames(c), m)
  /\ Take(c, m, "enforce", FALSE)
  /\ UNCHANGED faults

\* Every violation dealt with: now the residue is listed.
ListResidue(c) ==
  /\ Listing(c, "names") /\ BadNames(c) = {}
  /\ Set(c, [cmd[c] EXCEPT !.stage = "residue", !.olds = Present(Claimed)])
  /\ UNCHANGED <<file, disk, landed, accepted, sec, lock, shown, faults>>

Redeliver(c, m) ==
  /\ Listing(c, "residue") /\ First(cmd[c].olds, m)
  /\ file[m][Claimed] # 0 /\ Kind[m] # "toobig"
  /\ shown' = shown \cup {m}
  /\ Set(c, [cmd[c] EXCEPT !.olds = @ \ {m}])
  /\ UNCHANGED <<file, disk, landed, accepted, sec, lock, faults>>

\* Residue acked since the listing, or unreadable just now: the check stops.
ResidueUnreadable(c, m) ==
  /\ Listing(c, "residue") /\ First(cmd[c].olds, m)
  /\ \/ file[m][Claimed] = 0 /\ UNCHANGED faults
     \/ Fault("error", Errors)
  /\ Set(c, Idle)
  /\ UNCHANGED <<file, disk, landed, accepted, sec, lock, shown>>

ResidueTooBig(c, m) ==
  /\ Listing(c, "residue") /\ First(cmd[c].olds, m)
  /\ file[m][Claimed] # 0 /\ Kind[m] = "toobig"
  /\ Take(c, m, "quarantine", FALSE)
  /\ UNCHANGED faults

ResidueDone(c) ==
  /\ Listing(c, "residue") /\ cmd[c].olds = {}
  /\ Set(c, [cmd[c] EXCEPT !.stage = "fresh"])
  /\ UNCHANGED <<file, disk, landed, accepted, sec, lock, shown, faults>>

\* The file is over the size cap, gone, or cannot be read just now.
TakeUnreadable(c, m) ==
  /\ Listing(c, "fresh") /\ First(cmd[c].news, m)
  /\ \/ (Kind[m] = "toobig" \/ file[m][Inbox] = 0) /\ UNCHANGED faults
     \/ Fault("error", Errors)
  /\ Take(c, m, "quarantine", cmd[c].batch)

TakeBadBody(c, m) ==
  /\ Listing(c, "fresh") /\ First(cmd[c].news, m)
  /\ file[m][Inbox] # 0 /\ Kind[m] = "badbody"
  /\ Take(c, m, "enforce", TRUE)
  /\ UNCHANGED faults

TakeNew(c, m) ==
  /\ Listing(c, "fresh") /\ First(cmd[c].news, m)
  /\ file[m][Inbox] # 0 /\ Kind[m] = "good"
  /\ Take(c, m, "claim", TRUE)
  /\ UNCHANGED faults

\* Mutant of Stop: the budget may refuse the first message of a batch.
StopStarving(c) ==
  /\ Listing(c, "fresh")
  /\ Set(c, Idle)
  /\ UNCHANGED <<file, disk, landed, accepted, sec, lock, shown, faults>>

\* The end of the listing, the limit or the byte budget; the first message
\* of a batch is always taken.
Stop(c) ==
  /\ Listing(c, "fresh") /\ (cmd[c].batch \/ cmd[c].news = {})
  /\ Set(c, Idle)
  /\ UNCHANGED <<file, disk, landed, accepted, sec, lock, shown, faults>>

\* Mutant of Show: the body is read back from .claimed, if it is still there.
ShowFromClaimed(c) ==
  /\ At(c, "show")
  /\ shown' = IF file[M(c)][Claimed] # 0 THEN shown \cup {M(c)} ELSE shown
  /\ Go(c, "list")
  /\ UNCHANGED <<file, disk, landed, accepted, sec, lock, faults>>

\* emitMessage, after the claim has left the lock.
Show(c) ==
  /\ At(c, "show")
  /\ shown' = shown \cup {M(c)}
  /\ Go(c, "list")
  /\ UNCHANGED <<file, disk, landed, accepted, sec, lock, faults>>

-----------------------------------------------------------------------------
(* ack: Ack *)

AckStart(c) ==
  /\ Listing(c, "idle")
  /\ Set(c, [Idle EXCEPT !.stage = "acking", !.at = sec, !.olds = Present(Claimed)])
  /\ UNCHANGED <<file, disk, landed, accepted, sec, lock, shown, faults>>

TakeClaimed(c, m) ==
  /\ Listing(c, "acking") /\ First(cmd[c].olds, m)
  /\ Take(c, m, "archive", FALSE)
  /\ UNCHANGED faults

AckDone(c) ==
  /\ Listing(c, "acking") /\ cmd[c].olds = {}
  /\ Set(c, Idle)
  /\ UNCHANGED <<file, disk, landed, accepted, sec, lock, shown, faults>>

-----------------------------------------------------------------------------
(* A move, inside fencedMutation: ClaimMessage, ArchiveMessage and          *)
(* QuarantineInboxFile                                                      *)

\* The lock timed out or the fence refused: nothing further is moved.
Refused(c) ==
  /\ At(c, "want") /\ Fault("error", Errors)
  /\ Set(c, Idle)
  /\ UNCHANGED <<file, disk, landed, accepted, sec, lock, shown>>

Lock(c) ==
  /\ At(c, "want") /\ lock = Free
  /\ lock' = c
  /\ Go(c, "link")
  /\ UNCHANGED <<file, disk, landed, accepted, sec, shown, faults>>

\* The move is over: out of the lock, and what was claimed is shown.
Moved(c) == /\ lock' = Free
            /\ Go(c, IF cmd[c].op = "claim" THEN "show" ELSE "list")

\* The move failed: an enforcement is only reported, the rest ends the command.
Failed(c) == /\ lock' = Free
             /\ IF cmd[c].op = "enforce" THEN Go(c, "list") ELSE Set(c, Idle)

\* Mutant of Link: rename, which overwrites what stands at the destination.
LinkClobbering(c) ==
  /\ At(c, "link") /\ file[M(c)][Src(c)] # 0
  /\ Put(M(c), Dst(c), file[M(c)][Src(c)])
  /\ Go(c, "sync")
  /\ UNCHANGED <<disk, landed, accepted, sec, lock, shown, faults>>

\* Mutant of Link: the source is first renamed to a temporary name, which
\* no listing shows.
LinkViaTemp(c) ==
  /\ At(c, "link") /\ file[M(c)][Src(c)] # 0 /\ file[M(c)][Dst(c)] = 0
  /\ Put(M(c), Src(c), 0)
  /\ Go(c, "sync")
  /\ UNCHANGED <<disk, landed, accepted, sec, lock, shown, faults>>

Link(c) ==
  /\ At(c, "link") /\ file[M(c)][Src(c)] # 0 /\ file[M(c)][Dst(c)] = 0
  /\ Put(M(c), Dst(c), file[M(c)][Src(c)])
  /\ Go(c, "sync")
  /\ UNCHANGED <<disk, landed, accepted, sec, lock, shown, faults>>

\* EEXIST: a claim drops the inbox copy of the identity it already holds; an
\* archive finishes its own interrupted move; a quarantine gives up.
LinkExists(c) ==
  /\ At(c, "link") /\ file[M(c)][Src(c)] # 0 /\ file[M(c)][Dst(c)] # 0
  /\ IF \/ cmd[c].op = "claim"
        \/ cmd[c].op = "archive" /\ file[M(c)][Dst(c)] = file[M(c)][Src(c)]
       THEN Go(c, "dedup") /\ UNCHANGED lock
       ELSE Failed(c)
  /\ UNCHANGED <<file, disk, landed, accepted, sec, shown, faults>>

\* ENOENT: somebody else moved the source; fine if it is where it should be.
SourceGone(c) ==
  /\ At(c, "link") /\ file[M(c)][Src(c)] = 0
  /\ IF cmd[c].op \in {"claim", "archive"} /\ file[M(c)][Dst(c)] # 0
       THEN Moved(c)
       ELSE Failed(c)
  /\ UNCHANGED <<file, disk, landed, accepted, sec, shown, faults>>

Sync(c) ==
  /\ At(c, "sync")
  /\ SyncDir(Dst(c).dir)
  /\ Go(c, "remove")
  /\ UNCHANGED <<file, landed, accepted, sec, lock, shown, faults>>

SyncFails(c) ==
  /\ At(c, "sync") /\ Fault("error", Errors)
  /\ Put(M(c), Dst(c), 0)
  /\ Failed(c)
  /\ UNCHANGED <<disk, landed, accepted, sec, shown>>

\* Mutant of Remove: a dedup drops the destination, not the source.
RemoveOlder(c) ==
  /\ At(c, "remove") \/ At(c, "dedup")
  /\ Put(M(c), IF At(c, "dedup") THEN Dst(c) ELSE Src(c), 0)
  /\ Go(c, IF At(c, "dedup") /\ cmd[c].op = "claim" THEN "syncinbox" ELSE "syncsrc")
  /\ UNCHANGED <<disk, landed, accepted, sec, lock, shown, faults>>

\* After a dedup ClaimMessage syncs the inbox alone, ArchiveMessage both.
Remove(c) ==
  /\ At(c, "remove") \/ At(c, "dedup")
  /\ Put(M(c), Src(c), 0)
  /\ Go(c, IF At(c, "dedup") /\ cmd[c].op = "claim" THEN "syncinbox" ELSE "syncsrc")
  /\ UNCHANGED <<disk, landed, accepted, sec, lock, shown, faults>>

SyncSrc(c) ==
  /\ At(c, "syncsrc") \/ At(c, "syncinbox")
  /\ SyncDir(Src(c).dir)
  /\ IF At(c, "syncsrc") THEN Go(c, "syncdst") /\ UNCHANGED lock ELSE Moved(c)
  /\ UNCHANGED <<file, landed, accepted, sec, shown, faults>>

SyncDst(c) ==
  /\ At(c, "syncdst")
  /\ SyncDir(Dst(c).dir)
  /\ Moved(c)
  /\ UNCHANGED <<file, landed, accepted, sec, shown, faults>>

\* The source cannot be removed, or a later sync fails.
StepFails(c) ==
  /\ cmd[c].step \in {"remove", "dedup", "syncsrc", "syncinbox", "syncdst"}
  /\ Fault("error", Errors)
  /\ Failed(c)
  /\ UNCHANGED <<file, disk, landed, accepted, sec, shown>>

-----------------------------------------------------------------------------
(* The environment *)

Kill(c) ==
  /\ cmd[c] # Idle /\ Fault("kill", Kills)
  /\ Set(c, Idle)
  /\ lock' = IF lock = c THEN Free ELSE lock
  /\ UNCHANGED <<file, disk, landed, accepted, sec, shown>>

\* Every entry changed since its directory was last synced may survive in
\* its old state or its new one, or be gone.
Unsynced == {x \in Msg \X Place : file[x[1]][x[2]] # disk[x[1]][x[2]]}

PowerCut ==
  /\ Fault("cut", Cuts)
  /\ \E old \in SUBSET Unsynced : \E gone \in SUBSET old :
       file' = [m \in Msg |-> [pl \in Place |->
                  CASE <<m, pl>> \in gone -> 0
                    [] <<m, pl>> \in old \ gone -> disk[m][pl]
                    [] OTHER -> file[m][pl]]]
  /\ disk' = file'
  /\ cmd' = [c \in Cmd |-> Idle]
  /\ lock' = Free
  /\ UNCHANGED <<landed, accepted, sec, shown>>

Tick ==
  /\ sec < MaxSec
  /\ sec' = sec + 1
  /\ UNCHANGED <<file, disk, landed, accepted, lock, cmd, shown, faults>>

-----------------------------------------------------------------------------
\* An earlier turn may have left displayed residue behind, which an older
\* binary without a size cap may have claimed.
Init ==
  /\ \E R \in SUBSET {m \in Msg : Kind[m] \in {"good", "toobig"}} :
       /\ file = [m \in Msg |-> [pl \in Place |->
                    IF m \in R /\ pl = Claimed THEN 1 ELSE 0]]
       /\ landed = [m \in Msg |-> IF m \in R THEN 1 ELSE 0]
       /\ accepted = R /\ shown = R
  /\ disk = file
  /\ sec = 0 /\ lock = Free
  /\ cmd = [c \in Cmd |-> Idle]
  /\ faults = [k \in {"kill", "cut", "error"} |-> 0]

SendStep(m) == SendLink(m) \/ SendSync(m) \/ SendSyncFails(m) \/ SenderKilled(m)

CheckStep(c) ==
  \/ CheckStart(c) \/ ListResidue(c) \/ ResidueDone(c) \/ Stop(c) \/ Show(c)
  \/ \E m \in Msg : \/ TakeBadName(c, m) \/ Redeliver(c, m) \/ ResidueUnreadable(c, m)
                    \/ ResidueTooBig(c, m) \/ TakeUnreadable(c, m)
                    \/ TakeBadBody(c, m) \/ TakeNew(c, m)

AckStep(c) == AckStart(c) \/ AckDone(c) \/ \E m \in Msg : TakeClaimed(c, m)

MoveStep(c) == \/ Lock(c) \/ Link(c) \/ LinkExists(c) \/ SourceGone(c)
               \/ Sync(c) \/ Remove(c) \/ SyncSrc(c) \/ SyncDst(c)

FaultStep(c) == Refused(c) \/ SyncFails(c) \/ StepFails(c) \/ Kill(c)

Next == \/ \E m \in Msg : SendStep(m)
        \/ \E c \in Cmd : CheckStep(c) \/ AckStep(c) \/ MoveStep(c) \/ FaultStep(c)
        \/ PowerCut
        \/ Tick

Spec == Init /\ [][Next]_vars

\* A command that runs goes on, a sender too, and check is run again and
\* again: the runner re-cues the agent while its inbox is not empty.
FairSpec == /\ Spec
            /\ \A c \in Cmd : /\ WF_vars(CheckStep(c) \/ AckStep(c) \/ MoveStep(c))
                              /\ SF_vars(CheckStart(c))
            /\ \A m \in Msg : WF_vars(SendSync(m))
            /\ WF_vars(Tick)

-----------------------------------------------------------------------------
Stages == {"idle", "names", "residue", "fresh", "acking"}
Steps == {"list", "want", "link", "sync", "remove", "dedup", "syncsrc",
          "syncinbox", "syncdst", "show"}
Command == [stage : Stages, step : Steps,
            op : {"none", "claim", "archive", "enforce", "quarantine"},
            msg : Msg \cup {0}, at : Sec,
            news : SUBSET Msg, olds : SUBSET Msg, batch : BOOLEAN]

TypeOK ==
  /\ file \in [Msg -> [Place -> Nat]] /\ disk \in [Msg -> [Place -> Nat]]
  /\ landed \in [Msg -> Nat]
  /\ \A m \in Msg : /\ landed[m] \in 0..MaxLand[m]
                    /\ \A pl \in Place : {file[m][pl], disk[m][pl]} \subseteq 0..landed[m]
  /\ accepted \subseteq Msg /\ shown \subseteq Msg
  /\ sec \in Sec
  /\ lock \in Cmd \cup Msg \cup {Free}
  /\ cmd \in [Cmd -> Command]
  /\ faults \in [{"kill", "cut", "error"} -> Nat]

Settled(m) == \E t \in Sec : file[m][Archive(t)] # 0 \/ file[m][Malformed(t)] # 0

\* A delivered message is never lost: whichever processes are killed, inside
\* a move or between two, its file stands in the inbox, in .claimed, in the
\* archive or in malformed (linkNoClobber before os.Remove).
NoLoss == \A m \in accepted : \E pl \in Place : file[m][pl] # 0

\* A message that was displayed and not committed is still claimed, so the
\* next check shows it again: no crash sends it back to being merely new, or
\* away (ClaimMessage; AGENTCHUTE.md 6.3).
ShownHeld == \A m \in shown : file[m][Claimed] # 0 \/ Settled(m)

\* Without a fault, and landing once, a message is in exactly one place
\* whenever the lock is free, however many checks and acks run at once.
OnePlace ==
  lock = Free /\ (\A k \in DOMAIN faults : faults[k] = 0) =>
    \A m \in Msg : landed[m] = 1 =>
      \A x, y \in Place : file[m][x] # 0 /\ file[m][y] # 0 => x = y

\* A delivered message has a place whatever is killed, and while nothing fails
\* it has one place only (linkNoClobber, then os.Remove, under the lock).
Placed == NoLoss /\ OnePlace

\* A file that was archived or quarantined, and synced, is never overwritten
\* or removed again (linkNoClobber refuses an existing destination).
ArchiveImmutable ==
  [][\A m \in Msg : \A t \in Sec : \A pl \in {Archive(t), Malformed(t)} :
       file[m][pl] # 0 /\ disk[m][pl] = file[m][pl]
       => file'[m][pl] = file[m][pl]]_vars

\* What was accepted, what was displayed, and what was archived survives a power
\* cut and an I/O error.
Durable == [](NoLoss /\ ShownHeld) /\ ArchiveImmutable

\* Without a fault nothing is committed that was not displayed, or is about
\* to be by the check that claimed it.
CommittedSeen ==
  (\A k \in DOMAIN faults : faults[k] = 0) =>
    \A m \in Msg : (\E t \in Sec : file[m][Archive(t)] # 0) =>
      m \in shown \/ \E c \in Cmd : At(c, "show") /\ M(c) = m

\* Every delivered message is in the end displayed, archived or quarantined,
\* kills and errors notwithstanding: a body over the budget is not starved,
\* and a file that cannot be read does not stop those behind it.
Progress == []<>(\A m \in accepted : m \in shown \/ Settled(m))

-----------------------------------------------------------------------------
\* A link whose mover has not synced it yet, and may take it back.
Tentative(m, pl) == \E c \in Cmd : At(c, "sync") /\ M(c) = m /\ Dst(c) = pl

\* The entry is there to stay, as far as this instance's faults go.
Stands(m, pl) == /\ file[m][pl] # 0 /\ ~Tentative(m, pl)
                 /\ Cuts = 0 \/ disk[m][pl] = file[m][pl]

StandsSettled == {m \in Msg : \E t \in Sec : \/ Stands(m, Archive(t))
                                             \/ Stands(m, Malformed(t))}
StandsHeld == {m \in Msg \ StandsSettled :
                 Stands(m, Claimed) \/ (lock # m /\ Stands(m, Inbox))}

\* The directories implement Delivery.
Promise == INSTANCE Delivery WITH held <- StandsHeld, settled <- StandsSettled
PromiseSpec == Promise!Spec
=============================================================================
