------------------------------- MODULE Setup -------------------------------
(***************************************************************************)
(* `agentchute setup` and `agentchute update` on one machine: the hook     *)
(* files, the scaffold, the `ac` dispatcher, the shell profile and the     *)
(* recorded choices they rewrite, and the lanes they restart last          *)
(* (internal/cli: setup.go, update.go, hooks.go, hookmerge.go, init.go,    *)
(* shims.go).  One command runs at a time; it may be killed, or a write of *)
(* it may fail, after any of its steps.                                    *)
(***************************************************************************)
EXTENDS Naturals, FiniteSets

CONSTANTS
    Wrapper,     \* the hookable wrappers
    Settings,    \* those whose hook file is a settings file, shared with the project
    Own,         \* entries the project's people put into a hook file
    Ask,         \* what setup may be asked for: a wrapper list and --stale-after
    Lane,        \* lanes of the pool
    MaxVersion,  \* releases
    MaxFault     \* kills, failed writes and files broken by hand

Stale == {"", "1h", "2h"}    \* --stale-after; "" when it was never given

ASSUME SetupAssumption == /\ Settings \subseteq Wrapper
                          /\ Ask \subseteq [want : SUBSET Wrapper, stale : Stale]
                          /\ MaxVersion \in Nat \ {0} /\ MaxFault \in Nat

Version == 1 .. MaxVersion
Alien == MaxVersion + 1      \* a file agentchute does not recognise as its own
Idle == [pc |-> "idle", want |-> {}, stale |-> "", up |-> FALSE,
         resync |-> TRUE, keep |-> FALSE, todo |-> {}]

VARIABLES
    bin,      \* release of the installed binary
    hook,     \* per wrapper: [st, v: release of agentchute's part, own: the project's entries]
    bak,      \* per wrapper: project entries some hook backup holds
    wrote,    \* ghost: project entries ever written to the hook file
    spec,     \* AGENTCHUTE.md: 0 missing, a release, or Alien
    enrol,    \* an enrollment file, or .gitignore: [own, v: marked block, 0 none]
    disp,     \* the `ac` dispatcher: 0 missing, a release, or Alien
    theirs,   \* ghost: `ac` is the user's own program
    legacy,   \* the pre-dispatcher shims of the wrappers are still installed
    prof,     \* the shell profile: [own, block, bak]
    pool,     \* state/setup.json: [there, listed: it records a wrapper list, wrappers, stale]
    lane,     \* "down", "up", or "ending": signalled or fenced
    cmd,      \* the command that is running
    faults

vars == <<bin, hook, bak, wrote, spec, enrol, disp, theirs, legacy, prof, pool, lane, cmd, faults>>
hooks == <<hook, bak, wrote>>
scaffold == <<spec, enrol>>
launcher == <<disp, theirs, legacy, prof>>

(***************************************************************************)
(* Hook files                                                              *)
(***************************************************************************)
Missing == [st |-> "missing", v |-> 0, own |-> {}]
Template(v) == [st |-> "ok", v |-> v, own |-> {}]

\* planHookFile: a dedicated file is current byte for byte, a settings file
\* when agentchute's part of it matches.
Current(w, v) == /\ hook[w].st = "ok" /\ hook[w].v = v
                 /\ w \notin Settings => hook[w].own = {}
\* only a settings file can be invalid: a dedicated one is replaced unread.
Invalid(w) == w \in Settings /\ hook[w].st = "broken"
\* what a repair writes: the merge, or the template.
Merged(w, v) == IF w \in Settings THEN [Template(v) EXCEPT !.own = hook[w].own]
                                  ELSE Template(v)

\* writeHookFile: an exclusive backup of what is there, then temp and rename.
Backup(w) == bak' = [bak EXCEPT ![w] = @ \cup hook[w].own]
WriteHook(w, v) == /\ Backup(w)
                   /\ hook' = [hook EXCEPT ![w] = Merged(w, v)]
                   /\ UNCHANGED wrote

\* verifyHookCompatibility: no installed file names a subcommand this release lacks.
Compatible(w, v) == hook[w].st = "missing" \/ (hook[w].st = "ok" /\ hook[w].v \in {0, v})
Installed == {w \in Wrapper : hook[w].st # "missing"}

(***************************************************************************)
(* The command                                                             *)
(***************************************************************************)
At(pc) == cmd.pc = pc
\* the loops run in a fixed order; which one does not matter
First == CHOOSE w \in cmd.todo : TRUE
Goto(pc) == cmd' = [cmd EXCEPT !.pc = pc, !.todo = {}]
GotoAll(pc, ws) == cmd' = [cmd EXCEPT !.pc = pc, !.todo = ws]
Done(w) == cmd' = [cmd EXCEPT !.todo = @ \ {w}]
End == cmd' = Idle
Claims == {l \in Lane : lane[l] # "down"}

\* Mutant of StartSetup: without phase 0.
StartSetupUnrefreshed ==
    /\ At("idle")
    /\ \E a \in Ask :
          cmd' = [Idle EXCEPT !.pc = "init", !.want = a.want, !.stale = a.stale]
    /\ UNCHANGED <<bin, hooks, scaffold, launcher, pool, lane, faults>>

StartSetup ==
    /\ At("idle")
    /\ \E a \in Ask :
          cmd' = [Idle EXCEPT !.pc = "refresh", !.want = a.want, !.stale = a.stale, !.todo = Wrapper]
    /\ UNCHANGED <<bin, hooks, scaffold, launcher, pool, lane, faults>>

\* Phase 0.  Every installed file is brought up to this release, wanted or not.
Refresh(w) ==
    /\ At("refresh") /\ cmd.todo # {} /\ w = First
    /\ IF Invalid(w) THEN End /\ UNCHANGED hooks
       ELSE IF hook[w].st = "missing" \/ Current(w, bin) THEN Done(w) /\ UNCHANGED hooks
       ELSE WriteHook(w, bin) /\ Done(w)
    /\ UNCHANGED <<bin, scaffold, launcher, pool, lane, faults>>
Verify ==
    /\ At("refresh") /\ cmd.todo = {}
    /\ IF \A w \in Wrapper : Compatible(w, bin) THEN Goto("init") ELSE End
    /\ UNCHANGED <<bin, hooks, scaffold, launcher, pool, lane, faults>>

\* Phase 1, cmdInit.  The whole plan is made before the first write: a file that
\* is not recognised stops it.  A file of a newer release is left alone.
InitPlan ==
    /\ At("init")
    /\ IF spec = Alien THEN End ELSE Goto("spec")
    /\ UNCHANGED <<bin, hooks, scaffold, launcher, pool, lane, faults>>
\* os.WriteFile truncates, then writes: an empty AGENTCHUTE.md has no header.
InitSpec ==
    /\ IF spec >= bin THEN At("spec") /\ Goto("enrol") /\ UNCHANGED spec
       ELSE At("spec") /\ Goto("specw") /\ spec' = Alien
    /\ UNCHANGED <<bin, hooks, enrol, launcher, pool, lane, faults>>
InitSpecWrite ==
    /\ At("specw") /\ Goto("enrol") /\ spec' = bin
    /\ UNCHANGED <<bin, hooks, enrol, launcher, pool, lane, faults>>

\* Mutant of Dropped: the wrappers that are kept are dropped first.
DroppedAll == pool.wrappers

\* the wrappers that were recorded and are not asked for any more.
Dropped == pool.wrappers \ cmd.want

\* the marked block is prepended or replaced; what the plan read is written back.
InitEnrol ==
    /\ At("enrol")
    /\ IF enrol.v >= bin THEN GotoAll("drop", Dropped) /\ UNCHANGED enrol
       ELSE /\ cmd' = [cmd EXCEPT !.pc = "enrolw", !.keep = enrol.own]
            /\ enrol' = [own |-> FALSE, v |-> 0]
    /\ UNCHANGED <<bin, hooks, spec, launcher, pool, lane, faults>>
InitEnrolWrite ==
    /\ At("enrolw") /\ GotoAll("drop", Dropped)
    /\ enrol' = [own |-> cmd.keep, v |-> bin]
    /\ UNCHANGED <<bin, hooks, spec, launcher, pool, lane, faults>>

\* Phase 2.  A dropped wrapper's file is removed only while it is the template.
Identical(w) == hook[w] = Template(bin)
Drop(w) ==
    /\ At("drop") /\ cmd.todo # {} /\ w = First /\ Done(w)
    /\ IF Identical(w) THEN hook' = [hook EXCEPT ![w] = Missing] ELSE UNCHANGED hook
    /\ UNCHANGED <<bin, bak, wrote, scaffold, launcher, pool, lane, faults>>
DropEnds ==
    /\ At("drop") /\ cmd.todo = {} /\ GotoAll("install", cmd.want)
    /\ UNCHANGED <<bin, hooks, scaffold, launcher, pool, lane, faults>>
\* installOneHook with force.
Install(w) ==
    /\ At("install") /\ cmd.todo # {} /\ w = First
    /\ IF Invalid(w) THEN End /\ UNCHANGED hooks
       ELSE IF Current(w, bin) THEN Done(w) /\ UNCHANGED hooks
       ELSE WriteHook(w, bin) /\ Done(w)
    /\ UNCHANGED <<bin, scaffold, launcher, pool, lane, faults>>
InstallEnds ==
    /\ At("install") /\ cmd.todo = {} /\ Goto("ac")
    /\ UNCHANGED <<bin, hooks, scaffold, launcher, pool, lane, faults>>
\* installDispatcher: an `ac` without agentchute's marks is never overwritten;
\* agentchute's own is rewritten in place, truncated first.
Refused == disp = Alien
Dispatcher ==
    /\ At("ac")
    /\ IF Refused THEN End /\ UNCHANGED disp ELSE Goto("acw") /\ disp' = Alien
    /\ UNCHANGED <<bin, hooks, scaffold, theirs, legacy, prof, pool, lane, faults>>
DispatcherWrite ==
    /\ At("acw") /\ Goto("legacy") /\ disp' = bin
    /\ UNCHANGED <<bin, hooks, scaffold, theirs, legacy, prof, pool, lane, faults>>
RemoveLegacy ==
    /\ At("legacy") /\ Goto("profile") /\ legacy' = FALSE
    /\ UNCHANGED <<bin, hooks, scaffold, disp, theirs, prof, pool, lane, faults>>
\* setupWritePathBlock: only a profile that exists; backed up, truncated, written.
Copy == IF prof.own THEN [prof EXCEPT !.bak = TRUE] ELSE prof
Profile ==
    /\ At("profile")
    /\ IF prof.block THEN Goto("record") /\ UNCHANGED prof
       ELSE /\ cmd' = [cmd EXCEPT !.pc = "profw", !.keep = prof.own]
            /\ prof' = [Copy EXCEPT !.own = FALSE]
    /\ UNCHANGED <<bin, hooks, scaffold, disp, theirs, legacy, pool, lane, faults>>
ProfileWrite ==
    /\ At("profw") /\ Goto("record")
    /\ prof' = [prof EXCEPT !.own = cmd.keep, !.block = TRUE]
    /\ UNCHANGED <<bin, hooks, scaffold, disp, theirs, legacy, pool, lane, faults>>
\* writeSetupPoolState; the threshold is the flag's, else the recorded one, else 1h.
Threshold == IF cmd.stale # "" THEN cmd.stale
             ELSE IF pool.stale # "" THEN pool.stale ELSE "1h"
Record ==
    /\ At("record")
    /\ pool' = [there |-> TRUE, listed |-> TRUE, wrappers |-> cmd.want, stale |-> Threshold]
    /\ GotoAll("stop", Lane)
    /\ UNCHANGED <<bin, hooks, scaffold, launcher, lane, faults>>

\* Phase 3, last: setupRunRuntimeReset.  A runner is signalled when its command
\* line names this pool; whatever still holds a lease is then fenced.
Stop(l) ==
    /\ At("stop") /\ l \in cmd.todo /\ Done(l)
    /\ \/ lane[l] = "up" /\ lane' = [lane EXCEPT ![l] = "ending"]
       \/ UNCHANGED lane                         \* not running, or not recognised
    /\ UNCHANGED <<bin, hooks, scaffold, launcher, pool, faults>>
StopEnds ==
    /\ At("stop") /\ cmd.todo = {} /\ GotoAll("fence", Claims)
    /\ UNCHANGED <<bin, hooks, scaffold, launcher, pool, lane, faults>>
\* InvalidateAllServeLeases, on the claims it listed first.
Fence(l) ==
    /\ cmd.pc \in {"fence", "ufence"} /\ l \in cmd.todo /\ Done(l)
    /\ lane' = [lane EXCEPT ![l] = IF @ = "up" THEN "ending" ELSE @]
    /\ UNCHANGED <<bin, hooks, scaffold, launcher, pool, faults>>
FenceEnds ==
    /\ cmd.pc \in {"fence", "ufence"} /\ cmd.todo = {}
    /\ IF At("fence") /\ cmd.up THEN GotoAll("ufence", Claims) ELSE End
    /\ UNCHANGED <<bin, hooks, scaffold, launcher, pool, lane, faults>>

(***************************************************************************)
(* update                                                                  *)
(***************************************************************************)
\* cmdUpdate replays the recorded choice; only a list never recorded is taken
\* from the hook files that are there.
Adopts == pool.there /\ ~pool.listed /\ Installed # {}
StartUpdate ==
    /\ At("idle")
    /\ \E resync \in BOOLEAN :
          /\ resync => pool.there
          /\ cmd' = [Idle EXCEPT !.pc = "adopt", !.up = TRUE, !.resync = resync,
                        !.want = IF Adopts THEN Installed ELSE pool.wrappers,
                        !.stale = pool.stale]
    /\ UNCHANGED <<bin, hooks, scaffold, launcher, pool, lane, faults>>

\* Mutant of Adopt: the record is written anew without the threshold.
AdoptUnstated ==
    /\ At("adopt") /\ Goto("fetch")
    /\ IF cmd.resync /\ cmd.want # pool.wrappers
       THEN pool' = [there |-> TRUE, listed |-> TRUE, wrappers |-> cmd.want, stale |-> ""]
       ELSE UNCHANGED pool
    /\ UNCHANGED <<bin, hooks, scaffold, launcher, lane, faults>>

\* what was adopted is recorded at once, with the threshold that was read.
Adopt ==
    /\ At("adopt") /\ Goto("fetch")
    /\ IF cmd.resync /\ cmd.want # pool.wrappers
       THEN pool' = [there |-> TRUE, listed |-> TRUE, wrappers |-> cmd.want, stale |-> cmd.stale]
       ELSE UNCHANGED pool
    /\ UNCHANGED <<bin, hooks, scaffold, launcher, lane, faults>>
\* without --version an installed latest release ends it here; the download is
\* checked in a temp file beside the binary, so a failure changes nothing.
UpToDate ==
    /\ At("fetch") /\ End
    /\ UNCHANGED <<bin, hooks, scaffold, launcher, pool, lane, faults>>

\* Mutant of Swap: the lanes are fenced with the old binary.
SwapFencing(b) ==
    /\ At("fetch") /\ bin' = b
    /\ lane' = [l \in Lane |-> IF lane[l] = "up" THEN "ending" ELSE lane[l]]
    /\ IF cmd.resync THEN cmd' = [cmd EXCEPT !.pc = "refresh", !.todo = Wrapper]
       ELSE GotoAll("ufence", Claims)
    /\ UNCHANGED <<hooks, scaffold, launcher, pool, faults>>

\* the rename; then the new binary's setup, and only after it the leases.
Swap(b) ==
    /\ At("fetch") /\ bin' = b
    /\ IF cmd.resync THEN cmd' = [cmd EXCEPT !.pc = "refresh", !.todo = Wrapper]
       ELSE GotoAll("ufence", Claims)
    /\ UNCHANGED <<hooks, scaffold, launcher, pool, lane, faults>>

\* The command is killed, or its next write fails: update reports the failed
\* re-sync and leaves the leases alone, so both are the same stop.
Cut ==
    /\ ~At("idle") /\ faults < MaxFault /\ faults' = faults + 1 /\ End
    /\ UNCHANGED <<bin, hooks, scaffold, launcher, pool, lane>>

(***************************************************************************)
(* The lanes and the people                                                *)
(***************************************************************************)
\* serve writes a missing hook file, accepts a current one, and refuses the rest
\* (prepareServeHook).  A lease taken after the listing is not in it.
Launch(l, w) ==
    /\ lane[l] = "down" /\ (disp \in Version \/ legacy)
    /\ hook[w].st = "missing" \/ Current(w, bin)
    /\ IF hook[w].st = "missing" THEN WriteHook(w, bin) ELSE UNCHANGED hooks
    /\ lane' = [lane EXCEPT ![l] = "up"]
    /\ cmd' = IF cmd.pc \in {"fence", "ufence"} THEN [cmd EXCEPT !.todo = @ \ {l}] ELSE cmd
    /\ UNCHANGED <<bin, scaffold, launcher, pool, faults>>
Leave(l) ==
    /\ lane[l] # "down" /\ lane' = [lane EXCEPT ![l] = "down"]
    /\ UNCHANGED <<bin, hooks, scaffold, launcher, pool, cmd, faults>>
\* between two commands: an entry added, a file broken by hand, a file mended.
Edit(w, o) ==
    /\ At("idle") /\ hook[w].st # "broken" /\ o \notin UNION {wrote[x] : x \in Wrapper}
    /\ hook' = [hook EXCEPT ![w] = [st |-> "ok", v |-> @.v, own |-> @.own \cup {o}]]
    /\ wrote' = [wrote EXCEPT ![w] = @ \cup {o}]
    /\ UNCHANGED <<bin, bak, scaffold, launcher, pool, lane, cmd, faults>>
Break(w) ==
    /\ At("idle") /\ hook[w].st = "ok" /\ faults < MaxFault /\ faults' = faults + 1
    /\ hook' = [hook EXCEPT ![w].st = "broken"]
    /\ UNCHANGED <<bin, bak, wrote, scaffold, launcher, pool, lane, cmd>>
Mend(w) ==
    /\ At("idle") /\ hook[w].st = "broken" /\ hook' = [hook EXCEPT ![w].st = "ok"]
    /\ UNCHANGED <<bin, bak, wrote, scaffold, launcher, pool, lane, cmd, faults>>

(***************************************************************************)
(* A pool of an older release, or none yet                                 *)
(***************************************************************************)
Init ==
    /\ bin = 1
    /\ hook = [w \in Wrapper |-> Missing]
    /\ bak = [w \in Wrapper |-> {}] /\ wrote = bak
    /\ spec \in {0, Alien} /\ enrol = [own |-> TRUE, v |-> 0]
    /\ disp \in {0, Alien} /\ theirs = (disp = Alien)
    /\ legacy \in BOOLEAN
    /\ prof = [own |-> TRUE, block |-> FALSE, bak |-> FALSE]
    /\ pool = [there |-> legacy, listed |-> FALSE, wrappers |-> {}, stale |-> IF legacy THEN "1h" ELSE ""]
    /\ lane = [l \in Lane |-> "down"]
    /\ cmd = Idle /\ faults = 0

Step ==
    \/ \E w \in Wrapper : Refresh(w) \/ Drop(w) \/ Install(w)
    \/ \E l \in Lane : Stop(l) \/ Fence(l)
    \/ Verify \/ InitPlan \/ InitSpec \/ InitSpecWrite \/ InitEnrol \/ InitEnrolWrite
    \/ DropEnds \/ InstallEnds \/ Dispatcher \/ DispatcherWrite \/ RemoveLegacy
    \/ Profile \/ ProfileWrite \/ Record \/ StopEnds \/ FenceEnds \/ Adopt
    \/ UpToDate \/ \E b \in Version : Swap(b)

Next ==
    \/ StartSetup \/ StartUpdate \/ Step \/ Cut
    \/ \E l \in Lane : Leave(l) \/ \E w \in Wrapper : Launch(l, w)
    \/ \E w \in Wrapper : Break(w) \/ Mend(w)
    \/ \E w \in Wrapper, o \in Own : Edit(w, o)

Spec == Init /\ [][Next]_vars
\* a started command goes on; the operator repeats setup until it succeeds, as
\* every failure message asks, and mends the file it names.
FairSpec == /\ Spec /\ WF_vars(Step) /\ SF_vars(StartSetup)
            /\ SF_vars(\E w \in Wrapper : Mend(w))

(***************************************************************************)
(* Properties                                                              *)
(***************************************************************************)
\* The types; while wrappers are dropped none of the wanted ones is among them,
\* and only wanted ones are installed.
TypeOK ==
    /\ bin \in Version /\ faults \in 0 .. MaxFault
    /\ hook \in [Wrapper -> [st : {"missing", "ok", "broken"}, v : 0 .. MaxVersion, own : SUBSET Own]]
    /\ bak \in [Wrapper -> SUBSET Own] /\ wrote \in [Wrapper -> SUBSET Own]
    /\ spec \in 0 .. Alien /\ enrol \in [own : BOOLEAN, v : 0 .. MaxVersion]
    /\ disp \in 0 .. Alien /\ theirs \in BOOLEAN /\ legacy \in BOOLEAN
    /\ prof \in [own : BOOLEAN, block : BOOLEAN, bak : BOOLEAN]
    /\ pool \in [there : BOOLEAN, listed : BOOLEAN, wrappers : SUBSET Wrapper, stale : Stale]
    /\ lane \in [Lane -> {"down", "up", "ending"}]
    /\ cmd.todo \subseteq Wrapper \cup Lane /\ cmd.want \subseteq Wrapper
    /\ At("drop") => cmd.todo \cap cmd.want = {}
    /\ At("install") => cmd.todo \subseteq cmd.want

\* What people put into the files that have a backup is not lost, wherever a
\* command is killed: a project's hook entries are in the file or in a backup, the
\* profile's own lines are in it or in its backup, and a user's own `ac` is not
\* overwritten.  The enrollment files have no backup: EnrolKept.
OwnKept ==
    /\ \A w \in Wrapper : wrote[w] \subseteq hook[w].own \cup bak[w]
    /\ prof.own \/ prof.bak
    /\ theirs => disp = Alien

\* The lines people wrote into an enrollment file are in it, or in the hands of the
\* command that is rewriting it; only a command that stops between the truncation
\* and the write loses them, for good.
OwnLines == enrol.own \/ (At("enrolw") /\ cmd.keep)
EnrolKept == [][OwnLines /\ ~OwnLines' => At("enrolw") /\ faults' = faults + 1]_vars

\* A lane is stopped or fenced last of all: by then no installed hook file names
\* a subcommand the installed release lacks, the wanted wrappers have theirs,
\* `ac` works and the choice is recorded.  (`update --no-resync` says it does not
\* wait.)
Ready == /\ \A w \in Wrapper : Compatible(w, bin)
         /\ \A w \in cmd.want : hook[w].st = "ok" /\ hook[w].v = bin
         /\ disp = bin /\ pool.listed /\ pool.wrappers = cmd.want
FenceLast ==
    [][\A l \in Lane : lane[l] = "up" /\ lane'[l] = "ending" => ~cmd.resync \/ Ready]_vars

\* An update never changes a choice that was recorded, not even the choice of no
\* wrapper, nor a recorded staleness threshold; setup changes the threshold only to
\* the one it was given.
ChoiceKept ==
    [][/\ cmd.up /\ pool.listed => pool'.wrappers = pool.wrappers
       /\ pool.stale # "" => \/ pool'.stale = pool.stale
                             \/ ~cmd.up /\ cmd.stale # "" /\ pool'.stale = cmd.stale]_vars

\* Whatever else is wrong with the repository, repeating setup brings the hook
\* files back in step with the binary: phase 0 waits for nothing.
HooksHeal == []<>(\A w \in Wrapper : Compatible(w, bin))
=============================================================================
