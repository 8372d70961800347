-------------------------------- MODULE Wipe --------------------------------
(***************************************************************************)
(* `setup --reset --wipe-state` (internal/cli: setup_wipe.go,              *)
(* setup_reset.go, setup_clean.go): the runtime state of a pool is deleted  *)
(* unless the pool shows a sign of life, while lanes start, beat, hang and  *)
(* end, agents register by hand and the files to be cleaned change hands.   *)
(***************************************************************************)
EXTENDS Naturals, FiniteSets

CONSTANTS
    Agent,      \* agent ids
    Foreign,    \* those whose lanes run on another host of the pool
    MaxStart,   \* launches and registrations by hand
    MaxFault    \* kills of a lane or of the wipe, and failed deletions

Pool == "pool"                  \* state/setup.json and state/pool.id
Stray == {"legacy", "backup"}   \* an older loop directory, a binary backup
Age == {"none", "fresh", "stale"}
Idle == [pc |-> "idle", ids |-> {}, boxes |-> {}, rows |-> {}, state |-> {},
         strays |-> {}, todo |-> {}, failed |-> FALSE]

VARIABLES
    lane,      \* per agent: "none", "new" (has its lease), "up", "off" (ending)
    claim,     \* per agent: state/<id>/serve.claim, an Age
    row,       \* per agent: agents/<id>.md, an Age
    box,       \* agents with a mailbox under inbox/
    state,     \* entries of state/: agents, and Pool
    rec,       \* agents whose runner.json is there; it names their last lane
    reused,    \* those whose recorded pid is by now another process of this host
    poller,    \* agents whose poller.json, of an old release, names a living process
    stray,     \* per Stray: "gone", "own" or "other" (a link, another user's)
    w,         \* the wipe that is running
    renewed,   \* ghost: claims and rows written since the wipe's last look at them
    late,      \* ghost: lanes launched since the wipe's last look at state/
    starts, faults

vars == <<lane, claim, row, box, state, rec, reused, poller, stray, w, renewed, late, starts, faults>>
bus == <<lane, claim, row, box, state, rec, reused, poller>>
ghosts == <<renewed, late>>
counts == <<starts, faults>>

At(pc) == w.pc = pc
Goto(pc) == w' = [w EXCEPT !.pc = pc]
End == w' = Idle
Deleting == w.pc \in {"boxes", "rows", "state"}
Renew(a) == renewed' = IF Deleting THEN renewed \cup {a} ELSE {}
Late(a) == late' = IF w.pc \in {"clean", "green"} THEN late \cup {a} ELSE {}
First(s) == CHOOSE x \in s : TRUE

(***************************************************************************)
(* Signs of life                                                           *)
(***************************************************************************)
\* runner.json names a process of this host, and it is the lane's
Runs(a) == a \in rec \ Foreign /\ lane[a] \in {"up", "off"}
\* a recorded pid that lives, whoever has it: one that cannot be told refuses too.
Alive(a) == Runs(a) \/ a \in reused \cup poller

\* Mutant of Claims: only the claims of the ids listed at the start.
ClaimsListed == {a \in w.ids : claim[a] = "fresh"}

\* a claim is read from every directory under state/, not only from the ids listed.
Claims == {a \in Agent \cap state : claim[a] = "fresh"}
\* scanWipeLiveSignals
Signs == {a \in w.ids : Alive(a) \/ row[a] = "fresh"} \cup Claims

(***************************************************************************)
(* The wipe                                                                *)
(***************************************************************************)
\* setupResetAgentIDs, once for the whole wipe.
Start ==
    /\ At("idle")
    /\ w' = LET ids == {a \in Agent : row[a] # "none"} \cup (state \ {Pool})
            IN  [Idle EXCEPT !.pc = "stop", !.ids = ids, !.todo = ids]
    /\ renewed' = {} /\ late' = {}
    /\ UNCHANGED <<bus, stray, counts>>
\* stopSetupRunner and stopSetupLegacyPoller: only a process that its command line
\* proves to be ours, so never one that has got a recorded pid by chance.
Stop ==
    /\ At("stop") /\ w.todo # {}
    /\ LET a == First(w.todo) IN
       /\ w' = [w EXCEPT !.todo = @ \ {a}]
       /\ \/ Runs(a) /\ lane' = [lane EXCEPT ![a] = "off"]
          \/ UNCHANGED lane       \* none, or its command line is not recognised
       /\ poller' \in {poller, poller \ {a}}
    /\ UNCHANGED <<claim, row, box, state, rec, reused, stray, ghosts, counts>>
\* the wait ends when the recorded processes are gone, and after three seconds.
Wait ==
    /\ At("stop") /\ w.todo = {} /\ Goto("scan")
    /\ UNCHANGED <<bus, stray, ghosts, counts>>
Scan ==
    /\ At("scan") /\ IF Signs = {} THEN Goto("plan") ELSE End
    /\ UNCHANGED <<bus, stray, ghosts, counts>>
\* computeWipePlan and computeCleanPlan, by directory entry.
Preserved == {Pool}
Plan ==
    /\ At("plan")
    /\ w' = [w EXCEPT !.pc = "confirm", !.boxes = box, !.state = state \ Preserved,
                      !.rows = {a \in Agent : row[a] # "none"},
                      !.strays = {k \in Stray : stray[k] = "own"}]
    /\ UNCHANGED <<bus, stray, ghosts, counts>>
\* the operator has approved; look again before the first deletion.
Rescan ==
    /\ At("confirm") /\ IF Signs = {} THEN Goto("boxes") ELSE End
    /\ renewed' = {}
    /\ UNCHANGED <<bus, stray, late, counts>>

\* executeWipePlan, in the order of the categories.  A failed target is kept in
\* mind and the others are still deleted.
DeleteBoxes ==
    /\ At("boxes")
    /\ IF w.boxes = {} THEN Goto("rows") /\ UNCHANGED box
       ELSE LET a == First(w.boxes) IN
            w' = [w EXCEPT !.boxes = @ \ {a}] /\ box' = box \ {a}
    /\ UNCHANGED <<lane, claim, row, state, rec, reused, poller, stray, ghosts, counts>>
DeleteRows ==
    /\ At("rows")
    /\ IF w.rows = {} THEN Goto("state") /\ UNCHANGED row
       ELSE LET a == First(w.rows) IN
            w' = [w EXCEPT !.rows = @ \ {a}] /\ row' = [row EXCEPT ![a] = "none"]
    /\ UNCHANGED <<lane, claim, box, state, rec, reused, poller, stray, ghosts, counts>>
DeleteState ==
    /\ At("state")
    /\ IF w.state = {} THEN Goto("legacy") /\ UNCHANGED <<claim, state, rec, reused, poller>>
       ELSE LET e == First(w.state) IN
            /\ w' = [w EXCEPT !.state = @ \ {e}] /\ state' = state \ {e} /\ rec' = rec \ {e}
            /\ reused' = reused \ {e} /\ poller' = poller \ {e}
            /\ claim' = [a \in Agent |-> IF a = e THEN "none" ELSE claim[a]]
    /\ UNCHANGED <<lane, row, box, stray, ghosts, counts>>
Fails ==
    /\ w.pc \in {"boxes", "rows", "state"} /\ faults < MaxFault /\ faults' = faults + 1
    /\ \/ At("boxes") /\ w.boxes # {}
          /\ w' = [w EXCEPT !.failed = TRUE, !.boxes = @ \ {First(@)}]
       \/ At("rows") /\ w.rows # {}
          /\ w' = [w EXCEPT !.failed = TRUE, !.rows = @ \ {First(@)}]
       \/ At("state") /\ w.state # {}
          /\ w' = [w EXCEPT !.failed = TRUE, !.state = @ \ {First(@)}]
    /\ UNCHANGED <<bus, stray, ghosts, starts>>
\* validateLegacyCandidate and classifyBackup, asked again right before the removal.
StillOwn(k) == stray[k] = "own"
Removable(k) == k \in w.strays /\ StillOwn(k)
DeleteLegacy ==
    /\ At("legacy")
    /\ stray' = IF Removable("legacy") THEN [stray EXCEPT !["legacy"] = "gone"] ELSE stray
    /\ IF w.failed \/ ("legacy" \in w.strays /\ ~Removable("legacy")) THEN End ELSE Goto("left")
    /\ renewed' = {} /\ UNCHANGED <<bus, late, counts>>
\* rescanWipeLeftovers, the mailboxes first, then state/.
LeftBoxes ==
    /\ At("left") /\ IF box = {} THEN Goto("leftstate") ELSE End
    /\ UNCHANGED <<bus, stray, ghosts, counts>>
LeftState ==
    /\ At("leftstate") /\ IF state \subseteq {Pool} THEN Goto("clean") ELSE End
    /\ late' = {}
    /\ UNCHANGED <<bus, stray, renewed, counts>>
\* applyCleanPlan, then the success report.
Clean ==
    /\ At("clean")
    /\ stray' = IF Removable("backup") THEN [stray EXCEPT !["backup"] = "gone"] ELSE stray
    /\ IF "backup" \in w.strays /\ ~Removable("backup") THEN End ELSE Goto("green")
    /\ UNCHANGED <<bus, ghosts, counts>>
Report ==
    /\ At("green") /\ End /\ late' = {}
    /\ UNCHANGED <<bus, stray, renewed, counts>>
\* killed, declined, or something it must read cannot be read.
Cut ==
    /\ ~At("idle") /\ faults < MaxFault /\ faults' = faults + 1 /\ End
    /\ UNCHANGED <<bus, stray, ghosts, starts>>

(***************************************************************************)
(* The pool meanwhile                                                      *)
(***************************************************************************)
Begin == starts < MaxStart /\ starts' = starts + 1
\* serve: the lease, which makes the directory; then the row and the record.
Launch(a) ==
    /\ Begin /\ lane[a] = "none" /\ claim[a] # "fresh"
    /\ lane' = [lane EXCEPT ![a] = "new"] /\ claim' = [claim EXCEPT ![a] = "fresh"]
    /\ state' = state \cup {a} /\ Renew(a) /\ Late(a)
    /\ UNCHANGED <<row, box, rec, reused, poller, stray, w, faults>>
Enrol(a) ==
    /\ lane[a] = "new" /\ lane' = [lane EXCEPT ![a] = "up"]
    /\ row' = [row EXCEPT ![a] = "fresh"] /\ box' = box \cup {a}
    /\ rec' = rec \cup {a} /\ reused' = reused \ {a} /\ state' = state \cup {a} /\ Renew(a)
    /\ UNCHANGED <<claim, poller, stray, w, late, counts>>
\* a beat renews the claim and the row; a lane without its claim is fenced.
Beat(a) ==
    /\ lane[a] = "up" /\ UNCHANGED <<box, state, rec, reused, poller, stray, w, late, counts>>
    /\ \/ claim[a] # "none" /\ <<claim[a], row[a]>> # <<"fresh", "fresh">>
          /\ claim' = [claim EXCEPT ![a] = "fresh"] /\ row' = [row EXCEPT ![a] = "fresh"]
          /\ Renew(a) /\ UNCHANGED lane
       \/ claim[a] = "none"
          /\ lane' = [lane EXCEPT ![a] = "off"] /\ UNCHANGED <<claim, row, renewed>>
\* an ending lane writes its offline record and gives its lease back.
Leave(a) ==
    /\ lane[a] # "none" /\ lane' = [lane EXCEPT ![a] = "none"]
    /\ claim' = [claim EXCEPT ![a] = "none"]
    /\ IF lane[a] = "new" THEN UNCHANGED <<state, rec>>
       ELSE state' = state \cup {a} /\ rec' = rec \cup {a}
    /\ UNCHANGED <<row, box, reused, poller, stray, w, ghosts, counts>>
Kill(a) ==
    /\ lane[a] # "none" /\ faults < MaxFault /\ faults' = faults + 1
    /\ lane' = [lane EXCEPT ![a] = "none"]
    /\ UNCHANGED <<claim, row, box, state, rec, reused, poller, stray, w, ghosts, starts>>
\* twenty seconds, an hour: without a lane, or with one that hangs.
ClaimAges(a) ==
    /\ lane[a] \in {"none", "up"} /\ claim[a] = "fresh" /\ claim' = [claim EXCEPT ![a] = "stale"]
    /\ UNCHANGED <<lane, row, box, state, rec, reused, poller, stray, w, ghosts, counts>>
RowAges(a) ==
    /\ lane[a] \in {"none", "up"} /\ claim[a] # "fresh"
    /\ row[a] = "fresh" /\ row' = [row EXCEPT ![a] = "stale"]
    /\ UNCHANGED <<lane, claim, box, state, rec, reused, poller, stray, w, ghosts, counts>>
\* `agentchute register`, without a lane
ByHand(a) ==
    /\ Begin /\ lane[a] = "none" /\ row[a] # "fresh" /\ row' = [row EXCEPT ![a] = "fresh"]
    /\ box' = box \cup {a} /\ Renew(a)
    /\ UNCHANGED <<lane, claim, state, rec, reused, poller, stray, w, late, faults>>
\* the pid of a lane that ended is given to another process of the host, which
\* ends some day, or never; so does the poller of an old release.
Reuse(a) ==
    /\ a \in rec \ (Foreign \cup reused) /\ lane[a] = "none"
    /\ faults < MaxFault /\ faults' = faults + 1 /\ reused' = reused \cup {a}
    /\ UNCHANGED <<lane, claim, row, box, state, rec, poller, stray, w, ghosts, starts>>
OtherEnds(a) ==
    /\ \/ a \in reused /\ reused' = reused \ {a} /\ UNCHANGED poller
       \/ a \in poller /\ poller' = poller \ {a} /\ UNCHANGED reused
    /\ UNCHANGED <<lane, claim, row, box, state, rec, stray, w, ghosts, counts>>
\* a link or another user's file takes the place of a stray
Swap(k) ==
    /\ k \in w.strays /\ stray[k] = "own" /\ faults < MaxFault /\ faults' = faults + 1
    /\ stray' = [stray EXCEPT ![k] = "other"]
    /\ UNCHANGED <<bus, w, ghosts, starts>>

\* a pool where some agents have lived before, and some of them were killed; a
\* poller of an old release may still run.
Init ==
    /\ lane = [a \in Agent |-> "none"]
    /\ \E old \in SUBSET Agent : \E dead \in SUBSET old :
          /\ row = [a \in Agent |-> IF a \in old THEN "stale" ELSE "none"]
          /\ claim = [a \in Agent |-> IF a \in dead THEN "stale" ELSE "none"]
          /\ box = old /\ state = old \cup {Pool} /\ rec = dead
          /\ poller \in SUBSET (old \ Foreign)
    /\ reused = {} /\ stray = [k \in Stray |-> "own"] /\ w = Idle
    /\ renewed = {} /\ late = {} /\ starts = 0 /\ faults = 0

Step == \/ Stop \/ Wait \/ Scan \/ Plan \/ Rescan \/ DeleteBoxes \/ DeleteRows \/ DeleteState
        \/ DeleteLegacy \/ LeftBoxes \/ LeftState \/ Clean \/ Report
Next ==
    \/ Start \/ Step \/ Fails \/ Cut
    \/ \E a \in Agent : \/ Launch(a) \/ Enrol(a) \/ Beat(a) \/ Leave(a)
                        \/ Kill(a) \/ ClaimAges(a) \/ RowAges(a) \/ ByHand(a)
                        \/ Reuse(a) \/ OtherEnds(a)
    \/ \E k \in Stray : Swap(k)

Spec == Init /\ [][Next]_vars
\* the operator repeats the wipe until it succeeds; time passes.
FairSpec == /\ Spec /\ WF_vars(Start) /\ WF_vars(Step)
            /\ \A a \in Agent : /\ WF_vars(lane[a] = "none" /\ ClaimAges(a))
                                /\ WF_vars(lane[a] = "none" /\ RowAges(a))

(***************************************************************************)
(* Properties                                                              *)
(***************************************************************************)
\* The types; whatever is deleted, the pool's identity and choices stay.
TypeOK ==
    /\ lane \in [Agent -> {"none", "new", "up", "off"}]
    /\ claim \in [Agent -> Age] /\ row \in [Agent -> Age]
    /\ box \subseteq Agent /\ state \subseteq Agent \cup {Pool} /\ rec \subseteq Agent
    /\ reused \subseteq Agent /\ poller \subseteq Agent
    /\ stray \in [Stray -> {"gone", "own", "other"}]
    /\ w.todo \subseteq w.ids /\ w.ids \subseteq Agent /\ starts \in 0 .. MaxStart
    /\ faults \in 0 .. MaxFault /\ renewed \subseteq Agent /\ late \subseteq Agent
    /\ Pool \in state

\* A lane that is alive, on whichever host and of whichever id, loses its claim to
\* a wipe only if it took or renewed it after the wipe's last look; and so does the
\* fresh row of an agent the wipe had listed.
LiveSpared ==
    [][Deleting => \A a \in Agent \ renewed :
          /\ claim[a] = "fresh" => claim'[a] # "none"
          /\ row[a] = "fresh" /\ a \in w.ids => row'[a] # "none"]_<<claim, row, w>>

\* The success report is true of state/: a lane that is running when it is printed
\* was launched after the last look, or it has lost its lease and is on its way out.
GreenIsQuiet ==
    [][w'.pc = "green" => \A a \in Agent : claim'[a] # "none" => a \in late]_w

\* A link or another user's file that took the place of an older loop or a binary
\* backup is never removed in its stead, however long the operator thought.
StrayGuarded == [][\A k \in Stray : stray[k] = "other" => stray'[k] = "other"]_stray

\* When the lanes have ended, and no other process has the pid a lane or a poller
\* left on record, a repeated wipe is not refused for ever: dead claims and rows stop
\* counting, and what ending lanes left behind is swept away.
WipeInTheEnd ==
    []<>((\A a \in Agent : lane[a] = "none" /\ a \notin reused \cup poller) => At("green"))

\* "refusal reasons ... for: ... a fresh registration row (any host)"
\* (setup_wipe.go:554-560): the rows that are there, not the rows that were listed.
FreshRowRefuses ==
    [][Deleting => \A a \in Agent \ renewed : row[a] = "fresh" => row'[a] # "none"]_<<row, w>>
=============================================================================
