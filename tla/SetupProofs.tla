------------------------------- MODULE SetupProofs -------------------------------
(***************************************************************************)
(* Proofs about the host commands: what setup and update keep, that they   *)
(* fence the lanes last, and what a wipe spares.                           *)
(*                                                                         *)
(* The setup side rests on SetupInv: its stages, from phase 0 to the last  *)
(* lane, each add one fact to what Ready promises, and no step in between  *)
(* takes one back.  The wipe side rests on WipeInv: what its last look     *)
(* found to be dead stays dead, but for what is counted as renewed.        *)
(***************************************************************************)
EXTENDS MCSetup, TLAPS

-----------------------------------------------------------------------------
(* Setup: the invariant *)

Early == {"idle", "adopt", "fetch", "refresh"}
Scaffold == {"init", "spec", "specw", "enrol", "enrolw", "drop"}
Wired == {"ac", "acw"}
Launching == {"legacy", "profile", "profw", "record"}
Last == {"stop", "fence", "ufence"}

Stage == Early \cup Scaffold \cup {"install"} \cup Wired \cup Launching \cup Last

Command == [pc : Stage, want : SUBSET Wrapper, stale : Stale, up : BOOLEAN, resync : BOOLEAN,
            keep : BOOLEAN, todo : SUBSET (Wrapper \cup Lane)]
Hook == [st : {"missing", "ok", "broken"}, v : 0 .. MaxVersion, own : SUBSET Own]
Profiles == [own : BOOLEAN, block : BOOLEAN, bak : BOOLEAN]
Recorded == [there : BOOLEAN, listed : BOOLEAN, wrappers : SUBSET Wrapper, stale : Stale]

HookTypes == /\ hook \in [Wrapper -> Hook]
             /\ bak \in [Wrapper -> SUBSET Own] /\ wrote \in [Wrapper -> SUBSET Own]
FileTypes == /\ bin \in Version /\ faults \in 0 .. MaxFault
             /\ spec \in 0 .. Alien /\ enrol \in [own : BOOLEAN, v : 0 .. MaxVersion]
             /\ disp \in 0 .. Alien /\ theirs \in BOOLEAN /\ legacy \in BOOLEAN
             /\ prof \in Profiles /\ pool \in Recorded
             /\ lane \in [Lane -> {"down", "up", "ending"}]
CmdTypes == /\ cmd \in Command
            /\ At("drop") => cmd.todo \cap cmd.want = {}
            /\ At("install") => cmd.todo \subseteq cmd.want

\* Nothing of the people is lost, and the write that follows a truncation has
\* nothing of theirs to lose.
EntriesKept == \A x \in Wrapper : wrote[x] \subseteq hook[x].own \cup bak[x]
LinesKept == (prof.own \/ prof.bak) /\ (At("profw") => prof.bak)
ProgramKept == (theirs => disp = Alien) /\ (At("acw") => ~theirs)

\* Only the command that rewrites an enrollment file has its lines in hand.
LinesInHand == At("enrolw") => ~enrol.own

\* An update carries the recorded choice, and the threshold if there was one.
Carried == /\ cmd.up /\ pool.listed => cmd.want = pool.wrappers
           /\ cmd.up /\ pool.stale # "" => cmd.stale \in {"", pool.stale}
           /\ At("adopt") => cmd.up /\ cmd.stale = pool.stale

\* What each stage of a setup has behind it.
Fits(x) == hook[x].st = "ok" /\ hook[x].v = bin
Pending == IF At("install") THEN cmd.todo ELSE {}
Stages ==
  cmd.resync =>
    /\ cmd.pc \notin Early => \A x \in Wrapper : Compatible(x, bin)
    /\ cmd.pc \in {"install"} \cup Wired \cup Launching \cup Last =>
         \A x \in cmd.want \ Pending : Fits(x)
    /\ cmd.pc \in Launching \cup Last => disp = bin
    /\ cmd.pc \in Last => pool.listed /\ pool.wrappers = cmd.want

SetupInv == /\ HookTypes /\ FileTypes /\ CmdTypes
            /\ EntriesKept /\ LinesKept /\ LinesInHand /\ ProgramKept /\ Carried /\ Stages

-----------------------------------------------------------------------------
(* Wipe: the invariant *)

Phases == {"idle", "stop", "scan", "plan", "confirm", "boxes", "rows", "state",
           "legacy", "left", "leftstate", "clean", "green"}
Wiping == [pc : Phases, ids : SUBSET Agent, boxes : SUBSET Agent, rows : SUBSET Agent,
           state : SUBSET Agent, strays : SUBSET W!Stray, todo : SUBSET Agent,
           failed : BOOLEAN]
BusTypes ==
  /\ wlane \in [Agent -> {"none", "new", "up", "off"}]
  /\ claim \in [Agent -> W!Age] /\ row \in [Agent -> W!Age]
  /\ box \subseteq Agent /\ state \subseteq Agent \cup {W!Pool} /\ rec \subseteq Agent
  /\ reused \subseteq Agent /\ poller \subseteq Agent
  /\ stray \in [W!Stray -> {"gone", "own", "other"}]
  /\ starts \in 0 .. MaxStart /\ wfaults \in 0 .. MaxFault
  /\ renewed \subseteq Agent /\ late \subseteq Agent
WipeTypes == /\ w \in Wiping /\ w.todo \subseteq w.ids
             /\ W!Pool \notin w.state /\ W!Pool \in state

\* A claim lies in a directory of state/; what is there is what a look can see.
Seated == \A a \in Agent : claim[a] # "none" => a \in state
\* While the wipe deletes, what its last look found dead is dead, or was renewed.
Dead == W!Deleting => \A a \in Agent \ renewed : /\ claim[a] # "fresh"
                                                 /\ a \in w.ids => row[a] # "fresh"
\* From the look at state/ on, a claim is of a lane launched since.
Quiet == w.pc \in {"clean", "green"} => \A a \in Agent : claim[a] # "none" => a \in late

WipeInv == BusTypes /\ WipeTypes /\ Seated /\ Dead /\ Quiet

HostInv == SetupInv /\ WipeInv

-----------------------------------------------------------------------------
(* Wipe: every step keeps the invariant *)

\* The arbitrary element the loops of the wipe take is one of the set.
LEMMA FirstIsOne == ASSUME NEW s, s # {} PROVE W!First(s) \in s
  BY DEF W!First

\* A wipe that ended holds nothing; one that goes on keeps what it holds.
LEMMA WipeEnded == /\ W!Idle \in Wiping /\ W!Idle.pc = "idle" /\ W!Idle.todo = {}
                   /\ W!Idle.ids = {} /\ W!Idle.state = {}
  BY DEF W!Idle, Wiping, Phases

LEMMA WipeWent ==
  ASSUME w \in Wiping, NEW pc \in Phases, W!Goto(pc)
  PROVE  /\ w' \in Wiping /\ w'.pc = pc /\ w'.todo = w.todo /\ w'.ids = w.ids
         /\ w'.state = w.state
  BY DEF W!Goto, Wiping

\* Initially nothing is being deleted, and the claims are of old agents.
LEMMA WipeStarts == W!Init => WipeInv
  <1> SUFFICES ASSUME W!Init PROVE WipeInv
    OBVIOUS
  <1> USE DEF W!Init, W!Idle, W!Pool, W!Stray, W!Age
  <1>1. PICK old \in SUBSET Agent : \E dead \in SUBSET old :
          /\ row = [a \in Agent |-> IF a \in old THEN "stale" ELSE "none"]
          /\ claim = [a \in Agent |-> IF a \in dead THEN "stale" ELSE "none"]
          /\ box = old /\ state = old \cup {"pool"} /\ rec = dead
          /\ poller \in SUBSET (old \ Foreign)
    OBVIOUS
  <1>2. PICK dead \in SUBSET old :
          /\ row = [a \in Agent |-> IF a \in old THEN "stale" ELSE "none"]
          /\ claim = [a \in Agent |-> IF a \in dead THEN "stale" ELSE "none"]
          /\ box = old /\ state = old \cup {"pool"} /\ rec = dead
          /\ poller \in SUBSET (old \ Foreign)
    BY <1>1
  <1>3. BusTypes
    BY <1>2, WipeAssumption, SetupAssumption DEF BusTypes
  <1>4. WipeTypes
    BY <1>2 DEF WipeTypes, Wiping, Phases
  <1>5. Seated /\ Dead /\ Quiet
    BY <1>2 DEF Seated, Dead, Quiet, W!Deleting
  <1> QED
    BY <1>3, <1>4, <1>5 DEF WipeInv

\* The steps of the wipe itself, up to the first deletion.
LEMMA LooksKeep ==
  ASSUME WipeInv, W!Start \/ W!Stop \/ W!Wait \/ W!Scan \/ W!Plan \/ W!Rescan
  PROVE  WipeInv'
  <1> USE DEF W!At, W!bus, W!ghosts, W!counts, W!Deleting
  <1>t. BusTypes /\ WipeTypes /\ Seated /\ Dead /\ Quiet
    BY DEF WipeInv
  <1>1. CASE W!Start
    <2>1. PICK ids : /\ ids = {a \in Agent : row[a] # "none"} \cup (state \ {W!Pool})
                     /\ w' = [W!Idle EXCEPT !.pc = "stop", !.ids = ids, !.todo = ids]
      BY <1>1 DEF W!Start
    <2>2. ids \subseteq Agent
      BY <1>t, <2>1 DEF BusTypes
    <2>3. w' \in Wiping /\ w'.pc = "stop" /\ w'.todo \subseteq w'.ids /\ w'.state = {}
      BY <2>1, <2>2 DEF Wiping, Phases, W!Idle
    <2>4. BusTypes' /\ WipeTypes'
      BY <1>t, <1>1, <2>3 DEF W!Start, BusTypes, WipeTypes
    <2> QED
      BY <1>t, <1>1, <2>3, <2>4 DEF W!Start, Seated, Dead, Quiet, WipeInv
  <1>2. CASE W!Stop
    <2>1. PICK a : a = W!First(w.todo)
      OBVIOUS
    <2>2. a \in w.todo /\ a \in Agent
      BY <1>t, <1>2, <2>1, FirstIsOne DEF W!Stop, WipeTypes, Wiping
    <2>3. /\ w' = [w EXCEPT !.todo = w.todo \ {a}]
          /\ wlane' = [wlane EXCEPT ![a] = "off"] \/ wlane' = wlane
          /\ poller' \subseteq poller
          /\ UNCHANGED <<claim, row, box, state, rec, reused, stray, renewed, late, starts, wfaults>>
      BY <1>2, <2>1 DEF W!Stop
    <2>4. w' \in Wiping /\ w'.pc = w.pc /\ w'.ids = w.ids /\ w'.state = w.state
          /\ w'.todo \subseteq w.todo
      BY <1>t, <2>3 DEF WipeTypes, Wiping
    <2>5. BusTypes' /\ WipeTypes'
      BY <1>t, <2>2, <2>3, <2>4 DEF BusTypes, WipeTypes
    <2> QED
      BY <1>t, <2>3, <2>4, <2>5 DEF Seated, Dead, Quiet, WipeInv
  <1>3. CASE W!Wait \/ W!Scan
    <2>1. w' \in Wiping /\ w'.pc \in {"scan", "plan", "idle"} /\ w'.todo \subseteq w'.ids
          /\ w'.state \subseteq w.state
      <3>1. \/ w' = W!Idle
            \/ \E pc \in {"scan", "plan"} : W!Goto(pc)
        BY <1>3 DEF W!Wait, W!Scan, W!End
      <3> QED
        BY <1>t, <3>1, WipeEnded, WipeWent DEF WipeTypes, Phases
    <2>2. UNCHANGED <<wlane, claim, row, box, state, rec, reused, poller, stray, renewed, late, starts, wfaults>>
      BY <1>3 DEF W!Wait, W!Scan
    <2>3. BusTypes'
      BY <1>t, <2>2 DEF BusTypes
    <2>4. WipeTypes'
      BY <1>t, <2>1, <2>2 DEF WipeTypes
    <2> QED
      BY <1>t, <2>1, <2>2, <2>3, <2>4 DEF Seated, Dead, Quiet, WipeInv
  <1>4. CASE W!Plan
    <2>1. w' \in Wiping /\ w'.pc = "confirm" /\ w'.todo \subseteq w'.ids
          /\ W!Pool \notin w'.state
      BY <1>t, <1>4 DEF W!Plan, W!Preserved, WipeTypes, Wiping, Phases, BusTypes
    <2>2. UNCHANGED <<wlane, claim, row, box, state, rec, reused, poller, stray, renewed, late, starts, wfaults>>
      BY <1>4 DEF W!Plan
    <2>3. BusTypes'
      BY <1>t, <2>2 DEF BusTypes
    <2>4. WipeTypes'
      BY <1>t, <2>1, <2>2 DEF WipeTypes
    <2> QED
      BY <1>t, <2>1, <2>2, <2>3, <2>4 DEF Seated, Dead, Quiet, WipeInv
  <1>5. CASE W!Rescan
    <2>1. w' \in Wiping /\ w'.pc \in {"boxes", "idle"} /\ w'.todo \subseteq w'.ids
          /\ w'.state \subseteq w.state
      BY <1>t, <1>5, WipeEnded, WipeWent DEF W!Rescan, W!End, WipeTypes, Phases
    <2>2. /\ UNCHANGED <<wlane, claim, row, box, state, rec, reused, poller, stray, late, starts, wfaults>>
          /\ renewed' = {}
      BY <1>5 DEF W!Rescan
    <2>3. w'.pc = "boxes" => W!Signs = {} /\ w'.ids = w.ids
      BY <1>t, <1>5, WipeEnded, WipeWent DEF W!Rescan, W!End, WipeTypes, Phases
    <2>4. Dead'
      <3> SUFFICES ASSUME w'.pc = "boxes", NEW a \in Agent
                   PROVE  claim[a] # "fresh" /\ (a \in w.ids => row[a] # "fresh")
        BY <2>1, <2>2, <2>3 DEF Dead
      <3> QED
        BY <1>t, <2>3 DEF W!Signs, W!Claims, Seated
    <2> QED
      BY <1>t, <2>1, <2>2, <2>4 DEF BusTypes, WipeTypes, Seated, Quiet, WipeInv
  <1> QED
    BY <1>1, <1>2, <1>3, <1>4, <1>5

\* The deletions: each removes what it was told to, and refreshes nothing.
LEMMA DeletionsKeep ==
  ASSUME WipeInv, W!DeleteBoxes \/ W!DeleteRows \/ W!DeleteState \/ W!Fails
  PROVE  WipeInv'
  <1> USE DEF W!At, W!bus, W!ghosts, W!counts, W!Deleting
  <1>t. BusTypes /\ WipeTypes /\ Seated /\ Dead /\ Quiet
    BY DEF WipeInv
  <1>1. /\ w' \in Wiping /\ w'.todo \subseteq w'.ids /\ w'.ids = w.ids
        /\ w'.state \subseteq w.state
        /\ w.pc \in {"boxes", "rows", "state"}
        /\ w'.pc \in {"boxes", "rows", "state", "legacy"}
    <2>1. CASE W!DeleteBoxes
      BY <1>t, <2>1, WipeWent DEF W!DeleteBoxes, WipeTypes, Wiping, Phases
    <2>2. CASE W!DeleteRows
      BY <1>t, <2>2, WipeWent DEF W!DeleteRows, WipeTypes, Wiping, Phases
    <2>3. CASE W!DeleteState
      BY <1>t, <2>3, WipeWent DEF W!DeleteState, WipeTypes, Wiping, Phases
    <2>4. CASE W!Fails
      <3>1. PICK s \in SUBSET Agent :
               /\ s \subseteq w.state
               /\ \/ w' = [w EXCEPT !.failed = TRUE, !.boxes = w.boxes \ {W!First(w.boxes)}]
                  \/ w' = [w EXCEPT !.failed = TRUE, !.rows = w.rows \ {W!First(w.rows)}]
                  \/ w' = [w EXCEPT !.failed = TRUE, !.state = s]
        <4>1. w.state \ {W!First(w.state)} \in SUBSET Agent
          BY <1>t DEF WipeTypes, Wiping
        <4> QED
          BY <1>t, <2>4, <4>1 DEF W!Fails, WipeTypes
      <3>2. w.pc \in {"boxes", "rows", "state"}
        BY <2>4 DEF W!Fails
      <3>3. /\ w' \in Wiping /\ w'.pc = w.pc /\ w'.todo = w.todo /\ w'.ids = w.ids
            /\ w'.state = w.state \/ w'.state = s
        <4>1. CASE w' = [w EXCEPT !.failed = TRUE, !.boxes = w.boxes \ {W!First(w.boxes)}]
          BY <1>t, <4>1 DEF WipeTypes, Wiping
        <4>2. CASE w' = [w EXCEPT !.failed = TRUE, !.rows = w.rows \ {W!First(w.rows)}]
          BY <1>t, <4>2 DEF WipeTypes, Wiping
        <4>3. CASE w' = [w EXCEPT !.failed = TRUE, !.state = s]
          BY <1>t, <4>3 DEF WipeTypes, Wiping
        <4> QED
          BY <3>1, <4>1, <4>2, <4>3
      <3> QED
        BY <1>t, <3>1, <3>2, <3>3 DEF WipeTypes
    <2> QED
      BY <2>1, <2>2, <2>3, <2>4
  <1>2. UNCHANGED <<wlane, stray, renewed, late, starts>>
    BY DEF W!DeleteBoxes, W!DeleteRows, W!DeleteState, W!Fails
  <1>3. /\ box' \subseteq box /\ rec' \subseteq rec
        /\ reused' \subseteq reused /\ poller' \subseteq poller
        /\ wfaults' \in 0 .. MaxFault
    <2>1. /\ box' \subseteq box /\ rec' \subseteq rec
          /\ reused' \subseteq reused /\ poller' \subseteq poller
      BY DEF W!DeleteBoxes, W!DeleteRows, W!DeleteState, W!Fails
    <2>2. wfaults' \in 0 .. MaxFault
      BY <1>t, SetupAssumption
      DEF W!DeleteBoxes, W!DeleteRows, W!DeleteState, W!Fails, BusTypes
    <2> QED
      BY <2>1, <2>2
  <1>4. /\ row' \in [Agent -> W!Age]
        /\ \A a \in Agent : row'[a] \in {row[a], "none"}
    <2>1. CASE row' = row
      BY <1>t, <2>1 DEF BusTypes
    <2>2. CASE W!DeleteRows /\ row' # row
      BY <1>t, <2>2 DEF W!DeleteRows, BusTypes, W!Age
    <2> QED
      BY <2>1, <2>2 DEF W!DeleteBoxes, W!DeleteRows, W!DeleteState, W!Fails
  <1>5. /\ claim' \in [Agent -> W!Age]
        /\ \A a \in Agent : claim'[a] = claim[a] \/ claim'[a] = "none"
        /\ \A a \in Agent : a \in state /\ a \notin state' => claim'[a] = "none"
        /\ state' \subseteq state /\ (W!Pool \in state' \/ W!Pool \in w.state)
    <2>1. CASE claim' = claim /\ state' = state
      BY <1>t, <2>1 DEF BusTypes, WipeTypes
    <2>2. CASE W!DeleteState /\ w.state # {}
      <3>1. PICK e : e = W!First(w.state)
        OBVIOUS
      <3>2. e \in w.state
        BY <2>2, <3>1, FirstIsOne
      <3>3. /\ state' = state \ {e}
            /\ claim' = [a \in Agent |-> IF a = e THEN "none" ELSE claim[a]]
        BY <2>2, <3>1 DEF W!DeleteState
      <3> QED
        BY <1>t, <3>2, <3>3 DEF BusTypes, WipeTypes, W!Age
    <2> QED
      BY <2>1, <2>2 DEF W!DeleteBoxes, W!DeleteRows, W!DeleteState, W!Fails
  <1>6. BusTypes'
    BY <1>t, <1>2, <1>3, <1>4, <1>5 DEF BusTypes
  <1>7. WipeTypes'
    BY <1>t, <1>1, <1>5 DEF WipeTypes
  <1>8. Seated'
    BY <1>t, <1>5 DEF Seated
  <1>9. Dead'
    BY <1>t, <1>1, <1>2, <1>4, <1>5 DEF Dead
  <1> QED
    BY <1>1, <1>6, <1>7, <1>8, <1>9 DEF Quiet, WipeInv

\* After the deletions: the looks at what is left, the clean-up and the report.
LEMMA EndsKeep ==
  ASSUME WipeInv, \/ W!DeleteLegacy \/ W!LeftBoxes \/ W!LeftState \/ W!Clean
                  \/ W!Report \/ W!Cut
  PROVE  WipeInv'
  <1> USE DEF W!At, W!bus, W!ghosts, W!counts, W!Deleting
  <1>t. BusTypes /\ WipeTypes /\ Seated /\ Dead /\ Quiet
    BY DEF WipeInv
  <1>1. /\ w' \in Wiping /\ w'.todo \subseteq w'.ids
        /\ w'.state \subseteq w.state
        /\ w'.pc \in {"idle", "left", "leftstate", "clean", "green"}
    <2>1. \/ w' = W!Idle
          \/ \E pc \in {"left", "leftstate", "clean", "green"} : W!Goto(pc)
      BY DEF W!DeleteLegacy, W!LeftBoxes, W!LeftState, W!Clean, W!Report, W!Cut, W!End
    <2> QED
      BY <1>t, <2>1, WipeEnded, WipeWent DEF WipeTypes, Phases
  <1>2. /\ UNCHANGED <<wlane, claim, row, box, state, rec, reused, poller, starts>>
        /\ renewed' \in {renewed, {}} /\ late' \in {late, {}}
    BY DEF W!DeleteLegacy, W!LeftBoxes, W!LeftState, W!Clean, W!Report, W!Cut
  <1>3. stray' \in [W!Stray -> {"gone", "own", "other"}]
    BY <1>t DEF W!DeleteLegacy, W!LeftBoxes, W!LeftState, W!Clean, W!Report, W!Cut, BusTypes
  <1>4. wfaults' \in 0 .. MaxFault
    BY <1>t, SetupAssumption
    DEF W!DeleteLegacy, W!LeftBoxes, W!LeftState, W!Clean, W!Report, W!Cut, BusTypes
  <1>5. BusTypes'
    BY <1>t, <1>2, <1>3, <1>4 DEF BusTypes
  <1>6. WipeTypes'
    BY <1>t, <1>1, <1>2 DEF WipeTypes
  <1>7. Quiet'
    <2> SUFFICES ASSUME w'.pc \in {"clean", "green"}, NEW a \in Agent, claim[a] # "none"
                 PROVE  a \in late'
      BY <1>2 DEF Quiet
    <2>1. CASE W!LeftState
      <3>1. state \subseteq {W!Pool}
        BY <1>t, <2>1, WipeEnded DEF W!LeftState, W!End, WipeTypes
      <3> QED
        BY <1>t, <3>1, WipeAssumption DEF Seated
    <2>2. CASE W!Clean
      BY <1>t, <2>2 DEF W!Clean, Quiet
    <2>3. CASE W!DeleteLegacy \/ W!LeftBoxes \/ W!Report \/ W!Cut
      BY <1>t, <2>3, WipeEnded, WipeWent
      DEF W!DeleteLegacy, W!LeftBoxes, W!Report, W!Cut, W!End, WipeTypes, Phases
    <2> QED
      BY <2>1, <2>2, <2>3
  <1> QED
    BY <1>t, <1>1, <1>2, <1>5, <1>6, <1>7 DEF Seated, Dead, WipeInv

\* The pool meanwhile: the wipe stands, and what is refreshed is counted.
PoolStep == \/ \E a \in Agent : \/ W!Launch(a) \/ W!Enrol(a) \/ W!Beat(a) \/ W!Leave(a)
                                \/ W!Kill(a) \/ W!ClaimAges(a) \/ W!RowAges(a) \/ W!ByHand(a)
                                \/ W!Reuse(a) \/ W!OtherEnds(a)
            \/ \E k \in W!Stray : W!Swap(k)

\* What a step of agent a may do to the claims, the rows and the ghosts.
Touched(a) ==
  /\ \A b \in Agent \ {a} : claim'[b] = claim[b] /\ row'[b] = row[b]
  /\ state \subseteq state' /\ state' \subseteq state \cup Agent
  /\ claim'[a] # "none" /\ claim[a] = "none" => a \in state' /\ W!Late(a)
  /\ (claim'[a] = "fresh" /\ claim[a] # "fresh") \/ (row'[a] = "fresh" /\ row[a] # "fresh")
       => W!Renew(a)
  /\ W!Renew(a) \/ UNCHANGED renewed
  /\ W!Late(a) \/ UNCHANGED late

LEMMA PoolKeeps == ASSUME WipeInv, PoolStep PROVE WipeInv'
  <1> USE DEF W!bus, W!ghosts, W!counts
  <1>t. BusTypes /\ WipeTypes /\ Seated /\ Dead /\ Quiet
    BY DEF WipeInv
  <1>w. w' = w
    BY DEF PoolStep, W!Launch, W!Enrol, W!Beat, W!Leave, W!Kill, W!ClaimAges, W!RowAges,
           W!ByHand, W!Reuse, W!OtherEnds, W!Swap
  <1>1. ASSUME NEW k \in W!Stray, W!Swap(k)
        PROVE  WipeInv'
    <2>1. UNCHANGED <<wlane, claim, row, box, state, rec, reused, poller, renewed, late, starts>>
      BY <1>1 DEF W!Swap
    <2>2. stray' \in [W!Stray -> {"gone", "own", "other"}]
      BY <1>t, <1>1 DEF W!Swap, BusTypes
    <2>3. wfaults' \in 0 .. MaxFault
      BY <1>t, <1>1, SetupAssumption DEF W!Swap, BusTypes
    <2>4. BusTypes'
      BY <1>t, <2>1, <2>2, <2>3 DEF BusTypes
    <2> QED
      BY <1>t, <1>w, <2>1, <2>4 DEF WipeTypes, Seated, Dead, Quiet, WipeInv, W!Deleting
  <1>2. ASSUME NEW a \in Agent,
               \/ W!Launch(a) \/ W!Enrol(a) \/ W!Beat(a) \/ W!Leave(a)
               \/ W!Kill(a) \/ W!ClaimAges(a) \/ W!RowAges(a) \/ W!ByHand(a)
               \/ W!Reuse(a) \/ W!OtherEnds(a)
        PROVE  WipeInv'
    <2>1. /\ wlane' \in [Agent -> {"none", "new", "up", "off"}]
          /\ claim' \in [Agent -> W!Age] /\ row' \in [Agent -> W!Age]
      <3>1. CASE W!Launch(a) \/ W!Enrol(a)
        BY <1>t, <3>1 DEF BusTypes, W!Age, W!Launch, W!Enrol
      <3>2. CASE W!Beat(a)
        BY <1>t, <3>2 DEF BusTypes, W!Age, W!Beat
      <3>3. CASE W!Leave(a) \/ W!Kill(a)
        BY <1>t, <3>3 DEF BusTypes, W!Age, W!Leave, W!Kill
      <3>4. CASE W!ClaimAges(a) \/ W!RowAges(a) \/ W!ByHand(a)
        BY <1>t, <3>4 DEF BusTypes, W!Age, W!ClaimAges, W!RowAges, W!ByHand
      <3>5. CASE W!Reuse(a) \/ W!OtherEnds(a)
        BY <1>t, <3>5 DEF BusTypes, W!Reuse, W!OtherEnds
      <3> QED
        BY <1>2, <3>1, <3>2, <3>3, <3>4, <3>5
    <2>2. /\ box' \subseteq Agent /\ rec' \subseteq Agent /\ stray' = stray
          /\ reused' \subseteq Agent /\ poller' \subseteq Agent
      <3>1. CASE W!Launch(a) \/ W!Enrol(a) \/ W!Beat(a) \/ W!Leave(a) \/ W!Kill(a)
        BY <1>t, <3>1 DEF BusTypes, W!Launch, W!Enrol, W!Beat, W!Leave, W!Kill
      <3>2. CASE W!ClaimAges(a) \/ W!RowAges(a) \/ W!ByHand(a)
        BY <1>t, <3>2 DEF BusTypes, W!ClaimAges, W!RowAges, W!ByHand
      <3>3. CASE W!Reuse(a) \/ W!OtherEnds(a)
        BY <1>t, <3>3 DEF BusTypes, W!Reuse, W!OtherEnds
      <3> QED
        BY <1>2, <3>1, <3>2, <3>3
    <2>3. /\ starts' \in 0 .. MaxStart /\ wfaults' \in 0 .. MaxFault
      BY <1>t, <1>2, SetupAssumption, WipeAssumption
      DEF BusTypes, W!Launch, W!Enrol, W!Beat, W!Leave, W!Kill, W!ClaimAges, W!RowAges,
          W!ByHand, W!Reuse, W!OtherEnds, W!Begin
    <2>4. Touched(a)
      <3>1. CASE W!Launch(a) \/ W!Enrol(a)
        BY <1>t, <3>1 DEF BusTypes, W!Age, W!Launch, W!Enrol, Touched
      <3>2. CASE W!Beat(a)
        BY <1>t, <3>2 DEF BusTypes, W!Age, W!Beat, Touched
      <3>3. CASE W!Leave(a) \/ W!Kill(a)
        BY <1>t, <3>3 DEF BusTypes, W!Age, W!Leave, W!Kill, Touched
      <3>4. CASE W!ClaimAges(a) \/ W!RowAges(a) \/ W!ByHand(a)
        BY <1>t, <3>4 DEF BusTypes, W!Age, W!ClaimAges, W!RowAges, W!ByHand, Touched
      <3>5. CASE W!Reuse(a) \/ W!OtherEnds(a)
        BY <1>t, <3>5 DEF BusTypes, W!Reuse, W!OtherEnds, Touched
      <3> QED
        BY <1>2, <3>1, <3>2, <3>3, <3>4, <3>5
    <2>5. renewed' \subseteq Agent /\ late' \subseteq Agent
      BY <1>t, <2>4 DEF BusTypes, Touched, W!Renew, W!Late
    <2>6. BusTypes'
      BY <1>t, <2>1, <2>2, <2>3, <2>4, <2>5 DEF BusTypes, Touched
    <2>7. WipeTypes'
      BY <1>t, <1>w, <2>4 DEF WipeTypes, Touched
    <2>8. Seated'
      BY <1>t, <2>4 DEF Seated, Touched
    <2>9. Dead'
      <3> SUFFICES ASSUME W!Deleting, NEW b \in Agent, b \notin renewed'
                   PROVE  claim'[b] # "fresh" /\ (b \in w.ids => row'[b] # "fresh")
        BY <1>w DEF Dead, W!Deleting
      <3>1. b \notin renewed
        BY <2>4 DEF Touched, W!Renew
      <3>2. b = a => ~W!Renew(a)
        BY DEF W!Renew
      <3> QED
        BY <1>t, <2>4, <3>1, <3>2 DEF Dead, Touched
    <2>10. Quiet'
      <3> SUFFICES ASSUME w.pc \in {"clean", "green"}, NEW b \in Agent, claim'[b] # "none"
                   PROVE  b \in late'
        BY <1>w DEF Quiet
      <3>1. late \subseteq late'
        BY <2>4 DEF Touched, W!Late
      <3>2. W!Late(a) => a \in late'
        BY DEF W!Late
      <3> QED
        BY <1>t, <2>4, <3>1, <3>2 DEF Quiet, Touched
    <2> QED
      BY <2>6, <2>7, <2>8, <2>9, <2>10 DEF WipeInv
  <1> QED
    BY <1>1, <1>2 DEF PoolStep

LEMMA WipeKept == ASSUME WipeInv, W!Next PROVE WipeInv'
  BY LooksKeep, DeletionsKeep, EndsKeep, PoolKeeps DEF W!Next, W!Step, PoolStep

-----------------------------------------------------------------------------
(* Setup: what a step does to the command *)

\* The command goes on with what it was asked for.
SameOrder == /\ cmd'.want = cmd.want /\ cmd'.stale = cmd.stale
             /\ cmd'.up = cmd.up /\ cmd'.resync = cmd.resync

LEMMA Ended == /\ Idle \in Command /\ Idle.pc = "idle" /\ Idle.want = {} /\ Idle.todo = {}
               /\ Idle.up = FALSE /\ Idle.resync = TRUE
  BY DEF Idle, Command, Stage, Early, Stale

LEMMA Went ==
  ASSUME cmd \in Command, NEW pc \in Stage, NEW ws \in SUBSET (Wrapper \cup Lane),
         GotoAll(pc, ws)
  PROVE  /\ cmd' \in Command /\ SameOrder /\ cmd'.pc = pc /\ cmd'.todo = ws
         /\ cmd'.keep = cmd.keep
  BY DEF GotoAll, Command, SameOrder

LEMMA WentOn ==
  ASSUME cmd \in Command, NEW pc \in Stage, Goto(pc)
  PROVE  /\ cmd' \in Command /\ SameOrder /\ cmd'.pc = pc /\ cmd'.todo = {}
         /\ cmd'.keep = cmd.keep
  BY DEF Goto, Command, SameOrder

LEMMA DoneOne ==
  ASSUME cmd \in Command, NEW x, Done(x)
  PROVE  /\ cmd' \in Command /\ SameOrder /\ cmd'.pc = cmd.pc /\ cmd'.todo = cmd.todo \ {x}
         /\ cmd'.keep = cmd.keep
  BY DEF Done, Command, SameOrder

\* The step before a rewrite remembers what was read.
LEMMA Remembered ==
  ASSUME cmd \in Command, NEW pc \in Stage, NEW k \in BOOLEAN,
         cmd' = [cmd EXCEPT !.pc = pc, !.keep = k]
  PROVE  /\ cmd' \in Command /\ SameOrder /\ cmd'.pc = pc /\ cmd'.todo = cmd.todo
         /\ cmd'.keep = k
  BY DEF Command, SameOrder

\* The arbitrary element a loop takes is one of those to do.
LEMMA FirstToDo == cmd.todo # {} => First \in cmd.todo
  BY DEF First

\* setup starts with phase 0, update with the recorded choice.
LEMMA SetupAsked ==
  ASSUME SetupInv, StartSetup
  PROVE  /\ cmd' \in Command /\ cmd'.pc = "refresh" /\ cmd'.up = FALSE
         /\ UNCHANGED <<bin, hook, bak, wrote, disp, theirs, prof, pool, lane, faults>>
  <1>1. PICK a \in Ask : cmd' = [Idle EXCEPT !.pc = "refresh", !.want = a.want,
                                             !.stale = a.stale, !.todo = Wrapper]
    BY DEF StartSetup
  <1>2. a.want \in SUBSET Wrapper /\ a.stale \in Stale
    BY SetupAssumption
  <1> QED
    BY <1>1, <1>2 DEF StartSetup, hooks, launcher, Idle, Command, Stage, Early

LEMMA UpdateAsked ==
  ASSUME SetupInv, StartUpdate
  PROVE  /\ cmd' \in Command /\ cmd'.pc = "adopt" /\ (pool.listed => cmd'.want = pool.wrappers)
         /\ cmd'.up = TRUE /\ cmd'.stale = pool.stale
         /\ UNCHANGED <<bin, hook, bak, wrote, disp, theirs, prof, pool, lane, faults>>
  <1>1. PICK resync \in BOOLEAN :
             cmd' = [Idle EXCEPT !.pc = "adopt", !.up = TRUE, !.resync = resync,
                        !.want = IF Adopts THEN Installed ELSE pool.wrappers,
                        !.stale = pool.stale]
    BY DEF StartUpdate
  <1>2. pool.wrappers \in SUBSET Wrapper /\ pool.stale \in Stale /\ Installed \in SUBSET Wrapper
    BY DEF SetupInv, FileTypes, Recorded, Installed
  <1>3. pool.listed => ~Adopts
    BY DEF Adopts
  <1> QED
    BY <1>1, <1>2, <1>3 DEF StartUpdate, hooks, launcher, Idle, Command, Stage, Early

-----------------------------------------------------------------------------
(* Setup: the hook files *)

\* A repair backs up what the file holds, then writes a file that fits.
LEMMA Written ==
  ASSUME HookTypes, EntriesKept, bin \in Version, NEW x \in Wrapper, WriteHook(x, bin)
  PROVE  /\ HookTypes' /\ EntriesKept'
         /\ hook'[x].st = "ok" /\ hook'[x].v = bin
         /\ \A y \in Wrapper \ {x} : hook'[y] = hook[y]
  <1>1. hook[x] \in Hook /\ hook[x].own \in SUBSET Own /\ bin \in 0 .. MaxVersion
    BY SetupAssumption DEF HookTypes, Hook, Version
  <1>2. Merged(x, bin) \in Hook /\ Merged(x, bin).st = "ok" /\ Merged(x, bin).v = bin
    BY <1>1 DEF Merged, Template, Hook
  <1>3. /\ hook' = [hook EXCEPT ![x] = Merged(x, bin)]
        /\ bak' = [bak EXCEPT ![x] = bak[x] \cup hook[x].own] /\ wrote' = wrote
    BY DEF WriteHook, Backup
  <1>4. /\ hook'[x] = Merged(x, bin) /\ bak'[x] = bak[x] \cup hook[x].own
        /\ \A y \in Wrapper \ {x} : hook'[y] = hook[y] /\ bak'[y] = bak[y]
    BY <1>3 DEF HookTypes
  <1>5. HookTypes'
    <2>1. hook' \in [Wrapper -> Hook]
      BY <1>2, <1>3 DEF HookTypes
    <2>2. bak' \in [Wrapper -> SUBSET Own]
      BY <1>1, <1>3 DEF HookTypes
    <2> QED
      BY <1>3, <2>1, <2>2 DEF HookTypes
  <1>6. EntriesKept'
    BY <1>3, <1>4 DEF EntriesKept
  <1> QED
    BY <1>2, <1>4, <1>5, <1>6

\* The kinds of steps on the hook files.
Repairs == \E x \in Wrapper : WriteHook(x, bin)
Drops == \E x \in Wrapper : /\ At("drop") /\ x \in cmd.todo /\ Identical(x)
                            /\ hook' = [hook EXCEPT ![x] = Missing]
                            /\ UNCHANGED <<bak, wrote>>
ByPeople == \/ \E x \in Wrapper : Break(x) \/ Mend(x)
            \/ \E x \in Wrapper, o \in Own : Edit(x, o)

LEMMA HookKinds ==
  ASSUME SetupInv, Next
  PROVE  UNCHANGED hooks \/ (Repairs /\ bin' = bin) \/ Drops \/ ByPeople
  <1>1. CASE \E x \in Wrapper : Refresh(x) \/ Install(x)
    BY <1>1 DEF Refresh, Install, Repairs
  <1>2. CASE \E x \in Wrapper : Drop(x)
    BY <1>2, FirstToDo DEF Drop, Drops, hooks
  <1>3. CASE \E l \in Lane, x \in Wrapper : Launch(l, x)
    BY <1>3 DEF Launch, Repairs
  <1>4. CASE \E l \in Lane : Leave(l) \/ Stop(l) \/ Fence(l)
    BY <1>4 DEF Leave, Stop, Fence
  <1>5. CASE StartSetup \/ StartUpdate \/ Cut \/ Verify \/ InitPlan \/ InitSpec \/ InitSpecWrite
    BY <1>5 DEF StartSetup, StartUpdate, Cut, Verify, InitPlan, InitSpec, InitSpecWrite
  <1>6. CASE InitEnrol \/ InitEnrolWrite \/ DropEnds \/ InstallEnds \/ Dispatcher
    BY <1>6 DEF InitEnrol, InitEnrolWrite, DropEnds, InstallEnds, Dispatcher
  <1>7. CASE DispatcherWrite \/ RemoveLegacy \/ Profile \/ ProfileWrite \/ Record
    BY <1>7 DEF DispatcherWrite, RemoveLegacy, Profile, ProfileWrite, Record
  <1>8. CASE \/ StopEnds \/ FenceEnds \/ Adopt \/ UpToDate \/ \E b \in Version : Swap(b)
    BY <1>8 DEF StopEnds, FenceEnds, Adopt, UpToDate, Swap
  <1>9. CASE ByPeople
    BY <1>9
  <1> QED
    BY <1>1, <1>2, <1>3, <1>4, <1>5, <1>6, <1>7, <1>8, <1>9 DEF Next, Step, ByPeople

\* The entries of the people are in the file or in a backup of it.
LEMMA HooksKept == ASSUME SetupInv, Next PROVE HookTypes' /\ EntriesKept'
  <1>t. HookTypes /\ EntriesKept /\ bin \in Version
    BY DEF SetupInv, FileTypes
  <1>1. CASE UNCHANGED hooks
    BY <1>t, <1>1 DEF hooks, HookTypes, EntriesKept
  <1>2. CASE Repairs /\ bin' = bin
    BY <1>t, <1>2, Written DEF Repairs
  <1>3. CASE Drops
    <2>1. PICK x \in Wrapper : /\ Identical(x) /\ hook' = [hook EXCEPT ![x] = Missing]
                               /\ UNCHANGED <<bak, wrote>>
      BY <1>3 DEF Drops
    <2>2. Missing \in Hook /\ hook[x].own = {}
      BY <2>1, SetupAssumption DEF Missing, Hook, Identical, Template
    <2> QED
      BY <1>t, <2>1, <2>2 DEF HookTypes, EntriesKept
  <1>4. CASE \E x \in Wrapper : Break(x) \/ Mend(x)
    <2>1. PICK x \in Wrapper, s \in {"ok", "broken"} : /\ hook' = [hook EXCEPT ![x].st = s]
                                                       /\ UNCHANGED <<bak, wrote>>
      BY <1>4 DEF Break, Mend
    <2>2. [hook[x] EXCEPT !.st = s] \in Hook /\ [hook[x] EXCEPT !.st = s].own = hook[x].own
      BY <1>t, <2>1 DEF HookTypes, Hook
    <2> QED
      BY <1>t, <2>1, <2>2 DEF HookTypes, EntriesKept
  <1>5. CASE \E x \in Wrapper, o \in Own : Edit(x, o)
    <2>0. PICK x \in Wrapper, o \in Own : Edit(x, o)
      BY <1>5
    <2>1. /\ hook' = [hook EXCEPT ![x] = [st |-> "ok", v |-> hook[x].v,
                                        own |-> hook[x].own \cup {o}]]
          /\ wrote' = [wrote EXCEPT ![x] = wrote[x] \cup {o}]
          /\ UNCHANGED bak
      BY <2>0 DEF Edit
    <2> DEFINE r == [st |-> "ok", v |-> hook[x].v, own |-> hook[x].own \cup {o}]
    <2>2. r \in Hook /\ r.own = hook[x].own \cup {o}
      BY <1>t, <2>1 DEF HookTypes, Hook
    <2>3. hook' = [hook EXCEPT ![x] = r]
      BY <2>1
    <2> HIDE DEF r
    <2> QED
      BY <1>t, <2>1, <2>2, <2>3 DEF HookTypes, EntriesKept
  <1> QED
    BY <1>1, <1>2, <1>3, <1>4, <1>5, HookKinds DEF ByPeople

-----------------------------------------------------------------------------
(* Setup: types *)

\* What the command carries stays of its type; the wrappers it drops and the
\* ones it installs are apart.
LEMMA CmdTyped == ASSUME SetupInv, Next PROVE CmdTypes'
  <1> USE DEF At
  <1>t. CmdTypes /\ cmd \in Command /\ cmd.todo \subseteq Wrapper \cup Lane
        /\ cmd.want \subseteq Wrapper
    BY DEF SetupInv, CmdTypes, Command
  <1>i. ASSUME cmd' \in Command, cmd'.pc \notin {"drop", "install"}
        PROVE  CmdTypes'
    BY <1>i DEF CmdTypes
  <1>e. ASSUME End
        PROVE  CmdTypes'
    BY <1>e, <1>i, Ended DEF End
  <1>s. ASSUME UNCHANGED cmd
        PROVE  CmdTypes'
    BY <1>t, <1>s DEF CmdTypes
  <1>g. ASSUME NEW pc \in Stage \ {"drop", "install"}, Goto(pc)
        PROVE  CmdTypes'
    BY <1>t, <1>g, <1>i, WentOn
  <1>a. ASSUME NEW pc \in Stage \ {"drop", "install"}, NEW ws \in SUBSET (Wrapper \cup Lane),
               GotoAll(pc, ws)
        PROVE  CmdTypes'
    BY <1>t, <1>a, <1>i, Went
  <1>d. ASSUME NEW x, Done(x)
        PROVE  CmdTypes'
    BY <1>t, <1>d, DoneOne DEF CmdTypes, SameOrder
  <1>p. ASSUME GotoAll("drop", Dropped)
        PROVE  CmdTypes'
    <2>1. Dropped \in SUBSET (Wrapper \cup Lane)
      BY DEF Dropped, SetupInv, FileTypes, Recorded
    <2>2. cmd' \in Command /\ cmd'.pc = "drop" /\ cmd'.todo = Dropped /\ cmd'.want = cmd.want
      BY <1>t, <1>p, <2>1, Went DEF Stage, Scaffold, SameOrder
    <2> QED
      BY <2>2 DEF CmdTypes, Dropped
  <1> USE DEF Stage, Early, Scaffold, Wired, Launching, Last
  <1>1. CASE StartSetup \/ StartUpdate
    BY <1>1, <1>i, SetupAsked, UpdateAsked
  <1>2. CASE \E x \in Wrapper : Refresh(x) \/ Drop(x) \/ Install(x)
    BY <1>2, <1>e, <1>d DEF Refresh, Drop, Install
  <1>3. CASE \E l \in Lane : Stop(l) \/ Fence(l)
    BY <1>3, <1>d DEF Stop, Fence
  <1>4. CASE \E l \in Lane : Leave(l)
    BY <1>4, <1>s DEF Leave
  <1>5. CASE \E l \in Lane, x \in Wrapper : Launch(l, x)
    <2>1. PICK l \in Lane :
            \/ /\ cmd.pc \in {"fence", "ufence"}
               /\ cmd' = [cmd EXCEPT !.todo = cmd.todo \ {l}]
            \/ UNCHANGED cmd
      BY <1>5 DEF Launch
    <2> QED
      BY <1>d, <1>s, <2>1 DEF Done
  <1>6. CASE ByPeople
    BY <1>6, <1>s DEF ByPeople, Break, Mend, Edit
  <1>7. CASE Cut \/ UpToDate
    BY <1>7, <1>e DEF Cut, UpToDate
  <1>8. CASE Verify \/ InitPlan \/ InitSpec \/ InitSpecWrite
    BY <1>8, <1>e, <1>g DEF Verify, InitPlan, InitSpec, InitSpecWrite
  <1>9. CASE InitEnrol
    <2>1. CASE GotoAll("drop", Dropped)
      BY <1>p, <2>1
    <2>2. CASE cmd' = [cmd EXCEPT !.pc = "enrolw", !.keep = enrol.own]
      <3>1. enrol.own \in BOOLEAN
        BY DEF SetupInv, FileTypes
      <3> QED
        BY <1>t, <1>i, <2>2, <3>1, Remembered
    <2> QED
      BY <1>9, <2>1, <2>2 DEF InitEnrol
  <1>10. CASE InitEnrolWrite
    BY <1>10, <1>p DEF InitEnrolWrite
  <1>11. CASE DropEnds
    <2>1. cmd' \in Command /\ cmd'.pc = "install" /\ cmd'.todo = cmd.want /\ cmd'.want = cmd.want
      BY <1>t, <1>11, Went DEF DropEnds, SameOrder
    <2> QED
      BY <2>1 DEF CmdTypes
  <1>12. CASE InstallEnds \/ Dispatcher \/ DispatcherWrite \/ RemoveLegacy \/ ProfileWrite
    BY <1>12, <1>e, <1>g DEF InstallEnds, Dispatcher, DispatcherWrite, RemoveLegacy, ProfileWrite
  <1>13. CASE Profile
    <2>1. prof.own \in BOOLEAN
      BY DEF SetupInv, FileTypes, Profiles
    <2> QED
      BY <1>t, <1>13, <1>g, <1>i, <2>1, Remembered DEF Profile
  <1>14. CASE Record \/ StopEnds \/ FenceEnds
    <2>1. Lane \in SUBSET (Wrapper \cup Lane) /\ Claims \in SUBSET (Wrapper \cup Lane)
      BY DEF Claims
    <2> QED
      BY <1>14, <1>a, <1>e, <2>1 DEF Record, StopEnds, FenceEnds
  <1>15. CASE Adopt
    BY <1>15, <1>g DEF Adopt
  <1>16. CASE \E b \in Version : Swap(b)
    <2>1. Claims \in SUBSET (Wrapper \cup Lane)
      BY DEF Claims
    <2>2. CASE GotoAll("ufence", Claims)
      BY <1>a, <2>1, <2>2
    <2>3. CASE cmd' = [cmd EXCEPT !.pc = "refresh", !.todo = Wrapper]
      BY <1>a, <2>3 DEF GotoAll
    <2> QED
      BY <1>16, <2>2, <2>3 DEF Swap
  <1> QED
    BY <1>1, <1>2, <1>3, <1>4, <1>5, <1>6, <1>7, <1>8, <1>9, <1>10, <1>11, <1>12, <1>13,
       <1>14, <1>15, <1>16 DEF Next, Step, ByPeople

\* The steps that write neither the profile nor the dispatcher nor the record.
Aside == \/ StartSetup \/ StartUpdate \/ Cut \/ Verify \/ InitPlan \/ InitSpec \/ InitSpecWrite
         \/ InitEnrol \/ InitEnrolWrite \/ DropEnds \/ InstallEnds \/ RemoveLegacy
         \/ StopEnds \/ FenceEnds \/ UpToDate \/ (\E b \in Version : Swap(b)) \/ ByPeople
         \/ (\E x \in Wrapper : Refresh(x) \/ Drop(x) \/ Install(x))
         \/ (\E l \in Lane : Stop(l) \/ Fence(l) \/ Leave(l))
         \/ (\E l \in Lane, x \in Wrapper : Launch(l, x))

LEMMA NextKinds ==
  ASSUME Next
  PROVE  Aside \/ Dispatcher \/ DispatcherWrite \/ Profile \/ ProfileWrite \/ Record \/ Adopt
  BY DEF Next, Step, Aside, ByPeople

LEMMA AsideLeaves == Aside => UNCHANGED <<prof, disp, theirs, pool>>
  <1> USE DEF launcher
  <1>1. StartSetup \/ StartUpdate \/ Cut \/ Verify \/ InitPlan \/ InitSpec \/ InitSpecWrite
          => UNCHANGED <<prof, disp, theirs, pool>>
    BY DEF StartSetup, StartUpdate, Cut, Verify, InitPlan, InitSpec, InitSpecWrite
  <1>2. InitEnrol \/ InitEnrolWrite \/ DropEnds \/ InstallEnds \/ RemoveLegacy
          => UNCHANGED <<prof, disp, theirs, pool>>
    BY DEF InitEnrol, InitEnrolWrite, DropEnds, InstallEnds, RemoveLegacy
  <1>3. StopEnds \/ FenceEnds \/ UpToDate \/ (\E b \in Version : Swap(b)) \/ ByPeople
          => UNCHANGED <<prof, disp, theirs, pool>>
    BY DEF StopEnds, FenceEnds, UpToDate, Swap, ByPeople, Break, Mend, Edit
  <1>4. (\E x \in Wrapper : Refresh(x) \/ Drop(x) \/ Install(x))
          => UNCHANGED <<prof, disp, theirs, pool>>
    BY DEF Refresh, Drop, Install
  <1>5. (\E l \in Lane : Stop(l) \/ Fence(l) \/ Leave(l))
          \/ (\E l \in Lane, x \in Wrapper : Launch(l, x))
          => UNCHANGED <<prof, disp, theirs, pool>>
    BY DEF Stop, Fence, Leave, Launch
  <1> QED
    BY <1>1, <1>2, <1>3, <1>4, <1>5 DEF Aside

\* A step writes the record of the choice only to record what the command was
\* asked for.
LEMMA Recording ==
  ASSUME SetupInv, Next
  PROVE  \/ UNCHANGED pool
         \/ Record /\ pool' = [there |-> TRUE, listed |-> TRUE, wrappers |-> cmd.want,
                               stale |-> Threshold]
         \/ Adopt /\ pool' = [there |-> TRUE, listed |-> TRUE, wrappers |-> cmd.want,
                              stale |-> cmd.stale]
  <1>1. CASE Aside
    BY <1>1, AsideLeaves
  <1>2. CASE Dispatcher \/ DispatcherWrite \/ Profile \/ ProfileWrite
    BY <1>2 DEF Dispatcher, DispatcherWrite, Profile, ProfileWrite
  <1>3. CASE Record
    BY <1>3 DEF Record
  <1>4. CASE Adopt
    BY <1>4 DEF Adopt
  <1> QED
    BY <1>1, <1>2, <1>3, <1>4, NextKinds

LEMMA FilesTyped == ASSUME SetupInv, Next PROVE FileTypes'
  <1> USE DEF FileTypes, scaffold, launcher
  <1>t. FileTypes /\ cmd \in Command
    BY DEF SetupInv, CmdTypes
  <1>v. /\ MaxVersion \in Nat /\ MaxFault \in Nat
        /\ Alien \in 0 .. Alien /\ 0 \in 0 .. MaxVersion
        /\ \A b \in Version : b \in 0 .. Alien /\ b \in 0 .. MaxVersion
    BY SetupAssumption DEF Alien, Version
  <1>l. \A l \in Lane : {lane[l], "up", "down", "ending"} \subseteq {"down", "up", "ending"}
    BY <1>t
  <1>1. CASE StartSetup \/ StartUpdate \/ Verify \/ InitPlan
    BY <1>t, <1>1 DEF StartSetup, StartUpdate, Verify, InitPlan
  <1>2. CASE InitSpec \/ InitSpecWrite
    BY <1>t, <1>v, <1>2 DEF InitSpec, InitSpecWrite
  <1>3. CASE InitEnrol
    <2>1. enrol' = enrol \/ enrol' = [own |-> FALSE, v |-> 0]
      BY <1>3 DEF InitEnrol
    <2>2. [own |-> FALSE, v |-> 0] \in [own : BOOLEAN, v : 0 .. MaxVersion]
      BY <1>v
    <2>3. enrol' \in [own : BOOLEAN, v : 0 .. MaxVersion]
      BY <1>t, <2>1, <2>2
    <2> QED
      BY <1>t, <1>3, <2>3 DEF InitEnrol
  <1>4. CASE InitEnrolWrite
    <2>1. cmd.keep \in BOOLEAN
      BY <1>t DEF Command
    <2> QED
      BY <1>t, <1>v, <1>4, <2>1 DEF InitEnrolWrite
  <1>5. CASE DropEnds \/ InstallEnds \/ StopEnds \/ FenceEnds \/ UpToDate
    BY <1>t, <1>5 DEF DropEnds, InstallEnds, StopEnds, FenceEnds, UpToDate
  <1>6. CASE \E x \in Wrapper : Refresh(x) \/ Drop(x) \/ Install(x)
    BY <1>t, <1>6 DEF Refresh, Drop, Install
  <1>7. CASE Dispatcher \/ DispatcherWrite \/ RemoveLegacy
    BY <1>t, <1>v, <1>7 DEF Dispatcher, DispatcherWrite, RemoveLegacy
  <1>8. CASE Profile \/ ProfileWrite
    <2>1. cmd.keep \in BOOLEAN
      BY <1>t DEF Command
    <2>2. prof' \in Profiles
      BY <1>t, <1>8, <2>1 DEF Profile, ProfileWrite, Copy, Profiles
    <2> QED
      BY <1>t, <1>8, <2>2 DEF Profile, ProfileWrite
  <1>9. CASE Record \/ Adopt
    <2>1. cmd.want \in SUBSET Wrapper /\ Threshold \in Stale /\ cmd.stale \in Stale
      BY <1>t DEF Command, Threshold, Recorded, Stale
    <2>r. /\ [there |-> TRUE, listed |-> TRUE, wrappers |-> cmd.want, stale |-> Threshold]
               \in Recorded
          /\ [there |-> TRUE, listed |-> TRUE, wrappers |-> cmd.want, stale |-> cmd.stale]
               \in Recorded
      BY <1>t, <2>1 DEF Recorded
    <2>2. pool' \in Recorded
      BY <1>t, <2>r, Recording
    <2> QED
      BY <1>t, <1>9, <2>2 DEF Record, Adopt
  <1>10. CASE \E l \in Lane : Stop(l) \/ Fence(l) \/ Leave(l)
    BY <1>t, <1>10 DEF Stop, Fence, Leave
  <1>11. CASE \E l \in Lane, x \in Wrapper : Launch(l, x)
    BY <1>t, <1>11 DEF Launch
  <1>12. CASE Cut \/ ByPeople
    BY <1>t, <1>v, <1>12 DEF Cut, ByPeople, Break, Mend, Edit
  <1>13. CASE \E b \in Version : Swap(b)
    BY <1>t, <1>13 DEF Swap
  <1> QED
    BY <1>1, <1>2, <1>3, <1>4, <1>5, <1>6, <1>7, <1>8, <1>9, <1>10, <1>11, <1>12, <1>13,
       NextKinds DEF Aside

-----------------------------------------------------------------------------
(* Setup: the people and their choices *)

\* No step aside comes to a rewrite of the profile or of the dispatcher, and only
\* the start of an update to the adoption.
LEMMA AsidePc ==
  ASSUME SetupInv, Aside
  PROVE  cmd'.pc = cmd.pc \/ cmd'.pc \notin {"acw", "profw", "adopt"} \/ StartUpdate
  <1> USE DEF Stage, Early, Scaffold, Wired, Launching, Last
  <1>t. cmd \in Command
    BY DEF SetupInv, CmdTypes
  <1>0. ASSUME NEW pc \in Stage, NEW ws, GotoAll(pc, ws)
        PROVE  cmd'.pc = pc
    BY <1>t, <1>0 DEF GotoAll, Command
  <1>1. CASE StartSetup \/ StartUpdate
    BY <1>1, SetupAsked, UpdateAsked
  <1>2. CASE \E x \in Wrapper : Refresh(x) \/ Drop(x) \/ Install(x)
    BY <1>t, <1>2, Ended, DoneOne DEF Refresh, Drop, Install, End
  <1>3. CASE \E l \in Lane : Stop(l) \/ Fence(l) \/ Leave(l)
    BY <1>t, <1>3, DoneOne DEF Stop, Fence, Leave
  <1>4. CASE \E l \in Lane, x \in Wrapper : Launch(l, x)
    BY <1>t, <1>4 DEF Launch, Command
  <1>5. CASE ByPeople
    BY <1>5 DEF ByPeople, Break, Mend, Edit
  <1>6. CASE Cut \/ UpToDate \/ Verify \/ InitPlan \/ InitSpec \/ InitSpecWrite
    BY <1>t, <1>6, Ended, WentOn DEF Cut, UpToDate, Verify, InitPlan, InitSpec, InitSpecWrite, End
  <1>7. CASE InitEnrol \/ InitEnrolWrite
    BY <1>t, <1>0, <1>7 DEF InitEnrol, InitEnrolWrite, Command
  <1>8. CASE DropEnds \/ InstallEnds \/ RemoveLegacy \/ StopEnds \/ FenceEnds
    BY <1>t, <1>0, <1>8, Ended, WentOn
    DEF DropEnds, InstallEnds, RemoveLegacy, StopEnds, FenceEnds, End
  <1>9. CASE \E b \in Version : Swap(b)
    BY <1>t, <1>0, <1>9 DEF Swap, Command
  <1> QED
    BY <1>1, <1>2, <1>3, <1>4, <1>5, <1>6, <1>7, <1>8, <1>9 DEF Aside

\* The profile is truncated only after its backup, and the user's own `ac` is
\* seen before anything is written.
LEMMA PeopleStay == ASSUME SetupInv, Next PROVE LinesKept' /\ ProgramKept'
  <1> USE DEF At
  <1>t. /\ LinesKept /\ ProgramKept /\ cmd \in Command /\ prof \in Profiles
    BY DEF SetupInv, CmdTypes, FileTypes
  <1>1. CASE Aside
    <2>1. cmd'.pc = cmd.pc \/ cmd'.pc \notin {"acw", "profw"}
      BY <1>1, AsidePc, UpdateAsked
    <2> QED
      BY <1>t, <1>1, <2>1, AsideLeaves DEF LinesKept, ProgramKept
  <1>2. CASE Dispatcher
    <2>1. /\ prof' = prof /\ theirs' = theirs
          /\ \/ disp' = disp /\ cmd'.pc = "idle"
             \/ disp # Alien /\ disp' = Alien /\ cmd'.pc = "acw"
      BY <1>t, <1>2, Ended, WentOn DEF Dispatcher, Refused, End, Stage, Wired
    <2> QED
      BY <1>t, <2>1 DEF LinesKept, ProgramKept
  <1>3. CASE DispatcherWrite
    <2>1. prof' = prof /\ theirs' = theirs /\ cmd.pc = "acw" /\ cmd'.pc = "legacy"
      BY <1>t, <1>3, WentOn DEF DispatcherWrite, Stage, Launching
    <2> QED
      BY <1>t, <2>1 DEF LinesKept, ProgramKept
  <1>4. CASE Profile
    <2>1. /\ disp' = disp /\ theirs' = theirs
          /\ \/ prof' = prof /\ cmd'.pc = "record"
             \/ prof' = [Copy EXCEPT !.own = FALSE] /\ cmd'.pc = "profw"
      BY <1>t, <1>4, WentOn DEF Profile, Command, Stage, Launching
    <2>2. Copy \in Profiles /\ Copy.bak
      BY <1>t DEF Copy, Profiles, LinesKept
    <2> QED
      BY <1>t, <2>1, <2>2 DEF LinesKept, ProgramKept, Profiles
  <1>5. CASE ProfileWrite
    <2>1. /\ disp' = disp /\ theirs' = theirs /\ cmd.pc = "profw" /\ cmd'.pc = "record"
          /\ prof'.bak = prof.bak
      BY <1>t, <1>5, WentOn DEF ProfileWrite, Stage, Launching, Profiles
    <2> QED
      BY <1>t, <2>1 DEF LinesKept, ProgramKept
  <1>6. CASE Record \/ Adopt
    <2>1. /\ prof' = prof /\ disp' = disp /\ theirs' = theirs /\ cmd'.pc \in {"stop", "fetch"}
      BY <1>t, <1>6, Went, WentOn
      DEF Record, Adopt, launcher, Stage, Early, Last
    <2> QED
      BY <1>t, <2>1 DEF LinesKept, ProgramKept
  <1> QED
    BY <1>1, <1>2, <1>3, <1>4, <1>5, <1>6, NextKinds

\* A command ends, or goes on with what it was asked for, unless it begins.
LEMMA OrderKept ==
  ASSUME SetupInv, Next
  PROVE  \/ SameOrder \/ cmd' = Idle \/ StartSetup \/ StartUpdate
  <1> USE DEF Stage, Early, Scaffold, Wired, Launching, Last
  <1>t. cmd \in Command
    BY DEF SetupInv, CmdTypes
  <1>0. ASSUME NEW pc, NEW ws, GotoAll(pc, ws)
        PROVE  SameOrder
    BY <1>t, <1>0 DEF GotoAll, SameOrder, Command
  <1>1. CASE StartSetup \/ StartUpdate
    BY <1>1
  <1>2. CASE \E x \in Wrapper : Refresh(x) \/ Drop(x) \/ Install(x)
    BY <1>t, <1>2, DoneOne DEF Refresh, Drop, Install, End
  <1>3. CASE \E l \in Lane : Stop(l) \/ Fence(l) \/ Leave(l)
    BY <1>t, <1>3, DoneOne DEF Stop, Fence, Leave, SameOrder
  <1>4. CASE \E l \in Lane, x \in Wrapper : Launch(l, x)
    BY <1>t, <1>4 DEF Launch, Command, SameOrder
  <1>5. CASE ByPeople
    BY <1>5 DEF ByPeople, Break, Mend, Edit, SameOrder
  <1>6. CASE Cut \/ UpToDate \/ Verify \/ InitPlan \/ InitSpec \/ InitSpecWrite
    BY <1>t, <1>6, WentOn DEF Cut, UpToDate, Verify, InitPlan, InitSpec, InitSpecWrite, End
  <1>7. CASE InitEnrol \/ InitEnrolWrite \/ Profile
    BY <1>t, <1>0, <1>7, WentOn DEF InitEnrol, InitEnrolWrite, Profile, Command, SameOrder
  <1>8. CASE DropEnds \/ InstallEnds \/ RemoveLegacy \/ StopEnds \/ FenceEnds
    BY <1>t, <1>0, <1>8, WentOn
    DEF DropEnds, InstallEnds, RemoveLegacy, StopEnds, FenceEnds, End
  <1>9. CASE \E b \in Version : Swap(b)
    BY <1>t, <1>0, <1>9 DEF Swap, Command, SameOrder
  <1>10. CASE Dispatcher \/ DispatcherWrite \/ ProfileWrite \/ Record \/ Adopt
    BY <1>t, <1>0, <1>10, WentOn DEF Dispatcher, DispatcherWrite, ProfileWrite, Record, Adopt, End
  <1> QED
    BY <1>1, <1>2, <1>3, <1>4, <1>5, <1>6, <1>7, <1>8, <1>9, <1>10, NextKinds DEF Aside

\* The profile is left alone, or rewritten next.
LEMMA ProfileGoes ==
  ASSUME SetupInv, Profile
  PROVE  cmd.pc = "profile" /\ cmd'.pc \in {"record", "profw"}
  <1> USE DEF Stage, Launching
  <1>t. cmd \in Command /\ prof.own \in BOOLEAN
    BY DEF SetupInv, CmdTypes, FileTypes, Profiles
  <1>1. cmd.pc = "profile"
    BY DEF Profile, At
  <1>2. CASE Goto("record")
    BY <1>t, <1>1, <1>2, WentOn
  <1>3. CASE cmd' = [cmd EXCEPT !.pc = "profw", !.keep = prof.own]
    BY <1>t, <1>1, <1>3, Remembered
  <1> QED
    BY <1>2, <1>3 DEF Profile

\* Only the start of an update comes to the adoption.
LEMMA AdoptPc ==
  ASSUME SetupInv, Next, cmd'.pc = "adopt"
  PROVE  StartUpdate \/ (cmd.pc = "adopt" /\ SameOrder /\ pool' = pool)
  <1> USE DEF Stage, Early, Scaffold, Wired, Launching, Last
  <1>t. cmd \in Command
    BY DEF SetupInv, CmdTypes
  <1>1. CASE Aside
    <2>1. StartUpdate \/ cmd.pc = "adopt"
      BY <1>1, AsidePc
    <2>2. SameOrder \/ StartUpdate
      BY OrderKept, Ended, SetupAsked
    <2> QED
      BY <1>1, <2>1, <2>2, AsideLeaves
  <1>2. CASE Dispatcher \/ DispatcherWrite \/ ProfileWrite \/ Adopt
    BY <1>t, <1>2, Ended, WentOn DEF Dispatcher, DispatcherWrite, ProfileWrite, Adopt, End
  <1>3. CASE Profile
    BY <1>3, ProfileGoes
  <1>4. CASE Record
    BY <1>t, <1>4, Went DEF Record
  <1> QED
    BY <1>1, <1>2, <1>3, <1>4, NextKinds

\* The command of an update carries what is recorded.
LEMMA CarriedOn == ASSUME SetupInv, Next PROVE Carried'
  <1>t. Carried /\ cmd \in Command /\ pool \in Recorded
    BY DEF SetupInv, CmdTypes, FileTypes
  <1>0. \/ SameOrder \/ cmd'.up = FALSE
        \/ /\ pool' = pool /\ (pool.listed => cmd'.want = pool.wrappers)
           /\ cmd'.stale = pool.stale
    BY OrderKept, Ended, SetupAsked, UpdateAsked
  <1>a. cmd'.pc = "adopt" => cmd'.up /\ cmd'.stale = pool'.stale
    BY <1>t, AdoptPc, UpdateAsked DEF Carried, SameOrder, At
  <1>1. CASE UNCHANGED pool
    BY <1>t, <1>0, <1>1, <1>a DEF Carried, SameOrder, At
  <1>2. CASE pool'.wrappers = cmd.want /\ pool'.stale = cmd.stale
    BY <1>t, <1>0, <1>2, <1>a DEF Carried, SameOrder, At
  <1>3. CASE pool'.wrappers = cmd.want /\ pool'.stale = Threshold
    <2>1. cmd.up => cmd.stale \in {"", Threshold}
      BY <1>t DEF Carried, Threshold
    <2> QED
      BY <1>t, <1>0, <1>3, <1>a, <2>1 DEF Carried, SameOrder, At
  <1> QED
    BY <1>1, <1>2, <1>3, Recording

\* The enrollment file is truncated with its lines in hand, and written back; in
\* between the command stands, or it is cut off.
LEMMA EnrolSteps ==
  ASSUME SetupInv, Next
  PROVE  \/ InitEnrol
         \/ InitEnrolWrite
         \/ /\ enrol' = enrol
            /\ \/ cmd' = cmd
               \/ cmd.pc # "enrolw" /\ cmd'.pc # "enrolw"
               \/ cmd.pc = "enrolw" /\ cmd'.pc = "idle" /\ faults' = faults + 1
  <1> USE DEF Stage, Early, Scaffold, Wired, Launching, Last, At, scaffold
  <1>t. cmd \in Command
    BY DEF SetupInv, CmdTypes
  <1>0. ASSUME NEW pc \in Stage, NEW ws, GotoAll(pc, ws)
        PROVE  cmd'.pc = pc
    BY <1>t, <1>0 DEF GotoAll, Command
  <1>1. CASE StartSetup
    BY <1>1, SetupAsked DEF StartSetup
  <1>2. CASE StartUpdate
    BY <1>2, UpdateAsked DEF StartUpdate
  <1>3. CASE \E x \in Wrapper : Refresh(x) \/ Drop(x) \/ Install(x)
    BY <1>t, <1>3, Ended, DoneOne DEF Refresh, Drop, Install, End
  <1>4. CASE \E l \in Lane : Stop(l) \/ Fence(l) \/ Leave(l)
    BY <1>t, <1>4, DoneOne DEF Stop, Fence, Leave
  <1>5. CASE \E l \in Lane, x \in Wrapper : Launch(l, x)
    BY <1>t, <1>5 DEF Launch, Command
  <1>6. CASE ByPeople
    BY <1>6 DEF ByPeople, Break, Mend, Edit
  <1>7. CASE UpToDate \/ Verify \/ InitPlan \/ InitSpec \/ InitSpecWrite
    BY <1>t, <1>7, Ended, WentOn DEF UpToDate, Verify, InitPlan, InitSpec, InitSpecWrite, End
  <1>8. CASE DropEnds \/ InstallEnds \/ RemoveLegacy \/ StopEnds \/ FenceEnds
    BY <1>t, <1>0, <1>8, Ended, WentOn
    DEF DropEnds, InstallEnds, RemoveLegacy, StopEnds, FenceEnds, End
  <1>9. CASE \E b \in Version : Swap(b)
    BY <1>t, <1>0, <1>9 DEF Swap, Command
  <1>10. CASE Dispatcher \/ DispatcherWrite \/ ProfileWrite \/ Record \/ Adopt
    BY <1>t, <1>0, <1>10, Ended, WentOn
    DEF Dispatcher, DispatcherWrite, ProfileWrite, Record, Adopt, End
  <1>11. CASE Profile
    BY <1>11, ProfileGoes DEF Profile
  <1>12. CASE Cut
    BY <1>12, Ended DEF Cut, End
  <1> QED
    BY <1>1, <1>2, <1>3, <1>4, <1>5, <1>6, <1>7, <1>8, <1>9, <1>10, <1>11, <1>12, NextKinds
    DEF Aside

\* What the rewriting of an enrollment file does to its lines.
LEMMA EnrolBegins ==
  ASSUME SetupInv, InitEnrol
  PROVE  /\ cmd.pc = "enrol"
         /\ \/ enrol' = enrol /\ cmd'.pc = "drop"
            \/ enrol'.own = FALSE /\ cmd'.pc = "enrolw" /\ cmd'.keep = enrol.own
  <1>t. cmd \in Command
    BY DEF SetupInv, CmdTypes
  <1>1. cmd.pc = "enrol"
    BY DEF InitEnrol, At
  <1>2. CASE GotoAll("drop", Dropped) /\ UNCHANGED enrol
    BY <1>t, <1>1, <1>2 DEF GotoAll, Command
  <1>3. CASE /\ cmd' = [cmd EXCEPT !.pc = "enrolw", !.keep = enrol.own]
             /\ enrol' = [own |-> FALSE, v |-> 0]
    BY <1>t, <1>1, <1>3 DEF Command
  <1> QED
    BY <1>2, <1>3 DEF InitEnrol

LEMMA EnrolWritten ==
  ASSUME SetupInv, InitEnrolWrite
  PROVE  cmd.pc = "enrolw" /\ cmd'.pc = "drop" /\ enrol'.own = cmd.keep
  <1>t. cmd \in Command
    BY DEF SetupInv, CmdTypes
  <1> QED
    BY <1>t DEF InitEnrolWrite, At, GotoAll, Command

LEMMA HandKept == ASSUME SetupInv, Next PROVE LinesInHand'
  <1>t. LinesInHand
    BY DEF SetupInv
  <1> QED
    BY <1>t, EnrolSteps, EnrolBegins, EnrolWritten DEF LinesInHand, At

\* The lines are lost only when the command is cut off with them in hand.
LEMMA LinesLost ==
  ASSUME SetupInv, Next, OwnLines, ~OwnLines'
  PROVE  At("enrolw") /\ faults' = faults + 1
  <1>t. LinesInHand
    BY DEF SetupInv
  <1>1. CASE InitEnrol
    BY <1>1, EnrolBegins DEF OwnLines, At
  <1>2. CASE InitEnrolWrite
    BY <1>t, <1>2, EnrolWritten DEF OwnLines, LinesInHand, At
  <1>3. CASE enrol' = enrol /\ cmd' = cmd
    BY <1>3 DEF OwnLines, At
  <1>4. CASE enrol' = enrol /\ cmd.pc # "enrolw"
    BY <1>4 DEF OwnLines, At
  <1>5. CASE cmd.pc = "enrolw" /\ faults' = faults + 1
    BY <1>5 DEF At
  <1> QED
    BY <1>1, <1>2, <1>3, <1>4, <1>5, EnrolSteps

-----------------------------------------------------------------------------
(* Setup: what each stage has behind it *)

Scaffolding == \/ InitPlan \/ InitSpec \/ InitSpecWrite \/ InitEnrol \/ InitEnrolWrite
Ending == \/ StopEnds \/ FenceEnds \/ \E l \in Lane : Stop(l) \/ Fence(l) \/ Leave(l)

\* Where each step of a setup leads, and what it writes that the stages speak of.
LEMMA ScaffoldStep ==
  ASSUME SetupInv, Scaffolding
  PROVE  /\ UNCHANGED <<bin, hook, disp, pool>>
         /\ cmd.pc \in Scaffold
         /\ cmd'.pc \in Early \/ (cmd'.pc \in Scaffold /\ SameOrder)
  <1> USE DEF At, Stage, Early, Scaffold, Wired, Launching, Last
  <1>t. cmd \in Command /\ enrol \in [own : BOOLEAN, v : 0 .. MaxVersion]
        /\ Dropped \in SUBSET (Wrapper \cup Lane)
    BY DEF SetupInv, CmdTypes, FileTypes, Recorded, Dropped
  <1>1. CASE InitPlan \/ InitSpec \/ InitSpecWrite
    BY <1>t, <1>1, Ended, WentOn DEF InitPlan, InitSpec, InitSpecWrite, End, hooks, scaffold, launcher
  <1>2. CASE InitEnrol
    BY <1>t, <1>2, Went, Remembered DEF InitEnrol, hooks, launcher
  <1>3. CASE InitEnrolWrite
    BY <1>t, <1>3, Went DEF InitEnrolWrite, hooks, launcher
  <1> QED
    BY <1>1, <1>2, <1>3 DEF Scaffolding

LEMMA EndingStep ==
  ASSUME SetupInv, Ending
  PROVE  /\ UNCHANGED <<bin, hook, disp, pool>>
         /\ \/ cmd'.pc \in Early
            \/ SameOrder /\ cmd.pc \in Last /\ cmd'.pc \in Last
            \/ UNCHANGED cmd
  <1> USE DEF At, Stage, Early, Scaffold, Wired, Launching, Last, hooks, launcher
  <1>t. cmd \in Command /\ Claims \in SUBSET (Wrapper \cup Lane)
    BY DEF SetupInv, CmdTypes, Claims
  <1>1. CASE StopEnds \/ FenceEnds
    BY <1>t, <1>1, Ended, Went DEF StopEnds, FenceEnds, End
  <1>2. CASE \E l \in Lane : Stop(l) \/ Fence(l) \/ Leave(l)
    BY <1>t, <1>2, DoneOne DEF Stop, Fence, Leave
  <1> QED
    BY <1>1, <1>2 DEF Ending

\* With nothing written that the stages speak of, a step within a stage, or back
\* to one that has less behind it, keeps them.
LEMMA StagesStand ==
  ASSUME Stages, UNCHANGED <<bin, hook, disp, pool>>, SameOrder,
         \/ cmd.pc \in Scaffold /\ cmd'.pc \in Scaffold
         \/ cmd.pc \in Launching /\ cmd'.pc \in Launching
         \/ cmd.pc \in Last /\ cmd'.pc \in Last
  PROVE  Stages'
  BY DEF Stages, Pending, Compatible, Fits, SameOrder, At, Early, Scaffold, Wired, Launching, Last

\* A written file fits, so it takes nothing from any stage.
LEMMA FitStays ==
  ASSUME NEW x \in Wrapper, bin' = bin,
         hook'[x] = hook[x] \/ (hook'[x].st = "ok" /\ hook'[x].v = bin)
  PROVE  /\ Compatible(x, bin) => Compatible(x, bin)'
         /\ Fits(x) => Fits(x)'
  BY DEF Compatible, Fits

LEMMA StagesKept == ASSUME SetupInv, Next PROVE Stages'
  <1> USE DEF At
  <1>t. /\ Stages /\ HookTypes /\ EntriesKept /\ bin \in Version /\ cmd \in Command
        /\ (cmd.pc = "drop" => cmd.todo \cap cmd.want = {})
        /\ (cmd.pc = "install" => cmd.todo \subseteq cmd.want)
    BY DEF SetupInv, CmdTypes, FileTypes
  <1>e. ASSUME cmd'.pc \in Early
        PROVE  Stages'
    BY <1>e DEF Stages, Early, Scaffold, Wired, Launching, Last
  <1>1. CASE StartSetup \/ StartUpdate
    BY <1>1, <1>e, SetupAsked, UpdateAsked DEF Early
  <1>2. CASE Cut \/ UpToDate
    BY <1>2, <1>e, Ended DEF Cut, UpToDate, End, Early
  <1>3. CASE ByPeople \/ \E x \in Wrapper : Refresh(x)
    <2>1. cmd'.pc \in {"idle", "refresh"}
      BY <1>t, <1>3, Ended, DoneOne DEF ByPeople, Break, Mend, Edit, Refresh, End
    <2> QED
      BY <2>1, <1>e DEF Early
  <1>4. CASE Adopt
    BY <1>t, <1>4, <1>e, WentOn DEF Adopt, Stage, Early
  <1>5. CASE \E b \in Version : Swap(b)
    <2>1. CASE cmd.resync
      BY <1>t, <1>5, <1>e, <2>1 DEF Swap, Command, Early
    <2>2. CASE ~cmd.resync
      BY <1>t, <1>5, <2>2 DEF Swap, GotoAll, Command, Stages
    <2> QED
      BY <2>1, <2>2
  <1>6. CASE Verify
    <2>1. CASE End
      BY <1>e, <2>1, Ended DEF End, Early
    <2>2. CASE (\A x \in Wrapper : Compatible(x, bin)) /\ Goto("init")
      <3>1. cmd'.pc = "init" /\ bin' = bin /\ hook' = hook
        BY <1>t, <1>6, <2>2, WentOn DEF Verify, hooks, Stage, Scaffold
      <3> QED
        BY <2>2, <3>1 DEF Stages, Compatible, Early, Wired, Launching, Last
    <2> QED
      BY <1>6, <2>1, <2>2 DEF Verify
  <1>7. CASE Scaffolding
    BY <1>t, <1>e, <1>7, ScaffoldStep, StagesStand
  <1>8. CASE Ending
    <2>1. CASE UNCHANGED cmd
      BY <1>t, <1>8, <2>1, EndingStep DEF Stages, Pending, Compatible, Fits
    <2> QED
      BY <1>t, <1>e, <1>8, <2>1, EndingStep, StagesStand
  <1>9. CASE \E x \in Wrapper : Drop(x)
    <2>1. PICK x \in Wrapper : Drop(x)
      BY <1>9
    <2>2. /\ cmd.pc = "drop" /\ cmd'.pc = "drop" /\ SameOrder /\ bin' = bin
          /\ \A y \in Wrapper \ {x} : hook'[y] = hook[y]
          /\ hook'[x] = hook[x] \/ hook'[x] = Missing
      BY <1>t, <2>1, DoneOne DEF Drop, HookTypes
    <2>3. \A y \in Wrapper : Compatible(y, bin) => Compatible(y, bin)'
      BY <2>2 DEF Compatible, Missing
    <2> QED
      BY <1>t, <2>2, <2>3 DEF Stages, SameOrder, Early, Wired, Launching, Last
  <1>10. CASE DropEnds
    <2>1. /\ cmd.pc = "drop" /\ cmd'.pc = "install" /\ SameOrder /\ cmd'.todo = cmd.want
          /\ bin' = bin /\ hook' = hook
      <3>1. cmd.want \in SUBSET (Wrapper \cup Lane)
        BY <1>t DEF Command
      <3> QED
        BY <1>t, <1>10, <3>1, Went DEF DropEnds, hooks, Stage
    <2> QED
      BY <1>t, <2>1 DEF Stages, Pending, Compatible, SameOrder, Early, Wired, Launching, Last
  <1>11. CASE \E x \in Wrapper : Install(x)
    <2>1. PICK x \in Wrapper : Install(x)
      BY <1>11
    <2>2. CASE End
      BY <1>e, <2>2, Ended DEF End, Early
    <2>3. CASE Done(x)
      <3>1. /\ cmd.pc = "install" /\ cmd'.pc = "install" /\ SameOrder /\ bin' = bin
            /\ cmd'.todo = cmd.todo \ {x}
        BY <1>t, <2>1, <2>3, DoneOne DEF Install
      <3>2. /\ Fits(x)'
            /\ \A y \in Wrapper \ {x} : hook'[y] = hook[y]
        <4>1. CASE Current(x, bin) /\ UNCHANGED hooks
          BY <3>1, <4>1 DEF Current, Fits, hooks
        <4>2. CASE WriteHook(x, bin)
          BY <1>t, <3>1, <4>2, Written DEF Fits
        <4>3. CASE End
          BY <1>t, <3>1, <4>3, Ended DEF End
        <4> QED
          BY <2>1, <4>1, <4>2, <4>3 DEF Install
      <3>3. \A y \in Wrapper : /\ Compatible(y, bin) => Compatible(y, bin)'
                               /\ Fits(y) \/ y = x => Fits(y)'
        BY <3>1, <3>2 DEF Fits, Compatible
      <3>4. cmd.want \subseteq Wrapper
        BY <1>t DEF Command
      <3> QED
        BY <1>t, <3>1, <3>3, <3>4
        DEF Stages, Pending, SameOrder, Early, Wired, Launching, Last
    <2> QED
      BY <2>1, <2>2, <2>3 DEF Install
  <1>12. CASE InstallEnds
    <2>1. /\ cmd.pc = "install" /\ cmd.todo = {} /\ cmd'.pc = "ac" /\ SameOrder
          /\ bin' = bin /\ hook' = hook
      BY <1>t, <1>12, WentOn DEF InstallEnds, hooks, Stage, Wired
    <2> QED
      BY <1>t, <2>1
      DEF Stages, Pending, Compatible, Fits, SameOrder, Early, Wired, Launching, Last
  <1>13. CASE Dispatcher
    <2>1. CASE End
      BY <1>e, <2>1, Ended DEF End, Early
    <2>2. CASE Goto("acw")
      <3>1. cmd.pc = "ac" /\ cmd'.pc = "acw" /\ SameOrder /\ bin' = bin /\ hook' = hook
        BY <1>t, <1>13, <2>2, WentOn DEF Dispatcher, hooks, Stage, Wired
      <3> QED
        BY <1>t, <3>1
        DEF Stages, Pending, Compatible, Fits, SameOrder, Early, Wired, Launching, Last
    <2> QED
      BY <1>13, <2>1, <2>2 DEF Dispatcher
  <1>14. CASE DispatcherWrite
    <2>1. /\ cmd.pc = "acw" /\ cmd'.pc = "legacy" /\ SameOrder /\ bin' = bin /\ hook' = hook
          /\ disp' = bin
      BY <1>t, <1>14, WentOn DEF DispatcherWrite, hooks, Stage, Launching
    <2> QED
      BY <1>t, <2>1
      DEF Stages, Pending, Compatible, Fits, SameOrder, Early, Wired, Launching, Last
  <1>15. CASE RemoveLegacy \/ Profile \/ ProfileWrite
    <2>1. /\ cmd.pc \in Launching /\ cmd'.pc \in Launching /\ SameOrder
          /\ UNCHANGED <<bin, hook, disp, pool>>
      <3>1. prof.own \in BOOLEAN
        BY DEF SetupInv, FileTypes, Profiles
      <3> QED
        BY <1>t, <1>15, <3>1, WentOn, Remembered
        DEF RemoveLegacy, Profile, ProfileWrite, hooks, Stage, Launching
    <2> QED
      BY <1>t, <2>1, StagesStand
  <1>16. CASE Record
    <2>1. /\ cmd.pc = "record" /\ cmd'.pc = "stop" /\ SameOrder
          /\ UNCHANGED <<bin, hook, disp>> /\ pool'.listed /\ pool'.wrappers = cmd.want
      BY <1>t, <1>16, Went DEF Record, hooks, launcher, Stage, Last
    <2> QED
      BY <1>t, <2>1
      DEF Stages, Pending, Compatible, Fits, SameOrder, Early, Wired, Launching, Last
  <1>17. CASE \E l \in Lane, x \in Wrapper : Launch(l, x)
    <2>1. PICK l \in Lane, x \in Wrapper : Launch(l, x)
      BY <1>17
    <2>2. /\ SameOrder /\ cmd'.pc = cmd.pc
          /\ cmd'.todo = cmd.todo \/ cmd.pc \in {"fence", "ufence"}
          /\ UNCHANGED <<bin, disp, pool>>
      BY <1>t, <2>1 DEF Launch, launcher, SameOrder, Command
    <2>3. \A y \in Wrapper : hook'[y] = hook[y] \/ (hook'[y].st = "ok" /\ hook'[y].v = bin)
      <3>1. CASE UNCHANGED hooks
        BY <3>1 DEF hooks
      <3>2. CASE WriteHook(x, bin)
        BY <1>t, <3>2, Written
      <3> QED
        BY <2>1, <3>1, <3>2 DEF Launch
    <2>4. \A y \in Wrapper : /\ Compatible(y, bin) => Compatible(y, bin)'
                             /\ Fits(y) => Fits(y)'
      BY <2>2, <2>3, FitStays
    <2>5. cmd.want \subseteq Wrapper
      BY <1>t DEF Command
    <2>6. (cmd'.want \ Pending') = cmd.want \ Pending
      BY <2>2 DEF Pending, SameOrder
    <2> QED
      BY <1>t, <2>2, <2>4, <2>5, <2>6 DEF Stages, SameOrder
  <1> QED
    BY <1>1, <1>2, <1>3, <1>4, <1>5, <1>6, <1>7, <1>8, <1>9, <1>10, <1>11, <1>12, <1>13,
       <1>14, <1>15, <1>16, <1>17, NextKinds DEF Aside, Scaffolding, Ending

-----------------------------------------------------------------------------
(* The invariant of the host *)

LEMMA Bounds == /\ 1 \in Version /\ 0 \in 0 .. MaxVersion /\ 0 \in 0 .. MaxFault
                /\ 0 \in 0 .. Alien /\ Alien \in 0 .. Alien
  <1>1. MaxVersion \in Nat /\ MaxVersion # 0 /\ MaxFault \in Nat
    BY SetupAssumption
  <1>2. MaxVersion >= 1
    BY <1>1
  <1> QED
    BY <1>1, <1>2 DEF Version, Alien

LEMMA SetupStarts == Init => SetupInv
  <1> SUFFICES ASSUME Init PROVE SetupInv
    OBVIOUS
  <1>0. /\ 1 \in Version /\ 0 \in 0 .. MaxVersion /\ 0 \in 0 .. MaxFault /\ 0 \in 0 .. Alien
        /\ Alien \in 0 .. Alien
    BY Bounds
  <1> USE DEF Init
  <1>1. HookTypes
    <2>1. Missing \in Hook
      BY <1>0 DEF Missing, Hook
    <2> QED
      BY <2>1 DEF HookTypes
  <1>2. FileTypes
    <2>1. prof \in Profiles
      BY DEF Profiles
    <2>2. pool \in Recorded
      BY DEF Recorded, Stale
    <2>3. enrol \in [own : BOOLEAN, v : 0 .. MaxVersion]
      BY <1>0
    <2>4. theirs \in BOOLEAN
      OBVIOUS
    <2> QED
      BY <1>0, <2>1, <2>2, <2>3, <2>4 DEF FileTypes
  <1>3. CmdTypes
    BY Ended DEF CmdTypes, At
  <1>4. EntriesKept
    BY DEF EntriesKept
  <1>5. LinesKept /\ LinesInHand /\ ProgramKept /\ Carried /\ Stages
    BY Ended
    DEF LinesKept, LinesInHand, ProgramKept, Carried, Stages, At, Early, Wired, Launching, Last
  <1> QED
    BY <1>1, <1>2, <1>3, <1>4, <1>5 DEF SetupInv

LEMMA SetupKept == ASSUME SetupInv, Next PROVE SetupInv'
  BY HooksKept, FilesTyped, CmdTyped, PeopleStay, HandKept, CarriedOn, StagesKept DEF SetupInv

\* The side that is not played stands still.
LEMMA SetupStands == ASSUME SetupInv, UNCHANGED vars PROVE SetupInv'
  <1>1. (HookTypes /\ FileTypes /\ CmdTypes)'
    BY DEF SetupInv, vars, hooks, scaffold, launcher, HookTypes, FileTypes, CmdTypes, At
  <1>2. (EntriesKept /\ LinesKept /\ LinesInHand /\ ProgramKept /\ Carried)'
    BY DEF SetupInv, vars, hooks, scaffold, launcher, EntriesKept, LinesKept, LinesInHand,
           ProgramKept, Carried, At
  <1>3. Stages'
    BY DEF SetupInv, vars, hooks, launcher, Stages, Pending, Fits, Compatible, At
  <1> QED
    BY <1>1, <1>2, <1>3 DEF SetupInv

LEMMA WipeStands == ASSUME WipeInv, UNCHANGED wipe PROVE WipeInv'
  BY DEF WipeInv, wipe, BusTypes, WipeTypes, Seated, Dead, Quiet, W!Deleting

HostStep == Installs(Next) \/ Wipes(W!Next /\ starts' + wfaults' <= MaxStart)

\* What a step of the host is, seen from either side.
LEMMA Sides ==
  ASSUME [HostStep]_all
  PROVE  /\ Next \/ UNCHANGED vars
         /\ W!Next \/ UNCHANGED wipe
  BY DEF HostStep, Installs, Wipes, all

LEMMA HostSafe == HostRuns => []HostInv
  <1>1. HostInit => HostInv
    BY SetupStarts, WipeStarts DEF HostInit, HostInv
  <1>2. HostInv /\ [HostStep]_all => HostInv'
    BY Sides, SetupKept, SetupStands, WipeKept, WipeStands DEF HostInv
  <1> QED
    BY <1>1, <1>2, PTL DEF HostRuns, HostStep

-----------------------------------------------------------------------------
(* What the action properties look at *)

\* Only a stop or a fence ends a lane, beside its own leaving.
LEMMA LanesStand ==
  ASSUME Next
  PROVE  \/ UNCHANGED lane
         \/ \E l \in Lane : Stop(l) \/ Fence(l) \/ Leave(l)
         \/ \E l \in Lane, x \in Wrapper : Launch(l, x)
  <1>1. CASE StartSetup \/ StartUpdate \/ Cut \/ Verify \/ InitPlan \/ InitSpec \/ InitSpecWrite
    BY <1>1 DEF StartSetup, StartUpdate, Cut, Verify, InitPlan, InitSpec, InitSpecWrite
  <1>2. CASE InitEnrol \/ InitEnrolWrite \/ DropEnds \/ InstallEnds \/ Dispatcher
    BY <1>2 DEF InitEnrol, InitEnrolWrite, DropEnds, InstallEnds, Dispatcher
  <1>3. CASE DispatcherWrite \/ RemoveLegacy \/ Profile \/ ProfileWrite \/ Record
    BY <1>3 DEF DispatcherWrite, RemoveLegacy, Profile, ProfileWrite, Record
  <1>4. CASE StopEnds \/ FenceEnds \/ Adopt \/ UpToDate \/ (\E b \in Version : Swap(b))
    BY <1>4 DEF StopEnds, FenceEnds, Adopt, UpToDate, Swap
  <1>5. CASE ByPeople \/ \E x \in Wrapper : Refresh(x) \/ Drop(x) \/ Install(x)
    BY <1>5 DEF ByPeople, Break, Mend, Edit, Refresh, Drop, Install
  <1>6. CASE \/ \E l \in Lane : Stop(l) \/ Fence(l) \/ Leave(l)
             \/ \E l \in Lane, x \in Wrapper : Launch(l, x)
    BY <1>6
  <1> QED
    BY <1>1, <1>2, <1>3, <1>4, <1>5, <1>6, NextKinds DEF Aside

\* A stray changes hands by itself, or is removed while it is still the wipe's own.
LEMMA StraysChange ==
  ASSUME W!Next, stray \in [W!Stray -> {"gone", "own", "other"}]
  PROVE  \A k \in W!Stray : stray'[k] = stray[k] \/ stray[k] = "own"
  <1> USE DEF W!bus, W!ghosts, W!counts
  <1>1. CASE W!DeleteLegacy \/ W!Clean
    BY <1>1 DEF W!DeleteLegacy, W!Clean, W!Removable, W!StillOwn, W!Stray
  <1>2. CASE \E k \in W!Stray : W!Swap(k)
    BY <1>2 DEF W!Swap
  <1>3. CASE W!Start \/ W!Stop \/ W!Wait \/ W!Scan \/ W!Plan \/ W!Rescan
    BY <1>3 DEF W!Start, W!Stop, W!Wait, W!Scan, W!Plan, W!Rescan
  <1>4. CASE W!DeleteBoxes \/ W!DeleteRows \/ W!DeleteState \/ W!Fails
    BY <1>4 DEF W!DeleteBoxes, W!DeleteRows, W!DeleteState, W!Fails
  <1>5. CASE W!LeftBoxes \/ W!LeftState \/ W!Report \/ W!Cut
    BY <1>5 DEF W!LeftBoxes, W!LeftState, W!Report, W!Cut
  <1>6. CASE \E a \in Agent : \/ W!Launch(a) \/ W!Enrol(a) \/ W!Beat(a) \/ W!Leave(a)
                              \/ W!Kill(a) \/ W!ClaimAges(a) \/ W!RowAges(a) \/ W!ByHand(a)
                              \/ W!Reuse(a) \/ W!OtherEnds(a)
    BY <1>6 DEF W!Launch, W!Enrol, W!Beat, W!Leave, W!Kill, W!ClaimAges, W!RowAges, W!ByHand,
                W!Reuse, W!OtherEnds
  <1> QED
    BY <1>1, <1>2, <1>3, <1>4, <1>5, <1>6 DEF W!Next, W!Step

\* The step to the success report launches nothing.
LEMMA GreenStep ==
  ASSUME WipeInv, W!Next, w' # w, w'.pc = "green"
  PROVE  late' = late
  <1> USE DEF W!At, W!bus, W!ghosts, W!counts
  <1>t. w \in Wiping
    BY DEF WipeInv, WipeTypes
  <1>0. CASE W!Start
    BY <1>0 DEF W!Start, W!Idle
  <1>1. CASE W!Stop \/ W!Wait \/ W!Scan \/ W!Plan \/ W!Rescan
    BY <1>1 DEF W!Stop, W!Wait, W!Scan, W!Plan, W!Rescan
  <1>2. CASE W!DeleteBoxes \/ W!DeleteRows \/ W!DeleteState \/ W!Fails
    BY <1>2 DEF W!DeleteBoxes, W!DeleteRows, W!DeleteState, W!Fails
  <1>3. CASE W!DeleteLegacy \/ W!LeftBoxes \/ W!Clean \/ W!Cut
    BY <1>3 DEF W!DeleteLegacy, W!LeftBoxes, W!Clean, W!Cut
  <1>4. CASE W!LeftState \/ W!Report
    BY <1>t, <1>4, WipeEnded, WipeWent DEF W!LeftState, W!Report, W!End, Phases
  <1>5. CASE PoolStep
    BY <1>5 DEF PoolStep, W!Launch, W!Enrol, W!Beat, W!Leave, W!Kill, W!ClaimAges, W!RowAges,
                W!ByHand, W!Reuse, W!OtherEnds, W!Swap
  <1> QED
    BY <1>0, <1>1, <1>2, <1>3, <1>4, <1>5 DEF W!Next, W!Step, PoolStep

-----------------------------------------------------------------------------
(* The theorems *)

\* MCSetup!HostTypeOK: the files and the pool keep their types; none of the
\* wrappers that are dropped is wanted, only wanted ones are installed, and
\* whatever is wiped, the pool's identity and choices stay.
THEOREM HostTypesHold == HostRuns => []HostTypeOK
  <1>1. SetupInv => TypeOK
    <2> SUFFICES ASSUME SetupInv PROVE TypeOK
      OBVIOUS
    <2>1. HookTypes /\ FileTypes /\ CmdTypes
      BY DEF SetupInv
    <2>2. cmd.todo \subseteq Wrapper \cup Lane /\ cmd.want \subseteq Wrapper
      BY <2>1 DEF CmdTypes, Command
    <2> QED
      BY <2>1, <2>2 DEF TypeOK, HookTypes, FileTypes, CmdTypes, Hook, Profiles, Recorded
  <1>2. WipeInv => W!TypeOK
    <2> SUFFICES ASSUME WipeInv PROVE W!TypeOK
      OBVIOUS
    <2>1. w.ids \subseteq Agent
      BY DEF WipeInv, WipeTypes, Wiping
    <2> QED
      BY <2>1 DEF WipeInv, BusTypes, WipeTypes, W!TypeOK
  <1>3. HostInv => HostTypeOK
    BY <1>1, <1>2 DEF HostInv, HostTypeOK
  <1> QED
    BY <1>3, HostSafe, PTL

\* MCSetup!PeopleKept: wherever setup or update is killed, the entries people put
\* into a hook file are in it or in a backup, the lines of the profile too, and a
\* user's own `ac` is not overwritten; an enrollment file loses its own lines only
\* when its rewriting is cut short; an update changes neither a choice nor a
\* threshold that was recorded, and setup no threshold it was not given.
THEOREM PeopleAreKept == HostRuns => PeopleKept
  <1>1. HostInv => OwnKept
    BY DEF HostInv, SetupInv, OwnKept, EntriesKept, LinesKept, ProgramKept
  <1>2. HostInv /\ [HostStep]_all =>
          [/\ cmd.up /\ pool.listed => pool'.wrappers = pool.wrappers
           /\ pool.stale # "" =>
                 \/ pool'.stale = pool.stale
                 \/ ~cmd.up /\ cmd.stale # "" /\ pool'.stale = cmd.stale]_vars
    <2> SUFFICES ASSUME HostInv, Next
                 PROVE  /\ cmd.up /\ pool.listed => pool'.wrappers = pool.wrappers
                        /\ pool.stale # "" =>
                             \/ pool'.stale = pool.stale
                             \/ ~cmd.up /\ cmd.stale # "" /\ pool'.stale = cmd.stale
      BY Sides
    <2>1. SetupInv /\ Carried
      BY DEF HostInv, SetupInv
    <2>2. CASE UNCHANGED pool
      BY <2>2
    <2>3. CASE pool'.wrappers = cmd.want /\ pool'.stale = Threshold
      BY <2>1, <2>3 DEF Carried, Threshold
    <2>4. CASE Adopt /\ pool'.wrappers = cmd.want /\ pool'.stale = cmd.stale
      BY <2>1, <2>4 DEF Carried, Adopt
    <2>5. \/ UNCHANGED pool
          \/ pool'.wrappers = cmd.want /\ pool'.stale = Threshold
          \/ Adopt /\ pool'.wrappers = cmd.want /\ pool'.stale = cmd.stale
      BY <2>1, Recording
    <2> QED
      BY <2>2, <2>3, <2>4, <2>5
  <1>3. HostInv /\ [HostStep]_all =>
          [OwnLines /\ ~OwnLines' => At("enrolw") /\ faults' = faults + 1]_vars
    BY Sides, LinesLost DEF HostInv
  <1> QED
    BY <1>1, <1>2, <1>3, HostSafe, PTL
    DEF HostRuns, HostStep, PeopleKept, ChoiceKept, EnrolKept

\* Setup!FenceLast: setup and a re-syncing update stop or fence a lane only when
\* the hook files fit the binary, `ac` works and the choice is recorded.
THEOREM LanesFencedLast == HostRuns => FenceLast
  <1>1. HostInv /\ [HostStep]_all =>
          [\A l \in Lane : lane[l] = "up" /\ lane'[l] = "ending" => ~cmd.resync \/ Ready]_vars
    <2> SUFFICES ASSUME HostInv, Next, NEW l \in Lane, lane[l] = "up", lane'[l] = "ending",
                        cmd.resync
                 PROVE  Ready
      BY Sides
    <2>1. SetupInv /\ Stages /\ lane \in [Lane -> {"down", "up", "ending"}]
      BY DEF HostInv, SetupInv, FileTypes
    <2>2. cmd.pc \in Last
      <3>1. CASE \E m \in Lane : Stop(m) \/ Fence(m)
        BY <3>1 DEF Stop, Fence, At, Last
      <3>2. CASE \E m \in Lane : Leave(m)
        BY <2>1, <3>2 DEF Leave
      <3>3. CASE \E m \in Lane, x \in Wrapper : Launch(m, x)
        BY <2>1, <3>3 DEF Launch
      <3>4. CASE lane' = lane
        BY <3>4
      <3> QED
        BY <3>1, <3>2, <3>3, <3>4, LanesStand
    <2>3. Pending = {}
      BY <2>2 DEF Pending, At, Last
    <2> QED
      BY <2>1, <2>2, <2>3 DEF Stages, Ready, Fits, Early, Last
  <1> QED
    BY <1>1, HostSafe, PTL DEF HostRuns, HostStep, FenceLast

\* MCSetup!WipeSpares: a lane that is alive, on whichever host, loses its claim or
\* its row to a wipe only if it came back after the last look; the success report
\* is true of state/; and no file that took the place of a stray is removed.
THEOREM WipesSpare == HostRuns => WipeSpares
  <1>1. HostInv /\ [HostStep]_all =>
          [W!Deleting => \A a \in Agent \ renewed :
             /\ claim[a] = "fresh" => claim'[a] # "none"
             /\ row[a] = "fresh" /\ a \in w.ids => row'[a] # "none"]_<<claim, row, w>>
    BY DEF HostInv, WipeInv, Dead
  <1>2. HostInv /\ [HostStep]_all /\ HostInv' =>
          [w'.pc = "green" => \A a \in Agent : claim'[a] # "none" => a \in late]_w
    <2> SUFFICES ASSUME HostInv, W!Next, HostInv', w' # w, w'.pc = "green",
                        NEW a \in Agent, claim'[a] # "none"
                 PROVE  a \in late
      BY Sides DEF wipe
    <2>1. late' = late
      BY GreenStep DEF HostInv
    <2> QED
      BY <2>1 DEF HostInv, WipeInv, Quiet
  <1>3. HostInv /\ [HostStep]_all =>
          [\A k \in W!Stray : stray[k] = "other" => stray'[k] = "other"]_stray
    <2> SUFFICES ASSUME HostInv, W!Next, stray' # stray, NEW k \in W!Stray, stray[k] = "other"
                 PROVE  stray'[k] = "other"
      BY Sides DEF wipe
    <2>1. stray \in [W!Stray -> {"gone", "own", "other"}]
      BY DEF HostInv, WipeInv, BusTypes
    <2> QED
      BY <2>1, StraysChange
  <1> QED
    BY <1>1, <1>2, <1>3, HostSafe, PTL
    DEF HostRuns, HostStep, WipeSpares, W!LiveSpared, W!GreenIsQuiet, W!StrayGuarded
=============================================================================
