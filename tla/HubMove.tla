--------------------------------- MODULE HubMove ---------------------------------
(***************************************************************************)
(* Moving a joined hub to a new URL (internal/cli/hub_migrate.go,          *)
(* hub_join.go:67-181) beside the processes that use the hub's directory   *)
(* (hub_lock_discover.go), under the hub locks (hub_lock_unix.go), with a  *)
(* kill after every step.                                                  *)
(*                                                                         *)
(* One machine, one checkout, an old hub and a new one that is the same    *)
(* pool under another name. A file is a number: OldKey is the key the hub  *)
(* has authorized, NewKey one a fresh join mints, the others are what the  *)
(* lanes and the one-shot commands leave in the hub's directory.           *)
(***************************************************************************)
EXTENDS Naturals, FiniteSets

CONSTANTS Join,     \* processes of hub join
          Holder,   \* lanes and one-shot commands
          MaxJoin,  \* bound on the joins of others, or without --replace
          MaxUse,   \* bound on the commands that use a hub
          MaxFault, \* bound on kills and unreachable hubs
          Last,     \* the join process that is always run again
          None

ASSUME LastAssumption == Last \in Join

Hub == {"new", "old"}          \* hub ids, and the directories they name
Dir == Hub \cup {"partial", "frozen"}
OldKey == 0
NewKey == MaxUse + 1
Key == {OldKey, NewKey}

VARIABLES tree,    \* tree[d]: what is in a directory, None when there is none
          pointer, \* the hub that the checkout points at
          recorded,\* both joins recorded the host's fingerprint
          ex,      \* ex[h]: the join that holds the lock of h exclusively
          sh,      \* sh[h]: the holders that share it
          join, holder,
          live,    \* the files that whoever wrote them has not replaced
          used, joins, faults

locks == <<ex, sh>>
bounds == <<used, joins, faults>>
vars == <<tree, pointer, recorded, locks, join, holder, live, bounds>>

Tree == [conf : {"none", "old", "new"}, files : SUBSET (0..NewKey), mark : BOOLEAN]
Empty == [conf |-> "none", files |-> {}, mark |-> FALSE]
There(d) == tree[d] # None
Conf(d) == IF There(d) THEN tree[d].conf ELSE "none"
Files(d) == IF There(d) THEN tree[d].files ELSE {}
Marked == There("new") /\ tree["new"].mark

ASSUME NoneAssumption == None \notin Tree \cup Join
ASSUME BoundAssumption == MaxUse \in Nat

Off == [pc |-> "off", frozen |-> FALSE, want |-> {}, replace |-> FALSE, out |-> "none"]
Fault == faults < MaxFault /\ faults' = faults + 1

-----------------------------------------------------------------------------
(* The locks: sorted, one at a time, a bounded wait, released with the process *)

Sorted(want) == IF "new" \in want THEN "new" ELSE "old"
Without(j) == [h \in Hub |-> IF ex[h] = j THEN None ELSE ex[h]]
Goto(j, pc) == join' = [join EXCEPT ![j].pc = pc]
End(j, out) == join' = [join EXCEPT ![j] = [Off EXCEPT !.out = out]] /\ ex' = Without(j)
Ends(j, out) == End(j, out) /\ UNCHANGED sh

NextScope(j) == IF join[j].pc = "lock1" THEN "confirm" ELSE "recheck"

Acquire(j) ==
  LET h == Sorted(join[j].want) IN
  /\ join[j].pc \in {"lock1", "lock2"} /\ ex[h] = None /\ sh[h] = {}
  /\ ex' = [ex EXCEPT ![h] = j]
  /\ join' = [join EXCEPT ![j].want = @ \ {h},
                          ![j].pc = IF join[j].want = {h} THEN NextScope(j) ELSE @]
  /\ UNCHANGED <<tree, pointer, recorded, sh, holder, live, bounds>>

Busy(j) ==
  LET h == Sorted(join[j].want) IN
  /\ join[j].pc \in {"lock1", "lock2"} /\ (ex[h] # None \/ sh[h] # {})
  /\ Ends(j, "failed")
  /\ UNCHANGED <<tree, pointer, recorded, holder, live, bounds>>

-----------------------------------------------------------------------------
(* The first scope: recover a frozen tree, find what to move *)

Start(j, replace) ==
  /\ join[j].pc = "off" /\ (joins < MaxJoin \/ (j = Last /\ replace))
  /\ joins' = IF j = Last /\ replace THEN joins ELSE joins + 1
  /\ join' = [join EXCEPT ![j] = [Off EXCEPT !.pc = "origin", !.replace = replace]]
  /\ UNCHANGED <<tree, pointer, recorded, locks, holder, live, used, faults>>

\* Read before the locks: whose tree is frozen decides which locks to take.
ReadOrigin(j) ==
  /\ join[j].pc = "origin"
  /\ IF There("frozen") /\ ~Marked
       THEN Ends(j, "failed")
       ELSE /\ join' = [join EXCEPT ![j].frozen = There("frozen"), ![j].pc = "lock1",
                                    ![j].want = IF There("frozen") THEN Hub ELSE {"new"}]
            /\ UNCHANGED locks
  /\ UNCHANGED <<tree, pointer, recorded, holder, live, bounds>>

Confirm(j) ==
  /\ join[j].pc = "confirm"
  /\ IF There("frozen") # join[j].frozen \/ (There("frozen") /\ ~Marked)
       THEN Ends(j, "failed")
       ELSE Goto(j, "sweep") /\ UNCHANGED locks
  /\ UNCHANGED <<tree, pointer, recorded, holder, live, bounds>>

\* Mutant of Copied: whatever was frozen was copied.
CopiedBlind == TRUE

\* verifyHubMigrationCopy: each file of the frozen tree is in the new one.
Copied == Files("frozen") \subseteq Files("new")

Sweep(j) ==
  /\ join[j].pc = "sweep"
  /\ \/ ~There("frozen") /\ Goto(j, "find") /\ UNCHANGED locks
     \/ There("frozen") /\ Copied /\ Goto(j, "sweep-delete") /\ UNCHANGED locks
     \/ There("frozen") /\ ~Copied /\ Ends(j, "failed")
  /\ UNCHANGED <<tree, pointer, recorded, holder, live, bounds>>

Unmarked == IF There("new") THEN [tree["new"] EXCEPT !.mark = FALSE] ELSE None

\* Two hubs that are both joined are one by their fingerprints; otherwise the
\* new one has to answer a probe that is pinned to the old one's host key.
Candidate == Conf("old") = "old" /\ (Conf("new") = "new" => recorded)
Probed == Candidate /\ Conf("new") # "new"

Find(j) ==
  /\ join[j].pc = "find"
  /\ \/ /\ Candidate
        /\ join' = [join EXCEPT ![j].pc = "lock2", ![j].want = Hub] /\ ex' = Without(j)
        /\ UNCHANGED <<sh, faults>>
     \/ ~Candidate /\ Goto(j, "join") /\ UNCHANGED <<locks, faults>>
     \/ Probed /\ Fault /\ Goto(j, "join") /\ UNCHANGED locks
  /\ UNCHANGED <<tree, pointer, recorded, holder, live, used, joins>>

-----------------------------------------------------------------------------
(* The second scope: both hubs are held, the old one is moved *)

Recheck(j) ==
  /\ join[j].pc = "recheck"
  /\ \/ Candidate /\ Goto(j, "move") /\ UNCHANGED <<locks, faults>>
     \/ ~Candidate /\ Ends(j, "failed") /\ UNCHANGED faults
     \/ Probed /\ Fault /\ Ends(j, "failed")
  /\ UNCHANGED <<tree, pointer, recorded, holder, live, used, joins>>

\* Mutant of Move: a new directory that is there is always refused.
MoveStrict(j) ==
  /\ join[j].pc = "move"
  /\ IF There("new")
       THEN Ends(j, "failed") /\ UNCHANGED tree
       ELSE tree' = [tree EXCEPT !["partial"] = None] /\ Goto(j, "copy") /\ UNCHANGED locks
  /\ UNCHANGED <<pointer, recorded, holder, live, bounds>>

\* A new directory is the move's own only when it says so.
Move(j) ==
  /\ join[j].pc = "move"
  /\ IF There("new")
       THEN /\ IF Marked THEN Goto(j, "point") /\ UNCHANGED locks ELSE Ends(j, "failed")
            /\ UNCHANGED tree
       ELSE tree' = [tree EXCEPT !["partial"] = None] /\ Goto(j, "copy") /\ UNCHANGED locks
  /\ UNCHANGED <<pointer, recorded, holder, live, bounds>>

\* Copying, with a kill in the middle of it.
Copy(j) ==
  /\ join[j].pc = "copy"
  /\ \/ tree' = [tree EXCEPT !["partial"] = tree["old"]] /\ Goto(j, "mark") /\ UNCHANGED <<locks, faults>>
     \/ /\ Fault /\ Ends(j, "failed")
        /\ tree' = [tree EXCEPT !["partial"] = [Empty EXCEPT !.files = {OldKey}]]
  /\ UNCHANGED <<pointer, recorded, holder, live, used, joins>>

Mark(j) ==
  /\ join[j].pc = "mark"
  /\ tree' = [tree EXCEPT !["partial"].conf = "new", !["partial"].mark = TRUE] /\ Goto(j, "rename")
  /\ UNCHANGED <<pointer, recorded, locks, holder, live, bounds>>

Rename(j) ==
  /\ join[j].pc = "rename"
  /\ tree' = [tree EXCEPT !["new"] = tree["partial"], !["partial"] = None] /\ Goto(j, "point")
  /\ UNCHANGED <<pointer, recorded, locks, holder, live, bounds>>

Point(j) ==
  /\ join[j].pc = "point" /\ pointer' = "new" /\ Goto(j, "freeze")
  /\ UNCHANGED <<tree, recorded, locks, holder, live, bounds>>

\* The old directory leaves every path that a process resolves, then is compared.
Freeze(j) ==
  /\ join[j].pc = "freeze"
  /\ IF There("frozen")
       THEN Ends(j, "failed") /\ UNCHANGED tree
       ELSE /\ tree' = [tree EXCEPT !["frozen"] = tree["old"], !["old"] = None]
            /\ Goto(j, "verify") /\ UNCHANGED locks
  /\ UNCHANGED <<pointer, recorded, holder, live, bounds>>

Verify(j) ==
  /\ join[j].pc = "verify"
  /\ IF Copied THEN Goto(j, "delete") /\ UNCHANGED locks ELSE Ends(j, "failed")
  /\ UNCHANGED <<tree, pointer, recorded, holder, live, bounds>>

\* RemoveAll of the frozen tree, with a kill in the middle of it.
Delete(j) ==
  /\ join[j].pc \in {"delete", "sweep-delete"}
  /\ \/ /\ tree' = [tree EXCEPT !["frozen"] = None] /\ UNCHANGED <<locks, faults>>
        /\ Goto(j, IF join[j].pc = "delete" THEN "unmark" ELSE "sweep-unmark")
     \/ /\ Fault /\ Ends(j, "failed")
        /\ \E left \in SUBSET Files("frozen") :
             tree' = [tree EXCEPT !["frozen"] = [Empty EXCEPT !.files = left]]
  /\ UNCHANGED <<pointer, recorded, holder, live, used, joins>>

Unmark(j) ==
  /\ join[j].pc \in {"unmark", "sweep-unmark"} /\ tree' = [tree EXCEPT !["new"] = Unmarked]
  /\ Goto(j, IF join[j].pc = "unmark" THEN "join" ELSE "find")
  /\ UNCHANGED <<pointer, recorded, locks, holder, live, bounds>>

-----------------------------------------------------------------------------
(* runHubJoin, whose keys are module HubJoin's *)

\* A checkout that points at another hub is not repointed without --replace.
Keys(j) ==
  /\ join[j].pc = "join"
  /\ IF pointer = "old" /\ ~join[j].replace
       THEN Ends(j, "failed") /\ UNCHANGED tree
       ELSE /\ tree' = [tree EXCEPT !["new"] =
                          LET t == IF There("new") THEN tree["new"] ELSE Empty
                          IN  IF t.files \cap Key = {} THEN [t EXCEPT !.files = @ \cup {NewKey}] ELSE t]
            /\ Goto(j, "probe") /\ UNCHANGED locks
  /\ UNCHANGED <<pointer, recorded, holder, live, bounds>>

Probe(j) ==
  /\ join[j].pc = "probe"
  /\ \/ Goto(j, "config") /\ UNCHANGED <<locks, faults>>
     \/ Fault /\ Ends(j, "failed")
  /\ UNCHANGED <<tree, pointer, recorded, holder, live, used, joins>>

WriteConfig(j) ==
  /\ join[j].pc = "config" /\ tree' = [tree EXCEPT !["new"].conf = "new"] /\ Goto(j, "pointer")
  /\ UNCHANGED <<pointer, recorded, locks, holder, live, bounds>>

WritePointer(j) ==
  /\ join[j].pc = "pointer" /\ pointer' = "new" /\ Ends(j, "joined")
  /\ UNCHANGED <<tree, recorded, holder, live, bounds>>

Killed(j) ==
  /\ join[j].pc # "off" /\ Fault /\ Ends(j, "failed")
  /\ UNCHANGED <<tree, pointer, recorded, holder, live, used, joins>>

-----------------------------------------------------------------------------
(* Lanes and one-shot commands: discoverConfig, then the command *)

\* The pointer is resolved, and the hub's config.json is there, before the lock.
Resolve(p) ==
  /\ holder[p].pc = "off" /\ used < MaxUse /\ Conf(pointer) # "none"
  /\ used' = used + 1 /\ holder' = [holder EXCEPT ![p] = [pc |-> "lock", hub |-> pointer]]
  /\ UNCHANGED <<tree, pointer, recorded, locks, join, live, joins, faults>>

Leave(p) == holder' = [holder EXCEPT ![p] = [pc |-> "off", hub |-> "old"]]

\* Mutant of Share: a join that holds the hub is not waited for.
ShareAnyway(p) ==
  /\ holder[p].pc = "lock"
  /\ sh' = [sh EXCEPT ![holder[p].hub] = @ \cup {p}] /\ holder' = [holder EXCEPT ![p].pc = "identify"]
  /\ UNCHANGED <<tree, pointer, recorded, ex, join, live, bounds>>

Share(p) ==
  LET h == holder[p].hub IN
  /\ holder[p].pc = "lock"
  /\ \/ ex[h] = None /\ sh' = [sh EXCEPT ![h] = @ \cup {p}] /\ holder' = [holder EXCEPT ![p].pc = "identify"]
     \/ ex[h] # None /\ Leave(p) /\ UNCHANGED sh
  /\ UNCHANGED <<tree, pointer, recorded, ex, join, live, bounds>>

Unshared(p) == [h \in Hub |-> sh[h] \ {p}]

\* The agent id is resolved under the lock, from the hub's config.json.
Identify(p) ==
  /\ holder[p].pc = "identify"
  /\ IF Conf(holder[p].hub) # "none"
       THEN holder' = [holder EXCEPT ![p].pc = "held"] /\ UNCHANGED sh
       ELSE Leave(p) /\ sh' = Unshared(p)
  /\ UNCHANGED <<tree, pointer, recorded, ex, join, live, bounds>>

\* It leaves a file (a body that could not be sent), or replaces one.
Write(p) ==
  LET h == holder[p].hub
      file == used
      t == IF There(h) THEN tree[h] ELSE Empty
  IN
  /\ holder[p].pc = "held" /\ file \notin live
  /\ \E old \in SUBSET (t.files \ Key) :
       /\ Cardinality(old) < 2
       /\ tree' = [tree EXCEPT ![h] = [t EXCEPT !.files = (@ \ old) \cup {file}]]
       /\ live' = (live \ old) \cup {file}
  /\ UNCHANGED <<pointer, recorded, locks, join, holder, bounds>>

Release(p) ==
  /\ holder[p].pc = "held" /\ Leave(p) /\ sh' = Unshared(p)
  /\ UNCHANGED <<tree, pointer, recorded, ex, join, live, bounds>>

-----------------------------------------------------------------------------
Init ==
  /\ tree = [d \in Dir |-> IF d = "old" THEN [conf |-> "old", files |-> {OldKey}, mark |-> FALSE] ELSE None]
  /\ pointer = "old" /\ recorded \in BOOLEAN
  /\ ex = [h \in Hub |-> None] /\ sh = [h \in Hub |-> {}]
  /\ join = [j \in Join |-> Off] /\ holder = [p \in Holder |-> [pc |-> "off", hub |-> "old"]]
  /\ live = {OldKey} /\ used = 0 /\ joins = 0 /\ faults = 0

JoinStep(j) ==
  \/ ReadOrigin(j) \/ Confirm(j) \/ Sweep(j) \/ Find(j) \/ Recheck(j) \/ Move(j) \/ Copy(j)
  \/ Mark(j) \/ Rename(j) \/ Point(j) \/ Freeze(j) \/ Verify(j) \/ Delete(j) \/ Unmark(j)
  \/ Keys(j) \/ Probe(j) \/ WriteConfig(j) \/ WritePointer(j)

HolderStep(p) == Share(p) \/ Identify(p) \/ Release(p)

Next ==
  \/ \E j \in Join : Acquire(j) \/ Busy(j) \/ JoinStep(j) \/ Killed(j)
  \/ \E j \in Join, replace \in BOOLEAN : Start(j, replace)
  \/ \E p \in Holder : Resolve(p) \/ HolderStep(p) \/ Write(p)

Spec == Init /\ [][Next]_vars

\* Commands end, and whoever moves the hub runs the join again, in the end with
\* the --replace that a refused join asks for.
Fairness ==
  /\ WF_vars(Start(Last, TRUE))
  /\ \A j \in Join : WF_vars(JoinStep(j)) /\ WF_vars(Acquire(j) \/ Busy(j))
  /\ \A p \in Holder : WF_vars(HolderStep(p))

FairSpec == Spec /\ Fairness

-----------------------------------------------------------------------------
(* Properties *)

TypeOK ==
  /\ \A d \in Dir : tree[d] = None \/ tree[d] \in Tree
  /\ pointer \in Hub /\ recorded \in BOOLEAN
  /\ ex \in [Hub -> Join \cup {None}] /\ sh \in [Hub -> SUBSET Holder]
  /\ \A h \in Hub : ex[h] # None => sh[h] = {}
  /\ live \subseteq 0..MaxUse /\ There("frozen") => There("new")

\* What a lane or a one-shot command left in the hub's directory, and the key
\* the hub authorized, are on the disk whatever a move does and wherever it is
\* killed: nothing is deleted that was not copied.
NothingLost == live \subseteq UNION {Files(d) : d \in {"old", "new", "frozen"}}

\* A process that holds the hub and has read its config never has the
\* directory moved or deleted under it.
HolderUndisturbed == \A p \in Holder : holder[p].pc = "held" => Conf(holder[p].hub) # "none"

\* The checkout points at a hub that is joined, in the middle of a move too.
PointerJoined == Conf(pointer) # "none"

\* The two trees differ: a fresh join made the new one, or a lane has used it
\* since it was copied.
Diverged == There("new") /\ ~(Files("old") \cup Files("frozen") \subseteq Files("new"))
=============================================================================
