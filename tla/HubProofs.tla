-------------------------------- MODULE HubProofs --------------------------------
(***************************************************************************)
(* Theorems about a hub for every set of processes: a move loses no file,  *)
(* disturbs no process that uses the hub and leaves the checkout joined.   *)
(* A join that moves a hub changes directories only under its locks, so    *)
(* what it has read about them is still so when it acts on it. Of the keys *)
(* it is followed what a join has proven and what is on its way to the hub, *)
(* and of the sessions how far a client, the frames in flight and the hub's *)
(* end of the connection can be from each other.                           *)
(***************************************************************************)
EXTENDS MCHub, SequenceTheorems, WellFoundedInduction, TLAPS

-----------------------------------------------------------------------------
(* The move: the invariant *)

\* Where a join holds the lock of the new hub, and of the old one too.
Scope1 == {"confirm", "sweep", "find", "sweep-delete", "sweep-unmark"}
Scope2 == {"recheck", "move", "copy", "mark", "rename", "point", "freeze", "verify",
           "delete", "unmark"}
HoldsNew == Scope1 \cup Scope2 \cup {"join", "probe", "config", "pointer"}
HoldsOld == Scope2 \cup {"sweep-delete", "sweep-unmark"}

JoinRec == [pc : {"off", "origin", "lock1", "lock2"} \cup HoldsNew, frozen : BOOLEAN,
            want : SUBSET Hub, replace : BOOLEAN, out : {"none", "failed", "joined"}]
HolderRec == [pc : {"off", "lock", "identify", "held"}, hub : Hub]

MoveTypes == /\ tree \in [Dir -> Tree \cup {None}] /\ pointer \in Hub /\ recorded \in BOOLEAN
             /\ ex \in [Hub -> Join \cup {None}] /\ sh \in [Hub -> SUBSET Holder]
             /\ join \in [Join -> JoinRec] /\ holder \in [Holder -> HolderRec]
             /\ used \in 0..MaxUse /\ live \subseteq 0..MaxUse

\* The lock of a hub is held by one join or shared by holders.
Exclusive == \A h \in Hub : ex[h] # None => sh[h] = {}

Locked(j) ==
  /\ join[j].pc \in HoldsNew => ex["new"] = j
  /\ join[j].pc \in HoldsOld => ex["old"] = j
  /\ join[j].pc \in {"confirm", "sweep"} /\ join[j].frozen => ex["old"] = j
  /\ join[j].pc \in {"lock1", "lock2"} =>
       /\ join[j].want \in {Hub, {"new"}, {"old"}}
       /\ "new" \notin join[j].want => ex["new"] = j
       /\ "old" \in join[j].want <=> join[j].pc = "lock2" \/ join[j].frozen

\* What a join has seen or made of the directories, under its locks.
Knows(j) ==
  /\ join[j].pc = "sweep" => (There("frozen") <=> join[j].frozen)
  /\ join[j].pc \in {"sweep-delete", "delete"} => Files("frozen") \subseteq Files("new")
  /\ join[j].pc \in {"move", "copy"} => There("old")
  /\ join[j].pc \in {"copy", "mark", "rename"} => ~There("new")
  /\ join[j].pc \in {"mark", "rename"} => There("partial")
  /\ join[j].pc = "rename" => Conf("partial") = "new"
  /\ join[j].pc \in {"point", "freeze", "pointer"} => Conf("new") # "none"
  /\ join[j].pc = "freeze" => pointer = "new"
  /\ join[j].pc \in {"sweep-delete", "verify", "delete", "probe", "config"} => There("new")

Holds(p) == /\ holder[p].pc \in {"identify", "held"} => p \in sh[holder[p].hub]
            /\ holder[p].pc = "held" => Conf(holder[p].hub) # "none"

\* A frozen tree was moved away from a new one, and only a joined one is marked.
Trees == /\ There("frozen") => There("new")
         /\ Marked => Conf("new") # "none"

MoveInv == /\ MoveTypes /\ Exclusive /\ Trees /\ NothingLost /\ PointerJoined
           /\ \A j \in Join : Locked(j) /\ Knows(j)
           /\ \A p \in Holder : Holds(p)

-----------------------------------------------------------------------------
(* The move: what a step of a join changes *)

Others(j) == join' \in [Join -> JoinRec] /\ \A i \in Join \ {j} : join'[i] = join[i]

\* A join takes a free lock, and lets go of its own.
LocksOf(j) ==
  /\ sh' = sh /\ ex' \in [Hub -> Join \cup {None}]
  /\ \A h \in Hub : \/ ex'[h] = ex[h]
                    \/ ex[h] = j /\ ex'[h] = None
                    \/ ex[h] = None /\ sh[h] = {} /\ ex'[h] = j

\* The new tree only grows; the old one becomes the frozen one once the checkout
\* points away from it; the frozen one shrinks once it was copied.
Freezes(j) == /\ ex["old"] = j /\ pointer = "new" /\ ~There("frozen")
              /\ tree'["frozen"] = tree["old"] /\ tree'["new"] = tree["new"]
Shrinks == Files("frozen") \subseteq Files("new") /\ Files("frozen")' \subseteq Files("frozen")
Trees1(j) ==
  /\ There("new") => There("new")'
  /\ Conf("new") # "none" => Conf("new")' # "none"
  /\ Files("new") \subseteq Files("new")'
  /\ tree'["old"] = tree["old"] \/ Freezes(j)
  /\ tree'["frozen"] = tree["frozen"] \/ Freezes(j) \/ Shrinks
  /\ There("frozen")' => There("new")'
  /\ Marked' => Conf("new")' # "none"
TreesOf(j) == /\ tree' \in [Dir -> Tree \cup {None}]
              /\ tree' = tree \/ (ex["new"] = j /\ Trees1(j))

PointerOf == pointer' = pointer \/ (pointer' = "new" /\ Conf("new") # "none")

JStep(j) == /\ Others(j) /\ LocksOf(j) /\ TreesOf(j) /\ PointerOf
            /\ UNCHANGED <<recorded, holder, live, used>>

LEMMA Dirs ==
  /\ {"new", "old", "partial", "frozen"} \subseteq Dir /\ {"new", "old"} \subseteq Hub
  /\ \A h \in Hub : h \in Dir /\ (h = "new" \/ h = "old")
  /\ \A d \in Dir : d \in Hub \/ d = "partial" \/ d = "frozen"
BY DEF Dir, Hub

LEMMA TreeOf ==
  ASSUME MoveTypes, NEW d \in Dir
  PROVE  /\ tree[d] \in Tree \cup {None}
         /\ tree[d] # None => tree[d] \in Tree
         /\ tree[d] # None => /\ tree[d].conf \in {"none", "old", "new"}
                              /\ tree[d].files \subseteq 0..NewKey /\ tree[d].mark \in BOOLEAN
<1>1. tree[d] \in Tree \cup {None}
  BY DEF MoveTypes
<1>2. QED
  BY <1>1 DEF Tree

\* The other joins know of the directories only under a lock that they hold.
LEMMA OthersKeep ==
  ASSUME MoveInv, NEW j \in Join, JStep(j), NEW i \in Join, i # j
  PROVE  Locked(i)' /\ Knows(i)'
<1>1. join'[i] = join[i] /\ Locked(i) /\ Knows(i)
  BY DEF JStep, Others, MoveInv
<1>2. \A h \in Hub : ex[h] = i => ex'[h] = i
  BY NoneAssumption DEF JStep, LocksOf
<1>3. Locked(i)'
  BY <1>1, <1>2 DEF Locked, Hub
<1> SUFFICES Knows(i)'
  BY <1>3
<1>4. join[i].pc \in HoldsNew => tree' = tree
  BY <1>1 DEF JStep, TreesOf, Locked
<1>5. pointer' = pointer \/ pointer' = "new"
  BY DEF JStep, PointerOf
<1>6. CASE join[i].pc \in HoldsNew
  <2>1. \A d : (There(d)' <=> There(d)) /\ Conf(d)' = Conf(d) /\ Files(d)' = Files(d)
    BY <1>4, <1>6 DEF There, Conf, Files
  <2>2. QED
    BY <1>1, <1>5, <2>1 DEF Knows
<1>7. CASE join[i].pc \notin HoldsNew
  <2>1. join'[i].pc \notin {"sweep", "sweep-delete", "verify", "delete", "move", "copy", "mark", "rename",
                           "point", "freeze", "pointer", "probe", "config"}
    BY <1>1, <1>7 DEF HoldsNew, Scope1, Scope2
  <2>2. QED
    BY <2>1 DEF Knows
<1>8. QED
  BY <1>6, <1>7

\* What a step of a join leaves of the invariant besides its own part of it.
LEMMA StepKeeps ==
  ASSUME MoveInv, NEW j \in Join, JStep(j), Locked(j)', Knows(j)'
  PROVE  MoveInv'
<1>1. MoveTypes /\ Exclusive /\ Trees /\ NothingLost /\ PointerJoined
  BY DEF MoveInv
<1>2. pointer' \in Hub
  BY <1>1 DEF JStep, PointerOf, MoveTypes, Hub
<1>3. MoveTypes'
  BY <1>1, <1>2 DEF JStep, LocksOf, TreesOf, Others, MoveTypes
<1>4. Exclusive'
  BY <1>1 DEF JStep, LocksOf, Exclusive
<1>5. Trees'
  <2>1. CASE tree' = tree
    BY <1>1, <2>1 DEF Trees, Marked, There, Conf
  <2>2. CASE Trees1(j)
    BY <2>2 DEF Trees, Trees1
  <2>3. QED
    BY <2>1, <2>2 DEF JStep, TreesOf
<1>6. NothingLost'
  <2>1. live' = live /\ live \subseteq Files("old") \cup Files("new") \cup Files("frozen")
    BY <1>1 DEF JStep, NothingLost
  <2>2. SUFFICES Files("old") \cup Files("new") \cup Files("frozen")
                   \subseteq (Files("old") \cup Files("new") \cup Files("frozen"))'
    BY <2>1 DEF NothingLost
  <2>3. CASE tree' = tree
    BY <2>3 DEF Files, There
  <2>4. CASE Trees1(j)
    <3>1. CASE Freezes(j)
      <4>1. Files("frozen") = {} /\ Files("frozen")' = Files("old") /\ Files("new")' = Files("new")
        BY <3>1 DEF Freezes, Files, There
      <4>2. QED
        BY <4>1
    <3>2. CASE ~Freezes(j)
      <4>1. tree'["old"] = tree["old"] /\ (tree'["frozen"] = tree["frozen"] \/ Shrinks)
        BY <2>4, <3>2 DEF Trees1
      <4>2. Files("old")' = Files("old") /\ Files("new") \subseteq Files("new")'
        BY <2>4, <4>1 DEF Trees1, Files, There
      <4>3. Files("frozen") \subseteq Files("frozen")' \/ Files("frozen") \subseteq Files("new")
        BY <4>1 DEF Shrinks, Files, There
      <4>4. QED
        BY <4>2, <4>3
    <3>3. QED
      BY <3>1, <3>2
  <2>5. QED
    BY <2>3, <2>4 DEF JStep, TreesOf
<1>7. ASSUME NEW h \in Hub, Conf(h) # "none"
      PROVE  Conf(h)' # "none" \/ (h = "old" /\ ex["old"] = j /\ pointer = "new")
  <2>1. CASE tree' = tree
    BY <1>7, <2>1 DEF Conf, There
  <2>2. CASE Trees1(j)
    <3>1. Conf("new") # "none" => Conf("new")' # "none"
      BY <2>2 DEF Trees1
    <3>2. tree'["old"] = tree["old"] \/ (ex["old"] = j /\ pointer = "new")
      BY <2>2 DEF Trees1, Freezes
    <3>3. Conf("old")' = Conf("old") \/ (ex["old"] = j /\ pointer = "new")
      BY <3>2 DEF Conf, There
    <3>4. QED
      BY <1>7, <3>1, <3>3 DEF Hub
  <2>3. QED
    BY <2>1, <2>2 DEF JStep, TreesOf
<1>8. PointerJoined'
  <2>1. Conf(pointer) # "none" /\ pointer \in Hub
    BY <1>1 DEF PointerJoined, MoveTypes
  <2>2. CASE pointer' = pointer
    <3>1. Conf(pointer)' # "none" \/ (pointer = "old" /\ pointer = "new")
      BY <1>7, <2>1, <2>2 DEF Conf, There
    <3>2. QED
      BY <2>2, <3>1 DEF PointerJoined
  <2>3. CASE pointer' = "new" /\ Conf("new") # "none"
    <3>1. Conf("new")' # "none"
      BY <1>7, <2>3 DEF Hub
    <3>2. QED
      BY <2>3, <3>1 DEF PointerJoined, Conf, There
  <2>4. QED
    BY <2>2, <2>3 DEF JStep, PointerOf
<1>9. ASSUME NEW p \in Holder PROVE Holds(p)'
  <2>1. /\ holder' = holder /\ sh' = sh /\ Holds(p) /\ holder[p].hub \in Hub
        /\ sh[holder[p].hub] # {} => ex[holder[p].hub] = None
    BY <1>1 DEF JStep, LocksOf, MoveInv, MoveTypes, HolderRec, Exclusive
  <2>2. holder[p].pc = "held" => Conf(holder[p].hub)' # "none"
    <3>1. SUFFICES ASSUME holder[p].pc = "held" PROVE Conf(holder[p].hub)' # "none"
      OBVIOUS
    <3>2. Conf(holder[p].hub) # "none" /\ ex[holder[p].hub] = None
      BY <2>1, <3>1 DEF Holds
    <3>3. ex[holder[p].hub] # j
      BY <3>2, NoneAssumption
    <3>4. QED
      BY <1>7, <2>1, <3>2, <3>3
  <2>3. QED
    BY <2>1, <2>2 DEF Holds, Conf, There
<1>10. \A i \in Join : Locked(i)' /\ Knows(i)'
  BY OthersKeep
<1>11. QED
  BY <1>3, <1>4, <1>5, <1>6, <1>8, <1>9, <1>10 DEF MoveInv

-----------------------------------------------------------------------------
(* The move: the steps of a join *)

LEMMA Going ==
  ASSUME MoveTypes, NEW j \in Join, NEW pc \in HoldsNew \cup {"off", "origin", "lock1", "lock2"},
         Goto(j, pc)
  PROVE  Others(j) /\ join'[j].pc = pc /\ join'[j].frozen = join[j].frozen
<1>1. join \in [Join -> JoinRec] /\ join[j] \in JoinRec
  BY DEF MoveTypes
<1>2. [join[j] EXCEPT !.pc = pc] \in JoinRec
  BY <1>1 DEF JoinRec
<1>3. join' = [join EXCEPT ![j] = [join[j] EXCEPT !.pc = pc]]
  BY <1>1 DEF Goto
<1>4. [join[j] EXCEPT !.pc = pc].pc = pc /\ [join[j] EXCEPT !.pc = pc].frozen = join[j].frozen
  BY <1>1 DEF JoinRec
<1>5. QED
  BY <1>1, <1>2, <1>3, <1>4 DEF Others

LEMMA Free ==
  ASSUME MoveTypes, NEW j \in Join, ex' = Without(j)
  PROVE  /\ ex' \in [Hub -> Join \cup {None}]
         /\ \A h \in Hub : ex'[h] = ex[h] \/ (ex[h] = j /\ ex'[h] = None)
BY DEF MoveTypes, Without

\* A join that ends lets go of its locks, whatever it held.
LEMMA Leaves ==
  ASSUME MoveInv, NEW j \in Join, NEW out \in {"failed", "joined"}, Ends(j, out),
         TreesOf(j), PointerOf, UNCHANGED <<recorded, holder, live, used>>
  PROVE  JStep(j) /\ Locked(j)' /\ Knows(j)'
<1>1. join \in [Join -> JoinRec] /\ MoveTypes
  BY DEF MoveInv, MoveTypes
<1> DEFINE r == [Off EXCEPT !.out = out]
<1>2. r \in JoinRec /\ r.pc = "off"
  BY DEF Off, JoinRec, Hub
<1>3. join' = [join EXCEPT ![j] = r]
  BY DEF Ends, End
<1> HIDE DEF r
<1>4. Others(j) /\ join'[j].pc = "off"
  BY <1>1, <1>2, <1>3 DEF Others
<1>5. LocksOf(j)
  BY <1>1, Free DEF Ends, End, LocksOf
<1>6. Locked(j)' /\ Knows(j)'
  BY <1>4 DEF Locked, Knows, HoldsNew, HoldsOld, Scope1, Scope2
<1>7. QED
  BY <1>4, <1>5, <1>6 DEF JStep

\* One that goes on keeps them.
LEMMA Goes ==
  ASSUME MoveInv, NEW j \in Join, NEW pc \in HoldsNew, Goto(j, pc), UNCHANGED locks,
         TreesOf(j), PointerOf, UNCHANGED <<recorded, holder, live, used>>, ex["new"] = j,
         pc \in HoldsOld \/ (pc \in {"confirm", "sweep"} /\ join[j].frozen) => ex["old"] = j
  PROVE  /\ JStep(j) /\ Locked(j)'
         /\ join'[j].pc = pc /\ join'[j].frozen = join[j].frozen
<1>1. MoveTypes
  BY DEF MoveInv
<1>2. Others(j) /\ join'[j].pc = pc /\ join'[j].frozen = join[j].frozen
  BY <1>1, Going
<1>3. LocksOf(j)
  BY <1>1 DEF LocksOf, locks, MoveTypes
<1>4. pc \notin {"lock1", "lock2"}
  BY DEF HoldsNew, Scope1, Scope2
<1>5. Locked(j)'
  BY <1>2, <1>4 DEF Locked, locks
<1>6. QED
  BY <1>2, <1>3, <1>5 DEF JStep

LEMMA Same == ASSUME MoveInv, tree' = tree PROVE \A j : TreesOf(j)
BY DEF MoveInv, MoveTypes, TreesOf

LEMMA Written ==
  ASSUME MoveTypes, NEW d \in Dir, NEW t \in Tree \cup {None}, tree' = [tree EXCEPT ![d] = t]
  PROVE  /\ tree' \in [Dir -> Tree \cup {None}] /\ tree'[d] = t
         /\ \A e \in Dir \ {d} : tree'[e] = tree[e]
BY DEF MoveTypes

\* A change of the partial tree is nobody's business.
LEMMA Aside ==
  ASSUME MoveInv, NEW j \in Join, ex["new"] = j, NEW t \in Tree \cup {None},
         tree' = [tree EXCEPT !["partial"] = t]
  PROVE  /\ TreesOf(j) /\ tree'["partial"] = t
         /\ tree'["new"] = tree["new"] /\ tree'["old"] = tree["old"]
<1>1. /\ tree' \in [Dir -> Tree \cup {None}] /\ tree'["partial"] = t
      /\ tree'["new"] = tree["new"] /\ tree'["old"] = tree["old"] /\ tree'["frozen"] = tree["frozen"]
  BY Written, Dirs DEF MoveInv
<1>2. Trees
  BY DEF MoveInv
<1>3. Trees1(j)
  BY <1>1, <1>2 DEF Trees1, Trees, Marked, There, Conf, Files
<1>4. QED
  BY <1>1, <1>3 DEF TreesOf

\* A new tree that replaces a lesser one.
LEMMA Renewed ==
  ASSUME MoveInv, NEW j \in Join, ex["new"] = j, NEW t \in Tree,
         tree' = [tree EXCEPT !["new"] = t],
         There("new") => Files("new") \subseteq t.files,
         Conf("new") # "none" \/ t.mark => t.conf # "none"
  PROVE  TreesOf(j) /\ There("new")' /\ Conf("new")' = t.conf
<1>1. /\ tree' \in [Dir -> Tree \cup {None}] /\ tree'["new"] = t
      /\ tree'["old"] = tree["old"] /\ tree'["frozen"] = tree["frozen"]
  BY Written, Dirs DEF MoveInv
<1>2. t # None
  BY NoneAssumption
<1>3. There("new")' /\ Conf("new")' = t.conf /\ Files("new")' = t.files
  BY <1>1, <1>2 DEF There, Conf, Files
<1>4. ~There("new") => Files("new") = {}
  BY DEF Files
<1>5. Trees1(j)
  BY <1>1, <1>3, <1>4 DEF Trees1, Marked
<1>6. QED
  BY <1>1, <1>3, <1>5 DEF TreesOf

LEMMA StartSteps ==
  ASSUME MoveInv, NEW j \in Join, NEW replace \in BOOLEAN, Start(j, replace)
  PROVE  JStep(j) /\ Locked(j)' /\ Knows(j)'
<1>1. join \in [Join -> JoinRec] /\ MoveTypes
  BY DEF MoveInv, MoveTypes
<1> DEFINE r == [Off EXCEPT !.pc = "origin", !.replace = replace]
<1>2. r \in JoinRec /\ r.pc = "origin"
  BY DEF Off, JoinRec, Hub
<1>3. join' = [join EXCEPT ![j] = r]
  BY DEF Start
<1> HIDE DEF r
<1>4. Others(j) /\ join'[j].pc = "origin"
  BY <1>1, <1>2, <1>3 DEF Others
<1>5. LocksOf(j) /\ TreesOf(j) /\ PointerOf
  BY <1>1, Same DEF Start, locks, LocksOf, MoveTypes, PointerOf
<1>6. Locked(j)' /\ Knows(j)'
  BY <1>4 DEF Locked, Knows, HoldsNew, HoldsOld, Scope1, Scope2
<1>7. QED
  BY <1>4, <1>5, <1>6 DEF JStep, Start

LEMMA ReadOriginSteps ==
  ASSUME MoveInv, NEW j \in Join, ReadOrigin(j)
  PROVE  JStep(j) /\ Locked(j)' /\ Knows(j)'
<1>1. join \in [Join -> JoinRec] /\ join[j] \in JoinRec /\ MoveTypes
  BY DEF MoveInv, MoveTypes
<1>2. TreesOf(j) /\ PointerOf /\ UNCHANGED <<recorded, holder, live, used>>
  BY Same DEF ReadOrigin, PointerOf, bounds
<1>3. CASE Ends(j, "failed")
  BY <1>2, <1>3, Leaves
<1>4. CASE ~Ends(j, "failed")
  <2> DEFINE r == [join[j] EXCEPT !.frozen = There("frozen"), !.pc = "lock1",
                                  !.want = IF There("frozen") THEN Hub ELSE {"new"}]
  <2>1. join' = [join EXCEPT ![j] = r] /\ UNCHANGED locks
    BY <1>1, <1>4 DEF ReadOrigin
  <2>2. There("frozen") \in BOOLEAN
    BY DEF There
  <2>3. r \in JoinRec
    BY <1>1, <2>2 DEF JoinRec, Hub
  <2>4. /\ r.pc = "lock1" /\ r.frozen = There("frozen")
        /\ r.want = IF There("frozen") THEN Hub ELSE {"new"}
    BY <1>1 DEF JoinRec
  <2> HIDE DEF r
  <2>5. Others(j) /\ join'[j] = r
    BY <1>1, <2>1, <2>3 DEF Others
  <2>6. LocksOf(j)
    BY <1>1, <2>1 DEF locks, LocksOf, MoveTypes
  <2>7. Locked(j)'
    <3>1. r.want \in {Hub, {"new"}} /\ "new" \in r.want /\ ("old" \in r.want <=> r.frozen)
      BY <2>2, <2>4 DEF Hub
    <3>2. QED
      BY <2>4, <2>5, <3>1 DEF Locked, HoldsNew, HoldsOld, Scope1, Scope2
  <2>8. Knows(j)'
    BY <2>4, <2>5 DEF Knows
  <2>9. QED
    BY <1>2, <2>5, <2>6, <2>7, <2>8 DEF JStep
<1>5. QED
  BY <1>3, <1>4

LEMMA AcquireSteps ==
  ASSUME MoveInv, NEW j \in Join, Acquire(j)
  PROVE  JStep(j) /\ Locked(j)' /\ Knows(j)'
<1> DEFINE h == Sorted(join[j].want)
           r == [join[j] EXCEPT !.want = join[j].want \ {h},
                                !.pc = IF join[j].want = {h} THEN NextScope(j) ELSE join[j].pc]
<1>1. /\ join \in [Join -> JoinRec] /\ join[j] \in JoinRec /\ MoveTypes /\ Locked(j)
      /\ join[j].want \subseteq Hub
  BY DEF MoveInv, MoveTypes, JoinRec
<1>2. TreesOf(j) /\ PointerOf /\ UNCHANGED <<recorded, holder, live, used>>
  BY Same DEF Acquire, PointerOf, bounds
<1>3. /\ join[j].pc \in {"lock1", "lock2"} /\ ex[h] = None /\ sh[h] = {}
      /\ ex' = [ex EXCEPT ![h] = j] /\ sh' = sh
      /\ join' = [join EXCEPT ![j] = r]
  BY <1>1 DEF Acquire
<1>4. /\ h \in Hub /\ (h = "new" <=> "new" \in join[j].want)
      /\ NextScope(j) = IF join[j].pc = "lock1" THEN "confirm" ELSE "recheck"
  BY DEF Sorted, Hub, NextScope
<1>5. /\ r \in JoinRec /\ r.want = join[j].want \ {h} /\ r.frozen = join[j].frozen
      /\ r.pc = IF join[j].want = {h} THEN NextScope(j) ELSE join[j].pc
  BY <1>1, <1>3, <1>4 DEF JoinRec, HoldsNew, Scope1, Scope2
<1> HIDE DEF r
<1>6. Others(j) /\ join'[j] = r
  BY <1>1, <1>3, <1>5 DEF Others
<1>7. /\ ex' \in [Hub -> Join \cup {None}] /\ ex'[h] = j
      /\ \A g \in Hub \ {h} : ex'[g] = ex[g]
  BY <1>1, <1>3, <1>4 DEF MoveTypes
<1>8. LocksOf(j)
  BY <1>3, <1>4, <1>7 DEF LocksOf
<1>9. /\ join[j].want \in {Hub, {"new"}, {"old"}}
      /\ "new" \notin join[j].want => ex["new"] = j
      /\ "old" \in join[j].want <=> join[j].pc = "lock2" \/ join[j].frozen
  BY <1>1, <1>3 DEF Locked
<1>10. ex'["new"] = j
  BY <1>4, <1>7, <1>9 DEF Hub
<1>11. CASE join[j].want = {h}
  <2>1. r.pc = IF join[j].pc = "lock1" THEN "confirm" ELSE "recheck"
    BY <1>4, <1>5, <1>11
  <2>2. "old" \in join[j].want => ex'["old"] = j
    BY <1>7, <1>11
  <2>3. r.pc = "recheck" \/ r.frozen => "old" \in join[j].want
    BY <1>3, <1>5, <1>9, <2>1
  <2>4. Locked(j)'
    BY <1>6, <1>10, <2>1, <2>2, <2>3 DEF Locked, HoldsNew, HoldsOld, Scope1, Scope2
  <2>5. Knows(j)'
    BY <1>6, <2>1, <1>5, <1>3 DEF Knows
  <2>6. QED
    BY <1>2, <1>6, <1>8, <2>4, <2>5 DEF JStep
<1>12. CASE join[j].want # {h}
  <2>1. h = "new" /\ join[j].want = Hub /\ r.want = {"old"} /\ r.pc = join[j].pc
    BY <1>4, <1>5, <1>9, <1>12 DEF Hub
  <2>2. Locked(j)'
    BY <1>3, <1>5, <1>6, <1>9, <1>10, <2>1 DEF Locked, HoldsNew, HoldsOld, Scope1, Scope2, Hub
  <2>3. Knows(j)'
    BY <1>3, <1>6, <2>1 DEF Knows
  <2>4. QED
    BY <1>2, <1>6, <1>8, <2>2, <2>3 DEF JStep
<1>13. QED
  BY <1>11, <1>12

\* A step that leaves the directories alone and goes on, or ends.
LEMMA Looks ==
  ASSUME MoveInv, NEW j \in Join, UNCHANGED <<tree, pointer, recorded, holder, live, used>>
  PROVE  /\ TreesOf(j) /\ PointerOf
         /\ \A d : (There(d)' <=> There(d)) /\ Conf(d)' = Conf(d) /\ Files(d)' = Files(d)
BY Same DEF PointerOf, There, Conf, Files

LEMMA ScopeOneSteps ==
  ASSUME MoveInv, NEW j \in Join, Busy(j) \/ Confirm(j) \/ Sweep(j)
  PROVE  JStep(j) /\ Locked(j)' /\ Knows(j)'
<1>1. UNCHANGED <<tree, pointer, recorded, holder, live, used>> /\ Locked(j) /\ Knows(j)
  BY DEF Busy, Confirm, Sweep, bounds, MoveInv
<1>2. /\ TreesOf(j) /\ PointerOf
      /\ \A d : (There(d)' <=> There(d)) /\ Conf(d)' = Conf(d) /\ Files(d)' = Files(d)
  BY <1>1, Looks
<1>3. CASE Ends(j, "failed")
  BY <1>1, <1>2, <1>3, Leaves
<1>4. CASE Confirm(j) /\ ~Ends(j, "failed")
  <2>1. /\ join[j].pc = "confirm" /\ Goto(j, "sweep") /\ UNCHANGED locks
        /\ There("frozen") <=> join[j].frozen
    <3>1. join[j].frozen \in BOOLEAN /\ There("frozen") \in BOOLEAN
      BY DEF MoveInv, MoveTypes, JoinRec, There
    <3>2. QED
      BY <1>4, <3>1 DEF Confirm
  <2>2. ex["new"] = j /\ (join[j].frozen => ex["old"] = j)
    BY <1>1, <2>1 DEF Locked, HoldsNew, Scope1
  <2>3. "sweep" \in HoldsNew /\ "sweep" \notin HoldsOld
    BY DEF HoldsNew, Scope1, Scope2, HoldsOld
  <2>4. /\ JStep(j) /\ Locked(j)' /\ join'[j].pc = "sweep"
        /\ join'[j].frozen = join[j].frozen
    BY <1>1, <1>2, <2>1, <2>2, <2>3, Goes
  <2>5. Knows(j)'
    BY <1>2, <2>1, <2>4 DEF Knows
  <2>6. QED
    BY <2>4, <2>5
<1>5. CASE Sweep(j) /\ ~Ends(j, "failed")
  <2>1. /\ join[j].pc = "sweep" /\ UNCHANGED locks
        /\ \/ ~There("frozen") /\ Goto(j, "find")
           \/ There("frozen") /\ Copied /\ Goto(j, "sweep-delete")
    BY <1>5 DEF Sweep
  <2>2. ex["new"] = j /\ (There("frozen") => ex["old"] = j)
    BY <1>1, <2>1 DEF Locked, Knows, HoldsNew, Scope1
  <2>3. {"find", "sweep-delete"} \subseteq HoldsNew /\ "find" \notin HoldsOld
    BY DEF HoldsNew, Scope1, Scope2, HoldsOld
  <2>4. CASE Goto(j, "find")
    <3>1. JStep(j) /\ Locked(j)' /\ join'[j].pc = "find"
      BY <1>1, <1>2, <2>1, <2>2, <2>3, <2>4, Goes
    <3>2. Knows(j)'
      BY <3>1 DEF Knows
    <3>3. QED
      BY <3>1, <3>2
  <2>5. CASE There("frozen") /\ Copied /\ Goto(j, "sweep-delete")
    <3>1. JStep(j) /\ Locked(j)' /\ join'[j].pc = "sweep-delete"
      BY <1>1, <1>2, <2>1, <2>2, <2>3, <2>5, Goes
    <3>2. Knows(j)'
      BY <1>2, <2>5, <3>1 DEF Knows, Copied, MoveInv, Trees
    <3>3. QED
      BY <3>1, <3>2
  <2>6. QED
    BY <2>1, <2>4, <2>5
<1>6. QED
  BY <1>3, <1>4, <1>5 DEF Busy

LEMMA FindSteps ==
  ASSUME MoveInv, NEW j \in Join, Find(j)
  PROVE  JStep(j) /\ Locked(j)' /\ Knows(j)'
<1>1. /\ UNCHANGED <<tree, pointer, recorded, holder, live, used>> /\ Locked(j)
      /\ join[j].pc = "find"
  BY DEF Find, MoveInv
<1>2. TreesOf(j) /\ PointerOf
  BY <1>1, Looks
<1>3. CASE Goto(j, "join") /\ UNCHANGED locks
  <2>1. ex["new"] = j /\ "join" \in HoldsNew /\ "join" \notin HoldsOld
    BY <1>1 DEF Locked, HoldsNew, HoldsOld, Scope1, Scope2
  <2>2. JStep(j) /\ Locked(j)' /\ join'[j].pc = "join"
    BY <1>1, <1>2, <1>3, <2>1, Goes
  <2>3. Knows(j)'
    BY <2>2 DEF Knows
  <2>4. QED
    BY <2>2, <2>3
<1>4. CASE ~(Goto(j, "join") /\ UNCHANGED locks)
  <2>1. join \in [Join -> JoinRec] /\ join[j] \in JoinRec /\ MoveTypes
    BY DEF MoveInv, MoveTypes
  <2> DEFINE r == [join[j] EXCEPT !.pc = "lock2", !.want = Hub]
  <2>2. join' = [join EXCEPT ![j] = r] /\ ex' = Without(j) /\ sh' = sh
    BY <1>4, <2>1 DEF Find
  <2>3. r \in JoinRec /\ r.pc = "lock2" /\ r.want = Hub
    BY <2>1 DEF JoinRec
  <2> HIDE DEF r
  <2>4. Others(j) /\ join'[j] = r
    BY <2>1, <2>2, <2>3 DEF Others
  <2>5. LocksOf(j)
    BY <2>1, <2>2, Free DEF LocksOf
  <2>6. Locked(j)'
    BY <2>3, <2>4 DEF Locked, HoldsNew, HoldsOld, Scope1, Scope2, Hub
  <2>7. Knows(j)'
    BY <2>3, <2>4 DEF Knows
  <2>8. QED
    BY <1>1, <1>2, <2>4, <2>5, <2>6, <2>7 DEF JStep
<1>5. QED
  BY <1>3, <1>4

\* The second scope, where the join holds both locks until it ends.
LEMMA BothLocked ==
  ASSUME MoveInv, NEW j \in Join, join[j].pc \in Scope2
  PROVE  ex["new"] = j /\ ex["old"] = j /\ MoveTypes /\ Trees /\ Knows(j)
BY DEF MoveInv, Locked, HoldsNew, HoldsOld

LEMMA GoesInScope ==
  ASSUME MoveInv, NEW j \in Join, join[j].pc \in Scope2, NEW pc \in Scope2, Goto(j, pc),
         UNCHANGED locks, TreesOf(j), PointerOf, UNCHANGED <<recorded, holder, live, used>>
  PROVE  JStep(j) /\ Locked(j)' /\ join'[j].pc = pc
BY BothLocked, Goes DEF HoldsNew

LEMMA RecheckSteps ==
  ASSUME MoveInv, NEW j \in Join, Recheck(j)
  PROVE  JStep(j) /\ Locked(j)' /\ Knows(j)'
<1>1. UNCHANGED <<tree, pointer, recorded, holder, live, used>> /\ join[j].pc = "recheck"
  BY DEF Recheck
<1>2. /\ TreesOf(j) /\ PointerOf
      /\ \A d : (There(d)' <=> There(d)) /\ Conf(d)' = Conf(d) /\ Files(d)' = Files(d)
  BY <1>1, Looks
<1>3. CASE Ends(j, "failed")
  BY <1>1, <1>2, <1>3, Leaves
<1>4. CASE Candidate /\ Goto(j, "move") /\ UNCHANGED locks
  <2>1. JStep(j) /\ Locked(j)' /\ join'[j].pc = "move"
    BY <1>1, <1>2, <1>4, GoesInScope DEF Scope2
  <2>2. There("old")
    BY <1>4 DEF Candidate, Conf
  <2>3. Knows(j)'
    BY <1>2, <2>1, <2>2 DEF Knows
  <2>4. QED
    BY <2>1, <2>3
<1>5. QED
  BY <1>3, <1>4 DEF Recheck

LEMMA MoveSteps ==
  ASSUME MoveInv, NEW j \in Join, Move(j)
  PROVE  JStep(j) /\ Locked(j)' /\ Knows(j)'
<1>1. UNCHANGED <<pointer, recorded, holder, live, used>> /\ join[j].pc = "move" /\ PointerOf
  BY DEF Move, bounds, PointerOf
<1>2. ex["new"] = j /\ MoveTypes /\ Trees /\ There("old")
  BY <1>1, BothLocked DEF Scope2, Knows
<1>3. CASE There("new") /\ Marked /\ Goto(j, "point") /\ UNCHANGED locks /\ UNCHANGED tree
  <2>1. TreesOf(j) /\ \A d : Conf(d)' = Conf(d)
    BY <1>1, <1>3, Looks
  <2>2. JStep(j) /\ Locked(j)' /\ join'[j].pc = "point"
    BY <1>1, <1>3, <2>1, GoesInScope DEF Scope2
  <2>3. Knows(j)'
    BY <1>2, <1>3, <2>1, <2>2 DEF Knows, Trees
  <2>4. QED
    BY <2>2, <2>3
<1>4. CASE Ends(j, "failed") /\ UNCHANGED tree
  BY <1>1, <1>4, Looks, Leaves
<1>5. CASE /\ ~There("new") /\ tree' = [tree EXCEPT !["partial"] = None]
           /\ Goto(j, "copy") /\ UNCHANGED locks
  <2>1. TreesOf(j) /\ tree'["new"] = tree["new"] /\ tree'["old"] = tree["old"]
    BY <1>2, <1>5, Aside
  <2>2. JStep(j) /\ Locked(j)' /\ join'[j].pc = "copy"
    BY <1>1, <1>5, <2>1, GoesInScope DEF Scope2
  <2>3. Knows(j)'
    BY <1>2, <1>5, <2>1, <2>2 DEF Knows, There
  <2>4. QED
    BY <2>2, <2>3
<1>6. QED
  BY <1>3, <1>4, <1>5 DEF Move

LEMMA CopySteps ==
  ASSUME MoveInv, NEW j \in Join, Copy(j)
  PROVE  JStep(j) /\ Locked(j)' /\ Knows(j)'
<1>1. UNCHANGED <<pointer, recorded, holder, live, used>> /\ join[j].pc = "copy" /\ PointerOf
  BY DEF Copy, PointerOf
<1>2. ex["new"] = j /\ MoveTypes /\ There("old") /\ ~There("new")
  BY <1>1, BothLocked DEF Scope2, Knows
<1>3. CASE tree' = [tree EXCEPT !["partial"] = tree["old"]] /\ Goto(j, "mark") /\ UNCHANGED locks
  <2>1. tree["old"] \in Tree \cup {None}
    BY <1>2, TreeOf, Dirs
  <2>2. TreesOf(j) /\ tree'["partial"] = tree["old"] /\ tree'["new"] = tree["new"]
    BY <1>2, <1>3, <2>1, Aside
  <2>3. JStep(j) /\ Locked(j)' /\ join'[j].pc = "mark"
    BY <1>1, <1>3, <2>2, GoesInScope DEF Scope2
  <2>4. Knows(j)'
    BY <1>2, <2>2, <2>3 DEF Knows, There
  <2>5. QED
    BY <2>3, <2>4
<1>4. CASE Ends(j, "failed") /\ tree' = [tree EXCEPT !["partial"] = [Empty EXCEPT !.files = {OldKey}]]
  <2>1. [Empty EXCEPT !.files = {OldKey}] \in Tree
    <3>1. OldKey \in 0..NewKey
      BY BoundAssumption DEF OldKey, NewKey
    <3>2. QED
      BY <3>1 DEF Empty, Tree
  <2> DEFINE t == [Empty EXCEPT !.files = {OldKey}]
  <2>2. t \in Tree \cup {None} /\ tree' = [tree EXCEPT !["partial"] = t]
    BY <1>4, <2>1
  <2> HIDE DEF t
  <2>3. TreesOf(j)
    BY <1>2, <2>2, Aside
  <2>4. QED
    BY <1>1, <1>4, <2>3, Leaves
<1>5. QED
  BY <1>3, <1>4 DEF Copy

LEMMA MarkSteps ==
  ASSUME MoveInv, NEW j \in Join, Mark(j)
  PROVE  JStep(j) /\ Locked(j)' /\ Knows(j)'
<1>1. /\ UNCHANGED <<pointer, recorded, holder, live, used>> /\ join[j].pc = "mark" /\ PointerOf
      /\ Goto(j, "rename") /\ UNCHANGED locks
  BY DEF Mark, bounds, PointerOf
<1>2. ex["new"] = j /\ MoveTypes /\ There("partial") /\ ~There("new")
  BY <1>1, BothLocked DEF Scope2, Knows
<1> DEFINE t == [tree["partial"] EXCEPT !.conf = "new", !.mark = TRUE]
<1>3. tree["partial"] \in Tree
  BY <1>2, TreeOf, Dirs DEF There
<1>4. t \in Tree /\ t.conf = "new" /\ t # None
  <2>1. t \in Tree /\ t.conf = "new"
    BY <1>3 DEF Tree
  <2>2. QED
    BY <2>1, NoneAssumption
<1>5. tree' = [tree EXCEPT !["partial"] = t]
  BY <1>2, Dirs DEF Mark, MoveTypes
<1> HIDE DEF t
<1>6. TreesOf(j) /\ tree'["partial"] = t /\ tree'["new"] = tree["new"]
  BY <1>2, <1>4, <1>5, Aside
<1>7. JStep(j) /\ Locked(j)' /\ join'[j].pc = "rename"
  BY <1>1, <1>6, GoesInScope DEF Scope2
<1>8. Knows(j)'
  BY <1>2, <1>4, <1>6, <1>7 DEF Knows, There, Conf
<1>9. QED
  BY <1>7, <1>8

LEMMA RenameSteps ==
  ASSUME MoveInv, NEW j \in Join, Rename(j)
  PROVE  JStep(j) /\ Locked(j)' /\ Knows(j)'
<1>1. /\ UNCHANGED <<pointer, recorded, holder, live, used>> /\ join[j].pc = "rename" /\ PointerOf
      /\ Goto(j, "point") /\ UNCHANGED locks
      /\ tree' = [tree EXCEPT !["new"] = tree["partial"], !["partial"] = None]
  BY DEF Rename, bounds, PointerOf
<1>2. /\ ex["new"] = j /\ MoveTypes /\ There("partial") /\ ~There("new") /\ Conf("partial") = "new"
      /\ Trees
  BY <1>1, BothLocked DEF Scope2, Knows
<1>3. tree["partial"] \in Tree /\ tree["partial"].conf = "new" /\ tree["partial"] # None
  BY <1>2, TreeOf, Dirs DEF There, Conf
<1>4. /\ tree' \in [Dir -> Tree \cup {None}] /\ tree'["new"] = tree["partial"]
      /\ tree'["old"] = tree["old"] /\ tree'["frozen"] = tree["frozen"]
  BY <1>1, <1>2, <1>3, Dirs DEF MoveTypes
<1>5. There("new")' /\ Conf("new")' = "new"
  BY <1>3, <1>4 DEF There, Conf
<1>6. Files("new") = {}
  BY <1>2 DEF Files
<1>7. Trees1(j)
  BY <1>4, <1>5, <1>6 DEF Trees1
<1>8. TreesOf(j)
  BY <1>2, <1>4, <1>7 DEF TreesOf
<1>9. JStep(j) /\ Locked(j)' /\ join'[j].pc = "point"
  BY <1>1, <1>8, GoesInScope DEF Scope2
<1>10. Knows(j)'
  BY <1>5, <1>9 DEF Knows
<1>11. QED
  BY <1>9, <1>10

LEMMA PointSteps ==
  ASSUME MoveInv, NEW j \in Join, Point(j)
  PROVE  JStep(j) /\ Locked(j)' /\ Knows(j)'
<1>1. /\ UNCHANGED <<tree, recorded, holder, live, used>> /\ join[j].pc = "point"
      /\ Goto(j, "freeze") /\ UNCHANGED locks /\ pointer' = "new"
  BY DEF Point, bounds
<1>2. Conf("new") # "none"
  BY <1>1, BothLocked DEF Scope2, Knows
<1>3. TreesOf(j) /\ PointerOf /\ Conf("new")' = Conf("new")
  BY <1>1, <1>2, Same DEF PointerOf, Conf, There
<1>4. JStep(j) /\ Locked(j)' /\ join'[j].pc = "freeze"
  BY <1>1, <1>3, GoesInScope DEF Scope2
<1>5. Knows(j)'
  BY <1>1, <1>2, <1>3, <1>4 DEF Knows
<1>6. QED
  BY <1>4, <1>5

LEMMA FreezeSteps ==
  ASSUME MoveInv, NEW j \in Join, Freeze(j)
  PROVE  JStep(j) /\ Locked(j)' /\ Knows(j)'
<1>1. UNCHANGED <<pointer, recorded, holder, live, used>> /\ join[j].pc = "freeze" /\ PointerOf
  BY DEF Freeze, bounds, PointerOf
<1>2. /\ ex["new"] = j /\ ex["old"] = j /\ MoveTypes /\ Conf("new") # "none" /\ pointer = "new"
      /\ Trees
  BY <1>1, BothLocked DEF Scope2, Knows
<1>3. CASE Ends(j, "failed") /\ UNCHANGED tree
  BY <1>1, <1>3, Looks, Leaves
<1>4. CASE /\ ~There("frozen") /\ Goto(j, "verify") /\ UNCHANGED locks
           /\ tree' = [tree EXCEPT !["frozen"] = tree["old"], !["old"] = None]
  <2>1. tree["old"] \in Tree \cup {None}
    BY <1>2, TreeOf, Dirs
  <2>2. /\ tree' \in [Dir -> Tree \cup {None}] /\ tree'["frozen"] = tree["old"]
        /\ tree'["new"] = tree["new"]
    BY <1>2, <1>4, <2>1, Dirs DEF MoveTypes
  <2>3. Freezes(j)
    BY <1>2, <1>4, <2>2 DEF Freezes
  <2>4. There("new") /\ There("new")' /\ Conf("new")' = Conf("new") /\ Files("new")' = Files("new")
    BY <1>2, <2>2 DEF Conf, There, Files
  <2>5. TreesOf(j)
    BY <1>2, <2>2, <2>3, <2>4 DEF TreesOf, Trees1
  <2>6. JStep(j) /\ Locked(j)' /\ join'[j].pc = "verify"
    BY <1>1, <1>4, <2>5, GoesInScope DEF Scope2
  <2>7. Knows(j)'
    BY <2>4, <2>6 DEF Knows
  <2>8. QED
    BY <2>6, <2>7
<1>5. QED
  BY <1>3, <1>4 DEF Freeze

LEMMA VerifySteps ==
  ASSUME MoveInv, NEW j \in Join, Verify(j)
  PROVE  JStep(j) /\ Locked(j)' /\ Knows(j)'
<1>1. UNCHANGED <<tree, pointer, recorded, holder, live, used>> /\ join[j].pc = "verify"
  BY DEF Verify, bounds
<1>2. TreesOf(j) /\ PointerOf /\ \A d : (There(d)' <=> There(d)) /\ Files(d)' = Files(d)
  BY <1>1, Looks
<1>3. CASE Ends(j, "failed")
  BY <1>1, <1>2, <1>3, Leaves
<1>4. CASE Copied /\ Goto(j, "delete") /\ UNCHANGED locks
  <2>1. JStep(j) /\ Locked(j)' /\ join'[j].pc = "delete"
    BY <1>1, <1>2, <1>4, GoesInScope DEF Scope2
  <2>2. There("new")
    BY <1>1, BothLocked DEF Scope2, Knows
  <2>3. Knows(j)'
    BY <1>2, <1>4, <2>1, <2>2 DEF Knows, Copied
  <2>4. QED
    BY <2>1, <2>3
<1>5. QED
  BY <1>3, <1>4 DEF Verify

\* The frozen tree, that was copied, shrinks or goes.
LEMMA Thrown ==
  ASSUME MoveInv, NEW j \in Join, ex["new"] = j, There("new"), Files("frozen") \subseteq Files("new"),
         NEW t \in Tree \cup {None}, tree' = [tree EXCEPT !["frozen"] = t],
         t # None => t.files \subseteq Files("frozen")
  PROVE  TreesOf(j)
<1>1. /\ tree' \in [Dir -> Tree \cup {None}] /\ tree'["frozen"] = t
      /\ tree'["new"] = tree["new"] /\ tree'["old"] = tree["old"]
  BY Written, Dirs DEF MoveInv
<1>2. Files("frozen")' \subseteq Files("frozen")
  BY <1>1 DEF Files, There
<1>3. Trees
  BY DEF MoveInv
<1>4. Trees1(j)
  BY <1>1, <1>2, <1>3 DEF Trees1, Shrinks, Trees, Marked, There, Conf, Files
<1>5. QED
  BY <1>1, <1>4 DEF TreesOf

LEMMA DeleteSteps ==
  ASSUME MoveInv, NEW j \in Join, Delete(j)
  PROVE  JStep(j) /\ Locked(j)' /\ Knows(j)'
<1>1. /\ UNCHANGED <<pointer, recorded, holder, live, used>> /\ PointerOf
      /\ join[j].pc \in {"delete", "sweep-delete"}
  BY DEF Delete, PointerOf
<1>2. /\ ex["new"] = j /\ ex["old"] = j /\ MoveTypes /\ There("new")
      /\ Files("frozen") \subseteq Files("new")
  BY <1>1 DEF MoveInv, Locked, Knows, HoldsNew, HoldsOld, Scope1, Scope2
<1> DEFINE pc == IF join[j].pc = "delete" THEN "unmark" ELSE "sweep-unmark"
<1>3. pc \in HoldsNew /\ pc \in {"unmark", "sweep-unmark"}
  BY DEF HoldsNew, Scope1, Scope2
<1>4. CASE tree' = [tree EXCEPT !["frozen"] = None] /\ UNCHANGED locks /\ Goto(j, pc)
  <2> HIDE DEF pc
  <2>1. TreesOf(j)
    BY <1>2, <1>4, Thrown
  <2>2. JStep(j) /\ Locked(j)' /\ join'[j].pc = pc
    BY <1>1, <1>2, <1>3, <1>4, <2>1, Goes
  <2>3. Knows(j)'
    BY <1>3, <2>2 DEF Knows
  <2>4. QED
    BY <2>2, <2>3
<1>5. ASSUME NEW left \in SUBSET Files("frozen"), Ends(j, "failed"),
             tree' = [tree EXCEPT !["frozen"] = [Empty EXCEPT !.files = left]]
      PROVE  JStep(j) /\ Locked(j)' /\ Knows(j)'
  <2> DEFINE t == [Empty EXCEPT !.files = left]
  <2>1. Files("frozen") \subseteq 0..NewKey
    BY <1>2, TreeOf, Dirs DEF Files, There
  <2>2. t \in Tree /\ t.files = left
    BY <2>1 DEF Empty, Tree
  <2>3. tree' = [tree EXCEPT !["frozen"] = t]
    BY <1>5
  <2> HIDE DEF t
  <2>4. TreesOf(j)
    BY <1>2, <2>2, <2>3, Thrown
  <2>5. QED
    BY <1>1, <1>5, <2>4, Leaves
<1>6. QED
  BY <1>4, <1>5 DEF Delete

LEMMA UnmarkSteps ==
  ASSUME MoveInv, NEW j \in Join, Unmark(j)
  PROVE  JStep(j) /\ Locked(j)' /\ Knows(j)'
<1>1. /\ UNCHANGED <<pointer, recorded, holder, live, used>> /\ PointerOf /\ UNCHANGED locks
      /\ join[j].pc \in {"unmark", "sweep-unmark"} /\ tree' = [tree EXCEPT !["new"] = Unmarked]
  BY DEF Unmark, PointerOf, bounds
<1>2. ex["new"] = j /\ MoveTypes
  BY <1>1 DEF MoveInv, Locked, HoldsNew, Scope1, Scope2
<1>3. TreesOf(j)
  <2>1. CASE There("new")
    <3> DEFINE t == [tree["new"] EXCEPT !.mark = FALSE]
    <3>1. tree["new"] \in Tree
      BY <1>2, <2>1, TreeOf, Dirs DEF There
    <3>2. t \in Tree /\ t.conf = tree["new"].conf /\ t.files = tree["new"].files /\ ~t.mark
      BY <3>1 DEF Tree
    <3>3. tree' = [tree EXCEPT !["new"] = t]
      BY <1>1, <2>1 DEF Unmarked
    <3> HIDE DEF t
    <3>4. QED
      BY <1>2, <2>1, <3>2, <3>3, Renewed DEF Files, Conf
  <2>2. CASE ~There("new")
    <3>1. tree' = tree
      BY <1>1, <1>2, <2>2 DEF Unmarked, There, MoveTypes
    <3>2. QED
      BY <3>1, Same
  <2>3. QED
    BY <2>1, <2>2
<1> DEFINE pc == IF join[j].pc = "unmark" THEN "join" ELSE "find"
<1>4. pc \in HoldsNew /\ pc \notin HoldsOld /\ pc \in {"join", "find"} /\ Goto(j, pc)
  BY DEF HoldsNew, HoldsOld, Scope1, Scope2, Unmark
<1> HIDE DEF pc
<1>5. JStep(j) /\ Locked(j)' /\ join'[j].pc = pc
  BY <1>1, <1>2, <1>3, <1>4, Goes
<1>6. Knows(j)'
  BY <1>4, <1>5 DEF Knows
<1>7. QED
  BY <1>5, <1>6

LEMMA KeysSteps ==
  ASSUME MoveInv, NEW j \in Join, Keys(j)
  PROVE  JStep(j) /\ Locked(j)' /\ Knows(j)'
<1>1. UNCHANGED <<pointer, recorded, holder, live, used>> /\ PointerOf /\ join[j].pc = "join"
  BY DEF Keys, PointerOf, bounds
<1>2. ex["new"] = j /\ MoveTypes /\ Trees
  BY <1>1 DEF MoveInv, Locked, HoldsNew
<1>3. CASE Ends(j, "failed") /\ UNCHANGED tree
  BY <1>1, <1>3, Looks, Leaves
<1> DEFINE t == IF There("new") THEN tree["new"] ELSE Empty
           u == IF t.files \cap Key = {} THEN [t EXCEPT !.files = @ \cup {NewKey}] ELSE t
<1>4. CASE tree' = [tree EXCEPT !["new"] = u] /\ Goto(j, "probe") /\ UNCHANGED locks
  <2>1. t \in Tree /\ (There("new") => t = tree["new"]) /\ (~There("new") => ~t.mark)
    BY <1>2, TreeOf, Dirs DEF There, Empty, Tree
  <2> HIDE DEF t
  <2>2. NewKey \in 0..NewKey
    BY BoundAssumption DEF NewKey
  <2>3. u \in Tree /\ u.conf = t.conf /\ u.mark = t.mark /\ t.files \subseteq u.files
    BY <2>1, <2>2 DEF Tree
  <2> HIDE DEF u
  <2>4. Conf("new") # "none" \/ u.mark => u.conf # "none"
    BY <1>2, <2>1, <2>3 DEF Trees, Marked, Conf
  <2>5. There("new") => Files("new") \subseteq u.files
    BY <2>1, <2>3 DEF Files
  <2>6. TreesOf(j) /\ There("new")'
    BY <1>2, <1>4, <2>3, <2>4, <2>5, Renewed
  <2>7. "probe" \in HoldsNew /\ "probe" \notin HoldsOld
    BY DEF HoldsNew, HoldsOld, Scope2
  <2>8. JStep(j) /\ Locked(j)' /\ join'[j].pc = "probe"
    BY <1>1, <1>2, <1>4, <2>6, <2>7, Goes
  <2>9. Knows(j)'
    BY <2>6, <2>8 DEF Knows
  <2>10. QED
    BY <2>8, <2>9
<1>5. QED
  BY <1>3, <1>4 DEF Keys

LEMMA ProbeSteps ==
  ASSUME MoveInv, NEW j \in Join, Probe(j)
  PROVE  JStep(j) /\ Locked(j)' /\ Knows(j)'
<1>1. UNCHANGED <<tree, pointer, recorded, holder, live, used>> /\ join[j].pc = "probe"
  BY DEF Probe
<1>2. TreesOf(j) /\ PointerOf /\ \A d : There(d)' <=> There(d)
  BY <1>1, Looks
<1>3. ex["new"] = j /\ There("new")
  BY <1>1 DEF MoveInv, Locked, Knows, HoldsNew
<1>4. CASE Ends(j, "failed")
  BY <1>1, <1>2, <1>4, Leaves
<1>5. CASE Goto(j, "config") /\ UNCHANGED locks
  <2>1. "config" \in HoldsNew /\ "config" \notin HoldsOld
    BY DEF HoldsNew, HoldsOld, Scope2
  <2>2. JStep(j) /\ Locked(j)' /\ join'[j].pc = "config"
    BY <1>1, <1>2, <1>3, <1>5, <2>1, Goes
  <2>3. Knows(j)'
    BY <1>2, <1>3, <2>2 DEF Knows
  <2>4. QED
    BY <2>2, <2>3
<1>6. QED
  BY <1>4, <1>5 DEF Probe

LEMMA WriteConfigSteps ==
  ASSUME MoveInv, NEW j \in Join, WriteConfig(j)
  PROVE  JStep(j) /\ Locked(j)' /\ Knows(j)'
<1>1. /\ UNCHANGED <<pointer, recorded, holder, live, used>> /\ PointerOf /\ UNCHANGED locks
      /\ join[j].pc = "config" /\ tree' = [tree EXCEPT !["new"].conf = "new"]
      /\ Goto(j, "pointer")
  BY DEF WriteConfig, PointerOf, bounds
<1>2. ex["new"] = j /\ There("new") /\ MoveTypes
  BY <1>1 DEF MoveInv, Locked, Knows, HoldsNew
<1> DEFINE t == [tree["new"] EXCEPT !.conf = "new"]
<1>3. tree["new"] \in Tree
  BY <1>2, TreeOf, Dirs DEF There
<1>4. t \in Tree /\ t.conf = "new" /\ t.files = tree["new"].files
  BY <1>3 DEF Tree
<1>5. tree' = [tree EXCEPT !["new"] = t]
  BY <1>1, <1>2, Dirs DEF MoveTypes
<1> HIDE DEF t
<1>6. There("new") => Files("new") \subseteq t.files
  BY <1>4 DEF Files
<1>7. TreesOf(j) /\ Conf("new")' = "new"
  BY <1>2, <1>4, <1>5, <1>6, Renewed
<1>8. "pointer" \in HoldsNew /\ "pointer" \notin HoldsOld
  BY DEF HoldsNew, HoldsOld, Scope2
<1>9. JStep(j) /\ Locked(j)' /\ join'[j].pc = "pointer"
  BY <1>1, <1>2, <1>7, <1>8, Goes
<1>10. Knows(j)'
  BY <1>7, <1>9 DEF Knows
<1>11. QED
  BY <1>9, <1>10

LEMMA EndSteps ==
  ASSUME MoveInv, NEW j \in Join, WritePointer(j) \/ Killed(j)
  PROVE  JStep(j) /\ Locked(j)' /\ Knows(j)'
<1>1. UNCHANGED <<tree, recorded, holder, live, used>> /\ TreesOf(j)
  BY Same DEF WritePointer, Killed, bounds
<1>2. PointerOf
  BY DEF WritePointer, Killed, PointerOf, MoveInv, Knows
<1>3. Ends(j, "joined") \/ Ends(j, "failed")
  BY DEF WritePointer, Killed
<1>4. QED
  BY <1>1, <1>2, <1>3, Leaves

LEMMA JoinsKeep ==
  ASSUME MoveInv, NEW j \in Join,
         Acquire(j) \/ Busy(j) \/ JoinStep(j) \/ Killed(j) \/ (\E r \in BOOLEAN : Start(j, r))
  PROVE  MoveInv'
<1>1. JStep(j) /\ Locked(j)' /\ Knows(j)'
  BY StartSteps, ReadOriginSteps, AcquireSteps, ScopeOneSteps, FindSteps, RecheckSteps, MoveSteps,
     CopySteps, MarkSteps, RenameSteps, PointSteps, FreezeSteps, VerifySteps, DeleteSteps,
     UnmarkSteps, KeysSteps, ProbeSteps, WriteConfigSteps, EndSteps DEF JoinStep
<1>2. QED
  BY <1>1, StepKeeps

-----------------------------------------------------------------------------
(* The move: the steps of a lane or a command *)

\* It shares a hub that no join holds, or stops to.
Shares(p) ==
  /\ \A h \in Hub : \/ sh'[h] = sh[h]
                    \/ sh'[h] = sh[h] \ {p}
                    \/ sh'[h] = sh[h] \cup {p} /\ ex[h] = None
  /\ sh' \in [Hub -> SUBSET Holder] /\ holder' \in [Holder -> HolderRec]
  /\ \A q \in Holder \ {p} : holder'[q] = holder[q]

LEMMA HolderKeeps ==
  ASSUME MoveInv, NEW p \in Holder, Shares(p), Holds(p)', used' \in 0..MaxUse,
         UNCHANGED <<tree, pointer, recorded, ex, join, live>>
  PROVE  MoveInv'
<1>1. /\ \A d : (There(d)' <=> There(d)) /\ Conf(d)' = Conf(d) /\ Files(d)' = Files(d)
      /\ (Marked' <=> Marked)
  BY DEF There, Conf, Files, Marked
<1>2. MoveTypes'
  BY DEF MoveInv, MoveTypes, Shares
<1>3. Exclusive'
  <2>1. \A h \in Hub : ex[h] # None => sh[h] = {}
    BY DEF MoveInv, Exclusive
  <2>2. QED
    BY <2>1 DEF Exclusive, Shares
<1>4. Trees' /\ PointerJoined'
  BY <1>1 DEF MoveInv, Trees, PointerJoined, Conf, There
<1>5. NothingLost'
  BY DEF MoveInv, NothingLost, Files, There
<1>6. ASSUME NEW j \in Join PROVE Locked(j)' /\ Knows(j)'
  BY <1>1 DEF MoveInv, Locked, Knows
<1>7. ASSUME NEW q \in Holder, q # p PROVE Holds(q)'
  <2>1. Holds(q) /\ holder'[q] = holder[q] /\ holder[q].hub \in Hub
    BY <1>7 DEF MoveInv, Shares, MoveTypes, HolderRec
  <2>2. \A h \in Hub : q \in sh[h] => q \in sh'[h]
    BY <1>7 DEF Shares
  <2>3. QED
    BY <1>1, <2>1, <2>2 DEF Holds, Conf, There
<1>8. QED
  BY <1>2, <1>3, <1>4, <1>5, <1>6, <1>7 DEF MoveInv

LEMMA Parted ==
  ASSUME MoveTypes, NEW p \in Holder, Leave(p), sh' = sh \/ sh' = Unshared(p)
  PROVE  Shares(p) /\ Holds(p)'
<1>1. [pc |-> "off", hub |-> "old"] \in HolderRec
  BY DEF HolderRec, Hub
<1>2. /\ holder' \in [Holder -> HolderRec] /\ holder'[p].pc = "off"
      /\ \A q \in Holder \ {p} : holder'[q] = holder[q]
  BY <1>1 DEF Leave, MoveTypes
<1>3. \A h \in Hub : sh'[h] = sh[h] \/ sh'[h] = sh[h] \ {p}
  BY DEF Unshared
<1>4. sh' \in [Hub -> SUBSET Holder]
  BY DEF MoveTypes, Unshared
<1>5. QED
  BY <1>2, <1>3, <1>4 DEF Shares, Holds

LEMMA ResolveKeeps ==
  ASSUME MoveInv, NEW p \in Holder, Resolve(p)
  PROVE  MoveInv'
<1>1. /\ MoveTypes
      /\ UNCHANGED <<tree, pointer, recorded, locks, join, live>>
      /\ holder' = [holder EXCEPT ![p] = [pc |-> "lock", hub |-> pointer]]
      /\ used < MaxUse /\ used' = used + 1
  BY DEF MoveInv, Resolve
<1>2. used' \in 0..MaxUse
  BY <1>1, BoundAssumption DEF MoveTypes
<1>3. [pc |-> "lock", hub |-> pointer] \in HolderRec
  BY <1>1 DEF MoveTypes, HolderRec
<1>4. Shares(p) /\ Holds(p)'
  BY <1>1, <1>3 DEF Shares, Holds, MoveTypes, locks
<1>5. QED
  BY <1>1, <1>2, <1>4, HolderKeeps DEF locks

LEMMA ShareKeeps ==
  ASSUME MoveInv, NEW p \in Holder, Share(p)
  PROVE  MoveInv'
<1> DEFINE h == holder[p].hub
           r == [holder[p] EXCEPT !.pc = "identify"]
<1>1. /\ MoveTypes /\ h \in Hub /\ holder[p] \in HolderRec /\ used \in 0..MaxUse
      /\ UNCHANGED <<tree, pointer, recorded, ex, join, live, used>>
  BY DEF MoveInv, MoveTypes, Share, bounds, HolderRec
<1>2. r \in HolderRec /\ r.pc = "identify" /\ r.hub = h
  BY <1>1 DEF HolderRec
<1>3. CASE ex[h] = None /\ sh' = [sh EXCEPT ![h] = @ \cup {p}] /\ holder' = [holder EXCEPT ![p] = r]
  <2> HIDE DEF r
  <2>1. /\ holder' \in [Holder -> HolderRec] /\ holder'[p] = r
        /\ \A q \in Holder \ {p} : holder'[q] = holder[q]
    BY <1>1, <1>2, <1>3 DEF MoveTypes
  <2>2. /\ sh' \in [Hub -> SUBSET Holder] /\ sh'[h] = sh[h] \cup {p}
        /\ \A g \in Hub \ {h} : sh'[g] = sh[g]
    BY <1>1, <1>3 DEF MoveTypes
  <2>3. Shares(p)
    BY <1>3, <2>1, <2>2 DEF Shares
  <2>4. Holds(p)'
    BY <1>2, <2>1, <2>2 DEF Holds
  <2>5. QED
    BY <1>1, <2>3, <2>4, HolderKeeps
<1>4. CASE Leave(p) /\ sh' = sh
  <2>1. Shares(p) /\ Holds(p)'
    BY <1>1, <1>4, Parted
  <2>2. QED
    BY <1>1, <2>1, HolderKeeps
<1>5. QED
  BY <1>1, <1>3, <1>4 DEF Share

LEMMA IdentifyKeeps ==
  ASSUME MoveInv, NEW p \in Holder, Identify(p) \/ Release(p)
  PROVE  MoveInv'
<1> DEFINE r == [holder[p] EXCEPT !.pc = "held"]
<1>1. /\ MoveTypes /\ holder[p] \in HolderRec /\ used \in 0..MaxUse /\ Holds(p)
      /\ UNCHANGED <<tree, pointer, recorded, ex, join, live, used>>
  BY DEF MoveInv, MoveTypes, Identify, Release, bounds
<1>2. r \in HolderRec /\ r.hub = holder[p].hub
  BY <1>1 DEF HolderRec
<1>3. CASE /\ holder[p].pc = "identify" /\ Conf(holder[p].hub) # "none"
           /\ holder' = [holder EXCEPT ![p] = r] /\ sh' = sh
  <2> HIDE DEF r
  <2>1. /\ holder' \in [Holder -> HolderRec] /\ holder'[p] = r
        /\ \A q \in Holder \ {p} : holder'[q] = holder[q]
    BY <1>1, <1>2, <1>3 DEF MoveTypes
  <2>2. Shares(p)
    BY <1>1, <1>3, <2>1 DEF Shares, MoveTypes
  <2>3. Holds(p)'
    BY <1>1, <1>2, <1>3, <2>1 DEF Holds, Conf, There
  <2>4. QED
    BY <1>1, <2>2, <2>3, HolderKeeps
<1>4. CASE Leave(p) /\ sh' = Unshared(p)
  <2>1. Shares(p) /\ Holds(p)'
    BY <1>1, <1>4, Parted
  <2>2. QED
    BY <1>1, <2>1, HolderKeeps
<1>5. QED
  BY <1>1, <1>3, <1>4 DEF Identify, Release

\* What a lane writes under its lock, no join is looking at.
LEMMA WriteKeeps ==
  ASSUME MoveInv, NEW p \in Holder, Write(p)
  PROVE  MoveInv'
<1>0. PICK h : h = holder[p].hub
  OBVIOUS
<1>1. /\ MoveTypes /\ Exclusive /\ Trees /\ NothingLost /\ PointerJoined /\ Holds(p)
      /\ UNCHANGED <<pointer, recorded, locks, join, holder, bounds>> /\ holder[p].pc = "held"
  BY DEF MoveInv, Write
<1>2. h \in Hub /\ h \in Dir /\ used \in 0..MaxUse /\ live \subseteq 0..MaxUse
  BY <1>0, <1>1, Dirs DEF MoveTypes, HolderRec
<1>3. Conf(h) # "none" /\ ex[h] = None /\ There(h)
  <2>1. Conf(h) # "none" /\ p \in sh[h]
    BY <1>0, <1>1 DEF Holds
  <2>2. QED
    BY <1>1, <1>2, <2>1 DEF Exclusive, Conf
<1>4. PICK old \in SUBSET (tree[h].files \ Key) :
        /\ tree' = [tree EXCEPT ![h] = [tree[h] EXCEPT !.files = (tree[h].files \ old) \cup {used}]]
        /\ live' = (live \ old) \cup {used}
  BY <1>0, <1>3 DEF Write
<1> DEFINE t == [tree[h] EXCEPT !.files = (tree[h].files \ old) \cup {used}]
<1>5. tree[h] \in Tree
  BY <1>1, <1>2, <1>3, TreeOf DEF There
<1>6. used \in 0..NewKey
  BY <1>2, BoundAssumption DEF NewKey
<1>7. /\ t \in Tree /\ t.conf = tree[h].conf /\ t.mark = tree[h].mark
      /\ t.files = (tree[h].files \ old) \cup {used}
  BY <1>5, <1>6 DEF Tree
<1>8. tree' = [tree EXCEPT ![h] = t]
  BY <1>4
<1> HIDE DEF t
<1>9. /\ tree' \in [Dir -> Tree \cup {None}] /\ tree'[h] = t
      /\ \A e \in Dir \ {h} : tree'[e] = tree[e]
  BY <1>1, <1>2, <1>7, <1>8, Written
<1>10. t # None
  BY <1>7, NoneAssumption
<1>11. \A d \in Dir : (There(d)' <=> There(d)) /\ Conf(d)' = Conf(d)
  BY <1>3, <1>7, <1>9, <1>10 DEF There, Conf
<1>12. /\ \A d \in Dir \ {h} : Files(d)' = Files(d)
       /\ Files(h)' = (Files(h) \ old) \cup {used}
  BY <1>3, <1>7, <1>9, <1>10 DEF There, Files
<1>13. MoveTypes'
  BY <1>1, <1>2, <1>4, <1>9 DEF MoveTypes, locks, bounds
<1>14. Exclusive'
  BY <1>1 DEF Exclusive, locks
<1>15. Trees'
  <2>1. Marked' <=> Marked
    BY <1>3, <1>7, <1>9, <1>10, Dirs DEF Marked, There
  <2>2. QED
    BY <1>1, <1>11, <2>1, Dirs DEF Trees
<1>16. PointerJoined'
  <2>1. pointer \in Dir /\ pointer' = pointer /\ Conf(pointer) # "none"
    BY <1>1, Dirs DEF MoveTypes, PointerJoined
  <2>2. QED
    BY <1>11, <2>1 DEF PointerJoined, Conf, There
<1>17. NothingLost'
  <2>1. live \subseteq Files("old") \cup Files("new") \cup Files("frozen")
    BY <1>1 DEF NothingLost
  <2>2. h = "new" \/ h = "old"
    BY <1>2 DEF Hub
  <2>3. SUFFICES live' \subseteq (Files("old") \cup Files("new") \cup Files("frozen"))'
    BY DEF NothingLost
  <2>4. CASE h = "new"
    <3>1. Files("old")' = Files("old") /\ Files("frozen")' = Files("frozen")
      BY <1>12, <2>4, Dirs
    <3>2. QED
      BY <1>4, <1>12, <2>1, <2>4, <3>1
  <2>5. CASE h = "old"
    <3>1. Files("new")' = Files("new") /\ Files("frozen")' = Files("frozen")
      BY <1>12, <2>5, Dirs
    <3>2. QED
      BY <1>4, <1>12, <2>1, <2>5, <3>1
  <2>6. QED
    BY <2>2, <2>4, <2>5
<1>18. ASSUME NEW j \in Join PROVE Locked(j)' /\ Knows(j)'
  <2>1. Locked(j) /\ Knows(j) /\ join' = join /\ ex' = ex
    BY <1>1 DEF MoveInv, locks
  <2>2. Locked(j)'
    BY <2>1 DEF Locked
  <2>3. CASE join[j].pc \in HoldsNew
    <3>1. ex["new"] = j
      BY <2>1, <2>3 DEF Locked
    <3>2. h # "new"
      BY <1>3, <3>1, NoneAssumption
    <3>3. Files("frozen")' = Files("frozen") /\ Files("new")' = Files("new")
      BY <1>2, <1>12, <3>2, Dirs DEF Hub
    <3>4. Knows(j)'
      BY <1>1, <1>11, <2>1, <3>3, Dirs DEF Knows
    <3>5. QED
      BY <2>2, <3>4
  <2>4. CASE join[j].pc \notin HoldsNew
    <3>1. Knows(j)'
      BY <2>1, <2>4 DEF Knows, HoldsNew, Scope1, Scope2
    <3>2. QED
      BY <2>2, <3>1
  <2>5. QED
    BY <2>3, <2>4
<1>19. ASSUME NEW q \in Holder PROVE Holds(q)'
  <2>1. Holds(q) /\ holder' = holder /\ sh' = sh /\ holder[q].hub \in Dir
    BY <1>1, Dirs DEF MoveInv, locks, MoveTypes, HolderRec
  <2>2. Conf(holder[q].hub)' = Conf(holder[q].hub)
    BY <1>11, <2>1 DEF Conf, There
  <2>3. QED
    BY <2>1, <2>2 DEF Holds
<1>20. QED
  BY <1>13, <1>14, <1>15, <1>16, <1>17, <1>18, <1>19 DEF MoveInv

-----------------------------------------------------------------------------
(* The move: the theorem *)

LEMMA MoveStarts == Init => MoveInv
<1> SUFFICES ASSUME Init PROVE MoveInv
  OBVIOUS
<1> DEFINE t == [conf |-> "old", files |-> {OldKey}, mark |-> FALSE]
<1>1. OldKey \in 0..NewKey /\ OldKey \in 0..MaxUse /\ 0 \in 0..MaxUse
  BY BoundAssumption DEF OldKey, NewKey
<1>2. t \in Tree /\ t # None /\ t.conf = "old" /\ t.files = {OldKey}
  <2>1. t \in Tree
    BY <1>1 DEF Tree
  <2>2. QED
    BY <2>1, NoneAssumption
<1>3. tree = [d \in Dir |-> IF d = "old" THEN t ELSE None]
  BY DEF Init
<1> HIDE DEF t
<1>4. /\ tree \in [Dir -> Tree \cup {None}] /\ tree["old"] = t
      /\ tree["new"] = None /\ tree["frozen"] = None
  BY <1>2, <1>3, Dirs
<1>5. There("old") /\ ~There("new") /\ ~There("frozen") /\ Conf("old") = "old" /\ Files("old") = {OldKey}
  BY <1>2, <1>4 DEF There, Conf, Files
<1>6. Off \in JoinRec /\ Off.pc = "off" /\ [pc |-> "off", hub |-> "old"] \in HolderRec
  BY DEF Off, JoinRec, HolderRec, Hub
<1>7. MoveTypes
  BY <1>1, <1>4, <1>6 DEF Init, MoveTypes, Hub
<1>8. Exclusive /\ Trees /\ NothingLost /\ PointerJoined
  BY <1>5 DEF Init, Exclusive, Trees, Marked, NothingLost, PointerJoined
<1>9. \A j \in Join : Locked(j) /\ Knows(j)
  BY <1>6 DEF Init, Locked, Knows, HoldsNew, HoldsOld, Scope1, Scope2
<1>10. \A p \in Holder : Holds(p)
  BY DEF Init, Holds
<1>11. QED
  BY <1>7, <1>8, <1>9, <1>10 DEF MoveInv

LEMMA MoveStepsKeep == MoveInv /\ [Next]_vars => MoveInv'
<1> SUFFICES ASSUME MoveInv, [Next]_vars PROVE MoveInv'
  OBVIOUS
<1>1. CASE UNCHANGED vars
  BY <1>1 DEF vars, locks, bounds, MoveInv, MoveTypes, Exclusive, Trees, Marked, NothingLost,
     PointerJoined, Locked, Knows, Holds, There, Conf, Files
<1>2. CASE Next
  BY <1>2, JoinsKeep, ResolveKeeps, ShareKeeps, IdentifyKeeps, WriteKeeps DEF Next, HolderStep
<1>3. QED
  BY <1>1, <1>2

\* A step of the hub is a step of the move, or leaves its variables alone.
LEMMA MovesOnly == [Moves(Next) \/ Keeps(K!Next) \/ Talks(S!Next)]_all => [Next]_vars
BY DEF Moves, Keeps, Talks, all

\* A move of a hub to another URL (hub_migrate.go) loses no file that a lane or
\* the operator left there, moves nothing under a process that holds the hub
\* (hub_lock_discover.go), and leaves the checkout pointing at a joined hub:
\* with any number of joins, lanes and commands, and a kill after every step.
THEOREM MovesSafely == HubRuns => []MoveSafe
<1>1. HubInit => MoveInv
  BY MoveStarts DEF HubInit
<1>2. MoveInv /\ [Moves(Next) \/ Keeps(K!Next) \/ Talks(S!Next)]_all => MoveInv'
  BY MovesOnly, MoveStepsKeep
<1>3. MoveInv => MoveSafe
  BY DEF MoveInv, MoveSafe, HolderUndisturbed, Holds
<1>4. QED
  BY <1>1, <1>2, <1>3, PTL DEF HubRuns

-----------------------------------------------------------------------------
(* The keys: the invariant *)

\* Where a join has an active key that it can read.
Linked == {"rotate", "mint-staged", "fill-staged", "write-pub-staged", "probe-staged",
           "probe-active", "probe", "authorize", "authorizing", "print", "incomplete",
           "point-incomplete", "promote", "probe-again", "prune", "config", "point"}
Stages == {"off", "prepare", "public", "retire", "retire-pub", "mint", "fill", "write-pub", "link"}
          \cup Linked
KeyJoinRec == [pc : Stages, rotate : BOOLEAN, staged : 0..MaxKey, v : 0..MaxKey,
               proven : BOOLEAN, lost : BOOLEAN,
               out : {"none", "failed", "killed", "joined", "incomplete"}]
Agents == {K!Me, K!Peer}
AuthRec == [pc : {"off", "lock", "read", "write"}, key : 0..MaxKey, replace : BOOLEAN,
            read : [Agents -> 0..MaxKey], out : {"none", "ok", "refused"}]

DiskTypes == /\ priv \in [K!Version -> 0..MaxKey] /\ pub \in [K!Version -> 0..MaxKey]
             /\ broken \subseteq K!Versions /\ link \in {0} \cup K!Versions /\ minted \in 0..MaxKey
             /\ conf \in {"none", "pending", "joined"} /\ kpointer \in BOOLEAN
AuthTypes == /\ lines \in [Agents -> 0..MaxKey] /\ kholder \in K!Authorizer \cup {None}
             /\ auth \in [K!Authorizer -> AuthRec]

\* A file never has a number beyond the runs of ssh-keygen, and a public half
\* that is there is that of its private half, or of one that was pruned.
Files2 == /\ \A v \in K!Versions : v <= minted
          /\ \A v \in K!Version : pub[v] # 0 =>
               v \notin broken /\ (priv[v] = pub[v] \/ (priv[v] = 0 /\ v < link))

\* What a join knows of the keys at each of its stages.
Fills == {"fill", "fill-staged"}
Writes == {"write-pub", "write-pub-staged"}
Knows2 ==
  /\ kjoin.pc \in Linked => link # 0 /\ K!Good(link)
  /\ kjoin.pc \in {"retire", "retire-pub", "mint", "fill", "write-pub", "link"} => link = 0
  /\ kjoin.pc = "public" => IF link # 0 THEN K!Good(link) ELSE K!Versions # {} /\ K!Good(K!Newest)
  /\ kjoin.pc = "retire" => K!Versions # {} /\ K!Newest \in broken
  /\ kjoin.pc \in Fills \cup Writes => K!Versions # {} /\ kjoin.v = K!Newest
  /\ kjoin.pc \in Writes => kjoin.v \notin broken
  /\ kjoin.pc = "link" => K!Versions # {} /\ K!Good(K!Newest)
  /\ kjoin.pc \in {"probe-staged", "probe-active", "probe", "authorize", "authorizing", "print",
                   "promote"} => kjoin.staged = K!Staged
  /\ kjoin.pc \in {"probe-staged", "probe-active", "probe", "authorize", "authorizing"} => ~kjoin.proven
  /\ kjoin.pc \in {"probe-staged", "promote"} => kjoin.staged # 0
  /\ kjoin.pc = "promote" => kjoin.staged \notin broken
  /\ kjoin.pc = "authorizing" /\ kjoin.staged # 0 => kjoin.staged \notin broken
  /\ kjoin.pc = "promote" /\ kjoin.proven => lines[K!Me] \in {0, priv[kjoin.staged]}
  /\ kjoin.pc = "prune" => lines[K!Me] \in {0, priv[link]}

\* The keys that are on their way to the hub are kept, and the joins that wait
\* for them change no file.
Kept(k) == \E v \in K!Versions \ broken : priv[v] = k
Waits == {"off", "incomplete", "point-incomplete"}
Underway == /\ auth["ssh"].pc # "off" =>
                 Kept(auth["ssh"].key) /\ kjoin.pc \in Waits \cup {"authorizing", "print"}
            /\ auth["operator"].pc # "off" => Kept(auth["operator"].key) /\ kjoin.pc = "off"
            /\ paste # None => /\ Kept(paste.key) /\ kjoin.pc \in Waits
                               /\ paste.key \in 0..MaxKey /\ paste.replace \in BOOLEAN
            /\ auth["peer"].pc # "off" => auth["peer"].key = 1

\* A session that has read the file is alone with it.
Alone2(z) == /\ auth[z].pc \in {"read", "write"} => kholder = z
             /\ auth[z].pc = "write" => auth[z].read = lines

KeyInv == /\ DiskTypes /\ AuthTypes /\ kjoin \in KeyJoinRec /\ Files2 /\ Knows2 /\ Underway
          /\ \A z \in K!Authorizer : Alone2(z)
          /\ K!KeyKept /\ K!PeerKept

-----------------------------------------------------------------------------
(* The keys: the newest version *)

LEMMA Least ==
  ASSUME NEW T, T \subseteq Nat, T # {}
  PROVE  \E x \in T : \A y \in T : x <= y
<1> DEFINE R == {ss \in Nat \X Nat : ss[1] < ss[2]}
<1>1. IsWellFoundedOn(R, Nat)
  BY NatLessThanWellFounded DEF OpToRel
<1> HIDE DEF R
<1>2. \E x \in T : \A y \in T : ~ (<<y, x>> \in R)
  BY <1>1, WFMin
<1>3. ASSUME NEW x \in T, NEW y \in T, ~ (<<y, x>> \in R)
      PROVE  x <= y
  <2>1. x \in Nat /\ y \in Nat /\ ~(y < x)
    BY <1>3 DEF R
  <2>2. QED
    BY <2>1
<1>4. QED
  BY <1>2, <1>3

LEMMA Greatest ==
  ASSUME NEW n \in Nat, NEW T \in SUBSET (0..n), T # {}
  PROVE  K!Max(T) \in T /\ \A y \in T : y <= K!Max(T)
<1> DEFINE U == {n - y : y \in T}
<1>1. U \subseteq Nat
  <2>1. \A y \in T : y \in 0..n /\ n - y \in Nat
    OBVIOUS
  <2>2. QED
    BY <2>1
<1>2. U # {}
  OBVIOUS
<1>3. PICK x \in U : \A y \in U : x <= y
  BY <1>1, <1>2, Least
<1>4. PICK m \in T : x = n - m
  BY <1>3
<1>5. \A y \in T : n - y \in U
  OBVIOUS
<1>6. \A y \in T : m >= y
  <2>1. \A y \in T : n - m <= n - y /\ y \in Nat
    BY <1>3, <1>4, <1>5
  <2>2. m \in Nat
    OBVIOUS
  <2> HIDE DEF U
  <2>3. QED
    BY <2>1, <2>2
<1>7. QED
  BY <1>6 DEF K!Max

\* The versions of the keys directory, its newest one and the next.
LEMMA Newest ==
  ASSUME DiskTypes
  PROVE  /\ K!Versions \subseteq K!Version /\ K!Version \subseteq 0..MaxKey /\ 0 \notin K!Version
         /\ K!Versions # {} => /\ K!Newest \in K!Versions
                               /\ \A v \in K!Versions : v <= K!Newest
<1>1. K!Versions \subseteq K!Version /\ K!Version \subseteq 0..MaxKey /\ 0 \notin K!Version
  BY KeysAssumption DEF K!Versions, K!Version
<1>2. K!Versions \in SUBSET (0..MaxKey) /\ MaxKey \in Nat
  BY <1>1, KeysAssumption
<1>3. QED
  BY <1>1, <1>2, Greatest DEF K!Newest

LEMMA NewestIs ==
  ASSUME NEW v, DiskTypes, v \in K!Versions, \A w \in K!Versions : w <= v
  PROVE  K!Newest = v
<1>1. K!Newest \in K!Versions /\ v <= K!Newest /\ K!Newest <= v
  BY Newest
<1>2. K!Newest \in Nat /\ v \in Nat
  BY <1>1, Newest
<1>3. QED
  BY <1>1, <1>2

LEMMA StagedIs ==
  ASSUME DiskTypes
  PROVE  /\ K!Staged \in 0..MaxKey
         /\ K!Staged # 0 => K!Staged \in K!Versions /\ K!Staged > link /\ K!Staged = K!Newest
<1>1. 0 \in 0..MaxKey
  BY KeysAssumption
<1>2. CASE K!Versions # {} /\ K!Newest > link
  BY <1>2, Newest DEF K!Staged
<1>3. CASE ~(K!Versions # {} /\ K!Newest > link)
  BY <1>1, <1>3 DEF K!Staged
<1>4. QED
  BY <1>2, <1>3

\* Where the private halves and the link stay, so does what is read from them.
LEMMA SameKeys ==
  ASSUME UNCHANGED <<priv, broken, link>>
  PROVE  /\ K!Versions' = K!Versions /\ K!Newest' = K!Newest /\ K!Staged' = K!Staged
         /\ \A v : K!Good(v)' <=> K!Good(v)
         /\ \A k : Kept(k)' <=> Kept(k)
<1>1. K!Versions' = K!Versions
  BY DEF K!Versions
<1>2. K!Newest' = K!Newest
  BY <1>1 DEF K!Newest
<1>3. QED
  BY <1>1, <1>2 DEF K!Staged, K!Good, Kept

-----------------------------------------------------------------------------
(* The keys: the steps of a join *)

LEMMA KeyGoes ==
  ASSUME kjoin \in KeyJoinRec, NEW pc \in Stages, K!Goto(pc)
  PROVE  /\ kjoin' \in KeyJoinRec /\ kjoin'.pc = pc /\ kjoin'.staged = kjoin.staged
         /\ kjoin'.v = kjoin.v /\ kjoin'.proven = kjoin.proven
BY DEF K!Goto, KeyJoinRec

LEMMA KeyEnds ==
  ASSUME NEW out \in {"failed", "killed", "joined", "incomplete"}, K!End(out)
  PROVE  kjoin' \in KeyJoinRec /\ kjoin'.pc = "off"
<1>1. 0 \in 0..MaxKey /\ "off" \in Stages
  BY KeysAssumption DEF Stages
<1>2. QED
  BY <1>1 DEF K!End, K!Off, KeyJoinRec

LEMMA KnowsNothing ==
  ASSUME kjoin'.pc \in {"off", "prepare"}
  PROVE  Knows2'
BY DEF Knows2, Linked, Fills, Writes

\* A join that changes no key, and what it may then do while a session waits.
LEMMA KeyLooks ==
  ASSUME KeyInv, kjoin.pc # "off", UNCHANGED <<priv, broken, pub, link, minted>>,
         UNCHANGED <<paste, lines, auth, kholder>>,
         conf' \in {"none", "pending", "joined"}, kpointer' \in BOOLEAN,
         kjoin' \in KeyJoinRec, Knows2',
         auth["ssh"].pc # "off" => kjoin'.pc \in Waits \cup {"authorizing", "print"},
         paste # None => kjoin'.pc \in Waits
  PROVE  KeyInv'
<1>1. /\ K!Versions' = K!Versions /\ \A k : Kept(k)' <=> Kept(k)
  BY SameKeys
<1>2. DiskTypes' /\ AuthTypes' /\ Files2'
  BY <1>1 DEF KeyInv, DiskTypes, AuthTypes, Files2
<1>3. Underway'
  BY <1>1 DEF KeyInv, Underway, Kept, K!Versions
<1>4. (\A z \in K!Authorizer : Alone2(z)) => (\A z \in K!Authorizer : Alone2(z)')
  BY DEF Alone2
<1>5. K!KeyKept' /\ K!PeerKept'
  BY <1>1 DEF KeyInv, K!KeyKept, K!PeerKept
<1>6. QED
  BY <1>2, <1>3, <1>4, <1>5 DEF KeyInv

LEMMA KeyStops ==
  ASSUME KeyInv, kjoin.pc # "off", UNCHANGED <<priv, broken, pub, link, minted>>,
         UNCHANGED <<paste, lines, auth, kholder>>,
         conf' \in {"none", "pending", "joined"}, kpointer' \in BOOLEAN,
         NEW out \in {"failed", "killed", "joined", "incomplete"}, K!End(out)
  PROVE  KeyInv'
<1>1. kjoin' \in KeyJoinRec /\ kjoin'.pc = "off"
  BY KeyEnds
<1>2. Knows2'
  BY <1>1, KnowsNothing
<1>3. QED
  BY <1>1, <1>2, KeyLooks DEF Waits

\* While a join is at work on the keys, nothing waits for the hub.
Works == Stages \ (Waits \cup {"authorizing", "print"})
LEMMA AtWork ==
  ASSUME KeyInv, kjoin.pc \in Works
  PROVE  /\ auth["ssh"].pc = "off" /\ auth["operator"].pc = "off" /\ paste = None
         /\ kjoin.pc # "off"
BY DEF KeyInv, Underway, Works, Waits

\* A step that leaves the keys alone, and where it goes.
LEMMA KeyPasses ==
  ASSUME KeyInv, kjoin.pc \in Works, UNCHANGED <<priv, broken, pub, link, minted>>,
         UNCHANGED <<paste, lines, auth, kholder>>,
         conf' \in {"none", "pending", "joined"}, kpointer' \in BOOLEAN,
         kjoin' \in KeyJoinRec, Knows2'
  PROVE  KeyInv'
BY AtWork, KeyLooks

\* A step that changes the keys.
LEMMA KeyChanges ==
  ASSUME KeyInv, kjoin.pc \in Works, UNCHANGED <<paste, lines, auth, kholder>>,
         DiskTypes', Files2', kjoin' \in KeyJoinRec, Knows2',
         lines[K!Me] # 0 => Kept(lines[K!Me])'
  PROVE  KeyInv'
<1>1. auth["ssh"].pc = "off" /\ auth["operator"].pc = "off" /\ paste = None
  BY AtWork
<1>2. AuthTypes' /\ Underway'
  BY <1>1 DEF KeyInv, AuthTypes, Underway
<1>3. (\A z \in K!Authorizer : Alone2(z)) => (\A z \in K!Authorizer : Alone2(z)')
  BY DEF Alone2
<1>4. K!KeyKept'
  BY DEF K!KeyKept, Kept
<1>5. K!PeerKept'
  BY DEF KeyInv, K!PeerKept
<1>6. QED
  BY <1>2, <1>3, <1>4, <1>5 DEF KeyInv

LEMMA PrepareKeeps ==
  ASSUME KeyInv, K!Prepare
  PROVE  KeyInv'
<1>1. /\ kjoin \in KeyJoinRec /\ DiskTypes /\ kjoin.pc = "prepare" /\ kjoin.pc \in Works
      /\ UNCHANGED <<priv, broken, pub, link, minted, conf, kpointer, paste, lines, auth, kholder>>
  BY DEF KeyInv, K!Prepare, K!disk, K!hub, Works, Stages, Waits
<1>2. conf' \in {"none", "pending", "joined"} /\ kpointer' \in BOOLEAN
  BY <1>1 DEF DiskTypes
<1>3. CASE K!End("failed")
  BY <1>1, <1>2, <1>3, KeyStops, AtWork
<1>4. CASE \E pc \in {"public", "mint", "retire"} : K!Goto(pc) /\ ~K!End("failed")
  <2>1. PICK pc \in {"public", "mint", "retire"} : K!Goto(pc) /\ ~K!End("failed")
    BY <1>4
  <2>2. pc \in Stages
    BY DEF Stages
  <2>3. kjoin' \in KeyJoinRec /\ kjoin'.pc = pc
    BY <1>1, <2>1, <2>2, KeyGoes
  <2>4. /\ K!Versions' = K!Versions /\ K!Newest' = K!Newest /\ link' = link /\ broken' = broken
        /\ \A v : K!Good(v)' <=> K!Good(v)
    BY <1>1, SameKeys
  <2>5. /\ pc = "public" => IF link # 0 THEN K!Good(link) ELSE K!Versions # {} /\ K!Good(K!Newest)
        /\ pc = "mint" => link = 0
        /\ pc = "retire" => link = 0 /\ K!Versions # {} /\ ~K!Good(K!Newest)
    <3>1. pc = kjoin'.pc
      BY <2>3
    <3>2. IF link # 0 THEN kjoin' = [kjoin EXCEPT !.pc = "public"] /\ K!Good(link)
          ELSE kjoin' = [kjoin EXCEPT !.pc = IF K!Versions = {} THEN "mint"
                           ELSE IF K!Good(K!Newest) THEN "public" ELSE "retire"]
      BY <2>1 DEF K!Prepare, K!Goto
    <3>3. IF link # 0 THEN kjoin'.pc = "public" /\ K!Good(link)
          ELSE kjoin'.pc = IF K!Versions = {} THEN "mint"
                           ELSE IF K!Good(K!Newest) THEN "public" ELSE "retire"
      BY <1>1, <3>2 DEF KeyJoinRec
    <3>4. QED
      BY <3>1, <3>3
  <2>6. pc = "retire" => K!Newest \in broken
    BY <1>1, <2>5, Newest DEF K!Good
  <2>7. Knows2'
    <3>1. link' = link /\ broken' = broken
      BY <2>4
    <3>2. pc \notin Linked /\ pc \notin Fills /\ pc \notin Writes
      BY DEF Linked, Fills, Writes
    <3>3. CASE pc = "public"
      BY <2>3, <2>4, <2>5, <3>2, <3>3 DEF Knows2, K!Good
    <3>4. CASE pc \in {"mint", "retire"}
      BY <2>3, <2>4, <2>5, <2>6, <3>2, <3>4 DEF Knows2
    <3>5. QED
      BY <3>3, <3>4
  <2>8. QED
    BY <1>1, <1>2, <2>3, <2>7, KeyPasses
<1>5. QED
  BY <1>3, <1>4 DEF K!Prepare

LEMMA EnsurePublicKeeps ==
  ASSUME KeyInv, K!EnsurePublic
  PROVE  KeyInv'
<1> DEFINE w == K!ToRepair
           pc == IF link = 0 THEN "link" ELSE "rotate"
<1>1. /\ kjoin \in KeyJoinRec /\ DiskTypes /\ Files2 /\ kjoin.pc = "public" /\ kjoin.pc \in Works
      /\ UNCHANGED <<priv, broken, link, minted, conf, kpointer, paste, lines, auth, kholder>>
      /\ pub' = IF w # 0 /\ pub[w] = 0 THEN [pub EXCEPT ![w] = priv[w]] ELSE pub
  BY DEF KeyInv, K!EnsurePublic, K!hub, Works, Stages, Waits
<1>2. pc \in Stages /\ K!Goto(pc)
  BY DEF K!EnsurePublic, Stages, Linked
<1>3. kjoin' \in KeyJoinRec /\ kjoin'.pc = pc
  BY <1>1, <1>2, KeyGoes
<1>4. IF link # 0 THEN K!Good(link) ELSE K!Versions # {} /\ K!Good(K!Newest)
  BY <1>1 DEF KeyInv, Knows2
<1>5. K!Good(w) /\ w \in K!Versions \ broken
  BY <1>4 DEF K!ToRepair, K!Good
<1>6. /\ K!Versions' = K!Versions /\ K!Newest' = K!Newest /\ \A v : K!Good(v)' <=> K!Good(v)
      /\ \A k : Kept(k)' <=> Kept(k)
  BY <1>1, SameKeys
<1>7. priv[w] \in 0..MaxKey /\ w \in K!Version
  BY <1>1, <1>5 DEF DiskTypes, K!Versions
<1> HIDE DEF w
<1>8. DiskTypes'
  BY <1>1, <1>6, <1>7 DEF DiskTypes
<1>9. Files2'
  BY <1>1, <1>5, <1>6, <1>7 DEF Files2, DiskTypes
<1>10. Knows2'
  <2>1. pc \notin Fills /\ pc \notin Writes /\ (pc = "link" => link = 0 /\ pc \notin Linked)
        /\ (pc = "rotate" => link # 0) /\ pc \in {"link", "rotate"}
    BY DEF Fills, Writes, Linked
  <2>2. pc = "link" => K!Versions # {} /\ K!Good(K!Newest)
    BY <1>4, <2>1
  <2>3. pc = "rotate" => K!Good(link)
    BY <1>4, <2>1
  <2> HIDE DEF pc
  <2>4. CASE pc = "link"
    BY <1>1, <1>3, <1>6, <2>1, <2>2, <2>4 DEF Knows2
  <2>5. CASE pc = "rotate"
    BY <1>1, <1>3, <1>6, <2>1, <2>3, <2>5 DEF Knows2, K!Good
  <2>6. QED
    BY <2>1, <2>4, <2>5
<1>11. lines[K!Me] # 0 => Kept(lines[K!Me])'
  BY <1>1, <1>6 DEF KeyInv, K!KeyKept, Kept
<1>12. QED
  BY <1>1, <1>3, <1>8, <1>9, <1>10, <1>11, KeyChanges

LEMMA RetireKeeps ==
  ASSUME KeyInv, K!Retire
  PROVE  KeyInv'
<1> DEFINE w == K!Newest
<1>1. /\ kjoin \in KeyJoinRec /\ DiskTypes /\ Files2 /\ kjoin.pc = "retire" /\ kjoin.pc \in Works
      /\ UNCHANGED <<pub, link, minted, conf, kpointer, paste, lines, auth, kholder>>
      /\ priv' = [priv EXCEPT ![w] = 0] /\ broken' = broken \ {w}
      /\ kjoin' = [kjoin EXCEPT !.pc = "retire-pub", !.v = w]
  BY DEF KeyInv, K!Retire, K!hub, Works, Stages, Waits
<1>2. link = 0 /\ K!Versions # {} /\ w \in broken /\ w \in K!Versions /\ w \in 0..MaxKey
  BY <1>1, Newest DEF KeyInv, Knows2
<1>3. kjoin' \in KeyJoinRec /\ kjoin'.pc = "retire-pub"
  BY <1>1, <1>2 DEF KeyJoinRec, Stages
<1> HIDE DEF w
<1>4. K!Versions' = K!Versions \ {w} /\ \A v \in K!Version : v # w => priv'[v] = priv[v]
  BY <1>1, <1>2 DEF K!Versions, DiskTypes
<1>5. DiskTypes'
  <2>1. 0 \in 0..MaxKey
    BY KeysAssumption
  <2>2. priv' \in [K!Version -> 0..MaxKey]
    BY <1>1, <2>1 DEF DiskTypes
  <2>3. QED
    BY <1>1, <1>2, <1>4, <2>2 DEF DiskTypes
<1>6. Files2'
  BY <1>1, <1>2, <1>4 DEF Files2, DiskTypes
<1>7. Knows2'
  BY <1>1, <1>2, <1>3 DEF Knows2, Linked, Fills, Writes
<1>8. lines[K!Me] # 0 => Kept(lines[K!Me])'
  <2>1. SUFFICES ASSUME lines[K!Me] # 0 PROVE Kept(lines[K!Me])'
    OBVIOUS
  <2>2. PICK v \in K!Versions \ broken : priv[v] = lines[K!Me]
    BY <2>1 DEF KeyInv, K!KeyKept
  <2>3. v \in K!Versions' \ broken' /\ priv'[v] = lines[K!Me] /\ lines' = lines
    BY <1>1, <1>2, <1>4, <2>2, Newest
  <2>4. QED
    BY <2>3 DEF Kept
<1>9. QED
  BY <1>1, <1>3, <1>5, <1>6, <1>7, <1>8, KeyChanges

LEMMA RetirePublicKeeps ==
  ASSUME KeyInv, K!RetirePublic
  PROVE  KeyInv'
<1>1. /\ kjoin \in KeyJoinRec /\ DiskTypes /\ Files2 /\ kjoin.pc = "retire-pub" /\ kjoin.pc \in Works
      /\ UNCHANGED <<priv, broken, link, minted, conf, kpointer, paste, lines, auth, kholder>>
      /\ pub' = [pub EXCEPT ![kjoin.v] = 0] /\ K!Goto("mint")
  BY DEF KeyInv, K!RetirePublic, K!hub, Works, Stages, Waits
<1>2. "mint" \in Stages
  BY DEF Stages
<1>3. kjoin' \in KeyJoinRec /\ kjoin'.pc = "mint" /\ link = 0
  BY <1>1, <1>2, KeyGoes DEF KeyInv, Knows2
<1>4. K!Versions' = K!Versions /\ \A k : Kept(k)' <=> Kept(k)
  BY <1>1, SameKeys
<1>5. DiskTypes'
  <2>1. 0 \in 0..MaxKey
    BY KeysAssumption
  <2>2. pub' \in [K!Version -> 0..MaxKey]
    BY <1>1, <2>1 DEF DiskTypes
  <2>3. QED
    BY <1>1, <1>4, <2>2 DEF DiskTypes
<1>6. \A v \in K!Version : pub'[v] = pub[v] \/ pub'[v] = 0
  BY <1>1 DEF DiskTypes
<1>7. Files2'
  BY <1>1, <1>4, <1>6 DEF Files2
<1>8. Knows2'
  BY <1>1, <1>3 DEF Knows2, Linked, Fills, Writes
<1>9. lines[K!Me] # 0 => Kept(lines[K!Me])'
  BY <1>1, <1>4 DEF KeyInv, K!KeyKept, Kept
<1>10. QED
  BY <1>1, <1>3, <1>5, <1>7, <1>8, <1>9, KeyChanges

\* A new version follows the newest one and the link.
LEMMA MintKeeps ==
  ASSUME KeyInv, K!Mint
  PROVE  KeyInv'
<1> DEFINE w == K!NextVersion
           pc == IF kjoin.pc = "mint" THEN "fill" ELSE "fill-staged"
<1>1. /\ kjoin \in KeyJoinRec /\ DiskTypes /\ Files2 /\ kjoin.pc \in {"mint", "mint-staged"}
      /\ kjoin.pc \in Works /\ minted < MaxKey /\ minted' = minted + 1
      /\ UNCHANGED <<pub, link, conf, kpointer, paste, lines, auth, kholder>>
      /\ priv' = [priv EXCEPT ![w] = minted'] /\ broken' = broken \cup {w}
      /\ kjoin' = [kjoin EXCEPT !.pc = pc, !.v = w]
  BY DEF KeyInv, K!Mint, K!hub, Works, Stages, Waits, Linked
<1>2. minted \in 0..MaxKey /\ minted' \in 0..MaxKey /\ minted' # 0
  BY <1>1, KeysAssumption DEF DiskTypes
<1>3. /\ w \in K!Version /\ w \notin K!Versions /\ w <= minted'
      /\ \A v \in K!Versions : v < w
  <2>1. CASE K!Versions = {}
    <3>1. w = 1
      BY <2>1 DEF K!NextVersion
    <3>2. QED
      BY <1>1, <1>2, <2>1, <3>1, KeysAssumption DEF K!Version
  <2>2. CASE K!Versions # {}
    <3>1. w = K!Newest + 1 /\ K!Newest \in K!Versions /\ K!Newest <= minted
      BY <1>1, <2>2, Newest DEF K!NextVersion, Files2
    <3>2. K!Newest \in 1..MaxKey /\ \A v \in K!Versions : v \in 1..MaxKey /\ v <= K!Newest
      BY <1>1, <2>2, Newest DEF K!Version
    <3> HIDE DEF w
    <3>3. w \in 1..MaxKey /\ w <= minted' /\ \A v \in K!Versions : v < w
      BY <1>1, <1>2, <3>1, <3>2, KeysAssumption
    <3>4. w \notin K!Versions
      BY <3>2, <3>3
    <3>5. QED
      BY <3>3, <3>4 DEF K!Version
  <2>3. QED
    BY <2>1, <2>2
<1> HIDE DEF w
<1>4. /\ K!Versions' = K!Versions \cup {w} /\ priv'[w] = minted'
      /\ \A v \in K!Version : v # w => priv'[v] = priv[v]
  BY <1>1, <1>2, <1>3 DEF K!Versions, DiskTypes
<1>5. DiskTypes'
  BY <1>1, <1>2, <1>3, <1>4 DEF DiskTypes
<1>6. kjoin' \in KeyJoinRec /\ kjoin'.pc = pc /\ kjoin'.v = w
  <2>1. w \in 0..MaxKey /\ pc \in Stages
    BY <1>1, <1>3, Newest DEF Stages, Linked
  <2> HIDE DEF pc
  <2>2. QED
    BY <1>1, <2>1 DEF KeyJoinRec
<1>7. w # 0 /\ link < w /\ w \notin broken /\ priv[w] = 0
  <2>1. w \in 1..MaxKey /\ link \in {0} \cup K!Versions /\ broken \subseteq K!Versions
    BY <1>1, <1>3 DEF DiskTypes, K!Version
  <2>2. QED
    BY <1>3, <2>1 DEF K!Versions
<1>8. pub[w] = 0
  <2>1. pub[w] # 0 => priv[w] = pub[w] \/ w < link
    BY <1>1, <1>3 DEF Files2
  <2>2. w \in Nat /\ link \in Nat
    BY <1>1, <1>3, KeysAssumption, Newest DEF DiskTypes
  <2>3. QED
    BY <1>7, <2>1, <2>2
<1>9. Files2'
  <2>1. \A v \in K!Versions' : v <= minted'
    BY <1>1, <1>2, <1>3, <1>4, Newest DEF Files2
  <2>2. ASSUME NEW v \in K!Version, pub'[v] # 0
        PROVE  v \notin broken' /\ (priv'[v] = pub'[v] \/ (priv'[v] = 0 /\ v < link'))
    <3>1. v # w /\ pub'[v] = pub[v] /\ priv'[v] = priv[v] /\ link' = link
      BY <1>1, <1>4, <1>8, <2>2
    <3>2. QED
      BY <1>1, <2>2, <3>1 DEF Files2
  <2>3. QED
    BY <2>1, <2>2 DEF Files2
<1>10. K!Newest' = w
  <2>1. w \in K!Versions' /\ \A v \in K!Versions' : v <= w
    BY <1>3, <1>4, <1>1, Newest
  <2>2. K!Versions' \in SUBSET (0..MaxKey) /\ MaxKey \in Nat
    BY <1>1, <1>3, <1>4, Newest, KeysAssumption
  <2>3. K!Newest' \in K!Versions' /\ w <= K!Newest'
    BY <2>1, <2>2, Greatest DEF K!Newest
  <2>4. K!Newest' <= w /\ K!Newest' \in Nat /\ w \in Nat
    BY <2>1, <2>2, <2>3
  <2>5. QED
    BY <2>3, <2>4
<1>11. Knows2'
  <2>1. kjoin.pc = "mint-staged" => link # 0 /\ K!Good(link)
    BY DEF KeyInv, Knows2, Linked
  <2>2. kjoin.pc = "mint" => link = 0
    BY DEF KeyInv, Knows2
  <2>3. link # 0 /\ K!Good(link) => K!Good(link)'
    BY <1>1, <1>3, <1>4 DEF K!Good
  <2>4. w \in K!Versions'
    BY <1>4
  <2>5. CASE kjoin.pc = "mint"
    BY <1>1, <1>6, <1>10, <2>2, <2>4, <2>5 DEF Knows2, Linked, Fills, Writes
  <2>6. CASE kjoin.pc = "mint-staged"
    BY <1>1, <1>6, <1>10, <2>1, <2>3, <2>4, <2>6 DEF Knows2, Linked, Fills, Writes
  <2>7. QED
    BY <1>1, <2>5, <2>6
<1>12. lines[K!Me] # 0 => Kept(lines[K!Me])'
  <2>1. SUFFICES ASSUME lines[K!Me] # 0 PROVE Kept(lines[K!Me])'
    OBVIOUS
  <2>2. PICK v \in K!Versions \ broken : priv[v] = lines[K!Me]
    BY <2>1 DEF KeyInv, K!KeyKept
  <2>3. v \in K!Versions' \ broken' /\ priv'[v] = lines[K!Me] /\ lines' = lines
    BY <1>1, <1>3, <1>4, <2>2, Newest
  <2>4. QED
    BY <2>3 DEF Kept
<1>13. QED
  BY <1>1, <1>5, <1>6, <1>9, <1>11, <1>12, KeyChanges

LEMMA FillKeeps ==
  ASSUME KeyInv, K!Fill
  PROVE  KeyInv'
<1> DEFINE w == kjoin.v
           pc == IF kjoin.pc = "fill" THEN "write-pub" ELSE "write-pub-staged"
<1>1. /\ kjoin \in KeyJoinRec /\ DiskTypes /\ Files2 /\ kjoin.pc \in Fills /\ kjoin.pc \in Works
      /\ UNCHANGED <<priv, pub, link, minted, conf, kpointer, paste, lines, auth, kholder>>
      /\ broken' = broken \ {w} /\ K!Goto(pc)
  BY DEF KeyInv, K!Fill, K!hub, Works, Stages, Waits, Linked, Fills
<1>2. pc \in Stages /\ pc \in Writes
  BY DEF Stages, Linked, Writes
<1>3. kjoin' \in KeyJoinRec /\ kjoin'.pc = pc /\ kjoin'.v = w
  BY <1>1, <1>2, KeyGoes
<1>4. /\ K!Versions # {} /\ w = K!Newest
      /\ kjoin.pc = "fill" => link = 0
      /\ kjoin.pc = "fill-staged" => link # 0 /\ K!Good(link)
  BY <1>1 DEF KeyInv, Knows2, Linked
<1> HIDE DEF w
<1>5. K!Versions' = K!Versions /\ K!Newest' = K!Newest
  BY <1>1 DEF K!Versions, K!Newest
<1>6. DiskTypes'
  BY <1>1, <1>5 DEF DiskTypes
<1>7. Files2'
  BY <1>1, <1>5 DEF Files2
<1>8. Knows2'
  <2>1. kjoin.pc = "fill-staged" => link' # 0 /\ K!Good(link)'
    BY <1>1, <1>4, <1>5 DEF K!Good
  <2>2. w \notin broken' /\ K!Versions' # {} /\ w = K!Newest' /\ (kjoin.pc = "fill" => link' = 0)
    BY <1>1, <1>4, <1>5
  <2>3. CASE kjoin.pc = "fill"
    BY <1>3, <2>2, <2>3 DEF Knows2, Linked, Fills, Writes
  <2>4. CASE kjoin.pc = "fill-staged"
    BY <1>3, <2>1, <2>2, <2>4 DEF Knows2, Linked, Fills, Writes
  <2>5. QED
    BY <1>1, <2>3, <2>4 DEF Fills
<1>9. lines[K!Me] # 0 => Kept(lines[K!Me])'
  BY <1>1, <1>5 DEF KeyInv, K!KeyKept, Kept
<1>10. QED
  BY <1>1, <1>3, <1>6, <1>7, <1>8, <1>9, KeyChanges

LEMMA WritePublicKeeps ==
  ASSUME KeyInv, K!WritePublic
  PROVE  KeyInv'
<1> DEFINE w == kjoin.v
           pc == IF kjoin.pc = "write-pub" THEN "link" ELSE "rotate"
<1>1. /\ kjoin \in KeyJoinRec /\ DiskTypes /\ Files2 /\ kjoin.pc \in Writes /\ kjoin.pc \in Works
      /\ UNCHANGED <<priv, broken, link, minted, conf, kpointer, paste, lines, auth, kholder>>
      /\ pub' = [pub EXCEPT ![w] = priv[w]] /\ K!Goto(pc)
  BY DEF KeyInv, K!WritePublic, K!hub, Works, Stages, Waits, Linked, Writes
<1>2. pc \in Stages
  BY DEF Stages, Linked
<1>3. kjoin' \in KeyJoinRec /\ kjoin'.pc = pc
  BY <1>1, <1>2, KeyGoes
<1>4. /\ K!Versions # {} /\ w = K!Newest /\ w \notin broken
      /\ kjoin.pc = "write-pub" => link = 0
      /\ kjoin.pc = "write-pub-staged" => link # 0 /\ K!Good(link)
  BY <1>1 DEF KeyInv, Knows2, Linked
<1> HIDE DEF w
<1>5. w \in K!Version /\ w \in K!Versions /\ priv[w] \in 0..MaxKey
  BY <1>1, <1>4, Newest DEF DiskTypes
<1>6. /\ K!Versions' = K!Versions /\ K!Newest' = K!Newest /\ \A v : K!Good(v)' <=> K!Good(v)
      /\ \A k : Kept(k)' <=> Kept(k)
  BY <1>1, SameKeys
<1>7. DiskTypes'
  BY <1>1, <1>5, <1>6 DEF DiskTypes
<1>8. Files2'
  BY <1>1, <1>4, <1>5, <1>6 DEF Files2, DiskTypes
<1>9. Knows2'
  <2>1. K!Good(w)
    BY <1>4, <1>5 DEF K!Good
  <2>2. CASE kjoin.pc = "write-pub"
    BY <1>1, <1>3, <1>4, <1>6, <2>1, <2>2 DEF Knows2, Linked, Fills, Writes
  <2>3. CASE kjoin.pc = "write-pub-staged"
    <3>1. K!Good(link)' /\ link' # 0
      BY <1>1, <1>4, <1>6, <2>3 DEF K!Good
    <3>2. QED
      BY <1>3, <3>1, <2>3 DEF Knows2, Linked, Fills, Writes
  <2>4. QED
    BY <1>1, <2>2, <2>3 DEF Writes
<1>10. lines[K!Me] # 0 => Kept(lines[K!Me])'
  BY <1>1, <1>6 DEF KeyInv, K!KeyKept, Kept
<1>11. QED
  BY <1>1, <1>3, <1>7, <1>8, <1>9, <1>10, KeyChanges

\* The link of a directory that has none, or of a staged key that is proven.
LEMMA Relinked ==
  ASSUME KeyInv, kjoin.pc \in Works, UNCHANGED <<priv, broken, pub, minted, conf, kpointer>>,
         UNCHANGED <<paste, lines, auth, kholder>>, kjoin' \in KeyJoinRec,
         link' \in K!Versions, link < link', Knows2'
  PROVE  KeyInv'
<1>1. DiskTypes /\ Files2 /\ K!Versions' = K!Versions
  BY DEF KeyInv, K!Versions
<1>2. DiskTypes'
  BY <1>1 DEF DiskTypes
<1>3. Files2'
  <2>1. \A v \in K!Version : v < link => v < link'
    <3>1. link \in Nat /\ link' \in Nat /\ K!Version \subseteq Nat
      BY <1>1, KeysAssumption, Newest DEF DiskTypes
    <3>2. QED
      BY <3>1
  <2>2. QED
    BY <1>1, <2>1 DEF Files2
<1>4. lines[K!Me] # 0 => Kept(lines[K!Me])'
  BY <1>1 DEF KeyInv, K!KeyKept, Kept
<1>5. QED
  BY <1>2, <1>3, <1>4, KeyChanges

LEMMA LinkKeeps ==
  ASSUME KeyInv, K!Link
  PROVE  KeyInv'
<1>1. /\ kjoin \in KeyJoinRec /\ DiskTypes /\ kjoin.pc = "link" /\ kjoin.pc \in Works
      /\ UNCHANGED <<priv, broken, pub, minted, conf, kpointer, paste, lines, auth, kholder>>
      /\ link' = K!Newest /\ K!Goto("rotate") /\ "rotate" \in Stages
  BY DEF KeyInv, K!Link, K!hub, Works, Stages, Waits, Linked
<1>2. kjoin' \in KeyJoinRec /\ kjoin'.pc = "rotate"
  BY <1>1, KeyGoes
<1>3. link = 0 /\ K!Versions # {} /\ K!Good(K!Newest) /\ K!Newest \in K!Versions
  BY <1>1, Newest DEF KeyInv, Knows2
<1>4. link' \in K!Versions /\ link < link' /\ link' # 0
  <2>1. link' \in 1..MaxKey
    BY <1>1, <1>3, Newest DEF K!Version
  <2>2. QED
    BY <1>1, <1>3, <2>1
<1>5. K!Good(link)'
  BY <1>1, <1>3 DEF K!Good, K!Versions
<1>6. Knows2'
  BY <1>2, <1>4, <1>5 DEF Knows2, Linked, Fills, Writes
<1>7. QED
  BY <1>1, <1>2, <1>4, <1>6, Relinked

LEMMA RotateKeeps ==
  ASSUME KeyInv, K!Rotate
  PROVE  KeyInv'
<1>1. /\ kjoin \in KeyJoinRec /\ DiskTypes /\ kjoin.pc = "rotate" /\ kjoin.pc \in Works
      /\ UNCHANGED <<priv, broken, pub, link, minted, conf, kpointer, paste, lines, auth, kholder>>
  BY DEF KeyInv, K!Rotate, K!disk, K!hub, Works, Stages, Waits, Linked
<1>2. conf' \in {"none", "pending", "joined"} /\ kpointer' \in BOOLEAN
  BY <1>1 DEF DiskTypes
<1>3. link # 0 /\ K!Good(link)
  BY <1>1 DEF KeyInv, Knows2, Linked
<1>4. link' # 0 /\ K!Good(link)' /\ K!Staged' = K!Staged
  BY <1>1, <1>3, SameKeys DEF K!Good, K!Versions
<1>5. CASE K!Goto("mint-staged")
  <2>1. "mint-staged" \in Stages
    BY DEF Stages, Linked
  <2>2. kjoin' \in KeyJoinRec /\ kjoin'.pc = "mint-staged"
    BY <1>1, <1>5, <2>1, KeyGoes
  <2>3. Knows2'
    BY <1>4, <2>2 DEF Knows2, Linked, Fills, Writes
  <2>4. QED
    BY <1>1, <1>2, <2>2, <2>3, KeyPasses
<1>6. CASE ~K!Goto("mint-staged")
  <2> DEFINE pc == IF K!Staged # 0 THEN "probe-staged" ELSE "probe"
             s == K!Staged
  <2>1. kjoin' = [K!Off EXCEPT !.staged = s, !.pc = pc]
    BY <1>6 DEF K!Rotate
  <2>2. s \in 0..MaxKey /\ 0 \in 0..MaxKey /\ pc \in Stages
    BY <1>1, StagedIs, KeysAssumption DEF Stages, Linked
  <2> HIDE DEF s
  <2>3. kjoin' \in KeyJoinRec /\ kjoin'.pc = pc /\ kjoin'.staged = s /\ ~kjoin'.proven
    <3> HIDE DEF pc
    <3>1. QED
      BY <2>1, <2>2 DEF K!Off, KeyJoinRec
  <2>4. s = K!Staged' /\ (pc = "probe-staged" => s # 0)
    BY <1>4 DEF s
  <2>5. Knows2'
    <3>1. pc \in {"probe-staged", "probe"}
      OBVIOUS
    <3> HIDE DEF pc
    <3>2. QED
      BY <1>4, <2>3, <2>4, <3>1 DEF Knows2, Linked, Fills, Writes
  <2>6. QED
    BY <1>1, <1>2, <2>3, <2>5, KeyPasses
<1>7. QED
  BY <1>5, <1>6

\* What the probe of a key says.
LEMMA Answer ==
  ASSUME NEW v, DiskTypes, K!Accepted(v)
  PROVE  lines[K!Me] = priv[v] /\ v \notin broken
BY DEF K!Accepted

LEMMA ProbeStagedKeeps ==
  ASSUME KeyInv, K!ProbeStaged
  PROVE  KeyInv'
<1>1. /\ kjoin \in KeyJoinRec /\ DiskTypes /\ kjoin.pc = "probe-staged" /\ kjoin.pc \in Works
      /\ UNCHANGED <<priv, broken, pub, link, minted, conf, kpointer, paste, lines, auth, kholder>>
  BY DEF KeyInv, K!ProbeStaged, K!disk, K!hub, Works, Stages, Waits, Linked
<1>2. conf' \in {"none", "pending", "joined"} /\ kpointer' \in BOOLEAN
  BY <1>1 DEF DiskTypes
<1>3. link # 0 /\ K!Good(link) /\ kjoin.staged = K!Staged /\ kjoin.staged # 0
      /\ ~kjoin.proven
  BY <1>1 DEF KeyInv, Knows2, Linked
<1>4. link' # 0 /\ K!Good(link)' /\ kjoin.staged = K!Staged'
  BY <1>1, <1>3, SameKeys DEF K!Good, K!Versions
<1>5. CASE K!Accepted(K!Staged) /\ kjoin' = [kjoin EXCEPT !.pc = "promote", !.proven = TRUE]
  <2>1. /\ kjoin' \in KeyJoinRec /\ kjoin'.pc = "promote" /\ kjoin'.staged = kjoin.staged
    BY <1>1, <1>5 DEF KeyJoinRec, Stages, Linked
  <2>2. lines[K!Me] = priv[kjoin.staged] /\ kjoin.staged \notin broken
    BY <1>1, <1>3, <1>5, Answer
  <2>3. Knows2'
    BY <1>1, <1>3, <1>4, <2>1, <2>2 DEF Knows2, Linked, Fills, Writes
  <2>4. QED
    BY <1>1, <1>2, <2>1, <2>3, KeyPasses
<1>6. CASE K!Goto("probe-active") \/ kjoin' = [kjoin EXCEPT !.pc = "probe-active", !.lost = TRUE]
  <2>1. /\ kjoin' \in KeyJoinRec /\ kjoin'.pc = "probe-active" /\ kjoin'.staged = kjoin.staged
        /\ kjoin'.proven = kjoin.proven
    BY <1>1, <1>6 DEF KeyJoinRec, Stages, Linked, K!Goto
  <2>2. Knows2'
    BY <1>1, <1>3, <1>4, <2>1 DEF Knows2, Linked, Fills, Writes
  <2>3. QED
    BY <1>1, <1>2, <2>1, <2>2, KeyPasses
<1>7. QED
  BY <1>5, <1>6 DEF K!ProbeStaged, K!Probe

\* Where a probe of the active key leads.
LEMMA AfterProbe ==
  ASSUME KeyInv, kjoin.pc \in Linked \cap Works,
         UNCHANGED <<priv, broken, pub, link, minted, conf, kpointer>>,
         UNCHANGED <<paste, lines, auth, kholder>>,
         NEW pc \in {"authorize", "print", "prune"}, K!Goto(pc),
         pc # "prune" => kjoin.staged = K!Staged /\ ~kjoin.proven,
         pc = "prune" => K!Accepted(link)
  PROVE  KeyInv'
<1>1. kjoin \in KeyJoinRec /\ DiskTypes /\ pc \in Stages
  BY DEF KeyInv, Stages, Linked
<1>2. /\ kjoin' \in KeyJoinRec /\ kjoin'.pc = pc /\ kjoin'.staged = kjoin.staged
      /\ kjoin'.proven = kjoin.proven
  BY <1>1, KeyGoes
<1>3. link # 0 /\ K!Good(link)
  BY DEF KeyInv, Knows2
<1>4. link' # 0 /\ K!Good(link)' /\ K!Staged' = K!Staged
  BY <1>3, SameKeys DEF K!Good, K!Versions
<1>5. pc = "prune" => lines'[K!Me] \in {0, priv'[link']}
  BY <1>1, Answer
<1>6. Knows2'
  BY <1>2, <1>4, <1>5 DEF Knows2, Linked, Fills, Writes
<1>7. conf' \in {"none", "pending", "joined"} /\ kpointer' \in BOOLEAN
  BY <1>1 DEF DiskTypes
<1>8. auth["ssh"].pc = "off" /\ paste = None /\ kjoin.pc # "off"
  BY AtWork
<1>9. QED
  BY <1>2, <1>6, <1>7, <1>8, KeyLooks

LEMMA ProbesKeep ==
  ASSUME KeyInv, K!ProbeActive \/ K!ProbeOnly \/ K!ProbeAgain
  PROVE  KeyInv'
<1>1. /\ DiskTypes /\ kjoin.pc \in {"probe-active", "probe", "probe-again"}
      /\ kjoin.pc \in Linked \cap Works /\ kjoin.pc # "off"
      /\ UNCHANGED <<priv, broken, pub, link, minted, conf, kpointer, paste, lines, auth, kholder>>
  BY DEF KeyInv, K!ProbeActive, K!ProbeOnly, K!ProbeAgain, K!disk, K!hub, Works, Stages, Waits, Linked
<1>2. conf' \in {"none", "pending", "joined"} /\ kpointer' \in BOOLEAN
  BY <1>1 DEF DiskTypes
<1>3. CASE K!End("failed")
  BY <1>1, <1>2, <1>3, KeyStops
<1>4. CASE K!ProbeActive /\ ~K!End("failed")
  <2>1. kjoin.staged = K!Staged /\ ~kjoin.proven
    BY <1>4 DEF K!ProbeActive, KeyInv, Knows2
  <2>2. K!Goto("authorize") \/ K!Goto("print")
    BY <1>4 DEF K!ProbeActive, K!Probe
  <2>3. QED
    BY <1>1, <2>1, <2>2, AfterProbe
<1>5. CASE K!ProbeOnly /\ ~K!End("failed")
  <2>1. (K!Accepted(link) /\ K!Goto("prune")) \/ K!Goto("authorize")
    BY <1>5 DEF K!ProbeOnly, K!Probe
  <2>2. kjoin.staged = K!Staged /\ ~kjoin.proven
    BY <1>5 DEF K!ProbeOnly, KeyInv, Knows2
  <2>3. QED
    BY <1>1, <2>1, <2>2, AfterProbe
<1>6. CASE K!ProbeAgain /\ ~K!End("failed")
  <2>1. K!Accepted(link) /\ K!Goto("prune")
    BY <1>6 DEF K!ProbeAgain, K!Probe
  <2>2. QED
    BY <1>1, <2>1, AfterProbe
<1>7. QED
  BY <1>3, <1>4, <1>5, <1>6

\* The key that a join offers to the hub is one it can read.
LEMMA OfferedKept ==
  ASSUME KeyInv, kjoin.pc \in {"authorize", "print"}, ~K!NoPublic
  PROVE  /\ Kept(pub[K!Offered]) /\ pub[K!Offered] \in 0..MaxKey
         /\ kjoin.staged # 0 => kjoin.staged \notin broken
<1> DEFINE w == K!Offered
<1>1. DiskTypes /\ Files2 /\ link # 0 /\ K!Good(link) /\ kjoin.staged = K!Staged
  BY DEF KeyInv, Knows2, Linked
<1>2. w \in K!Versions /\ pub[w] # 0 /\ w \in K!Version
  BY <1>1, StagedIs DEF K!Offered, K!Good, K!NoPublic, K!Versions
<1>3. kjoin.staged # 0 => w = kjoin.staged
  BY DEF K!Offered
<1> HIDE DEF w
<1>4. w \notin broken /\ priv[w] = pub[w]
  BY <1>1, <1>2 DEF Files2, K!Versions
<1>5. pub[w] \in 0..MaxKey /\ Kept(pub[w])
  BY <1>1, <1>2, <1>4 DEF DiskTypes, Kept
<1>6. QED
  BY <1>3, <1>4, <1>5 DEF w

LEMMA PrintPasteKeeps ==
  ASSUME KeyInv, K!PrintPaste
  PROVE  KeyInv'
<1>1. /\ kjoin \in KeyJoinRec /\ DiskTypes /\ AuthTypes /\ kjoin.pc = "print"
      /\ UNCHANGED <<priv, broken, pub, link, minted, conf, kpointer, lines, auth, kholder>>
  BY DEF KeyInv, K!PrintPaste, K!disk, K!hub
<1>2. conf' \in {"none", "pending", "joined"} /\ kpointer' \in BOOLEAN
  BY <1>1 DEF DiskTypes
<1>3. CASE K!End("failed") /\ UNCHANGED paste
  BY <1>1, <1>2, <1>3, KeyStops
<1>4. CASE ~K!NoPublic /\ paste' = [key |-> pub[K!Offered], replace |-> K!Replace] /\ K!Goto("incomplete")
  <2>1. "incomplete" \in Stages
    BY DEF Stages, Linked
  <2>2. kjoin' \in KeyJoinRec /\ kjoin'.pc = "incomplete"
    BY <1>1, <1>4, <2>1, KeyGoes
  <2>3. Kept(pub[K!Offered]) /\ pub[K!Offered] \in 0..MaxKey
    BY <1>1, <1>4, OfferedKept
  <2>4. K!Replace \in BOOLEAN
    BY DEF K!Replace
  <2>5. /\ Kept(paste'.key) /\ paste'.key \in 0..MaxKey /\ paste'.replace \in BOOLEAN
    BY <1>4, <2>3, <2>4
  <2>6. K!Versions' = K!Versions /\ link' # 0 /\ K!Good(link)' /\ \A k : Kept(k)' <=> Kept(k)
    BY <1>1, SameKeys DEF KeyInv, Knows2, Linked, K!Good, K!Versions
  <2>7. DiskTypes' /\ AuthTypes' /\ Files2'
    BY <1>1, <2>6 DEF KeyInv, DiskTypes, AuthTypes, Files2
  <2>8. Knows2'
    BY <2>2, <2>6 DEF Knows2, Linked, Fills, Writes
  <2>9. auth["operator"].pc = "off"
    BY <1>1 DEF KeyInv, Underway
  <2>10. Underway'
    <3>1. /\ auth["ssh"].pc # "off" => Kept(auth["ssh"].key)
          /\ auth["peer"].pc # "off" => auth["peer"].key = 1
      BY DEF KeyInv, Underway
    <3>2. Kept(paste.key)' /\ (auth["ssh"].pc # "off" => Kept(auth["ssh"].key)')
      BY <1>1, <2>5, <3>1 DEF Kept, K!Versions
    <3>3. QED
      BY <1>1, <2>2, <2>5, <2>9, <3>1, <3>2 DEF Underway, Waits
  <2>11. (\A z \in K!Authorizer : Alone2(z)) => (\A z \in K!Authorizer : Alone2(z)')
    BY <1>1 DEF Alone2
  <2>12. K!KeyKept' /\ K!PeerKept'
    BY <1>1, <2>6 DEF KeyInv, K!KeyKept, K!PeerKept
  <2>13. QED
    BY <2>2, <2>7, <2>8, <2>10, <2>11, <2>12 DEF KeyInv
<1>5. QED
  BY <1>3, <1>4 DEF K!PrintPaste

\* A session of hub authorize that starts.
LEMMA CallIs ==
  ASSUME AuthTypes, NEW z \in K!Authorizer, NEW key \in 0..MaxKey, NEW replace \in BOOLEAN,
         K!Calls(z, key, replace)
  PROVE  /\ auth' \in [K!Authorizer -> AuthRec] /\ auth'[z].pc = "lock" /\ auth'[z].key = key
         /\ auth'[z].out = "none" /\ \A y \in K!Authorizer \ {z} : auth'[y] = auth[y]
<1> DEFINE r == [K!Asleep EXCEPT !.pc = "lock", !.key = key, !.replace = replace]
<1>1. K!Asleep.read \in [Agents -> 0..MaxKey]
  BY KeysAssumption DEF K!Asleep, Agents
<1>2. r \in AuthRec /\ r.pc = "lock" /\ r.key = key /\ r.out = "none"
  BY <1>1 DEF K!Asleep, AuthRec
<1>3. auth' = [auth EXCEPT ![z] = r]
  BY DEF K!Calls
<1> HIDE DEF r
<1>4. QED
  BY <1>2, <1>3 DEF AuthTypes

LEMMA AuthorizeKeeps ==
  ASSUME KeyInv, K!Authorize
  PROVE  KeyInv'
<1>1. /\ kjoin \in KeyJoinRec /\ DiskTypes /\ AuthTypes /\ kjoin.pc = "authorize"
      /\ kjoin.pc \in Linked \cap Works
      /\ UNCHANGED <<priv, broken, pub, link, minted, conf, kpointer, paste, lines, kholder>>
  BY DEF KeyInv, K!Authorize, K!disk, Works, Stages, Waits, Linked
<1>2. conf' \in {"none", "pending", "joined"} /\ kpointer' \in BOOLEAN
  BY <1>1 DEF DiskTypes
<1>3. /\ auth["operator"].pc = "off" /\ auth["ssh"].pc = "off" /\ paste = None /\ kjoin.pc # "off"
      /\ kjoin.staged = K!Staged /\ ~kjoin.proven
  BY <1>1, AtWork DEF KeyInv, Knows2
<1>4. CASE K!End("failed") /\ UNCHANGED auth
  BY <1>1, <1>2, <1>3, <1>4, KeyStops
<1>5. CASE K!Goto("print") /\ UNCHANGED auth
  BY <1>1, <1>3, <1>5, AfterProbe
<1>6. CASE ~K!NoPublic /\ K!Calls("ssh", pub[K!Offered], K!Replace) /\ K!Goto("authorizing")
  <2>1. "authorizing" \in Stages /\ K!Replace \in BOOLEAN /\ "ssh" \in K!Authorizer
    BY DEF Stages, Linked, K!Replace, K!Authorizer
  <2>2. /\ kjoin' \in KeyJoinRec /\ kjoin'.pc = "authorizing" /\ kjoin'.staged = kjoin.staged
        /\ kjoin'.proven = kjoin.proven
    BY <1>1, <1>6, <2>1, KeyGoes
  <2>3. /\ Kept(pub[K!Offered]) /\ pub[K!Offered] \in 0..MaxKey
        /\ kjoin.staged # 0 => kjoin.staged \notin broken
    BY <1>1, <1>6, OfferedKept
  <2>4. /\ auth' \in [K!Authorizer -> AuthRec] /\ auth'["ssh"].pc = "lock"
        /\ auth'["ssh"].key = pub[K!Offered]
        /\ \A y \in K!Authorizer \ {"ssh"} : auth'[y] = auth[y]
    BY <1>1, <1>6, <2>1, <2>3, CallIs
  <2>5. /\ K!Versions' = K!Versions /\ link' # 0 /\ K!Good(link)' /\ K!Staged' = K!Staged
        /\ \A k : Kept(k)' <=> Kept(k)
    BY <1>1, SameKeys DEF KeyInv, Knows2, K!Good, K!Versions
  <2>6. DiskTypes' /\ AuthTypes' /\ Files2'
    BY <1>1, <2>4, <2>5 DEF KeyInv, DiskTypes, AuthTypes, Files2
  <2>7. Knows2'
    BY <1>1, <1>3, <2>2, <2>3, <2>5 DEF Knows2, Linked, Fills, Writes
  <2>8. auth'["operator"] = auth["operator"] /\ auth'["peer"] = auth["peer"]
    BY <2>4 DEF K!Authorizer
  <2>9. Underway'
    <3>1. Kept(auth["ssh"].key)'
      BY <1>1, <2>3, <2>4 DEF Kept, K!Versions
    <3>2. QED
      BY <1>1, <1>3, <2>2, <2>8, <3>1 DEF KeyInv, Underway
  <2>10. ASSUME NEW z \in K!Authorizer PROVE Alone2(z)'
    BY <1>1, <2>4 DEF KeyInv, Alone2
  <2>11. K!KeyKept' /\ K!PeerKept'
    BY <1>1, <2>5, <2>8 DEF KeyInv, K!KeyKept, K!PeerKept
  <2>12. QED
    BY <2>2, <2>6, <2>7, <2>9, <2>10, <2>11 DEF KeyInv
<1>7. QED
  BY <1>4, <1>5, <1>6 DEF K!Authorize

LEMMA AuthorizedKeeps ==
  ASSUME KeyInv, K!Authorized
  PROVE  KeyInv'
<1>1. /\ kjoin \in KeyJoinRec /\ DiskTypes /\ kjoin.pc = "authorizing" /\ kjoin.pc # "off"
      /\ UNCHANGED <<priv, broken, pub, link, minted, conf, kpointer, paste, lines, auth, kholder>>
  BY DEF KeyInv, K!Authorized, K!disk, K!hub
<1>2. conf' \in {"none", "pending", "joined"} /\ kpointer' \in BOOLEAN
  BY <1>1 DEF DiskTypes
<1>3. /\ link # 0 /\ K!Good(link) /\ kjoin.staged = K!Staged /\ paste = None
      /\ kjoin.staged # 0 => kjoin.staged \notin broken
  BY <1>1 DEF KeyInv, Knows2, Linked, Underway, Waits
<1>4. link' # 0 /\ K!Good(link)' /\ K!Staged' = K!Staged
  BY <1>1, <1>3, SameKeys DEF K!Good, K!Versions
<1>5. CASE K!End("failed")
  BY <1>1, <1>2, <1>5, KeyStops
<1>6. CASE K!Goto("print")
  <2>1. "print" \in Stages
    BY DEF Stages, Linked
  <2>2. kjoin' \in KeyJoinRec /\ kjoin'.pc = "print" /\ kjoin'.staged = kjoin.staged
    BY <1>1, <1>6, <2>1, KeyGoes
  <2>3. Knows2'
    BY <1>3, <1>4, <2>2 DEF Knows2, Linked, Fills, Writes
  <2>4. QED
    BY <1>1, <1>2, <1>3, <2>2, <2>3, KeyLooks
<1>7. CASE auth["ssh"].pc = "off" /\ K!Goto(IF kjoin.staged # 0 THEN "promote" ELSE "probe-again")
  <2> DEFINE pc == IF kjoin.staged # 0 THEN "promote" ELSE "probe-again"
  <2>1. pc \in Stages /\ pc \in {"promote", "probe-again"} /\ (pc = "promote" => kjoin.staged # 0)
    BY DEF Stages, Linked
  <2>2. K!Goto(pc)
    BY <1>7
  <2> HIDE DEF pc
  <2>3. /\ kjoin' \in KeyJoinRec /\ kjoin'.pc = pc /\ kjoin'.staged = kjoin.staged
        /\ kjoin'.proven = kjoin.proven
    BY <1>1, <2>1, <2>2, KeyGoes
  <2>4. ~kjoin.proven
    BY <1>1 DEF KeyInv, Knows2
  <2>5. Knows2'
    BY <1>1, <1>3, <1>4, <2>1, <2>3, <2>4 DEF Knows2, Linked, Fills, Writes
  <2>6. QED
    BY <1>1, <1>2, <1>3, <1>7, <2>3, <2>5, KeyLooks
<1>8. QED
  BY <1>5, <1>6, <1>7 DEF K!Authorized

LEMMA PromoteKeeps ==
  ASSUME KeyInv, K!Promote
  PROVE  KeyInv'
<1> DEFINE pc == IF kjoin.proven THEN "prune" ELSE "probe-again"
<1>1. /\ kjoin \in KeyJoinRec /\ DiskTypes /\ AuthTypes /\ kjoin.pc = "promote" /\ kjoin.pc \in Works
      /\ UNCHANGED <<priv, broken, pub, minted, conf, kpointer, paste, lines, auth, kholder>>
      /\ link' = kjoin.staged /\ K!Goto(pc)
  BY DEF KeyInv, K!Promote, K!hub, Works, Stages, Waits, Linked
<1>2. /\ kjoin.staged = K!Staged /\ kjoin.staged # 0 /\ kjoin.staged \notin broken
      /\ kjoin.proven => lines[K!Me] \in {0, priv[kjoin.staged]}
  BY <1>1 DEF KeyInv, Knows2
<1>3. link' \in K!Versions /\ link' > link /\ link' # 0
  BY <1>1, <1>2, StagedIs
<1>4. link < link'
  <2>1. link \in Nat /\ link' \in Nat
    BY <1>1, <1>3, Newest, KeysAssumption DEF DiskTypes
  <2>2. QED
    BY <1>3, <2>1
<1>5. pc \in Stages /\ pc \in {"prune", "probe-again"} /\ (pc = "prune" => kjoin.proven)
  BY DEF Stages, Linked
<1> HIDE DEF pc
<1>6. kjoin' \in KeyJoinRec /\ kjoin'.pc = pc
  BY <1>1, <1>5, KeyGoes
<1>7. K!Good(link)'
  BY <1>1, <1>2, <1>3 DEF K!Good, K!Versions
<1>8. Knows2'
  BY <1>1, <1>2, <1>3, <1>5, <1>6, <1>7 DEF Knows2, Linked, Fills, Writes
<1>9. QED
  BY <1>1, <1>3, <1>4, <1>6, <1>8, Relinked

\* Only versions behind the link go, and the link's key is the one that the hub
\* has authorized.
LEMMA PruneKeeps ==
  ASSUME KeyInv, K!Prune
  PROVE  KeyInv'
<1> DEFINE w == K!Min(K!Old)
<1>1. /\ kjoin \in KeyJoinRec /\ DiskTypes /\ Files2 /\ kjoin.pc = "prune" /\ kjoin.pc \in Works
      /\ kjoin.pc \in Linked
      /\ UNCHANGED <<link, minted, conf, kpointer, paste, lines, auth, kholder>>
  BY DEF KeyInv, K!Prune, K!hub, Works, Stages, Waits, Linked
<1>2. /\ link # 0 /\ K!Good(link) /\ link \in K!Versions /\ link \notin broken
      /\ lines[K!Me] \in {0, priv[link]}
  BY <1>1 DEF KeyInv, Knows2, K!Good
<1>3. conf' \in {"none", "pending", "joined"} /\ kpointer' \in BOOLEAN
  BY <1>1 DEF DiskTypes
<1>4. CASE K!Old = {}
  <2>1. K!Goto("config") /\ "config" \in Stages /\ UNCHANGED <<priv, broken, pub>>
    BY <1>4 DEF K!Prune, Stages, Linked
  <2>2. kjoin' \in KeyJoinRec /\ kjoin'.pc = "config"
    BY <1>1, <2>1, KeyGoes
  <2>3. link' # 0 /\ K!Good(link)'
    BY <1>1, <1>2, <2>1 DEF K!Good, K!Versions
  <2>4. Knows2'
    BY <2>2, <2>3 DEF Knows2, Linked, Fills, Writes
  <2>5. QED
    BY <1>1, <1>3, <2>1, <2>2, <2>4, KeyPasses
<1>5. CASE K!Old # {}
  <2>1. K!Old \subseteq 0..MaxKey /\ MaxKey \in Nat
    BY <1>1, Newest, KeysAssumption DEF K!Old
  <2>2. w \in K!Old
    <3>1. K!Old \subseteq Nat
      BY <2>1
    <3>2. \E x \in K!Old : \A y \in K!Old : x <= y
      BY <1>5, <3>1, Least
    <3>3. QED
      BY <3>2 DEF K!Min
  <2>3. w \in K!Version /\ w < link /\ w # link
    <3>1. w \in K!Version /\ w < link
      BY <2>2 DEF K!Old
    <3>2. w \in Nat /\ link \in Nat
      BY <1>1, <1>2, <3>1, Newest, KeysAssumption
    <3>3. QED
      BY <3>1, <3>2
  <2>4. IF priv[w] # 0
          THEN /\ priv' = [priv EXCEPT ![w] = 0] /\ broken' = broken \ {w}
               /\ kjoin' = [kjoin EXCEPT !.v = w] /\ pub' = pub
          ELSE pub' = [pub EXCEPT ![w] = 0] /\ UNCHANGED <<priv, broken, kjoin>>
    BY <1>5 DEF K!Prune
  <2> HIDE DEF w
  <2>5. 0 \in 0..MaxKey /\ w \in 0..MaxKey
    BY <1>1, <2>3, Newest, KeysAssumption
  <2>6. /\ priv' \in [K!Version -> 0..MaxKey] /\ pub' \in [K!Version -> 0..MaxKey]
        /\ priv'[link] = priv[link]
        /\ \A v \in K!Version : v # w => priv'[v] = priv[v] /\ pub'[v] = pub[v]
    <3>1. priv \in [K!Version -> 0..MaxKey] /\ pub \in [K!Version -> 0..MaxKey]
      BY <1>1 DEF DiskTypes
    <3>2. link \in K!Version /\ link # w
      BY <1>1, <1>2, <2>3, Newest
    <3>3. CASE priv[w] # 0
      BY <2>3, <2>4, <2>5, <3>1, <3>2, <3>3
    <3>4. CASE priv[w] = 0
      BY <2>3, <2>4, <2>5, <3>1, <3>2, <3>4
    <3>5. QED
      BY <3>3, <3>4
  <2>7. /\ broken' = broken \/ broken' = broken \ {w}
        /\ K!Versions' \subseteq K!Versions
        /\ \A v \in K!Versions : v # w => v \in K!Versions'
        /\ priv' = priv \/ (broken' = broken \ {w} /\ priv'[w] = 0)
    <3>1. priv'[w] = priv[w] \/ priv'[w] = 0
      BY <1>1, <2>3, <2>4 DEF DiskTypes
    <3>2. K!Versions' \subseteq K!Versions /\ \A v \in K!Versions : v # w => v \in K!Versions'
      BY <2>6, <3>1 DEF K!Versions
    <3>3. priv' = priv \/ (broken' = broken \ {w} /\ priv'[w] = 0)
      BY <1>1, <2>3, <2>4 DEF DiskTypes
    <3>4. QED
      BY <2>4, <3>2, <3>3
  <2>8. link \in K!Versions' /\ link \notin broken'
    BY <1>2, <2>3, <2>7
  <2>9. DiskTypes'
    <3>1. broken' \subseteq K!Versions'
      <4>1. CASE priv' = priv
        BY <1>1, <2>7, <4>1 DEF DiskTypes, K!Versions
      <4>2. CASE broken' = broken \ {w}
        BY <1>1, <2>7, <4>2 DEF DiskTypes
      <4>3. QED
        BY <2>7, <4>1, <4>2
    <3>2. QED
      BY <1>1, <1>3, <2>6, <2>8, <3>1 DEF DiskTypes
  <2>10. Files2'
    <3>1. \A v \in K!Versions' : v <= minted'
      BY <1>1, <2>7 DEF Files2
    <3>2. ASSUME NEW v \in K!Version, pub'[v] # 0
          PROVE  v \notin broken' /\ (priv'[v] = pub'[v] \/ (priv'[v] = 0 /\ v < link'))
      <4>1. broken' \subseteq broken /\ link' = link
        BY <1>1, <2>7
      <4>2. CASE v # w
        BY <1>1, <2>6, <3>2, <4>1, <4>2 DEF Files2
      <4>3. CASE v = w
        <5>1. pub' = pub /\ priv' = [priv EXCEPT ![w] = 0]
          BY <1>1, <2>3, <2>4, <3>2, <4>3 DEF DiskTypes
        <5>2. v \notin broken /\ priv'[v] = 0
          BY <1>1, <2>3, <3>2, <4>3, <5>1 DEF Files2, DiskTypes
        <5>3. QED
          BY <2>3, <4>1, <4>3, <5>2
      <4>4. QED
        BY <4>2, <4>3
    <3>3. QED
      BY <3>1, <3>2 DEF Files2
  <2>11. kjoin' \in KeyJoinRec /\ kjoin'.pc = "prune"
    BY <1>1, <2>4, <2>5 DEF KeyJoinRec
  <2>12. K!Good(link)' /\ link' # 0 /\ lines'[K!Me] \in {0, priv'[link']}
    BY <1>1, <1>2, <2>6, <2>8 DEF K!Good
  <2>13. Knows2'
    BY <2>11, <2>12 DEF Knows2, Linked, Fills, Writes
  <2>14. lines[K!Me] # 0 => Kept(lines[K!Me])'
    <3>1. lines[K!Me] # 0 => priv'[link] = lines[K!Me] /\ lines' = lines
      BY <1>1, <1>2, <2>6
    <3>2. QED
      BY <2>8, <3>1 DEF Kept
  <2>15. QED
    BY <1>1, <2>9, <2>10, <2>11, <2>13, <2>14, KeyChanges
<1>6. QED
  BY <1>4, <1>5

LEMMA RecordKeeps ==
  ASSUME KeyInv, K!WriteConfig \/ K!WritePointer \/ K!Killed
  PROVE  KeyInv'
<1>1. /\ kjoin \in KeyJoinRec /\ DiskTypes /\ kjoin.pc # "off"
      /\ UNCHANGED <<priv, broken, pub, link, minted, paste, lines, auth, kholder>>
  BY DEF KeyInv, K!WriteConfig, K!WritePointer, K!Killed, K!disk, K!hub
<1>2. conf' \in {"none", "pending", "joined"} /\ kpointer' \in BOOLEAN
  BY <1>1 DEF DiskTypes, K!WriteConfig, K!WritePointer, K!Killed, K!disk
<1>3. CASE \E out \in {"failed", "killed", "joined", "incomplete"} : K!End(out)
  BY <1>1, <1>2, <1>3, KeyStops
<1>4. CASE K!WriteConfig /\ ~(\E out \in {"failed", "killed", "joined", "incomplete"} : K!End(out))
  <2>1. PICK pc \in {"point", "point-incomplete"} :
          /\ K!Goto(pc) /\ kjoin.pc = IF pc = "point" THEN "config" ELSE "incomplete"
    BY <1>4 DEF K!WriteConfig
  <2>2. pc \in Stages /\ kjoin.pc \in Linked
    BY <2>1 DEF Stages, Linked
  <2>3. kjoin' \in KeyJoinRec /\ kjoin'.pc = pc
    BY <1>1, <2>1, <2>2, KeyGoes
  <2>4. link' # 0 /\ K!Good(link)'
    BY <1>1, <2>2 DEF KeyInv, Knows2, K!Good, K!Versions
  <2>5. Knows2'
    BY <2>3, <2>4 DEF Knows2, Linked, Fills, Writes
  <2>6. CASE pc = "point"
    <3>1. kjoin.pc \in Works
      BY <2>1, <2>6 DEF Works, Stages, Linked, Waits
    <3>2. QED
      BY <1>1, <1>2, <2>3, <2>5, <3>1, KeyPasses
  <2>7. CASE pc = "point-incomplete"
    BY <1>1, <1>2, <2>3, <2>5, <2>7, KeyLooks DEF Waits
  <2>8. QED
    BY <2>6, <2>7
<1>5. QED
  BY <1>3, <1>4 DEF K!WritePointer, K!Killed

LEMMA KeyStartKeeps ==
  ASSUME KeyInv, NEW rotate \in BOOLEAN, K!Start(rotate)
  PROVE  KeyInv'
<1> DEFINE r == [K!Off EXCEPT !.pc = "prepare", !.rotate = rotate]
<1>1. /\ DiskTypes /\ AuthTypes /\ kjoin.pc = "off"
      /\ auth["ssh"].pc = "off" /\ auth["operator"].pc = "off" /\ paste' = None
      /\ kjoin' = r /\ auth' = [auth EXCEPT !["ssh"] = K!Asleep]
      /\ UNCHANGED <<priv, broken, pub, link, minted, conf, kpointer, lines, kholder>>
  BY DEF KeyInv, K!Start, K!disk
<1>2. r \in KeyJoinRec /\ r.pc = "prepare"
  <2>1. 0 \in 0..MaxKey /\ "prepare" \in Stages
    BY KeysAssumption DEF Stages
  <2>2. QED
    BY <2>1 DEF K!Off, KeyJoinRec
<1> HIDE DEF r
<1>3. K!Asleep \in AuthRec /\ K!Asleep.pc = "off"
  BY KeysAssumption DEF K!Asleep, AuthRec, Agents
<1>4. /\ auth' \in [K!Authorizer -> AuthRec] /\ auth'["ssh"].pc = "off"
      /\ \A y \in K!Authorizer \ {"ssh"} : auth'[y] = auth[y]
  BY <1>1, <1>3 DEF AuthTypes, K!Authorizer
<1>5. auth'["operator"] = auth["operator"] /\ auth'["peer"] = auth["peer"]
  BY <1>4 DEF K!Authorizer
<1>6. K!Versions' = K!Versions /\ \A k : Kept(k)' <=> Kept(k)
  BY <1>1, SameKeys
<1>7. DiskTypes' /\ AuthTypes' /\ Files2'
  BY <1>1, <1>4, <1>6 DEF KeyInv, DiskTypes, AuthTypes, Files2
<1>8. Knows2'
  BY <1>1, <1>2, KnowsNothing
<1>9. Underway'
  BY <1>1, <1>4, <1>5 DEF KeyInv, Underway
<1>10. ASSUME NEW z \in K!Authorizer PROVE Alone2(z)'
  BY <1>1, <1>4 DEF KeyInv, Alone2
<1>11. K!KeyKept' /\ K!PeerKept'
  BY <1>1, <1>5, <1>6 DEF KeyInv, K!KeyKept, K!PeerKept
<1>12. QED
  BY <1>1, <1>2, <1>7, <1>8, <1>9, <1>10, <1>11 DEF KeyInv

-----------------------------------------------------------------------------
(* The keys: the sessions of hub authorize, and what else happens on the hub *)

\* A session changes nothing of the machine that joins.
LEMMA SessionKeeps ==
  ASSUME KeyInv, NEW z \in K!Authorizer, NEW r \in AuthRec, auth' = [auth EXCEPT ![z] = r],
         UNCHANGED <<priv, broken, pub, link, minted, conf, kpointer, kjoin, paste>>,
         r.pc # "off" => r.key = auth[z].key /\ auth[z].pc # "off",
         lines' \in [Agents -> 0..MaxKey], kholder' \in K!Authorizer \cup {None},
         \A y \in K!Authorizer : Alone2(y)',
         lines'[K!Me] \in {0, lines[K!Me]} \/ (kjoin.pc \notin {"promote", "prune"} /\ Kept(lines'[K!Me])),
         K!PeerKept'
  PROVE  KeyInv'
<1>1. /\ DiskTypes /\ AuthTypes /\ Underway /\ Knows2
      /\ auth' \in [K!Authorizer -> AuthRec] /\ auth'[z] = r
      /\ \A y \in K!Authorizer \ {z} : auth'[y] = auth[y]
  BY DEF KeyInv, AuthTypes
<1>2. /\ K!Versions' = K!Versions /\ K!Newest' = K!Newest /\ K!Staged' = K!Staged
      /\ \A v : K!Good(v)' <=> K!Good(v)
      /\ \A k : Kept(k)' <=> Kept(k)
  BY SameKeys
<1>3. DiskTypes' /\ AuthTypes' /\ Files2' /\ kjoin' \in KeyJoinRec
  BY <1>1, <1>2 DEF KeyInv, DiskTypes, AuthTypes, Files2
<1>4. Knows2'
  <2>1. K!Good(link)' <=> K!Good(link)
    BY <1>2 DEF K!Good
  <2>2. K!Good(K!Newest)' <=> K!Good(K!Newest)
    BY <1>2 DEF K!Good
  <2>3. /\ kjoin.pc = "promote" /\ kjoin.proven => lines'[K!Me] \in {0, priv[kjoin.staged]}
        /\ kjoin.pc = "prune" => lines'[K!Me] \in {0, priv[link]}
    BY <1>1 DEF Knows2
  <2>4. QED
    BY <1>1, <1>2, <2>1, <2>2, <2>3 DEF Knows2
<1>5. Underway'
  <2>1. \A y \in K!Authorizer : auth'[y].pc # "off" => auth'[y].key = auth[y].key /\ auth[y].pc # "off"
    BY <1>1
  <2>2. {"ssh", "operator", "peer"} \subseteq K!Authorizer
    BY DEF K!Authorizer
  <2>3. \A k, l : k = l => (Kept(l) => Kept(k))
    OBVIOUS
  <2>4. auth'["ssh"].pc # "off" => Kept(auth["ssh"].key)'
    BY <1>1, <1>2, <2>1, <2>2 DEF Underway, Kept
  <2>5. auth'["operator"].pc # "off" => Kept(auth["operator"].key)'
    BY <1>1, <1>2, <2>1, <2>2 DEF Underway, Kept
  <2>6. paste # None => Kept(paste.key)'
    BY <1>1, <1>2 DEF Underway, Kept
  <2>7. QED
    BY <1>1, <2>1, <2>2, <2>4, <2>5, <2>6 DEF Underway
<1>6. K!KeyKept'
  <2>1. lines'[K!Me] # 0 => Kept(lines'[K!Me])
    BY DEF KeyInv, K!KeyKept, Kept
  <2>2. QED
    BY <1>2, <2>1 DEF K!KeyKept, Kept
<1>7. QED
  BY <1>3, <1>4, <1>5, <1>6 DEF KeyInv

LEMMA SessionsKeep ==
  ASSUME KeyInv, NEW z \in K!Authorizer, K!AuthStep(z) \/ K!AuthKilled(z)
  PROVE  KeyInv'
<1>1. /\ AuthTypes /\ auth[z] \in AuthRec /\ z # None /\ None \notin K!Authorizer
      /\ \A y \in K!Authorizer : Alone2(y)
      /\ UNCHANGED <<priv, broken, pub, link, minted, conf, kpointer, kjoin, paste>>
  BY KeysAssumption DEF KeyInv, AuthTypes, K!AuthStep, K!AuthLock, K!AuthRead, K!AuthWrite,
     K!AuthKilled, K!disk
<1>2. ASSUME NEW o \in {"none", "ok", "refused"}
      PROVE  /\ [K!Asleep EXCEPT !.out = o] \in AuthRec
             /\ [K!Asleep EXCEPT !.out = o].pc = "off" /\ [K!Asleep EXCEPT !.out = o].out = o
  <2>1. K!Asleep.read \in [Agents -> 0..MaxKey] /\ 0 \in 0..MaxKey
    BY KeysAssumption DEF K!Asleep, Agents
  <2>2. QED
    BY <2>1 DEF K!Asleep, AuthRec
<1>3. ASSUME NEW o \in {"none", "refused"}, auth' = [auth EXCEPT ![z] = [K!Asleep EXCEPT !.out = o]],
             lines' = lines, kholder' = kholder \/ kholder' = K!Held(z)
      PROVE  KeyInv'
  <2> DEFINE r == [K!Asleep EXCEPT !.out = o]
  <2>1. r \in AuthRec /\ r.pc = "off" /\ r.out = o /\ o # "ok"
    BY <1>2
  <2>2. auth' = [auth EXCEPT ![z] = r]
    BY <1>3
  <2> HIDE DEF r
  <2>3. auth'[z] = r /\ \A y \in K!Authorizer \ {z} : auth'[y] = auth[y]
    BY <1>1, <2>1, <2>2 DEF AuthTypes
  <2>4. kholder' \in K!Authorizer \cup {None} /\ \A y \in K!Authorizer \ {z} : kholder = y => kholder' = y
    BY <1>1, <1>3 DEF AuthTypes, K!Held
  <2>5. \A y \in K!Authorizer : Alone2(y)'
    BY <1>1, <1>3, <2>1, <2>3, <2>4 DEF Alone2
  <2>6. K!PeerKept'
    BY <1>3, <2>1, <2>3 DEF KeyInv, K!PeerKept, K!Authorizer
  <2>7. lines'[K!Me] \in {0, lines[K!Me]} /\ lines' \in [Agents -> 0..MaxKey]
    BY <1>1, <1>3 DEF AuthTypes
  <2>8. QED
    BY <1>1, <2>1, <2>2, <2>4, <2>5, <2>6, <2>7, SessionKeeps
<1>4. CASE K!AuthLock(z) /\ kholder = None
  <2> DEFINE r == [auth[z] EXCEPT !.pc = "read"]
  <2>1. /\ r \in AuthRec /\ r.pc = "read" /\ r.key = auth[z].key /\ r.out = auth[z].out
        /\ auth[z].pc # "off"
    BY <1>1, <1>4 DEF AuthRec, K!AuthLock
  <2>2. auth' = [auth EXCEPT ![z] = r] /\ kholder' = z /\ lines' = lines
    BY <1>1, <1>4 DEF K!AuthLock, AuthTypes
  <2> HIDE DEF r
  <2>3. auth'[z] = r /\ \A y \in K!Authorizer \ {z} : auth'[y] = auth[y]
    BY <1>1, <2>1, <2>2 DEF AuthTypes
  <2>4. \A y \in K!Authorizer : Alone2(y)'
    BY <1>1, <1>4, <2>1, <2>2, <2>3 DEF Alone2
  <2>5. K!PeerKept'
    BY <2>1, <2>2, <2>3 DEF KeyInv, K!PeerKept, K!Authorizer
  <2>6. lines'[K!Me] \in {0, lines[K!Me]} /\ lines' \in [Agents -> 0..MaxKey]
        /\ kholder' \in K!Authorizer \cup {None}
    BY <1>1, <2>2 DEF AuthTypes
  <2>7. QED
    BY <1>1, <2>1, <2>2, <2>4, <2>5, <2>6, SessionKeeps
<1>5. CASE K!AuthRead(z)
  <2> DEFINE r == [auth[z] EXCEPT !.pc = "write", !.read = lines]
  <2>1. /\ r \in AuthRec /\ r.pc = "write" /\ r.key = auth[z].key /\ r.out = auth[z].out
        /\ auth[z].pc # "off" /\ r.read = lines
    BY <1>1, <1>5 DEF AuthRec, K!AuthRead, AuthTypes
  <2>2. auth' = [auth EXCEPT ![z] = r] /\ kholder' = kholder /\ lines' = lines /\ auth[z].pc = "read"
    BY <1>1, <1>5 DEF K!AuthRead, AuthTypes
  <2> HIDE DEF r
  <2>3. auth'[z] = r /\ \A y \in K!Authorizer \ {z} : auth'[y] = auth[y]
    BY <1>1, <2>1, <2>2 DEF AuthTypes
  <2>4. \A y \in K!Authorizer : Alone2(y)'
    BY <1>1, <2>1, <2>2, <2>3 DEF Alone2
  <2>5. K!PeerKept'
    BY <2>1, <2>2, <2>3 DEF KeyInv, K!PeerKept, K!Authorizer
  <2>6. lines'[K!Me] \in {0, lines[K!Me]} /\ lines' \in [Agents -> 0..MaxKey]
        /\ kholder' \in K!Authorizer \cup {None}
    BY <1>1, <2>2 DEF AuthTypes
  <2>7. QED
    BY <1>1, <2>1, <2>2, <2>4, <2>5, <2>6, SessionKeeps
<1>6. CASE K!AuthWrite(z)
  <2> DEFINE a == K!AgentOf(z)
             refused == \/ auth[z].read[a] \notin {0, auth[z].key} /\ ~auth[z].replace
                        \/ auth[z].read[a] = 0 /\ K!Takeover(z)
             o == IF z = "operator" THEN "none" ELSE IF refused THEN "refused" ELSE "ok"
             r == [K!Asleep EXCEPT !.out = o]
  <2>1. /\ auth[z].pc = "write" /\ kholder' = K!Held(z) /\ auth' = [auth EXCEPT ![z] = r]
        /\ lines' = IF refused THEN lines ELSE [auth[z].read EXCEPT ![a] = auth[z].key]
    BY <1>6 DEF K!AuthWrite, K!Rewritten
  <2>2. kholder = z /\ auth[z].read = lines /\ kholder' = None
    BY <1>1, <2>1 DEF Alone2, K!Held
  <2>3. o \in {"none", "ok", "refused"} /\ (z = "peer" /\ o = "ok" => ~refused)
    OBVIOUS
  <2>4. /\ a \in Agents /\ (z = "peer" <=> a = K!Peer) /\ (z # "peer" <=> a = K!Me)
        /\ K!Me \in Agents /\ K!Peer \in Agents /\ K!Me # K!Peer
    BY DEF K!AgentOf, Agents, K!Me, K!Peer
  <2>5. lines' = lines \/ lines' = [lines EXCEPT ![a] = auth[z].key]
    BY <2>1, <2>2
  <2>6. ~refused => lines' = [lines EXCEPT ![a] = auth[z].key]
    BY <2>1, <2>2
  <2> HIDE DEF refused, a
  <2>7. r \in AuthRec /\ r.pc = "off" /\ r.out = o
    BY <1>2, <2>3
  <2> HIDE DEF r, o
  <2>8. auth'[z] = r /\ \A y \in K!Authorizer \ {z} : auth'[y] = auth[y]
    BY <1>1, <2>1, <2>7 DEF AuthTypes
  <2>9. \A y \in K!Authorizer : Alone2(y)'
    BY <1>1, <2>2, <2>7, <2>8 DEF Alone2
  <2>10. /\ lines' \in [Agents -> 0..MaxKey]
         /\ a # K!Me => lines'[K!Me] = lines[K!Me]
         /\ a # K!Peer => lines'[K!Peer] = lines[K!Peer]
         /\ lines'[a] = lines[a] \/ lines'[a] = auth[z].key
         /\ ~refused => lines'[a] = auth[z].key
    BY <1>1, <2>4, <2>5, <2>6 DEF AuthTypes, AuthRec
  <2>11. K!PeerKept'
    <3>1. CASE z = "peer"
      <4>1. auth[z].key = 1 /\ a = K!Peer
        BY <2>1, <2>4, <3>1 DEF KeyInv, Underway
      <4>2. auth'["peer"].out = "ok" => lines'[K!Peer] = 1
        BY <2>3, <2>7, <2>8, <2>10, <3>1, <4>1
      <4>3. QED
        BY <4>2 DEF K!PeerKept
    <3>2. CASE z # "peer"
      BY <2>4, <2>8, <2>10, <3>2 DEF KeyInv, K!PeerKept, K!Authorizer
    <3>3. QED
      BY <3>1, <3>2
  <2>12. lines'[K!Me] \in {0, lines[K!Me]} \/ (kjoin.pc \notin {"promote", "prune"} /\ Kept(lines'[K!Me]))
    <3>1. CASE a # K!Me
      BY <2>10, <3>1
    <3>2. CASE a = K!Me
      <4>1. z \in {"ssh", "operator"}
        BY <2>4, <3>2 DEF K!Authorizer
      <4>2. Kept(auth[z].key) /\ kjoin.pc \notin {"promote", "prune"}
        BY <2>1, <4>1 DEF KeyInv, Underway, Waits
      <4>3. QED
        BY <2>10, <3>2, <4>2
    <3>3. QED
      BY <3>1, <3>2
  <2>13. kholder' \in K!Authorizer \cup {None}
    BY <2>2
  <2>14. QED
    BY <1>1, <2>1, <2>7, <2>9, <2>10, <2>11, <2>12, <2>13, SessionKeeps
<1>7. QED
  <2>1. CASE K!AuthLock(z) /\ kholder # None
    BY <1>3, <2>1 DEF K!AuthLock
  <2>2. CASE K!AuthKilled(z)
    BY <1>3, <2>2 DEF K!AuthKilled
  <2>3. QED
    BY <1>4, <1>5, <1>6, <2>1, <2>2 DEF K!AuthStep

LEMMA PastesKeep ==
  ASSUME KeyInv, K!OperatorPastes \/ K!PeerJoins
  PROVE  KeyInv'
<1>1. /\ DiskTypes /\ AuthTypes
      /\ UNCHANGED <<priv, broken, pub, link, minted, conf, kpointer, kjoin, paste, lines, kholder>>
  BY DEF KeyInv, K!OperatorPastes, K!PeerJoins, K!disk
<1>2. PICK z \in {"operator", "peer"}, key \in 0..MaxKey, replace \in BOOLEAN :
        /\ K!Calls(z, key, replace) /\ auth[z].pc = "off"
        /\ z = "operator" => Kept(key) /\ kjoin.pc = "off"
        /\ z = "peer" => key = 1
  <2>1. CASE K!OperatorPastes
    <3>1. paste # None /\ kjoin.pc = "off" /\ auth["operator"].pc = "off"
          /\ K!Calls("operator", paste.key, paste.replace)
      BY <2>1 DEF K!OperatorPastes, K!Unpasted
    <3>2. Kept(paste.key) /\ paste.key \in 0..MaxKey /\ paste.replace \in BOOLEAN
      BY <3>1 DEF KeyInv, Underway
    <3>3. QED
      BY <3>1, <3>2
  <2>2. CASE K!PeerJoins
    <3>1. K!Calls("peer", 1, FALSE) /\ auth["peer"] = K!Asleep
      BY <2>2 DEF K!PeerJoins
    <3>2. K!Asleep.pc = "off"
      BY DEF K!Asleep
    <3>3. 1 \in 0..MaxKey
      BY KeysAssumption
    <3>4. QED
      BY <3>1, <3>2, <3>3
  <2>3. QED
    BY <2>1, <2>2
<1>3. z \in K!Authorizer /\ z # "ssh" /\ {"ssh", "operator", "peer"} \subseteq K!Authorizer
  BY DEF K!Authorizer
<1>4. /\ auth' \in [K!Authorizer -> AuthRec] /\ auth'[z].pc = "lock" /\ auth'[z].key = key
      /\ auth'[z].out = "none" /\ \A y \in K!Authorizer \ {z} : auth'[y] = auth[y]
  BY <1>1, <1>2, <1>3, CallIs
<1>5. /\ K!Versions' = K!Versions /\ K!Newest' = K!Newest /\ K!Staged' = K!Staged
      /\ \A v : K!Good(v)' <=> K!Good(v)
      /\ \A k : Kept(k)' <=> Kept(k)
  BY <1>1, SameKeys
<1>6. DiskTypes' /\ AuthTypes' /\ Files2' /\ kjoin' \in KeyJoinRec
  BY <1>1, <1>4, <1>5 DEF KeyInv, DiskTypes, AuthTypes, Files2
<1>7. Knows2'
  <2>1. (K!Good(link)' <=> K!Good(link)) /\ (K!Good(K!Newest)' <=> K!Good(K!Newest))
    BY <1>1, <1>5 DEF K!Good
  <2>2. QED
    BY <1>1, <1>5, <2>1 DEF KeyInv, Knows2
<1>8. Underway'
  <2>1. auth'["ssh"] = auth["ssh"] /\ Underway
    BY <1>3, <1>4 DEF KeyInv
  <2>2. paste # None => Kept(paste.key)'
    BY <1>1, <1>5, <2>1 DEF Underway, Kept
  <2>3. auth["ssh"].pc # "off" => Kept(auth["ssh"].key)'
    BY <1>1, <2>1 DEF Underway, Kept, K!Versions
  <2>4. CASE z = "operator"
    <3>1. auth'["peer"] = auth["peer"] /\ Kept(auth["operator"].key)' /\ kjoin'.pc = "off"
      BY <1>1, <1>2, <1>3, <1>4, <2>4 DEF Kept, K!Versions
    <3>2. QED
      BY <1>1, <2>1, <2>2, <2>3, <3>1 DEF Underway
  <2>5. CASE z = "peer"
    <3>1. auth'["operator"] = auth["operator"] /\ auth'["peer"].key = 1
      BY <1>2, <1>3, <1>4, <2>5
    <3>2. auth["operator"].pc # "off" => Kept(auth["operator"].key)'
      BY <1>1, <2>1, <3>1 DEF Underway, Kept, K!Versions
    <3>3. QED
      BY <1>1, <2>1, <2>2, <2>3, <3>1, <3>2 DEF Underway
  <2>6. QED
    BY <2>4, <2>5
<1>9. ASSUME NEW y \in K!Authorizer PROVE Alone2(y)'
  BY <1>1, <1>4 DEF KeyInv, Alone2
<1>10. K!PeerKept'
  BY <1>1, <1>3, <1>4 DEF KeyInv, K!PeerKept
<1>11. K!KeyKept'
  BY <1>1, <1>5 DEF KeyInv, K!KeyKept
<1>12. QED
  BY <1>6, <1>7, <1>8, <1>9, <1>10, <1>11 DEF KeyInv

LEMMA RevokeKeeps ==
  ASSUME KeyInv, K!Revoke
  PROVE  KeyInv'
<1>1. /\ DiskTypes /\ AuthTypes /\ Underway /\ Knows2 /\ kholder = None /\ paste' = None
      /\ lines' = [lines EXCEPT ![K!Me] = 0]
      /\ UNCHANGED <<priv, broken, pub, link, minted, conf, kpointer, kjoin, auth, kholder>>
  BY DEF KeyInv, K!Revoke, K!disk
<1>2. /\ lines' \in [Agents -> 0..MaxKey] /\ lines'[K!Me] = 0 /\ lines'[K!Peer] = lines[K!Peer]
  BY <1>1, KeysAssumption DEF AuthTypes, Agents, K!Me, K!Peer
<1>3. /\ K!Versions' = K!Versions /\ K!Newest' = K!Newest /\ K!Staged' = K!Staged
      /\ \A v : K!Good(v)' <=> K!Good(v)
      /\ \A k : Kept(k)' <=> Kept(k)
  BY <1>1, SameKeys
<1>4. DiskTypes' /\ AuthTypes' /\ Files2' /\ kjoin' \in KeyJoinRec
  BY <1>1, <1>2, <1>3 DEF KeyInv, DiskTypes, AuthTypes, Files2
<1>5. Knows2'
  <2>1. (K!Good(link)' <=> K!Good(link)) /\ (K!Good(K!Newest)' <=> K!Good(K!Newest))
    BY <1>1, <1>3 DEF K!Good
  <2>2. QED
    BY <1>1, <1>2, <1>3, <2>1 DEF Knows2
<1>6. Underway'
  BY <1>1 DEF Underway, Kept, K!Versions
<1>7. ASSUME NEW y \in K!Authorizer PROVE Alone2(y)'
  BY <1>1, KeysAssumption DEF KeyInv, Alone2
<1>8. K!KeyKept' /\ K!PeerKept'
  BY <1>1, <1>2 DEF KeyInv, K!KeyKept, K!PeerKept
<1>9. QED
  BY <1>4, <1>5, <1>6, <1>7, <1>8 DEF KeyInv

LEMMA KeysSame ==
  ASSUME KeyInv, UNCHANGED <<priv, broken, pub, link, minted, conf, kpointer, kjoin, paste>>,
         UNCHANGED <<lines, auth, kholder>>
  PROVE  KeyInv'
<1>1. /\ K!Versions' = K!Versions /\ K!Newest' = K!Newest /\ K!Staged' = K!Staged
      /\ \A v : K!Good(v)' <=> K!Good(v)
      /\ \A k : Kept(k)' <=> Kept(k)
  BY SameKeys
<1>2. DiskTypes' /\ AuthTypes' /\ Files2' /\ kjoin' \in KeyJoinRec
  BY <1>1 DEF KeyInv, DiskTypes, AuthTypes, Files2
<1>3. Knows2'
  <2>1. (K!Good(link)' <=> K!Good(link)) /\ (K!Good(K!Newest)' <=> K!Good(K!Newest))
    BY <1>1 DEF K!Good
  <2>2. QED
    BY <1>1, <2>1 DEF KeyInv, Knows2
<1>4. Underway'
  BY DEF KeyInv, Underway, Kept, K!Versions
<1>5. ASSUME NEW y \in K!Authorizer PROVE Alone2(y)'
  BY DEF KeyInv, Alone2
<1>6. K!KeyKept' /\ K!PeerKept'
  BY <1>1 DEF KeyInv, K!KeyKept, K!PeerKept
<1>7. QED
  BY <1>2, <1>3, <1>4, <1>5, <1>6 DEF KeyInv

-----------------------------------------------------------------------------
(* The keys: the theorem *)

LEMMA KeysStart == K!Init => KeyInv
<1> SUFFICES ASSUME K!Init PROVE KeyInv
  OBVIOUS
<1>1. 0 \in 0..MaxKey
  BY KeysAssumption
<1>2. K!Versions = {} /\ DiskTypes
  BY <1>1 DEF K!Init, DiskTypes, K!Versions
<1>3. K!Asleep \in AuthRec /\ K!Asleep.pc = "off" /\ K!Asleep.out = "none"
  BY <1>1 DEF K!Asleep, AuthRec, Agents
<1>4. AuthTypes
  BY <1>1, <1>3 DEF K!Init, AuthTypes, Agents
<1>5. kjoin \in KeyJoinRec /\ kjoin.pc = "off"
  BY <1>1 DEF K!Init, K!Off, KeyJoinRec, Stages
<1>6. Files2
  BY <1>2 DEF K!Init, Files2
<1>7. Knows2
  BY <1>5 DEF Knows2, Linked, Fills, Writes
<1>8. \A z \in K!Authorizer : auth[z] = K!Asleep
  BY DEF K!Init
<1>9. Underway /\ K!PeerKept /\ \A z \in K!Authorizer : Alone2(z)
  BY <1>3, <1>8 DEF K!Init, Underway, K!PeerKept, Alone2, K!Authorizer
<1>10. K!KeyKept
  BY DEF K!Init, K!KeyKept, K!Me, K!Peer
<1>11. QED
  BY <1>2, <1>4, <1>5, <1>6, <1>7, <1>9, <1>10 DEF KeyInv

LEMMA KeyStepsKeep == KeyInv /\ [K!Next]_(K!vars) => KeyInv'
<1> SUFFICES ASSUME KeyInv, [K!Next]_(K!vars) PROVE KeyInv'
  OBVIOUS
<1>1. CASE UNCHANGED K!vars \/ K!LaneRuns
  BY <1>1, KeysSame DEF K!vars, K!disk, K!hub, K!LaneRuns
<1>2. CASE K!JoinStep
  BY <1>2, PrepareKeeps, EnsurePublicKeeps, RetireKeeps, RetirePublicKeeps, MintKeeps, FillKeeps,
     WritePublicKeeps, LinkKeeps, RotateKeeps, ProbeStagedKeeps, ProbesKeep, PrintPasteKeeps,
     AuthorizeKeeps, AuthorizedKeeps, PromoteKeeps, PruneKeeps, RecordKeeps DEF K!JoinStep
<1>3. QED
  BY <1>1, <1>2, KeyStartKeeps, RecordKeeps, SessionsKeep, PastesKeep, RevokeKeeps DEF K!Next

LEMMA KeepsOnly == [Moves(Next) \/ Keeps(K!Next) \/ Talks(S!Next)]_all => [K!Next]_(K!vars)
BY DEF Moves, Keeps, Talks, all, keys, K!vars, K!disk, K!hub

\* A join that recorded the pool is not undone: config.json is written once the
\* keys are settled (hub_join.go), and an incomplete join leaves a joined one.
LEMMA ConfStays == [K!Next]_(K!vars) => (conf = "joined" => conf' = "joined")
<1> SUFFICES ASSUME [K!Next]_(K!vars), conf = "joined" PROVE conf' = "joined"
  OBVIOUS
<1>1. CASE K!WriteConfig
  BY <1>1 DEF K!WriteConfig
<1>2. CASE ~K!WriteConfig
  BY <1>2 DEF K!vars, K!disk, K!hub, K!Next, K!JoinStep, K!Start, K!Killed, K!AuthStep, K!AuthLock,
     K!AuthRead, K!AuthWrite, K!AuthKilled, K!OperatorPastes, K!PeerJoins, K!Revoke, K!LaneRuns,
     K!Prepare, K!EnsurePublic, K!Retire, K!RetirePublic, K!Mint, K!Fill, K!WritePublic, K!Link,
     K!Rotate, K!ProbeStaged, K!ProbeActive, K!ProbeOnly, K!PrintPaste, K!Authorize, K!Authorized,
     K!Promote, K!ProbeAgain, K!Prune, K!WritePointer
<1>3. QED
  BY <1>1, <1>2

\* The key that the hub has authorized for a machine is one that the machine can
\* present, whatever a join prunes, retires or rotates and wherever it is killed
\* (hub_keys.go); what another machine's session wrote in authorized_keys stays
\* (hub_authorize.go); a join that recorded its pool is not undone.
THEOREM KeysStaySafe == HubRuns => KeysSafe
<1> DEFINE step == Moves(Next) \/ Keeps(K!Next) \/ Talks(S!Next)
<1>1. HubInit => KeyInv
  BY KeysStart DEF HubInit
<1>2. KeyInv /\ [step]_all => KeyInv'
  BY KeepsOnly, KeyStepsKeep
<1>3. KeyInv => K!KeyKept /\ K!PeerKept
  BY DEF KeyInv
<1>4. [step]_all => [conf = "joined" => conf' = "joined"]_conf
  BY KeepsOnly, ConfStays
<1> HIDE DEF step
<1>5. HubRuns => HubInit /\ [][step]_all
  BY DEF HubRuns, step
<1>6. QED
  BY <1>1, <1>2, <1>3, <1>4, <1>5, PTL DEF KeysSafe, K!ConfKept

-----------------------------------------------------------------------------
(* The sessions: the invariant *)

\* What a client asks its hub for, after the hello.
LaneAsks == {"lease-acquire", "register", "tick", "lease-release"}
Asks(c) == IF S!Job(c) = "lane" THEN LaneAsks ELSE {S!Job(c)}
Active == {"hello", "request", "waiting"}

Answers == {"hello-ok", "ok", "item"} \cup (S!Refusals \ {"order"})
ClientRec == [pc : {"idle", "done"} \cup Active, on : Conn \cup {None}, id : Nat,
              sent : BOOLEAN, shown : SUBSET Mail, out : (S!Reports \ {"order"}) \cup {None},
              ask : S!Jobs \cup LaneAsks \cup {None}, fenced : BOOLEAN]
SessionRec == [pc : {"none", "hello", "loop", "answer", "check", "ack", "end", "killed"},
               last : Nat, mode : {"", "channel"}, template : BOOLEAN, re : Nat,
               did : SUBSET Mail]
UpFrame == [t : {"hello"} \cup S!Jobs \cup LaneAsks, id : Nat, m : {None}]
DownFrame == [t : Answers, id : Nat, m : Mail \cup {None}]

SessionTypes ==
  /\ cast.job \in [Client -> S!Jobs \cup {None}]
  /\ client \in [Client -> ClientRec] /\ landed \in [Client -> Nat]
  /\ conn \in [Conn -> Client \cup {None}] /\ alive \in [Conn -> BOOLEAN]
  /\ up \in [Conn -> Seq(UpFrame)] /\ down \in [Conn -> Seq(DownFrame)]
  /\ hub \in [Conn -> SessionRec]
  /\ claim \in [by : Conn, fresh : BOOLEAN] \cup {None}

Pools == /\ inbox \cup claimed \cup archive \subseteq Mail
         /\ inbox \cap claimed = {} /\ inbox \cap archive = {} /\ claimed \cap archive = {}
ClaimIs == claim # None => S!Gone(claim.by) \/ hub[claim.by].mode = "channel"

Frames(s) == {s[i] : i \in 1 .. Len(s)}

\* A session that registers, and one that ticks, unless it has ended.
Channel(k) == S!Gone(k) \/ hub[k].mode = "channel"
Beating(k) == S!Gone(k) \/ (hub[k].mode = "channel" /\ hub[k].template)

\* Where a client is, and the request it is at.
Connected(c) ==
  /\ client[c].pc \in Active <=> client[c].on # None
  /\ client[c].on # None => conn[client[c].on] = c
  /\ client[c].pc \in Active => client[c].ask \in Asks(c)
Asking(c) ==
  /\ client[c].pc = "hello" => client[c].id = 1
  /\ client[c].pc = "hello" /\ S!Job(c) = "lane" => client[c].ask = "lease-acquire"
  /\ client[c].pc \in {"request", "waiting"} => client[c].id >= 2
  /\ client[c].pc \in {"request", "waiting"} /\ client[c].ask \notin LaneAsks \ {"lease-acquire"}
       => client[c].id = 2
  /\ client[c].pc \in {"request", "waiting"} /\ client[c].ask = "register" => Channel(client[c].on)
  /\ client[c].pc \in {"request", "waiting"} /\ client[c].ask \in {"tick", "lease-release"} =>
       Beating(client[c].on)
  /\ client[c].pc = "waiting" /\ S!Job(c) = "send" => client[c].sent
  /\ client[c].pc # "done" => client[c].out = None

\* What a request finds of its session.
UpIs(k, f) ==
  /\ f.t \in {"hello"} \cup Asks(conn[k])
  /\ IF f.t = "hello" THEN f.id = 1 ELSE f.id >= 2
  /\ f.t \notin LaneAsks \ {"lease-acquire"} => f.id <= 2
  /\ f.t = "register" => Channel(k)
  /\ f.t \in {"tick", "lease-release"} => Beating(k)
UpNow(k, f) ==
  S!Uses(k) => LET r == client[conn[k]] IN
    /\ f.id <= r.id /\ (r.pc = "request" => f.id < r.id)
    /\ r.pc = "waiting" /\ f.id = r.id => f.t = r.ask

\* Where a session is.
HubIs(k) ==
  /\ hub[k].pc \in {"check", "ack"} => S!Job(conn[k]) = hub[k].pc
  /\ hub[k].pc = "answer" => S!Job(conn[k]) = "send"
  /\ hub[k].pc \in {"check", "ack", "answer"} =>
       hub[k].re = 2 /\ (S!Uses(k) => client[conn[k]].pc = "waiting")
  /\ hub[k].last <= 2 \/ hub[k].mode = "channel"
Unopened(k) == hub[k] = S!Asleep /\ up[k] = <<>> /\ down[k] = <<>>

\* A send that may still land.
Armed(k) == ~S!Gone(k) /\ \E f \in Frames(up[k]) : f.t = "send"
Clear(c) == landed[c] = 0 /\ \A k \in Conn : conn[k] = c => ~Armed(k)

\* What an answer says of its session.
DownIs(k, f) ==
  /\ f.t = "item" => /\ f.m \in Mail
                     /\ S!Job(conn[k]) = "check" => f.m \in claimed \cup archive
                     /\ S!Job(conn[k]) = "ack" => f.m \in archive
  /\ f.t = "ok" /\ S!Job(conn[k]) # "lane" => S!Gone(k)
  /\ f.t = "ok" /\ S!Job(conn[k]) = "check" => inbox = {}
DownNow(k, f) ==
  S!Uses(k) => LET r == client[conn[k]] IN
    /\ f.id <= r.id /\ (r.pc = "request" => f.id < r.id)
    /\ r.pc = "waiting" /\ f.id = r.id /\ f.t = "ok" =>
         /\ r.ask = "lease-acquire" => Channel(k)
         /\ r.ask = "register" => Beating(k)
    /\ S!Job(conn[k]) = "send" /\ f.t \in S!Refusals /\ f.id = 2 => Clear(conn[k])

\* What a session did was streamed, before its answer.
Streams(k) ==
  S!Uses(k) =>
    \A m \in hub[k].did :
      /\ alive[k] => m \in client[conn[k]].shown \/ \E f \in Frames(down[k]) : f.t = "item" /\ f.m = m
      /\ \A i \in 1 .. Len(down[k]) : down[k][i].t = "ok" =>
           \/ m \in client[conn[k]].shown
           \/ \E j \in 1 .. (i - 1) : down[k][j].t = "item" /\ down[k][j].m = m

OneSend(k) == ~S!Gone(k) => \A i, j \in 1 .. Len(up[k]) :
                               up[k][i].t = "send" /\ up[k][j].t = "send" => i = j

Conveys(k) ==
  /\ hub[k].did \cap inbox = {}
  /\ conn[k] = None => Unopened(k)
  /\ conn[k] # None =>
       /\ S!Job(conn[k]) \in S!Jobs /\ HubIs(k) /\ OneSend(k)
       /\ \A f \in Frames(up[k]) : UpIs(k, f) /\ UpNow(k, f)
       /\ \A f \in Frames(down[k]) : DownIs(k, f) /\ DownNow(k, f)
       /\ S!Job(conn[k]) \in {"check", "ack"} => Streams(k)

\* A check and an ack are run once, and what they report is so.
Once(c) == S!Job(c) \in {"check", "ack"} =>
  /\ \A j, k \in Conn : conn[j] = c /\ conn[k] = c => j = k
  /\ client[c].pc = "idle" => \A k \in Conn : conn[k] # c
Told(c) ==
  /\ S!Job(c) = "check" => client[c].shown \subseteq claimed \cup archive
  /\ S!Job(c) = "ack" => client[c].shown \subseteq archive
  /\ S!Job(c) \in {"check", "ack"} /\ client[c].out = "ok" =>
       \A k \in Conn : conn[k] = c => S!Gone(k) /\ hub[k].did \subseteq client[c].shown
  /\ S!Job(c) = "check" /\ client[c].out = "ok" => inbox = {}

\* A send lands once, and not after a report that says it did not.
Retriable == S!Refusals \cup {"lost", "connect", "hello-timeout"}
Sends(c) == S!Job(c) = "send" =>
  /\ landed[c] <= 1
  /\ client[c].pc \in {"idle", "hello", "request"} => Clear(c)
  /\ client[c].out \in Retriable => Clear(c)
  /\ \A k \in Conn : conn[k] = c /\ Armed(k) =>
       landed[c] = 0 /\ \A j \in Conn \ {k} : conn[j] = c => ~Armed(j)
NoSend(c) == S!Job(c) # "send" => landed[c] = 0

SInv == /\ SessionTypes /\ Pools /\ ClaimIs
        /\ \A c \in Client : Connected(c) /\ Asking(c) /\ Once(c) /\ Told(c) /\ Sends(c) /\ NoSend(c)
        /\ \A k \in Conn : Conveys(k)

-----------------------------------------------------------------------------
(* The sessions: frames *)

LEMMA EmptyFrames == Frames(<<>>) = {}
BY DEF Frames

LEMMA TailFrames ==
  ASSUME NEW F, NEW s \in Seq(F), s # <<>>
  PROVE  /\ Tail(s) \in Seq(F) /\ Len(Tail(s)) = Len(s) - 1 /\ Len(s) \in Nat \ {0}
         /\ \A i \in 1 .. Len(Tail(s)) : Tail(s)[i] = s[i + 1]
         /\ Frames(Tail(s)) \subseteq Frames(s)
         /\ Head(s) \in Frames(s) /\ Head(s) \in F /\ Head(s) = s[1]
<1>1. /\ Tail(s) \in Seq(F) /\ Len(Tail(s)) = Len(s) - 1 /\ Head(s) \in F
      /\ \A i \in 1 .. Len(Tail(s)) : Tail(s)[i] = s[i + 1]
  BY HeadTailProperties
<1>2. Len(s) \in Nat \ {0} /\ Head(s) = s[1]
  BY EmptySeq
<1>3. \A i \in 1 .. Len(Tail(s)) : i + 1 \in 1 .. Len(s)
  BY <1>1, <1>2
<1>4. Frames(Tail(s)) \subseteq Frames(s)
  BY <1>1, <1>3 DEF Frames
<1>5. 1 \in 1 .. Len(s)
  BY <1>2
<1>6. Head(s) \in Frames(s)
  BY <1>2, <1>5 DEF Frames
<1>7. QED
  BY <1>1, <1>2, <1>4, <1>6

LEMMA AppendFrames ==
  ASSUME NEW F, NEW s \in Seq(F), NEW f \in F
  PROVE  /\ Append(s, f) \in Seq(F) /\ Len(Append(s, f)) = Len(s) + 1 /\ Len(s) \in Nat
         /\ \A i \in 1 .. Len(s) : Append(s, f)[i] = s[i]
         /\ Append(s, f)[Len(s) + 1] = f
         /\ Frames(Append(s, f)) = Frames(s) \cup {f}
<1>1. /\ Append(s, f) \in Seq(F) /\ Len(Append(s, f)) = Len(s) + 1 /\ Len(s) \in Nat
      /\ \A i \in 1 .. Len(s) : Append(s, f)[i] = s[i]
      /\ Append(s, f)[Len(s) + 1] = f
  BY AppendProperties, LenProperties
<1>2. 1 .. Len(Append(s, f)) = (1 .. Len(s)) \cup {Len(s) + 1}
  BY <1>1
<1>3. Frames(Append(s, f)) = Frames(s) \cup {f}
  BY <1>1, <1>2 DEF Frames
<1>4. QED
  BY <1>1, <1>3

LEMMA PrefixFrames ==
  ASSUME NEW F, NEW s \in Seq(F), NEW p \in S!Prefixes(s)
  PROVE  /\ p \in Seq(F) /\ Len(p) \in Nat /\ Len(p) <= Len(s)
         /\ \A i \in 1 .. Len(p) : p[i] = s[i] /\ i \in 1 .. Len(s)
         /\ Frames(p) \subseteq Frames(s)
<1>1. PICK n \in 0 .. Len(s) : p = SubSeq(s, 1, n)
  BY DEF S!Prefixes
<1>2. Len(s) \in Nat /\ \A i \in 1 .. n : s[i] \in F
  BY LenProperties, ElementOfSeq
<1>3. /\ p \in Seq(F) /\ Len(p) = (IF 1 <= n THEN n - 1 + 1 ELSE 0)
      /\ \A i \in 1 .. n - 1 + 1 : p[i] = s[1 + i - 1]
  BY <1>1, <1>2, SubSeqProperties, 1 \in Int, n \in Int
<1>4. Len(p) = n
  BY <1>2, <1>3
<1>5. \A i \in 1 .. Len(p) : p[i] = s[i] /\ i \in 1 .. Len(s)
  BY <1>2, <1>3, <1>4
<1>6. Frames(p) \subseteq Frames(s)
  BY <1>5 DEF Frames
<1>7. QED
  BY <1>2, <1>3, <1>4, <1>5, <1>6

LEMMA FramesTyped ==
  ASSUME NEW F, NEW s \in Seq(F)
  PROVE  /\ Frames(s) \subseteq F /\ Len(s) \in Nat
         /\ \A i \in 1 .. Len(s) : s[i] \in Frames(s)
<1>1. Len(s) \in Nat /\ \A i \in 1 .. Len(s) : s[i] \in F
  BY LenProperties, ElementOfSeq
<1>2. QED
  BY <1>1 DEF Frames

-----------------------------------------------------------------------------
(* The sessions: what the invariant says of one client or connection *)

LEMMA NoneIs ==
  /\ None \notin Client /\ None \notin Conn
  /\ None \notin S!Jobs /\ None \notin Retriable /\ None # "ok"
BY SessionAssumption DEF Retriable, S!Reports, S!Refusals

LEMMA OfClient ==
  ASSUME SInv, NEW c \in Client
  PROVE  /\ client[c] \in ClientRec
         /\ Connected(c) /\ Asking(c) /\ Once(c) /\ Told(c) /\ Sends(c) /\ NoSend(c)
         /\ S!Job(c) \in S!Jobs \cup {None} /\ landed[c] \in Nat
BY DEF SInv, SessionTypes, S!Job

LEMMA OfConn ==
  ASSUME SInv, NEW k \in Conn
  PROVE  /\ hub[k] \in SessionRec /\ up[k] \in Seq(UpFrame) /\ down[k] \in Seq(DownFrame)
         /\ conn[k] \in Client \cup {None} /\ alive[k] \in BOOLEAN
         /\ Conveys(k)
BY DEF SInv, SessionTypes

\* The connection a client has open is its own.
LEMMA OpenIs ==
  ASSUME SInv, NEW c \in Client, client[c].pc \in Active
  PROVE  /\ client[c].on \in Conn /\ conn[client[c].on] = c /\ S!Uses(client[c].on)
         /\ conn[client[c].on] # None /\ S!Job(c) \in S!Jobs
<1>1. client[c].on # None /\ client[c].on \in Conn \cup {None}
  BY OfClient DEF Connected, ClientRec
<1>2. conn[client[c].on] = c
  BY <1>1, OfClient DEF Connected
<1>3. conn[client[c].on] # None
  BY <1>2, NoneIs
<1>4. S!Job(c) \in S!Jobs
  BY <1>1, <1>2, <1>3, OfConn DEF Conveys
<1>5. QED
  BY <1>1, <1>2, <1>3, <1>4 DEF S!Uses, S!On

\* Whoever uses a connection has it open.
LEMMA UserIs ==
  ASSUME SInv, NEW k \in Conn, S!Uses(k)
  PROVE  /\ conn[k] \in Client /\ client[conn[k]].on = k /\ client[conn[k]].pc \in Active
         /\ conn[k] # None
<1>1. conn[k] \in Client
  BY OfConn DEF S!Uses
<1>2. QED
  BY <1>1, OfClient, NoneIs DEF S!Uses, S!On, Connected

-----------------------------------------------------------------------------
(* The sessions: a step of the hub *)

\* A body lands once, and what carried it is gone.
Lands(k) == /\ S!Job(conn[k]) = "send" /\ Armed(k) /\ ~Armed(k)'
            /\ landed' = [landed EXCEPT ![conn[k]] = @ + 1]

\* A session reads at most one frame, and moves mail on.
HubStep(k) ==
  /\ UNCHANGED <<cast, client, conn, alive>>
  /\ ~S!Gone(k) /\ conn[k] # None
  /\ hub' \in [Conn -> SessionRec] /\ \A j \in Conn \ {k} : hub'[j] = hub[j]
  /\ up' \in [Conn -> Seq(UpFrame)] /\ \A j \in Conn \ {k} : up'[j] = up[j]
  /\ up'[k] = up[k] \/ (up[k] # <<>> /\ up'[k] = Tail(up[k]))
  /\ down' \in [Conn -> Seq(DownFrame)] /\ \A j \in Conn \ {k} : down'[j] = down[j]
  /\ Channel(k) => Channel(k)'
  /\ Beating(k) => Beating(k)'
  /\ Pools' /\ inbox' \subseteq inbox /\ archive \subseteq archive'
  /\ claimed \cup archive \subseteq claimed' \cup archive'
  /\ claim' \in [by : Conn, fresh : BOOLEAN] \cup {None}
  /\ claim' = claim \/ claim' = None \/ (claim'.by = k /\ Channel(k)')
  /\ landed' = landed \/ Lands(k)

LEMMA HubMonotone ==
  ASSUME SInv, NEW k \in Conn, HubStep(k)
  PROVE  /\ \A j \in Conn : /\ S!Uses(j)' <=> S!Uses(j)
                            /\ Frames(up'[j]) \subseteq Frames(up[j])
                            /\ S!Gone(j) => S!Gone(j)'
                            /\ Channel(j) => Channel(j)'
                            /\ Beating(j) => Beating(j)'
                            /\ Armed(j)' => Armed(j)
         /\ \A c \in Client : S!Job(c)' = S!Job(c) /\ (Clear(c) => Clear(c)')
<1>1. \A j \in Conn : S!Uses(j)' <=> S!Uses(j)
  BY DEF HubStep, S!Uses, S!On
<1>2. \A c \in Client : S!Job(c)' = S!Job(c)
  BY DEF HubStep, S!Job
<1>3. ASSUME NEW j \in Conn
      PROVE  Frames(up'[j]) \subseteq Frames(up[j])
  <2>1. up[j] \in Seq(UpFrame)
    BY OfConn
  <2>2. CASE up'[j] = up[j]
    BY <2>2
  <2>3. CASE up[j] # <<>> /\ up'[j] = Tail(up[j])
    BY <2>1, <2>3, TailFrames
  <2>4. QED
    BY <2>2, <2>3 DEF HubStep
<1>4. ASSUME NEW j \in Conn
      PROVE  /\ S!Gone(j) => S!Gone(j)'
             /\ Channel(j) => Channel(j)'
             /\ Beating(j) => Beating(j)'
  BY DEF HubStep, S!Gone, Channel, Beating
<1>5. \A j \in Conn : Armed(j)' => Armed(j)
  BY <1>3, <1>4 DEF Armed
<1>6. ASSUME NEW c \in Client, Clear(c)
      PROVE  Clear(c)'
  <2>1. landed'[c] = 0
    <3>1. CASE landed' = landed
      BY <1>6, <3>1 DEF Clear
    <3>2. CASE Lands(k)
      <4>1. conn[k] # c
        BY <1>6, <3>2 DEF Clear, Lands
      <4>2. landed \in [Client -> Nat]
        BY DEF SInv, SessionTypes
      <4>3. QED
        BY <1>6, <3>2, <4>1, <4>2 DEF Lands, Clear
    <3>3. QED
      BY <3>1, <3>2 DEF HubStep
  <2>2. QED
    BY <1>5, <1>6, <2>1 DEF Clear, HubStep
<1>7. QED
  BY <1>1, <1>2, <1>3, <1>4, <1>5, <1>6

\* The clients, and the connections of other sessions.
LEMMA HubClients ==
  ASSUME SInv, NEW k \in Conn, HubStep(k), NEW c \in Client
  PROVE  (Connected(c) /\ Asking(c) /\ Once(c) /\ Told(c) /\ Sends(c) /\ NoSend(c))'
<1>1. client' = client /\ conn' = conn /\ S!Job(c)' = S!Job(c) /\ cast' = cast
  BY HubMonotone DEF HubStep
<1>2. client[c] \in ClientRec
  BY OfClient
<1>3. Asks(c)' = Asks(c)
  BY <1>1 DEF Asks
<1>4. Connected(c)'
  BY <1>1, <1>3, OfClient DEF Connected
<1>5. Asking(c)'
  <2>1. client[c].pc \in Active => client[c].on \in Conn
    BY OpenIs
  <2>2. {"request", "waiting"} \subseteq Active
    BY DEF Active
  <2>3. QED
    BY <1>1, <2>1, <2>2, OfClient, HubMonotone DEF Asking
<1>6. Once(c)'
  BY <1>1, OfClient DEF Once
<1>7. Told(c)'
  <2>1. \A j \in Conn : S!Gone(j) => S!Gone(j)' /\ hub'[j] = hub[j]
    BY HubMonotone DEF HubStep
  <2>2. inbox' \subseteq inbox /\ archive \subseteq archive' /\ claimed \cup archive \subseteq claimed' \cup archive'
    BY DEF HubStep
  <2>3. Told(c)
    BY OfClient
  <2>4. QED
    BY <1>1, <2>1, <2>2, <2>3 DEF Told
<1>8. Sends(c)'
  <2> SUFFICES ASSUME S!Job(c) = "send"
               PROVE  Sends(c)'
    BY <1>1 DEF Sends
  <2>1. Sends(c) /\ landed[c] \in Nat
    BY OfClient
  <2>2. Clear(c) => Clear(c)'
    BY HubMonotone
  <2>3. \A j \in Conn : Armed(j)' => Armed(j)
    BY HubMonotone
  <2>4. CASE landed'[c] = landed[c]
    BY <1>1, <2>1, <2>2, <2>3, <2>4 DEF Sends
  <2>5. CASE Lands(k) /\ conn[k] = c
    <3>1. landed[c] = 0 /\ \A j \in Conn \ {k} : conn[j] = c => ~Armed(j)
      BY <2>1, <2>5 DEF Sends, Lands
    <3>2. landed'[c] = 1
      BY <2>1, <2>5, <3>1 DEF Lands, SInv, SessionTypes
    <3>3. ~Clear(c)
      BY <2>5 DEF Clear, Lands
    <3>4. \A j \in Conn : conn[j] = c => ~Armed(j)'
      BY <2>3, <2>5, <3>1 DEF Lands
    <3>5. QED
      BY <1>1, <2>1, <3>2, <3>3, <3>4 DEF Sends
  <2>6. Lands(k) /\ conn[k] # c => landed'[c] = landed[c]
    BY DEF Lands, SInv, SessionTypes
  <2>7. QED
    BY <2>4, <2>5, <2>6 DEF HubStep
<1>9. NoSend(c)'
  <2>1. landed' = landed \/ (Lands(k) /\ landed \in [Client -> Nat])
    BY DEF HubStep, SInv, SessionTypes
  <2>2. NoSend(c)
    BY OfClient
  <2>3. QED
    BY <1>1, <2>1, <2>2 DEF NoSend, Lands
<1>10. QED
  BY <1>4, <1>5, <1>6, <1>7, <1>8, <1>9

\* What holds of a frame goes on to hold.
LEMMA HubFrames ==
  ASSUME SInv, NEW k \in Conn, HubStep(k), NEW j \in Conn, conn[j] # None
  PROVE  /\ \A f \in Frames(up'[j]) : (UpIs(j, f) /\ UpNow(j, f))'
         /\ \A f \in Frames(down[j]) : (DownIs(j, f) /\ DownNow(j, f))'
<1>1. client' = client /\ conn' = conn /\ cast' = cast
  BY DEF HubStep
<1>2. /\ S!Uses(j)' <=> S!Uses(j)
      /\ Frames(up'[j]) \subseteq Frames(up[j])
      /\ S!Gone(j) => S!Gone(j)'
      /\ Channel(j) => Channel(j)'
      /\ Beating(j) => Beating(j)'
  BY HubMonotone
<1>3. conn[j] \in Client
  BY OfConn
<1>4. S!Job(conn[j])' = S!Job(conn[j]) /\ (Clear(conn[j]) => Clear(conn[j])')
  BY <1>1, <1>3, HubMonotone
<1>5. Asks(conn[j])' = Asks(conn[j])
  BY <1>4 DEF Asks
<1>6. Conveys(j)
  BY OfConn
<1>7. ASSUME NEW f \in Frames(up'[j])
      PROVE  UpIs(j, f)' /\ UpNow(j, f)'
  <2>1. UpIs(j, f) /\ UpNow(j, f)
    BY <1>2, <1>6, <1>7 DEF Conveys
  <2>2. UpIs(j, f)'
    BY <1>1, <1>2, <1>5, <2>1 DEF UpIs
  <2>3. UpNow(j, f)'
    BY <1>1, <1>2, <2>1 DEF UpNow
  <2>4. QED
    BY <2>2, <2>3
<1>8. ASSUME NEW f \in Frames(down[j])
      PROVE  DownIs(j, f)' /\ DownNow(j, f)'
  <2>1. DownIs(j, f) /\ DownNow(j, f)
    BY <1>6, <1>8 DEF Conveys
  <2>2. inbox' \subseteq inbox /\ archive \subseteq archive' /\ claimed \cup archive \subseteq claimed' \cup archive'
    BY DEF HubStep
  <2>3. DownIs(j, f)'
    BY <1>1, <1>2, <1>4, <2>1, <2>2 DEF DownIs
  <2>4. DownNow(j, f)'
    BY <1>1, <1>2, <1>4, <2>1 DEF DownNow
  <2>5. QED
    BY <2>3, <2>4
<1>9. QED
  BY <1>7, <1>8

LEMMA HubConns ==
  ASSUME SInv, NEW k \in Conn, HubStep(k), NEW j \in Conn, j # k
  PROVE  Conveys(j)'
<1>1. /\ client' = client /\ conn' = conn /\ cast' = cast /\ alive' = alive
      /\ hub'[j] = hub[j] /\ up'[j] = up[j] /\ down'[j] = down[j] /\ inbox' \subseteq inbox
  BY DEF HubStep
<1>2. Conveys(j)
  BY OfConn
<1>3. S!Uses(j)' <=> S!Uses(j)
  BY HubMonotone
<1>4. conn[j] # None => S!Job(conn[j])' = S!Job(conn[j])
  BY <1>1, OfConn, HubMonotone
<1>5. (S!Gone(j))' <=> S!Gone(j)
  BY <1>1 DEF S!Gone
<1>6. (conn[j] = None => Unopened(j))'
  BY <1>1, <1>2 DEF Conveys, Unopened
<1>7. ASSUME conn[j] # None
      PROVE  /\ HubIs(j)' /\ OneSend(j)' /\ S!Job(conn[j])' \in S!Jobs
             /\ S!Job(conn[j]) \in {"check", "ack"} => Streams(j)'
  <2>1. HubIs(j)'
    BY <1>1, <1>2, <1>3, <1>4, <1>7 DEF Conveys, HubIs
  <2>2. OneSend(j)'
    BY <1>1, <1>2, <1>5, <1>7 DEF Conveys, OneSend
  <2>3. S!Job(conn[j]) \in {"check", "ack"} => Streams(j)'
    BY <1>1, <1>2, <1>3, <1>7 DEF Conveys, Streams
  <2>4. QED
    BY <1>2, <1>4, <1>7, <2>1, <2>2, <2>3 DEF Conveys
<1>8. (hub[j].did \cap inbox = {})'
  BY <1>1, <1>2 DEF Conveys
<1>9. conn[j] # None => \A f \in Frames(down'[j]) : (DownIs(j, f) /\ DownNow(j, f))'
  BY <1>1, HubFrames
<1>10. QED
  BY <1>1, <1>4, <1>6, <1>7, <1>8, <1>9, HubFrames DEF Conveys

\* What a session writes: nothing, or one frame; what it did it streams.
Says(k) ==
  \/ down'[k] = down[k] /\ (hub'[k].did = hub[k].did \/ S!Deaf(k))
  \/ \E f \in DownFrame :
       /\ ~S!Deaf(k) /\ down'[k] = Append(down[k], f) /\ DownIs(k, f)' /\ DownNow(k, f)'
       /\ hub'[k].did = hub[k].did \/ (f.t = "item" /\ hub'[k].did = hub[k].did \cup {f.m})

LEMMA HubStreams ==
  ASSUME SInv, NEW k \in Conn, HubStep(k), Says(k), S!Job(conn[k]) \in {"check", "ack"}
  PROVE  Streams(k)'
<1>1. client' = client /\ conn' = conn /\ alive' = alive /\ conn[k] # None
  BY DEF HubStep
<1>2. down[k] \in Seq(DownFrame) /\ Conveys(k) /\ Len(down[k]) \in Nat
      /\ \A i \in 1 .. Len(down[k]) : down[k][i] \in Frames(down[k])
  BY OfConn, FramesTyped
<1>3. S!Uses(k)' <=> S!Uses(k)
  BY HubMonotone
<1>4. Streams(k)
  BY <1>1, <1>2 DEF Conveys
<1>5. \A i \in 1 .. Len(down[k]) : down[k][i].t # "ok"
  <2>1. \A f \in Frames(down[k]) : f.t = "ok" => S!Gone(k)
    BY <1>1, <1>2 DEF Conveys, DownIs
  <2>2. QED
    BY <1>2, <2>1 DEF HubStep
<1> SUFFICES ASSUME S!Uses(k), NEW m \in hub'[k].did
             PROVE  /\ alive[k] => m \in client[conn[k]].shown
                                     \/ \E f \in Frames(down'[k]) : f.t = "item" /\ f.m = m
                    /\ \A i \in 1 .. Len(down'[k]) : down'[k][i].t = "ok" =>
                         \/ m \in client[conn[k]].shown
                         \/ \E j \in 1 .. (i - 1) : down'[k][j].t = "item" /\ down'[k][j].m = m
  BY <1>1, <1>3 DEF Streams
<1>6. CASE down'[k] = down[k] /\ (hub'[k].did = hub[k].did \/ S!Deaf(k))
  <2>1. \A i \in 1 .. Len(down'[k]) : down'[k][i].t # "ok"
    BY <1>5, <1>6
  <2>2. S!Deaf(k) => ~alive[k]
    BY DEF S!Deaf
  <2>3. QED
    BY <1>4, <1>6, <2>1, <2>2 DEF Streams
<1>7. ASSUME NEW f \in DownFrame, ~S!Deaf(k), down'[k] = Append(down[k], f),
             hub'[k].did = hub[k].did \/ (f.t = "item" /\ hub'[k].did = hub[k].did \cup {f.m})
      PROVE  /\ alive[k] => m \in client[conn[k]].shown
                              \/ \E g \in Frames(down'[k]) : g.t = "item" /\ g.m = m
             /\ \A i \in 1 .. Len(down'[k]) : down'[k][i].t = "ok" =>
                  \/ m \in client[conn[k]].shown
                  \/ \E j \in 1 .. (i - 1) : down'[k][j].t = "item" /\ down'[k][j].m = m
  <2>1. /\ Len(down'[k]) = Len(down[k]) + 1 /\ Frames(down'[k]) = Frames(down[k]) \cup {f}
        /\ \A i \in 1 .. Len(down[k]) : down'[k][i] = down[k][i]
        /\ down'[k][Len(down[k]) + 1] = f
    BY <1>2, <1>7, AppendFrames
  <2>2. alive[k]
    BY <1>7, OfConn DEF S!Deaf
  <2>3. \/ m \in client[conn[k]].shown
        \/ \E g \in Frames(down[k]) : g.t = "item" /\ g.m = m
        \/ f.t = "item" /\ f.m = m
    BY <1>4, <1>7, <2>2 DEF Streams
  <2>4. ASSUME NEW i \in 1 .. Len(down'[k]), down'[k][i].t = "ok", m \notin client[conn[k]].shown
        PROVE  \E j \in 1 .. (i - 1) : down'[k][j].t = "item" /\ down'[k][j].m = m
    <3>1. i = Len(down[k]) + 1 /\ f.t = "ok"
      BY <1>2, <1>5, <2>1, <2>4
    <3>2. PICK g \in Frames(down[k]) : g.t = "item" /\ g.m = m
      BY <2>3, <2>4, <3>1
    <3>3. PICK j \in 1 .. Len(down[k]) : g = down[k][j]
      BY DEF Frames
    <3>4. j \in 1 .. (i - 1)
      BY <1>2, <3>1, <3>3
    <3>5. QED
      BY <2>1, <3>2, <3>3, <3>4
  <2>5. QED
    BY <2>1, <2>3, <2>4
<1>8. QED
  BY <1>6, <1>7 DEF Says

LEMMA HubKeeps ==
  ASSUME SInv, NEW k \in Conn, HubStep(k), Says(k), HubIs(k)', hub'[k].did \cap inbox' = {}
  PROVE  SInv'
<1>1. /\ client' = client /\ conn' = conn /\ cast' = cast /\ conn[k] # None
      /\ S!Job(conn[k])' = S!Job(conn[k]) /\ S!Job(conn[k]) \in S!Jobs
  BY OfConn, HubMonotone DEF HubStep, Conveys
<1>2. ASSUME NEW f \in Frames(down'[k])
      PROVE  DownIs(k, f)' /\ DownNow(k, f)'
  <2>1. down[k] \in Seq(DownFrame)
    BY OfConn
  <2>2. \A g \in DownFrame : down'[k] = Append(down[k], g) => Frames(down'[k]) = Frames(down[k]) \cup {g}
    BY <2>1, AppendFrames
  <2>3. QED
    BY <1>1, <1>2, <2>2, HubFrames DEF Says
<1>3. OneSend(k)'
  <2>1. up[k] \in Seq(UpFrame) /\ OneSend(k)
    BY <1>1, OfConn DEF Conveys
  <2>2. CASE up'[k] = up[k]
    BY <2>1, <2>2, HubMonotone DEF OneSend
  <2>3. CASE up[k] # <<>> /\ up'[k] = Tail(up[k])
    <3>1. /\ Len(up[k]) \in Nat /\ Len(up'[k]) = Len(up[k]) - 1
          /\ \A i \in 1 .. Len(up'[k]) : up'[k][i] = up[k][i + 1]
      BY <2>1, <2>3, TailFrames
    <3>2. \A i \in 1 .. Len(up'[k]) : i + 1 \in 1 .. Len(up[k])
      BY <3>1
    <3>3. ~S!Gone(k)
      BY DEF HubStep
    <3>4. ASSUME NEW i \in 1 .. Len(up'[k]), NEW j \in 1 .. Len(up'[k]),
                 up'[k][i].t = "send", up'[k][j].t = "send"
          PROVE  i = j
      <4>1. i + 1 = j + 1
        BY <2>1, <3>1, <3>2, <3>3, <3>4 DEF OneSend
      <4>2. QED
        BY <4>1
    <3>5. QED
      BY <3>4 DEF OneSend
  <2>4. QED
    BY <2>2, <2>3 DEF HubStep
<1>4. Conveys(k)'
  BY <1>1, <1>2, <1>3, HubFrames, HubStreams DEF Conveys
<1>5. SessionTypes'
  <2>1. landed' \in [Client -> Nat]
    <3>1. landed \in [Client -> Nat] /\ conn[k] \in Client
      BY <1>1, OfConn DEF SInv, SessionTypes
    <3>2. QED
      BY <3>1 DEF HubStep, Lands
  <2>2. QED
    BY <2>1 DEF SInv, SessionTypes, HubStep
<1>6. Pools'
  BY DEF HubStep
<1>7. ClaimIs'
  <2>1. ClaimIs /\ claim \in [by : Conn, fresh : BOOLEAN] \cup {None}
    BY DEF SInv, SessionTypes
  <2>2. \A j \in Conn : Channel(j) => Channel(j)'
    BY HubMonotone
  <2>3. CASE claim' = claim
    <3>1. claim # None => claim.by \in Conn /\ Channel(claim.by)
      BY <2>1 DEF ClaimIs, Channel
    <3>2. claim # None => Channel(claim.by)'
      BY <2>2, <2>3, <3>1
    <3>3. QED
      BY <2>3, <3>2 DEF ClaimIs, Channel
  <2>4. CASE claim' = None
    BY <2>4 DEF ClaimIs
  <2>5. CASE claim'.by = k /\ Channel(k)'
    BY <2>5 DEF ClaimIs, Channel
  <2>6. QED
    BY <2>3, <2>4, <2>5 DEF HubStep
<1>8. QED
  BY <1>4, <1>5, <1>6, <1>7, HubClients, HubConns DEF SInv

\* A session takes the head of what was sent to it, or nothing.
UpOf(k) ==
  /\ UNCHANGED <<cast, client, conn, alive>>
  /\ up' \in [Conn -> Seq(UpFrame)] /\ \A j \in Conn \ {k} : up'[j] = up[j]
  /\ up'[k] = up[k] \/ (up[k] # <<>> /\ up'[k] = Tail(up[k]))
\* An id that answers what the client has asked, or has not asked for long.
Fits(k, id) == S!Uses(k) => /\ id <= client[conn[k]].id
                            /\ client[conn[k]].pc = "request" => id < client[conn[k]].id

LEMMA Opened == ASSUME SInv, NEW k \in Conn, hub[k].pc # "none" PROVE conn[k] # None
<1>1. S!Asleep.pc = "none"
  BY DEF S!Asleep
<1>2. QED
  BY <1>1, OfConn DEF Conveys, Unopened

LEMMA ReadsIs ==
  ASSUME SInv, NEW k \in Conn, NEW pc \in {"hello", "loop"}, NEW t, S!Reads(k, pc, t)
  PROVE  /\ UpOf(k) /\ conn[k] # None /\ ~S!Gone(k) /\ hub[k].pc = pc
         /\ Head(up[k]) \in Frames(up[k]) /\ Head(up[k]) \in UpFrame /\ Head(up[k]).t = t
         /\ UpIs(k, Head(up[k])) /\ UpNow(k, Head(up[k]))
         /\ S!Req(k) = Head(up[k]).id /\ S!Req(k) \in Nat /\ Fits(k, S!Req(k))
<1>1. up[k] \in Seq(UpFrame) /\ up[k] # <<>> /\ hub[k].pc = pc /\ Head(up[k]).t = t
  BY OfConn DEF S!Reads
<1>2. conn[k] # None
  BY <1>1, Opened
<1>3. Tail(up[k]) \in Seq(UpFrame) /\ Head(up[k]) \in Frames(up[k]) /\ Head(up[k]) \in UpFrame
  BY <1>1, TailFrames
<1>4. UpIs(k, Head(up[k])) /\ UpNow(k, Head(up[k]))
  BY <1>2, <1>3, OfConn DEF Conveys
<1>5. UpOf(k)
  BY <1>1, <1>3 DEF UpOf, S!Reads, SInv, SessionTypes
<1>6. S!Req(k) = Head(up[k]).id /\ S!Req(k) \in Nat
  BY <1>3 DEF S!Req, UpFrame
<1>7. Fits(k, S!Req(k))
  BY <1>4, <1>6 DEF Fits, UpNow
<1>8. ~S!Gone(k)
  BY <1>1 DEF S!Gone
<1>9. QED
  BY <1>1, <1>2, <1>3, <1>4, <1>5, <1>6, <1>7, <1>8

LEMMA RepliesIs ==
  ASSUME SInv, NEW k \in Conn, NEW t \in Answers, NEW id \in Nat, NEW m \in Mail \cup {None},
         S!Reply(k, t, id, m)
  PROVE  /\ down' \in [Conn -> Seq(DownFrame)] /\ \A j \in Conn \ {k} : down'[j] = down[j]
         /\ S!Deaf(k) => down'[k] = down[k]
         /\ ~S!Deaf(k) => down'[k] = Append(down[k], [t |-> t, id |-> id, m |-> m])
         /\ [t |-> t, id |-> id, m |-> m] \in DownFrame
<1>1. [t |-> t, id |-> id, m |-> m] \in DownFrame
  BY DEF DownFrame
<1>2. down[k] \in Seq(DownFrame) /\ down \in [Conn -> Seq(DownFrame)]
  BY OfConn DEF SInv, SessionTypes
<1>3. Append(down[k], [t |-> t, id |-> id, m |-> m]) \in Seq(DownFrame)
  BY <1>1, <1>2, AppendFrames
<1>4. QED
  BY <1>1, <1>2, <1>3 DEF S!Reply

LEMMA EndIs ==
  ASSUME SInv, NEW k \in Conn, S!End(k)
  PROVE  /\ hub' \in [Conn -> SessionRec] /\ \A j \in Conn \ {k} : hub'[j] = hub[j]
         /\ hub'[k].pc = "end" /\ S!Gone(k)' /\ hub'[k].did = hub[k].did /\ hub'[k].last = 0
         /\ claim' \in [by : Conn, fresh : BOOLEAN] \cup {None} /\ (claim' = claim \/ claim' = None)
<1>1. hub[k] \in SessionRec /\ hub \in [Conn -> SessionRec]
      /\ claim \in [by : Conn, fresh : BOOLEAN] \cup {None}
  BY OfConn DEF SInv, SessionTypes
<1>2. [S!Asleep EXCEPT !.pc = "end", !.did = hub[k].did] \in SessionRec
  BY <1>1 DEF S!Asleep, SessionRec
<1>3. QED
  BY <1>1, <1>2 DEF S!End, S!Gone, S!Asleep

Quiet == UNCHANGED <<inbox, claimed, archive>>

LEMMA EndKeeps ==
  ASSUME SInv, NEW k \in Conn, conn[k] # None, ~S!Gone(k), UpOf(k), Quiet, landed' = landed,
         S!End(k),
         NEW t \in (S!Refusals \ {"order"}) \cup {"ok"}, NEW id \in Nat,
         down' = down \/ (S!Reply(k, t, id, None) /\ Fits(k, id)),
         t = "ok" /\ S!Job(conn[k]) = "check" => inbox = {},
         t # "ok" /\ S!Job(conn[k]) = "send" /\ id = 2 => Clear(conn[k])'
  PROVE  SInv'
<1>1. /\ hub' \in [Conn -> SessionRec] /\ \A j \in Conn \ {k} : hub'[j] = hub[j]
      /\ hub'[k].pc = "end" /\ S!Gone(k)' /\ hub'[k].did = hub[k].did /\ hub'[k].last = 0
      /\ claim' \in [by : Conn, fresh : BOOLEAN] \cup {None} /\ (claim' = claim \/ claim' = None)
  BY EndIs
<1> DEFINE f == [t |-> t, id |-> id, m |-> None]
<1>2. f \in DownFrame /\ f.t = t /\ f.id = id
  BY DEF DownFrame, Answers
<1>3. /\ down' \in [Conn -> Seq(DownFrame)] /\ \A j \in Conn \ {k} : down'[j] = down[j]
      /\ down'[k] = down[k] \/ (~S!Deaf(k) /\ down'[k] = Append(down[k], f) /\ Fits(k, id))
  <2>1. CASE down' = down
    BY <2>1 DEF SInv, SessionTypes
  <2>2. CASE S!Reply(k, t, id, None) /\ Fits(k, id)
    BY <2>2, RepliesIs DEF Answers
  <2>3. QED
    BY <2>1, <2>2
<1> HIDE DEF f
<1>4. HubStep(k)
  BY <1>1, <1>3 DEF UpOf, Quiet, HubStep, Channel, Beating, SInv, Pools
<1>5. Says(k)
  <2>1. CASE down'[k] = down[k]
    BY <1>1, <2>1 DEF Says
  <2>2. CASE ~S!Deaf(k) /\ down'[k] = Append(down[k], f) /\ Fits(k, id)
    <3>1. client' = client /\ conn' = conn /\ cast' = cast /\ inbox' = inbox
      BY DEF UpOf, Quiet
    <3>2. DownIs(k, f)'
      <4>1. f.t # "item" /\ S!Job(conn[k])' = S!Job(conn[k])
        BY <1>2, <3>1 DEF S!Refusals, S!Job
      <4>2. QED
        BY <1>1, <1>2, <3>1, <4>1 DEF DownIs
    <3>3. DownNow(k, f)'
      <4>1. S!Uses(k)' <=> S!Uses(k)
        BY <1>4, HubMonotone
      <4>2. Channel(k)' /\ Beating(k)' /\ S!Job(conn[k])' = S!Job(conn[k])
        BY <1>1, <3>1 DEF Channel, Beating, S!Job
      <4>3. f.t \in S!Refusals => t # "ok"
        BY <1>2 DEF S!Refusals
      <4>4. QED
        BY <1>2, <2>2, <3>1, <4>1, <4>2, <4>3 DEF DownNow, Fits
    <3>4. QED
      BY <1>1, <1>2, <2>2, <3>2, <3>3 DEF Says
  <2>3. QED
    BY <1>3, <2>1, <2>2
<1>6. HubIs(k)'
  BY <1>1 DEF HubIs
<1>7. hub'[k].did \cap inbox' = {}
  BY <1>1, OfConn DEF Conveys, Quiet
<1>8. QED
  BY <1>4, <1>5, <1>6, <1>7, HubKeeps

-----------------------------------------------------------------------------
(* The sessions: the steps of the hub *)

LEMMA HelloRefusedKeeps == ASSUME SInv, NEW k \in Conn, S!HelloRefused(k) PROVE SInv'
<1>1. S!Reads(k, "hello", "hello") /\ S!Reply(k, "refused", S!Req(k), None) /\ S!End(k)
      /\ UNCHANGED <<inbox, claimed, archive, landed>>
  BY DEF S!HelloRefused, S!pool
<1>2. /\ UpOf(k) /\ conn[k] # None /\ ~S!Gone(k) /\ S!Req(k) = 1 /\ Fits(k, S!Req(k))
  BY <1>1, ReadsIs DEF UpIs
<1>3. "refused" \in S!Refusals \ {"order"} /\ "refused" # "ok"
  BY DEF S!Refusals
<1>4. QED
  BY <1>1, <1>2, <1>3, EndKeeps DEF Quiet

LEMMA ReleaseKeeps == ASSUME SInv, NEW k \in Conn, S!Release(k) PROVE SInv'
<1>1. S!Reads(k, "loop", "lease-release") /\ S!Reply(k, "ok", S!Req(k), None) /\ S!End(k)
      /\ UNCHANGED <<inbox, claimed, archive, landed>>
  BY DEF S!Release, S!Takes, S!pool
<1>2. /\ UpOf(k) /\ conn[k] # None /\ ~S!Gone(k) /\ S!Req(k) \in Nat /\ Fits(k, S!Req(k))
      /\ "lease-release" \in {"hello"} \cup Asks(conn[k])
  BY <1>1, ReadsIs DEF UpIs
<1>3. S!Job(conn[k]) # "check"
  BY <1>2 DEF Asks, LaneAsks
<1>4. QED
  BY <1>1, <1>2, <1>3, EndKeeps DEF Quiet

LEMMA QueryKeeps == ASSUME SInv, NEW k \in Conn, S!Query(k) PROVE SInv'
<1>1. /\ S!Reads(k, "loop", "query") /\ S!End(k)
      /\ S!Reply(k, "ok", S!Req(k), None) \/ S!Reply(k, "refused", S!Req(k), None)
      /\ UNCHANGED <<inbox, claimed, archive, landed>>
  BY DEF S!Query, S!Takes, S!pool
<1>2. /\ UpOf(k) /\ conn[k] # None /\ ~S!Gone(k) /\ S!Req(k) \in Nat /\ Fits(k, S!Req(k))
      /\ "query" \in {"hello"} \cup Asks(conn[k])
  BY <1>1, ReadsIs DEF UpIs
<1>3. S!Job(conn[k]) \notin {"check", "send"}
  BY <1>2 DEF Asks, LaneAsks
<1>4. "refused" \in S!Refusals \ {"order"}
  BY DEF S!Refusals
<1>5. QED
  BY <1>1, <1>2, <1>3, <1>4, EndKeeps DEF Quiet

\* A session that works on a request answers that one.
LEMMA Working ==
  ASSUME SInv, NEW k \in Conn, hub[k].pc \in {"check", "ack", "answer"}
  PROVE  /\ conn[k] # None /\ ~S!Gone(k) /\ hub[k].re = 2 /\ Fits(k, 2)
         /\ hub[k].pc \in {"check", "ack"} => S!Job(conn[k]) = hub[k].pc
         /\ hub[k].pc = "answer" => S!Job(conn[k]) = "send"
<1>1. conn[k] # None
  BY Opened
<1>2. HubIs(k)
  BY <1>1, OfConn DEF Conveys
<1>3. ASSUME S!Uses(k)
      PROVE  client[conn[k]].id >= 2 /\ client[conn[k]].pc = "waiting"
  BY <1>2, <1>3, OfClient, UserIs DEF HubIs, Asking
<1>4. Fits(k, 2)
  <2>1. S!Uses(k) => client[conn[k]].id \in Nat
    BY UserIs, OfClient DEF ClientRec
  <2>2. QED
    BY <1>3, <2>1 DEF Fits
<1>5. QED
  BY <1>1, <1>2, <1>4 DEF HubIs, S!Gone

LEMMA FinishKeeps == ASSUME SInv, NEW k \in Conn, S!Finish(k) PROVE SInv'
<1>1. /\ S!Reply(k, "ok", hub[k].re, None) /\ S!End(k)
      /\ UNCHANGED <<cast, client, conn, alive, up, inbox, claimed, archive, landed>>
      /\ hub[k].pc \in {"check", "ack", "answer"}
      /\ hub[k].pc = "check" => inbox \cup claimed \subseteq hub[k].did
  BY DEF S!Finish, S!pool
<1>2. UpOf(k)
  BY <1>1 DEF UpOf, SInv, SessionTypes
<1>3. S!Job(conn[k]) = "check" => inbox = {}
  <2>1. S!Job(conn[k]) = "check" => hub[k].pc = "check"
    BY <1>1, Working
  <2>2. hub[k].did \cap inbox = {}
    BY OfConn DEF Conveys
  <2>3. QED
    BY <1>1, <2>1, <2>2
<1>4. QED
  BY <1>1, <1>2, <1>3, Working, EndKeeps DEF Quiet

LEMMA BreakKeeps == ASSUME SInv, NEW k \in Conn, S!Break(k) PROVE SInv'
<1>1. /\ S!Reply(k, "refused", hub[k].re, None) /\ S!End(k)
      /\ UNCHANGED <<cast, client, conn, alive, up, inbox, claimed, archive, landed>>
      /\ hub[k].pc \in {"check", "ack"}
  BY DEF S!Break, S!pool
<1>2. UpOf(k)
  BY <1>1 DEF UpOf, SInv, SessionTypes
<1>3. "refused" \in S!Refusals \ {"order"} /\ S!Job(conn[k]) # "send"
  BY <1>1, Working DEF S!Refusals
<1>4. QED
  BY <1>1, <1>2, <1>3, Working, EndKeeps DEF Quiet

LEMMA DeadlineKeeps == ASSUME SInv, NEW k \in Conn, S!Deadline(k) PROVE SInv'
<1>1. /\ S!Reply(k, "refused", 0, None) /\ S!End(k)
      /\ UNCHANGED <<cast, client, conn, alive, up, inbox, claimed, archive, landed>>
      /\ hub[k].pc \in {"hello", "loop"}
  BY DEF S!Deadline, S!pool
<1>2. UpOf(k)
  BY <1>1 DEF UpOf, SInv, SessionTypes
<1>3. "refused" \in S!Refusals \ {"order"} /\ conn[k] # None /\ ~S!Gone(k)
  BY <1>1, Opened DEF S!Refusals, S!Gone
<1>4. Fits(k, 0)
  <2>1. S!Uses(k) => /\ client[conn[k]].id \in Nat /\ client[conn[k]].pc \in Active
                     /\ Asking(conn[k])
    BY UserIs, OfClient DEF ClientRec
  <2>2. S!Uses(k) => client[conn[k]].id > 0
    BY <2>1 DEF Asking, Active
  <2>3. QED
    BY <2>1, <2>2 DEF Fits
<1>5. QED
  BY <1>1, <1>2, <1>3, <1>4, EndKeeps DEF Quiet

LEMMA StopsKeep == ASSUME SInv, NEW k \in Conn, S!HangsUp(k) \/ S!Stopped(k) PROVE SInv'
<1>1. /\ S!End(k) /\ hub[k].pc # "none" /\ ~S!Gone(k)
      /\ UNCHANGED <<cast, client, conn, alive, up, down, inbox, claimed, archive, landed>>
  BY DEF S!HangsUp, S!Stopped, S!pool
<1>2. UpOf(k) /\ conn[k] # None
  BY <1>1, Opened DEF UpOf, SInv, SessionTypes
<1>3. "refused" \in S!Refusals \ {"order"} /\ 0 \in Nat
  BY DEF S!Refusals
<1>4. QED
  BY <1>1, <1>2, <1>3, EndKeeps DEF Quiet

LEMMA HubKilledKeeps == ASSUME SInv, NEW k \in Conn, S!HubKilled(k) PROVE SInv'
<1>1. /\ hub[k].pc # "none" /\ ~S!Gone(k)
      /\ hub' = [hub EXCEPT ![k] = [S!Asleep EXCEPT !.pc = "killed", !.did = hub[k].did]]
      /\ UNCHANGED <<cast, client, conn, alive, up, down, claim, inbox, claimed, archive, landed>>
  BY DEF S!HubKilled, S!pool
<1>2. hub[k] \in SessionRec /\ hub \in [Conn -> SessionRec]
  BY OfConn DEF SInv, SessionTypes
<1>3. [S!Asleep EXCEPT !.pc = "killed", !.did = hub[k].did] \in SessionRec
  BY <1>2 DEF S!Asleep, SessionRec
<1>4. /\ hub' \in [Conn -> SessionRec] /\ \A j \in Conn \ {k} : hub'[j] = hub[j]
      /\ S!Gone(k)' /\ hub'[k].pc = "killed" /\ hub'[k].did = hub[k].did /\ hub'[k].last = 0
  BY <1>1, <1>2, <1>3 DEF S!Gone, S!Asleep
<1>5. HubStep(k)
  BY <1>1, <1>4, Opened DEF HubStep, Channel, Beating, SInv, SessionTypes, Pools
<1>6. Says(k) /\ HubIs(k)' /\ hub'[k].did \cap inbox' = {}
  BY <1>1, <1>4, OfConn DEF Says, HubIs, Conveys
<1>7. QED
  BY <1>5, <1>6, HubKeeps

\* A session that answers and goes on.
LEMMA GoesOn ==
  ASSUME SInv, NEW k \in Conn, conn[k] # None, ~S!Gone(k), UpOf(k), Quiet, landed' = landed,
         NEW r \in SessionRec, hub' = [hub EXCEPT ![k] = r], r.did = hub[k].did, r.pc = "loop",
         r.last <= 2 \/ r.mode = "channel",
         hub[k].mode = "channel" => r.mode = "channel",
         hub[k].template => r.template,
         claim' \in [by : Conn, fresh : BOOLEAN] \cup {None},
         claim' = claim \/ (claim'.by = k /\ r.mode = "channel"),
         NEW t \in Answers \ {"item"}, NEW id \in Nat,
         S!Reply(k, t, id, None), Fits(k, id),
         t = "ok" => S!Job(conn[k]) = "lane",
         t \in S!Refusals => S!Job(conn[k]) # "send",
         t = "ok" /\ S!Uses(k) /\ client[conn[k]].pc = "waiting" /\ id = client[conn[k]].id =>
           /\ client[conn[k]].ask = "lease-acquire" => r.mode = "channel"
           /\ client[conn[k]].ask = "register" => r.mode = "channel" /\ r.template
  PROVE  SInv'
<1>1. /\ hub' \in [Conn -> SessionRec] /\ \A j \in Conn \ {k} : hub'[j] = hub[j]
      /\ hub'[k] = r /\ ~S!Gone(k)'
  BY DEF SInv, SessionTypes, S!Gone
<1>2. /\ Channel(k)' <=> r.mode = "channel"
      /\ Beating(k)' <=> (r.mode = "channel" /\ r.template)
      /\ Channel(k) => hub[k].mode = "channel"
      /\ Beating(k) => hub[k].mode = "channel" /\ hub[k].template
  BY <1>1 DEF Channel, Beating
<1> DEFINE f == [t |-> t, id |-> id, m |-> None]
<1>3. /\ down' \in [Conn -> Seq(DownFrame)] /\ \A j \in Conn \ {k} : down'[j] = down[j]
      /\ S!Deaf(k) => down'[k] = down[k]
      /\ ~S!Deaf(k) => down'[k] = Append(down[k], f)
      /\ f \in DownFrame /\ f.t = t /\ f.id = id
  BY RepliesIs
<1> HIDE DEF f
<1>4. HubStep(k)
  BY <1>1, <1>2, <1>3 DEF UpOf, Quiet, HubStep, SInv, Pools
<1>5. client' = client /\ conn' = conn /\ cast' = cast /\ inbox' = inbox
  BY DEF UpOf, Quiet
<1>6. DownIs(k, f)'
  <2>1. f.t # "item" /\ S!Job(conn[k])' = S!Job(conn[k])
    BY <1>3, <1>5 DEF S!Job
  <2>2. f.t = "ok" => S!Job(conn[k]) = "lane" /\ S!Job(conn[k]) # "check"
    BY <1>3
  <2>3. QED
    BY <1>5, <2>1, <2>2 DEF DownIs
<1>7. DownNow(k, f)'
  <2>1. S!Uses(k)' <=> S!Uses(k)
    BY <1>4, HubMonotone
  <2>2. S!Job(conn[k])' = S!Job(conn[k])
    BY <1>5 DEF S!Job
  <2>3. QED
    BY <1>2, <1>3, <1>5, <2>1, <2>2 DEF DownNow, Fits
<1>8. Says(k)
  BY <1>1, <1>3, <1>6, <1>7 DEF Says
<1>9. HubIs(k)'
  BY <1>1 DEF HubIs
<1>10. hub'[k].did \cap inbox' = {}
  BY <1>1, <1>5, OfConn DEF Conveys
<1>11. QED
  BY <1>4, <1>8, <1>9, <1>10, HubKeeps

LEMMA HelloKeeps == ASSUME SInv, NEW k \in Conn, S!Hello(k) PROVE SInv'
<1>1. /\ S!Reads(k, "hello", "hello") /\ S!Reply(k, "hello-ok", S!Req(k), None)
      /\ hub' = [hub EXCEPT ![k].pc = "loop", ![k].last = S!Req(k)]
      /\ UNCHANGED <<inbox, claimed, archive, landed, claim>>
  BY DEF S!Hello, S!pool
<1>2. /\ UpOf(k) /\ conn[k] # None /\ ~S!Gone(k) /\ S!Req(k) = 1 /\ Fits(k, 1)
      /\ S!Reply(k, "hello-ok", 1, None)
  BY <1>1, ReadsIs DEF UpIs
<1> DEFINE r == [hub[k] EXCEPT !.pc = "loop", !.last = 1]
<1>3. hub[k] \in SessionRec /\ hub \in [Conn -> SessionRec]
  BY OfConn DEF SInv, SessionTypes
<1>4. r \in SessionRec
  BY <1>3 DEF SessionRec
<1>5. r.pc = "loop" /\ r.last = 1 /\ r.did = hub[k].did /\ r.mode = hub[k].mode
  BY <1>3 DEF SessionRec
<1>6. r.template <=> hub[k].template
  BY <1>3 DEF SessionRec
<1>7. hub' = [hub EXCEPT ![k] = r]
  BY <1>1, <1>2, <1>3
<1>8. "hello-ok" \in Answers \ {"item"} /\ "hello-ok" \notin S!Refusals /\ 1 <= 2 /\ 1 \in Nat
  BY DEF Answers, S!Refusals
<1>9. claim' \in [by : Conn, fresh : BOOLEAN] \cup {None} /\ Quiet /\ landed' = landed
  BY <1>1 DEF SInv, SessionTypes, Quiet
<1> HIDE DEF r
<1>10. QED
  BY <1>1, <1>2, <1>4, <1>5, <1>6, <1>7, <1>8, <1>9, GoesOn

\* A session takes a request of its client.
LEMMA TakesIs ==
  ASSUME SInv, NEW k \in Conn, NEW t \in S!Jobs \cup LaneAsks, S!Takes(k, t)
  PROVE  /\ UpOf(k) /\ conn[k] # None /\ ~S!Gone(k) /\ hub[k].pc = "loop"
         /\ S!Req(k) \in Nat /\ S!Req(k) >= 2 /\ Fits(k, S!Req(k))
         /\ t \in Asks(conn[k])
         /\ t \notin LaneAsks \ {"lease-acquire"} => S!Req(k) = 2
         /\ t = "register" => hub[k].mode = "channel"
         /\ t \in {"tick", "lease-release"} => hub[k].mode = "channel" /\ hub[k].template
         /\ S!Uses(k) /\ client[conn[k]].pc = "waiting" /\ S!Req(k) = client[conn[k]].id =>
              client[conn[k]].ask = t
<1>1. S!Reads(k, "loop", t)
  BY DEF S!Takes
<1>2. /\ UpOf(k) /\ conn[k] # None /\ ~S!Gone(k) /\ hub[k].pc = "loop"
      /\ Head(up[k]).t = t /\ UpIs(k, Head(up[k])) /\ UpNow(k, Head(up[k]))
      /\ S!Req(k) = Head(up[k]).id /\ S!Req(k) \in Nat /\ Fits(k, S!Req(k))
  BY <1>1, ReadsIs
<1>3. t # "hello"
  BY DEF S!Jobs, LaneAsks
<1>4. QED
  BY <1>2, <1>3 DEF UpIs, UpNow, Channel, Beating

LEMMA StaysIs ==
  ASSUME SInv, NEW k \in Conn, hub[k].pc = "loop", S!Req(k) \in Nat,
         NEW mode \in {"", "channel"}, NEW template \in BOOLEAN,
         NEW r, r = [hub[k] EXCEPT !.mode = mode, !.template = template], S!Stays(k, r)
  PROVE  \E s \in SessionRec :
           /\ hub' = [hub EXCEPT ![k] = s] /\ s.pc = "loop" /\ s.last = S!Req(k)
           /\ s.did = hub[k].did /\ s.mode = mode /\ s.template = template
<1>1. hub[k] \in SessionRec
  BY OfConn
<1>2. r \in SessionRec /\ r.pc = "loop" /\ r.did = hub[k].did /\ r.mode = mode /\ r.template = template
  BY <1>1 DEF SessionRec
<1> DEFINE s == [r EXCEPT !.last = S!Req(k)]
<1>3. /\ s \in SessionRec /\ s.pc = "loop" /\ s.last = S!Req(k)
      /\ s.did = hub[k].did /\ s.mode = mode /\ s.template = template
  BY <1>2 DEF SessionRec
<1>4. hub' = [hub EXCEPT ![k] = s]
  BY DEF S!Stays
<1>5. QED
  BY <1>3, <1>4

\* The lane's requests: what they get, in the order of the lane.
LEMMA AcquireKeeps == ASSUME SInv, NEW k \in Conn, S!Acquire(k) PROVE SInv'
<1>1. S!Takes(k, "lease-acquire") /\ hub[k].mode = "" /\ UNCHANGED <<inbox, claimed, archive, landed>>
  BY DEF S!Acquire, S!pool
<1>2. "lease-acquire" \in S!Jobs \cup LaneAsks
  BY DEF LaneAsks
<1>3. /\ UpOf(k) /\ conn[k] # None /\ ~S!Gone(k) /\ hub[k].pc = "loop"
      /\ S!Req(k) \in Nat /\ S!Req(k) = 2 /\ Fits(k, 2)
      /\ "lease-acquire" \in Asks(conn[k])
      /\ S!Uses(k) /\ client[conn[k]].pc = "waiting" /\ 2 = client[conn[k]].id =>
           client[conn[k]].ask = "lease-acquire"
  BY <1>1, <1>2, TakesIs
<1>4. S!Job(conn[k]) = "lane"
  <2>1. S!Job(conn[k]) \in S!Jobs
    BY <1>3, OfConn DEF Conveys
  <2>2. QED
    BY <1>3, <2>1 DEF Asks, S!Jobs
<1>5. CASE ~S!Acquirable
  <2>1. S!Reply(k, "held", 2, None) /\ S!End(k)
    BY <1>3, <1>5 DEF S!Acquire
  <2>2. "held" \in S!Refusals \ {"order"}
    BY DEF S!Refusals
  <2>3. QED
    BY <1>1, <1>3, <1>4, <2>1, <2>2, EndKeeps DEF Quiet
<1>6. CASE S!Acquirable
  <2>1. /\ claim' = [by |-> k, fresh |-> TRUE] /\ S!Reply(k, "ok", 2, None)
        /\ S!Stays(k, [hub[k] EXCEPT !.mode = "channel"])
    BY <1>3, <1>6 DEF S!Acquire
  <2>2. hub[k].template \in BOOLEAN /\ hub[k] \in SessionRec /\ "channel" \in {"", "channel"}
    BY OfConn DEF SessionRec
  <2>3. [hub[k] EXCEPT !.mode = "channel"] =
          [hub[k] EXCEPT !.mode = "channel", !.template = hub[k].template]
    BY <2>2 DEF SessionRec
  <2>4. PICK s \in SessionRec :
           /\ hub' = [hub EXCEPT ![k] = s] /\ s.pc = "loop" /\ s.last = S!Req(k)
           /\ s.did = hub[k].did /\ s.mode = "channel" /\ s.template = hub[k].template
    <3>1. hub[k].pc = "loop" /\ S!Req(k) \in Nat /\ S!Stays(k, [hub[k] EXCEPT !.mode = "channel"])
      BY <1>3, <2>1
    <3>2. QED
      BY ONLY SInv, k \in Conn, <2>2, <2>3, <3>1, StaysIs
  <2>5. "ok" \in Answers \ {"item"} /\ "ok" \notin S!Refusals /\ 2 <= 2 /\ 2 \in Nat
    BY DEF Answers, S!Refusals
  <2>6. claim' \in [by : Conn, fresh : BOOLEAN] \cup {None} /\ claim'.by = k
    BY <2>1
  <2>7. Quiet /\ landed' = landed
    BY <1>1 DEF Quiet
  <2>8. (hub[k].template => s.template) /\ s.last = 2
    BY <1>3, <2>4
  <2>9. QED
    BY <1>3, <1>4, <2>1, <2>4, <2>5, <2>6, <2>7, <2>8, GoesOn
<1>7. QED
  BY <1>5, <1>6

LEMMA RegisterKeeps == ASSUME SInv, NEW k \in Conn, S!Register(k) PROVE SInv'
<1>1. S!Takes(k, "register") /\ UNCHANGED <<inbox, claimed, archive, landed, claim>>
  BY DEF S!Register, S!pool
<1>2. "register" \in S!Jobs \cup LaneAsks
  BY DEF LaneAsks
<1> DEFINE id == S!Req(k)
<1>3. /\ UpOf(k) /\ conn[k] # None /\ ~S!Gone(k) /\ hub[k].pc = "loop"
      /\ id \in Nat /\ Fits(k, id) /\ "register" \in Asks(conn[k]) /\ hub[k].mode = "channel"
      /\ S!Uses(k) /\ client[conn[k]].pc = "waiting" /\ id = client[conn[k]].id =>
           client[conn[k]].ask = "register"
  BY <1>1, <1>2, TakesIs
<1>4. S!Job(conn[k]) = "lane"
  <2>1. S!Job(conn[k]) \in S!Jobs
    BY <1>3, OfConn DEF Conveys
  <2>2. QED
    BY <1>3, <2>1 DEF Asks, S!Jobs
<1>5. hub[k].template \in BOOLEAN /\ hub[k] \in SessionRec
  BY OfConn DEF SessionRec
<1>6. claim' \in [by : Conn, fresh : BOOLEAN] \cup {None} /\ claim' = claim /\ Quiet /\ landed' = landed
  BY <1>1 DEF SInv, SessionTypes, Quiet
<1>7. /\ {"ok", "refused"} \subseteq Answers \ {"item"} /\ "refused" # "ok"
      /\ "channel" \in {"", "channel"} /\ TRUE \in BOOLEAN
  BY DEF Answers, S!Refusals
<1>8. CASE S!Reply(k, "ok", id, None) /\ S!Stays(k, [hub[k] EXCEPT !.template = TRUE])
  <2>1. [hub[k] EXCEPT !.template = TRUE] = [hub[k] EXCEPT !.mode = "channel", !.template = TRUE]
    BY <1>3, <1>5 DEF SessionRec
  <2>2. PICK s \in SessionRec :
           /\ hub' = [hub EXCEPT ![k] = s] /\ s.pc = "loop" /\ s.last = S!Req(k)
           /\ s.did = hub[k].did /\ s.mode = "channel" /\ s.template = TRUE
    BY <1>3, <1>7, <1>8, <2>1, StaysIs
  <2>3. s.template
    BY <2>2
  <2>4. "ok" \notin S!Refusals
    BY DEF S!Refusals
  <2> HIDE DEF id
  <2>5. QED
    BY <1>3, <1>4, <1>6, <1>7, <1>8, <2>2, <2>3, <2>4, GoesOn
<1>9. CASE S!Reply(k, "refused", id, None) /\ S!Stays(k, hub[k])
  <2>1. hub[k] = [hub[k] EXCEPT !.mode = "channel", !.template = hub[k].template]
    BY <1>3, <1>5 DEF SessionRec
  <2>2. PICK s \in SessionRec :
           /\ hub' = [hub EXCEPT ![k] = s] /\ s.pc = "loop" /\ s.last = S!Req(k)
           /\ s.did = hub[k].did /\ s.mode = "channel" /\ s.template = hub[k].template
    <3>1. /\ hub[k].pc = "loop" /\ S!Req(k) \in Nat /\ S!Stays(k, hub[k])
          /\ "channel" \in {"", "channel"} /\ hub[k].template \in BOOLEAN
      BY <1>3, <1>5, <1>7, <1>9
    <3> HIDE DEF id
    <3>2. QED
      BY ONLY SInv, k \in Conn, <2>1, <3>1, StaysIs
  <2>3. hub[k].template => s.template
    BY <2>2
  <2> HIDE DEF id
  <2>4. QED
    BY <1>3, <1>4, <1>6, <1>7, <1>9, <2>2, <2>3, GoesOn
<1>10. QED
  BY <1>8, <1>9 DEF S!Register

LEMMA TickKeeps == ASSUME SInv, NEW k \in Conn, S!Tick(k) PROVE SInv'
<1>1. S!Takes(k, "tick") /\ UNCHANGED <<inbox, claimed, archive, landed>>
  BY DEF S!Tick, S!pool
<1>2. "tick" \in S!Jobs \cup LaneAsks
  BY DEF LaneAsks
<1> DEFINE id == S!Req(k)
<1>3. /\ UpOf(k) /\ conn[k] # None /\ ~S!Gone(k) /\ hub[k].pc = "loop"
      /\ id \in Nat /\ Fits(k, id) /\ "tick" \in Asks(conn[k])
      /\ hub[k].mode = "channel" /\ hub[k].template
      /\ S!Uses(k) /\ client[conn[k]].pc = "waiting" /\ id = client[conn[k]].id =>
           client[conn[k]].ask = "tick"
  BY <1>1, <1>2, TakesIs
<1>4. S!Job(conn[k]) = "lane"
  <2>1. S!Job(conn[k]) \in S!Jobs
    BY <1>3, OfConn DEF Conveys
  <2>2. QED
    BY <1>3, <2>1 DEF Asks, S!Jobs
<1>5. hub[k].template \in BOOLEAN /\ hub[k] \in SessionRec
  BY OfConn DEF SessionRec
<1>6. Quiet /\ landed' = landed
  BY <1>1 DEF Quiet
<1>7. CASE ~S!Held(k)
  <2>1. S!Reply(k, "fenced", id, None) /\ S!End(k)
    BY <1>3, <1>7 DEF S!Tick
  <2>2. "fenced" \in S!Refusals \ {"order"}
    BY DEF S!Refusals
  <2> HIDE DEF id
  <2>3. QED
    BY <1>3, <1>4, <1>6, <2>1, <2>2, EndKeeps
<1>8. CASE S!Held(k)
  <2>1. /\ claim' = [claim EXCEPT !.fresh = TRUE]
        /\ S!Reply(k, "ok", id, None) /\ S!Stays(k, hub[k])
    BY <1>3, <1>8 DEF S!Tick
  <2>2. claim' \in [by : Conn, fresh : BOOLEAN] \cup {None} /\ claim'.by = k
    BY <1>8, <2>1 DEF S!Held, SInv, SessionTypes
  <2>3. hub[k] = [hub[k] EXCEPT !.mode = "channel", !.template = hub[k].template]
    BY <1>3, <1>5 DEF SessionRec
  <2>4. hub[k].pc = "loop" /\ S!Req(k) \in Nat /\ "channel" \in {"", "channel"} /\ S!Stays(k, hub[k])
    BY <1>3, <2>1
  <2>5. hub[k].template \in BOOLEAN
    BY <1>5
  <2> HIDE DEF id
  <2>6. PICK s \in SessionRec :
           /\ hub' = [hub EXCEPT ![k] = s] /\ s.pc = "loop" /\ s.last = S!Req(k)
           /\ s.did = hub[k].did /\ s.mode = "channel" /\ s.template = hub[k].template
    BY ONLY SInv, k \in Conn, <2>3, <2>4, <2>5, StaysIs
  <2>7. s.template
    BY <1>3, <2>6
  <2>8. "ok" \in Answers \ {"item"} /\ "ok" \notin S!Refusals
    BY DEF Answers, S!Refusals
  <2>9. QED
    BY <1>3, <1>4, <1>6, <2>1, <2>2, <2>6, <2>7, <2>8, GoesOn
<1>9. QED
  BY <1>7, <1>8

\* A command that is at work on has a client that waits.
LEMMA TakesWork ==
  ASSUME SInv, NEW k \in Conn, NEW t \in {"send", "check", "ack"}, S!Takes(k, t)
  PROVE  /\ UpOf(k) /\ conn[k] # None /\ ~S!Gone(k) /\ hub[k].pc = "loop"
         /\ S!Req(k) = 2 /\ Fits(k, 2) /\ S!Job(conn[k]) = t
         /\ S!Uses(k) => client[conn[k]].pc = "waiting"
<1>1. t \in S!Jobs \cup LaneAsks /\ t \notin LaneAsks
  BY DEF S!Jobs, LaneAsks
<1>2. /\ UpOf(k) /\ conn[k] # None /\ ~S!Gone(k) /\ hub[k].pc = "loop"
      /\ S!Req(k) = 2 /\ Fits(k, S!Req(k)) /\ t \in Asks(conn[k])
  BY <1>1, TakesIs
<1>3. S!Job(conn[k]) = t
  BY <1>1, <1>2 DEF Asks
<1>4. ASSUME S!Uses(k)
      PROVE  client[conn[k]].pc = "waiting"
  <2>1. /\ client[conn[k]].pc \in Active /\ client[conn[k]].id \in Nat
        /\ Asking(conn[k]) /\ Connected(conn[k])
    BY <1>4, UserIs, OfClient DEF ClientRec
  <2>2. client[conn[k]].ask = t
    BY <1>1, <1>3, <2>1 DEF Connected, Asks, LaneAsks
  <2>3. client[conn[k]].pc # "hello"
    BY <1>2, <1>4, <2>1 DEF Asking, Fits
  <2>4. client[conn[k]].pc # "request"
    BY <1>1, <1>2, <1>4, <2>1, <2>2 DEF Asking, Fits
  <2>5. QED
    BY <2>1, <2>3, <2>4 DEF Active
<1>5. QED
  BY <1>2, <1>3, <1>4

LEMMA SendKeeps == ASSUME SInv, NEW k \in Conn, S!Send(k) PROVE SInv'
<1>1. S!Takes(k, "send") /\ UNCHANGED <<inbox, claimed, archive>>
  BY DEF S!Send
<1>2. /\ UpOf(k) /\ conn[k] # None /\ ~S!Gone(k) /\ hub[k].pc = "loop"
      /\ S!Req(k) = 2 /\ Fits(k, 2) /\ S!Job(conn[k]) = "send" /\ conn[k] \in Client
      /\ S!Uses(k) => client[conn[k]].pc = "waiting"
  BY <1>1, TakesWork, OfConn
<1>3. Head(up[k]).t = "send" /\ Head(up[k]) \in Frames(up[k]) /\ up[k] \in Seq(UpFrame)
      /\ up[k] # <<>> /\ up'[k] = Tail(up[k])
  <2>1. S!Reads(k, "loop", "send") /\ up \in [Conn -> Seq(UpFrame)]
    BY <1>1 DEF S!Takes, SInv, SessionTypes
  <2>2. QED
    BY <2>1, ReadsIs DEF S!Reads
<1>4. Armed(k)
  BY <1>2, <1>3 DEF Armed
<1>5. landed[conn[k]] = 0 /\ \A j \in Conn \ {k} : conn[j] = conn[k] => ~Armed(j)
  BY <1>2, <1>4, OfClient DEF Sends
<1>6. CASE landed' = landed /\ S!Reply(k, "refused", 2, None) /\ S!End(k)
  <2>1. /\ \A j \in Conn \ {k} : hub'[j] = hub[j] /\ up'[j] = up[j]
        /\ S!Gone(k)' /\ conn' = conn
    BY <1>2, <1>6, EndIs DEF UpOf
  <2>2. \A j \in Conn : conn[j] = conn[k] => ~Armed(j)'
    BY <1>5, <2>1 DEF Armed, S!Gone
  <2>3. Clear(conn[k])'
    BY <1>5, <1>6, <2>1, <2>2 DEF Clear
  <2>4. "refused" \in S!Refusals \ {"order"} /\ "refused" # "ok"
    BY DEF S!Refusals
  <2>5. QED
    BY <1>1, <1>2, <1>6, <2>3, <2>4, EndKeeps DEF Quiet
<1>7. CASE /\ landed' = [landed EXCEPT ![conn[k]] = @ + 1] /\ UNCHANGED <<down, claim>>
           /\ hub' = [hub EXCEPT ![k].pc = "answer", ![k].last = 2, ![k].re = 2]
  <2>1. hub[k] \in SessionRec /\ hub \in [Conn -> SessionRec]
    BY OfConn DEF SInv, SessionTypes
  <2>2. /\ hub' \in [Conn -> SessionRec] /\ \A j \in Conn \ {k} : hub'[j] = hub[j]
    BY <1>7, <2>1 DEF SessionRec
  <2>3. /\ hub'[k].pc = "answer" /\ hub'[k].last = 2 /\ hub'[k].re = 2
        /\ hub'[k].did = hub[k].did /\ hub'[k].mode = hub[k].mode
    BY <1>7, <2>1 DEF SessionRec
  <2>4. hub'[k].template <=> hub[k].template
    BY <1>7, <2>1 DEF SessionRec
  <2>5. ~S!Gone(k)'
    BY <2>3 DEF S!Gone
  <2>6. ~Armed(k)'
    <3>1. /\ Len(up[k]) \in Nat \ {0} /\ Len(up'[k]) = Len(up[k]) - 1 /\ up[k][1].t = "send"
          /\ \A i \in 1 .. Len(up'[k]) : up'[k][i] = up[k][i + 1]
      BY <1>3, TailFrames
    <3>2. OneSend(k)
      BY <1>2, OfConn DEF Conveys
    <3>3. ASSUME NEW i \in 1 .. Len(up'[k]), up'[k][i].t = "send"
          PROVE  FALSE
      <4>1. i + 1 \in 1 .. Len(up[k]) /\ 1 \in 1 .. Len(up[k]) /\ up[k][i + 1].t = "send"
        BY <3>1, <3>3
      <4>2. i + 1 = 1
        BY <1>2, <3>1, <3>2, <4>1 DEF OneSend
      <4>3. QED
        BY <3>1, <4>2
    <3>4. QED
      BY <3>3 DEF Armed, Frames
  <2>7. Lands(k)
    BY <1>2, <1>4, <1>7, <2>6 DEF Lands
  <2>8. HubStep(k)
    BY <1>1, <1>2, <1>7, <2>2, <2>3, <2>4, <2>5, <2>7
       DEF HubStep, UpOf, Channel, Beating, SInv, SessionTypes, Pools, S!Gone
  <2>9. HubIs(k)'
    <3>1. client' = client /\ conn' = conn /\ S!Job(conn[k])' = "send"
      BY <1>2 DEF UpOf, S!Job
    <3>2. S!Uses(k)' <=> S!Uses(k)
      BY <2>8, HubMonotone
    <3>3. QED
      BY <1>2, <2>3, <3>1, <3>2 DEF HubIs
  <2>10. Says(k) /\ hub'[k].did \cap inbox' = {}
    BY <1>1, <1>7, <2>3, OfConn DEF Says, Conveys
  <2>11. QED
    BY <2>8, <2>9, <2>10, HubKeeps
<1>8. QED
  BY <1>2, <1>6, <1>7 DEF S!Send

LEMMA StreamKeeps ==
  ASSUME SInv, NEW k \in Conn, NEW t \in {"check", "ack"}, S!Stream(k, t)
  PROVE  SInv'
<1>1. /\ S!Takes(k, t) /\ UNCHANGED <<inbox, claimed, archive, landed, down, claim>>
      /\ hub' = [hub EXCEPT ![k].pc = t, ![k].last = S!Req(k), ![k].re = S!Req(k)]
  BY DEF S!Stream, S!pool
<1>2. /\ UpOf(k) /\ conn[k] # None /\ ~S!Gone(k) /\ S!Req(k) = 2 /\ S!Job(conn[k]) = t
      /\ S!Uses(k) => client[conn[k]].pc = "waiting"
  BY <1>1, TakesWork
<1>3. hub[k] \in SessionRec /\ hub \in [Conn -> SessionRec]
  BY OfConn DEF SInv, SessionTypes
<1> DEFINE r == [hub[k] EXCEPT !.pc = t, !.last = 2, !.re = 2]
<1>r. r \in SessionRec
  <2>1. CASE t = "check"
    BY <1>3, <2>1 DEF SessionRec
  <2>2. CASE t = "ack"
    BY <1>3, <2>2 DEF SessionRec
  <2>3. QED
    BY <2>1, <2>2
<1>h. hub' = [hub EXCEPT ![k] = r]
  BY <1>1, <1>2, <1>3
<1> HIDE DEF r
<1>4. /\ hub' \in [Conn -> SessionRec] /\ \A j \in Conn \ {k} : hub'[j] = hub[j]
  BY <1>3, <1>r, <1>h
<1>5. /\ hub'[k].pc = t /\ hub'[k].last = 2 /\ hub'[k].re = 2
      /\ hub'[k].did = hub[k].did /\ hub'[k].mode = hub[k].mode
  BY <1>1, <1>2, <1>3 DEF SessionRec
<1>6. hub'[k].template <=> hub[k].template
  BY <1>1, <1>2, <1>3 DEF SessionRec
<1>7. ~S!Gone(k)'
  BY <1>5 DEF S!Gone
<1>8. HubStep(k)
  BY <1>1, <1>2, <1>4, <1>5, <1>6, <1>7
     DEF HubStep, UpOf, Channel, Beating, SInv, SessionTypes, Pools, S!Gone
<1>9. HubIs(k)'
  <2>1. client' = client /\ conn' = conn /\ S!Job(conn[k])' = t
    BY <1>2 DEF UpOf, S!Job
  <2>2. S!Uses(k)' <=> S!Uses(k)
    BY <1>8, HubMonotone
  <2>3. QED
    BY <1>2, <1>5, <2>1, <2>2 DEF HubIs
<1>10. Says(k) /\ hub'[k].did \cap inbox' = {}
  BY <1>1, <1>5, OfConn DEF Says, Conveys
<1>11. QED
  BY <1>8, <1>9, <1>10, HubKeeps

\* Mail that is worked through: moved, then streamed.
LEMMA ItemKeeps ==
  ASSUME SInv, NEW k \in Conn, NEW m \in Mail, hub[k].pc \in {"check", "ack"},
         UNCHANGED <<cast, client, conn, alive, up, claim, landed>>,
         hub' = [hub EXCEPT ![k].did = @ \cup {m}], S!Reply(k, "item", hub[k].re, m),
         Pools', inbox' \subseteq inbox, archive \subseteq archive', m \notin inbox',
         claimed \cup archive \subseteq claimed' \cup archive',
         m \in claimed' \cup archive', hub[k].pc = "ack" => m \in archive'
  PROVE  SInv'
<1>1. /\ conn[k] # None /\ ~S!Gone(k) /\ hub[k].re = 2 /\ Fits(k, 2)
      /\ S!Job(conn[k]) = hub[k].pc
  BY Working
<1>2. hub[k] \in SessionRec /\ hub \in [Conn -> SessionRec]
  BY OfConn DEF SInv, SessionTypes
<1> DEFINE r == [hub[k] EXCEPT !.did = hub[k].did \cup {m}]
<1>3. r \in SessionRec /\ r.did = hub[k].did \cup {m}
  BY <1>2 DEF SessionRec
<1>4. r.pc = hub[k].pc /\ r.last = hub[k].last /\ r.mode = hub[k].mode /\ r.re = hub[k].re
  BY <1>2 DEF SessionRec
<1>5. r.template <=> hub[k].template
  BY <1>2 DEF SessionRec
<1>6. hub' = [hub EXCEPT ![k] = r]
  BY <1>2
<1> HIDE DEF r
<1>7. /\ hub' \in [Conn -> SessionRec] /\ \A j \in Conn \ {k} : hub'[j] = hub[j]
      /\ hub'[k] = r
  BY <1>2, <1>3, <1>6
<1> DEFINE f == [t |-> "item", id |-> 2, m |-> m]
<1>8. f.t = "item" /\ f.id = 2 /\ f.m = m
  OBVIOUS
<1>9. /\ down' \in [Conn -> Seq(DownFrame)] /\ \A j \in Conn \ {k} : down'[j] = down[j]
      /\ S!Deaf(k) => down'[k] = down[k]
      /\ ~S!Deaf(k) => down'[k] = Append(down[k], f)
      /\ f \in DownFrame
  <2>1. S!Reply(k, "item", 2, m) /\ "item" \in Answers /\ 2 \in Nat /\ m \in Mail \cup {None}
    BY <1>1 DEF Answers
  <2>2. QED
    BY <2>1, RepliesIs
<1> HIDE DEF f
<1>10. ~S!Gone(k)'
  BY <1>1, <1>4, <1>7 DEF S!Gone
<1>11. HubStep(k)
  <2>1. Channel(k) => Channel(k)'
    BY <1>1, <1>4, <1>7 DEF Channel
  <2>2. Beating(k) => Beating(k)'
    BY <1>1, <1>4, <1>5, <1>7 DEF Beating
  <2>3. /\ up' \in [Conn -> Seq(UpFrame)] /\ \A j \in Conn \ {k} : up'[j] = up[j]
        /\ claim' \in [by : Conn, fresh : BOOLEAN] \cup {None}
    BY DEF SInv, SessionTypes
  <2>4. QED
    BY <1>1, <1>7, <1>9, <2>1, <2>2, <2>3 DEF HubStep
<1>12. S!Job(conn[k])' = hub[k].pc
  BY <1>1 DEF S!Job
<1>13. S!Uses(k)' <=> S!Uses(k)
  BY <1>11, HubMonotone
<1>14. DownIs(k, f)'
  BY <1>8, <1>12 DEF DownIs
<1>15. DownNow(k, f)'
  <2>1. "item" \notin S!Refusals
    BY DEF S!Refusals
  <2>2. QED
    BY <1>1, <1>8, <1>13, <2>1 DEF DownNow, Fits
<1>16. Says(k)
  BY <1>3, <1>7, <1>8, <1>9, <1>14, <1>15 DEF Says
<1>17. HubIs(k)'
  <2>1. HubIs(k)
    BY <1>1, OfConn DEF Conveys
  <2>2. QED
    BY <1>1, <1>4, <1>7, <1>12, <1>13, <2>1 DEF HubIs
<1>18. hub'[k].did \cap inbox' = {}
  BY <1>3, <1>7, OfConn DEF Conveys
<1>19. QED
  BY <1>11, <1>16, <1>17, <1>18, HubKeeps

LEMMA ClaimOneKeeps ==
  ASSUME SInv, NEW k \in Conn, NEW m \in Mail, S!ClaimOne(k, m)
  PROVE  SInv'
<1>1. /\ UNCHANGED <<cast, client, conn, alive, up, claim, archive, landed>>
      /\ hub[k].pc = "check" /\ m \in inbox \cup claimed
      /\ inbox' = inbox \ {m} /\ claimed' = claimed \cup {m}
      /\ hub' = [hub EXCEPT ![k].did = @ \cup {m}] /\ S!Reply(k, "item", hub[k].re, m)
  BY DEF S!ClaimOne
<1>2. Pools
  BY DEF SInv
<1>3. Pools'
  BY <1>1, <1>2 DEF Pools
<1>4. QED
  BY <1>1, <1>3, ItemKeeps

LEMMA AckOneKeeps ==
  ASSUME SInv, NEW k \in Conn, NEW m \in Mail, S!AckOne(k, m)
  PROVE  SInv'
<1>1. /\ UNCHANGED <<cast, client, conn, alive, up, claim, inbox, landed>>
      /\ hub[k].pc = "ack" /\ m \in claimed
      /\ claimed' = claimed \ {m} /\ archive' = archive \cup {m}
      /\ hub' = [hub EXCEPT ![k].did = @ \cup {m}] /\ S!Reply(k, "item", hub[k].re, m)
  BY DEF S!AckOne
<1>2. Pools
  BY DEF SInv
<1>3. Pools' /\ m \notin inbox'
  BY <1>1, <1>2 DEF Pools
<1>4. QED
  BY <1>1, <1>3, ItemKeeps

\* What the invariant reads, the claim aside.
Rest == <<cast, client, conn, alive, up, down, hub, inbox, claimed, archive, landed>>

LEMMA RestKeeps ==
  ASSUME SInv, UNCHANGED Rest, ClaimIs', claim' \in [by : Conn, fresh : BOOLEAN] \cup {None}
  PROVE  SInv'
<1>1. /\ cast' = cast /\ client' = client /\ conn' = conn /\ alive' = alive /\ up' = up
      /\ down' = down /\ hub' = hub /\ inbox' = inbox /\ claimed' = claimed
      /\ archive' = archive /\ landed' = landed
  BY DEF Rest
<1>2. /\ \A k \in Conn : /\ Channel(k)' <=> Channel(k)
                         /\ Beating(k)' <=> Beating(k)
                         /\ Armed(k)' <=> Armed(k)
                         /\ S!Gone(k)' <=> S!Gone(k)
                         /\ S!Uses(k)' <=> S!Uses(k)
      /\ \A c \in Client : S!Job(c)' = S!Job(c) /\ Asks(c)' = Asks(c)
  BY <1>1 DEF Channel, Beating, Armed, S!Gone, S!Uses, S!On, S!Job, Asks, S!Job
<1>3. \A c \in Client : Clear(c)' <=> Clear(c)
  BY <1>1, <1>2 DEF Clear
<1>4. ASSUME NEW c \in Client
      PROVE  (Connected(c) /\ Asking(c) /\ Once(c) /\ Told(c) /\ Sends(c) /\ NoSend(c))'
  <2>1. Connected(c) /\ Asking(c) /\ Once(c) /\ Told(c) /\ Sends(c) /\ NoSend(c)
    BY OfClient
  <2>2. client[c].pc \in Active => client[c].on \in Conn
    BY OpenIs
  <2>3. Connected(c)'
    BY <1>1, <1>2, <2>1 DEF Connected
  <2>4. Asking(c)'
    BY <1>1, <1>2, <2>1, <2>2 DEF Asking, Active
  <2>5. Once(c)'
    BY <1>1, <1>2, <2>1 DEF Once
  <2>6. Told(c)'
    BY <1>1, <1>2, <2>1 DEF Told
  <2>7. Sends(c)'
    BY <1>1, <1>2, <1>3, <2>1 DEF Sends
  <2>8. NoSend(c)'
    BY <1>1, <1>2, <2>1 DEF NoSend
  <2>9. QED
    BY <2>3, <2>4, <2>5, <2>6, <2>7, <2>8
<1>5. ASSUME NEW k \in Conn
      PROVE  Conveys(k)'
  <2>1. Conveys(k) /\ conn[k] \in Client \cup {None}
    BY OfConn
  <2>2. CASE conn[k] = None
    BY <1>1, <2>1, <2>2 DEF Conveys, Unopened
  <2>3. CASE conn[k] \in Client
    <3>1. conn[k] # None
      BY <2>3, NoneIs
    <3>2. S!Job(conn[k])' = S!Job(conn[k]) /\ Asks(conn[k])' = Asks(conn[k])
          /\ (Clear(conn[k])' <=> Clear(conn[k]))
      BY <1>1, <1>2, <1>3, <2>3
    <3>3. HubIs(k)' /\ OneSend(k)'
      BY <1>1, <1>2, <2>1, <3>1, <3>2 DEF Conveys, HubIs, OneSend
    <3>4. \A f \in Frames(up[k]) : (UpIs(k, f) /\ UpNow(k, f))'
      BY <1>1, <1>2, <2>1, <3>1, <3>2 DEF Conveys, UpIs, UpNow
    <3>5. \A f \in Frames(down[k]) : (DownIs(k, f) /\ DownNow(k, f))'
      BY <1>1, <1>2, <2>1, <3>1, <3>2 DEF Conveys, DownIs, DownNow
    <3>6. S!Job(conn[k]) \in {"check", "ack"} => Streams(k)'
      BY <1>1, <1>2, <2>1, <3>1 DEF Conveys, Streams
    <3>7. QED
      BY <1>1, <2>1, <3>1, <3>2, <3>3, <3>4, <3>5, <3>6 DEF Conveys
  <2>4. QED
    BY <2>1, <2>2, <2>3
<1>6. SessionTypes' /\ Pools'
  BY <1>1 DEF SInv, SessionTypes, Pools
<1>7. QED
  BY <1>4, <1>5, <1>6 DEF SInv

LEMMA ClaimAgesKeeps == ASSUME SInv, S!ClaimAges PROVE SInv'
<1>1. /\ claim # None /\ claim' = [claim EXCEPT !.fresh = FALSE] /\ UNCHANGED Rest
  BY DEF S!ClaimAges, S!pool, Rest
<1>2. claim \in [by : Conn, fresh : BOOLEAN]
  BY <1>1 DEF SInv, SessionTypes
<1>3. claim' \in [by : Conn, fresh : BOOLEAN] /\ claim'.by = claim.by
  BY <1>1, <1>2
<1>4. ClaimIs'
  <2>1. ClaimIs /\ hub' = hub
    BY <1>1 DEF SInv, Rest
  <2>2. QED
    BY <1>1, <1>3, <2>1 DEF ClaimIs, S!Gone
<1>5. QED
  BY <1>1, <1>3, <1>4, RestKeeps

LEMMA InvalidateKeeps == ASSUME SInv, S!Invalidate PROVE SInv'
<1>1. claim' = None /\ UNCHANGED Rest
  BY DEF S!Invalidate, S!pool, Rest
<1>2. QED
  BY <1>1, RestKeeps DEF ClaimIs

\* A session that no step is taken of.
LEMMA SessionStays == ASSUME SInv, UNCHANGED session PROVE SInv'
<1>1. claim' = claim /\ UNCHANGED Rest /\ hub' = hub
  BY DEF session, Rest
<1>2. ClaimIs' /\ claim' \in [by : Conn, fresh : BOOLEAN] \cup {None}
  BY <1>1 DEF SInv, SessionTypes, ClaimIs, S!Gone
<1>3. QED
  BY <1>1, <1>2, RestKeeps

\* A connection that dies loses the ends of what was in flight.
LEMMA CutKeeps == ASSUME SInv, NEW k \in Conn, S!Cut(k) PROVE SInv'
<1>1. PICK u \in S!Prefixes(up[k]), d \in S!Prefixes(down[k]) :
        up' = [up EXCEPT ![k] = u] /\ down' = [down EXCEPT ![k] = d]
  BY DEF S!Cut
<1>2. /\ alive' = [alive EXCEPT ![k] = FALSE]
      /\ UNCHANGED <<cast, client, conn, hub, claim, inbox, claimed, archive, landed>>
  BY DEF S!Cut, S!pool
<1>3. up \in [Conn -> Seq(UpFrame)] /\ down \in [Conn -> Seq(DownFrame)]
      /\ alive \in [Conn -> BOOLEAN] /\ up[k] \in Seq(UpFrame) /\ down[k] \in Seq(DownFrame)
  BY DEF SInv, SessionTypes
<1>4. /\ u \in Seq(UpFrame) /\ Frames(u) \subseteq Frames(up[k])
      /\ \A i \in 1 .. Len(u) : u[i] = up[k][i] /\ i \in 1 .. Len(up[k])
  BY <1>3, PrefixFrames
<1>5. /\ d \in Seq(DownFrame) /\ Frames(d) \subseteq Frames(down[k])
      /\ \A i \in 1 .. Len(d) : d[i] = down[k][i] /\ i \in 1 .. Len(down[k])
  BY <1>3, PrefixFrames
<1>6. /\ up' \in [Conn -> Seq(UpFrame)] /\ down' \in [Conn -> Seq(DownFrame)]
      /\ alive' \in [Conn -> BOOLEAN] /\ up'[k] = u /\ down'[k] = d
      /\ \A j \in Conn \ {k} : up'[j] = up[j] /\ down'[j] = down[j]
  BY <1>1, <1>2, <1>3, <1>4, <1>5
<1>7. \A j \in Conn : /\ Frames(up'[j]) \subseteq Frames(up[j])
                      /\ Frames(down'[j]) \subseteq Frames(down[j])
  BY <1>4, <1>5, <1>6
<1>8. \A j \in Conn : alive'[j] => alive[j] /\ j # k
  BY <1>2, <1>3
<1>9. /\ \A j \in Conn : /\ Channel(j)' <=> Channel(j)
                         /\ Beating(j)' <=> Beating(j)
                         /\ S!Gone(j)' <=> S!Gone(j)
                         /\ S!Uses(j)' <=> S!Uses(j)
      /\ \A c \in Client : S!Job(c)' = S!Job(c) /\ Asks(c)' = Asks(c)
  BY <1>2 DEF Channel, Beating, S!Gone, S!Uses, S!On, S!Job, Asks
<1>10. \A j \in Conn : Armed(j)' => Armed(j)
  BY <1>7, <1>9 DEF Armed
<1>11. \A c \in Client : Clear(c) => Clear(c)'
  BY <1>2, <1>10 DEF Clear
<1>12. ASSUME NEW c \in Client
       PROVE  (Connected(c) /\ Asking(c) /\ Once(c) /\ Told(c) /\ Sends(c) /\ NoSend(c))'
  <2>1. Connected(c) /\ Asking(c) /\ Once(c) /\ Told(c) /\ Sends(c) /\ NoSend(c)
    BY OfClient
  <2>2. client[c].pc \in Active => client[c].on \in Conn
    BY OpenIs
  <2>3. Connected(c)'
    BY <1>2, <1>9, <2>1 DEF Connected
  <2>4. Asking(c)'
    BY <1>2, <1>9, <2>1, <2>2 DEF Asking, Active
  <2>5. Once(c)'
    BY <1>2, <1>9, <2>1 DEF Once
  <2>6. Told(c)'
    BY <1>2, <1>9, <2>1 DEF Told
  <2>7. Sends(c)'
    BY <1>2, <1>9, <1>10, <1>11, <2>1 DEF Sends
  <2>8. NoSend(c)'
    BY <1>2, <1>9, <2>1 DEF NoSend
  <2>9. QED
    BY <2>3, <2>4, <2>5, <2>6, <2>7, <2>8
<1>13. ASSUME NEW j \in Conn
       PROVE  Conveys(j)'
  <2>1. Conveys(j) /\ conn[j] \in Client \cup {None} /\ up[j] \in Seq(UpFrame) /\ down[j] \in Seq(DownFrame)
    BY OfConn
  <2>2. CASE conn[j] = None
    <3>1. j # k
      BY <2>2 DEF S!Cut, S!Uses
    <3>2. QED
      BY <1>2, <1>6, <2>1, <2>2, <3>1 DEF Conveys, Unopened
  <2>3. CASE conn[j] \in Client
    <3>1. conn[j] # None
      BY <2>3, NoneIs
    <3>2. S!Job(conn[j])' = S!Job(conn[j]) /\ Asks(conn[j])' = Asks(conn[j])
          /\ (Clear(conn[j]) => Clear(conn[j])')
      BY <1>2, <1>9, <1>11, <2>3
    <3>3. HubIs(j)'
      BY <1>2, <1>9, <2>1, <3>1, <3>2 DEF Conveys, HubIs
    <3>4. OneSend(j)'
      <4>1. OneSend(j)
        BY <2>1, <3>1 DEF Conveys
      <4>2. \A i \in 1 .. Len(up'[j]) : up'[j][i] = up[j][i] /\ i \in 1 .. Len(up[j])
        BY <1>4, <1>6
      <4>3. QED
        BY <1>9, <4>1, <4>2 DEF OneSend
    <3>5. \A f \in Frames(up'[j]) : (UpIs(j, f) /\ UpNow(j, f))'
      BY <1>2, <1>7, <1>9, <2>1, <3>1, <3>2 DEF Conveys, UpIs, UpNow
    <3>6. \A f \in Frames(down'[j]) : (DownIs(j, f) /\ DownNow(j, f))'
      BY <1>2, <1>7, <1>9, <2>1, <3>1, <3>2 DEF Conveys, DownIs, DownNow
    <3>7. ASSUME S!Job(conn[j]) \in {"check", "ack"}
          PROVE  Streams(j)'
      <4>1. Streams(j)
        BY <2>1, <3>1, <3>7 DEF Conveys
      <4>2. CASE j # k
        <5>1. /\ client' = client /\ conn' = conn /\ hub' = hub /\ down'[j] = down[j]
              /\ S!Uses(j)' <=> S!Uses(j)
          BY <1>2, <1>6, <1>9, <4>2
        <5>2. alive'[j] => alive[j]
          BY <1>8
        <5> SUFFICES ASSUME S!Uses(j), NEW m \in hub[j].did
                     PROVE  /\ alive'[j] => m \in client[conn[j]].shown
                                \/ \E f \in Frames(down[j]) : f.t = "item" /\ f.m = m
                            /\ \A i \in 1 .. Len(down[j]) : down[j][i].t = "ok" =>
                                 \/ m \in client[conn[j]].shown
                                 \/ \E n \in 1 .. (i - 1) : down[j][n].t = "item" /\ down[j][n].m = m
          BY <5>1 DEF Streams
        <5>3. QED
          BY <4>1, <5>2 DEF Streams
      <4>3. CASE j = k
        <5> SUFFICES ASSUME S!Uses(k), NEW m \in hub[k].did, NEW i \in 1 .. Len(d), d[i].t = "ok",
                            m \notin client[conn[k]].shown
                     PROVE  \E n \in 1 .. (i - 1) : d[n].t = "item" /\ d[n].m = m
          BY <1>2, <1>6, <1>8, <1>9, <4>3 DEF Streams
        <5>1. i \in 1 .. Len(down[k]) /\ down[k][i].t = "ok"
          BY <1>5
        <5>2. PICK n \in 1 .. (i - 1) : down[k][n].t = "item" /\ down[k][n].m = m
          BY <4>1, <4>3, <5>1 DEF Streams
        <5>3. Len(d) \in Nat
          BY <1>5, FramesTyped
        <5>4. n \in 1 .. Len(d)
          BY <5>3
        <5>5. QED
          BY <1>5, <5>2, <5>4
      <4>4. QED
        BY <4>2, <4>3
    <3>8. QED
      BY <1>2, <2>1, <3>1, <3>2, <3>3, <3>4, <3>5, <3>6, <3>7 DEF Conveys
  <2>4. QED
    BY <2>1, <2>2, <2>3
<1>14. SessionTypes' /\ Pools' /\ ClaimIs'
  BY <1>2, <1>6 DEF SInv, SessionTypes, Pools, ClaimIs, S!Gone
<1>15. QED
  BY <1>12, <1>13, <1>14 DEF SInv

-----------------------------------------------------------------------------
(* The sessions: a step of a client *)

\* A client goes on, and perhaps reads or writes on connections of its own.
ClientStep(c) ==
  /\ UNCHANGED <<cast, conn, alive, hub, claim, inbox, claimed, archive, landed>>
  /\ client' \in [Client -> ClientRec] /\ \A d \in Client \ {c} : client'[d] = client[d]
  /\ up' \in [Conn -> Seq(UpFrame)] /\ down' \in [Conn -> Seq(DownFrame)]
  /\ \A j \in Conn : conn[j] # c => up'[j] = up[j] /\ down'[j] = down[j]

LEMMA ClientFrame ==
  ASSUME SInv, NEW c \in Client, ClientStep(c)
  PROVE  /\ \A j \in Conn : /\ Channel(j)' <=> Channel(j)
                            /\ Beating(j)' <=> Beating(j)
                            /\ S!Gone(j)' <=> S!Gone(j)
                            /\ conn[j] # c => /\ S!Uses(j)' <=> S!Uses(j)
                                              /\ Armed(j)' <=> Armed(j)
                            /\ up'[j] = up[j] => (Armed(j)' <=> Armed(j))
         /\ \A d \in Client : S!Job(d)' = S!Job(d) /\ Asks(d)' = Asks(d)
         /\ \A d \in Client \ {c} : Clear(d)' <=> Clear(d)
         /\ up' = up => (Clear(c)' <=> Clear(c))
<1>1. hub' = hub /\ conn' = conn /\ cast' = cast /\ landed' = landed
  BY DEF ClientStep
<1>2. \A j \in Conn : /\ Channel(j)' <=> Channel(j)
                      /\ Beating(j)' <=> Beating(j)
                      /\ S!Gone(j)' <=> S!Gone(j)
  BY <1>1 DEF Channel, Beating, S!Gone
<1>3. \A d \in Client : S!Job(d)' = S!Job(d) /\ Asks(d)' = Asks(d)
  BY <1>1 DEF S!Job, Asks
<1>4. ASSUME NEW j \in Conn, up'[j] = up[j]
      PROVE  Armed(j)' <=> Armed(j)
  BY <1>2, <1>4 DEF Armed
<1>5. ASSUME NEW j \in Conn, conn[j] # c
      PROVE  S!Uses(j)' <=> S!Uses(j)
  <2>1. conn[j] \in Client \cup {None}
    BY OfConn
  <2>2. conn[j] # None => client'[conn[j]] = client[conn[j]]
    BY <1>5, <2>1 DEF ClientStep
  <2>3. QED
    BY <1>1, <2>2 DEF S!Uses, S!On
<1>6. \A j \in Conn : conn[j] # c => (Armed(j)' <=> Armed(j))
  BY <1>4 DEF ClientStep
<1>7. \A d \in Client \ {c} : Clear(d)' <=> Clear(d)
  BY <1>1, <1>6 DEF Clear
<1>8. up' = up => (Clear(c)' <=> Clear(c))
  BY <1>1, <1>4 DEF Clear
<1>9. QED
  BY <1>2, <1>3, <1>4, <1>5, <1>6, <1>7, <1>8

LEMMA ClientOthers ==
  ASSUME SInv, NEW c \in Client, ClientStep(c)
  PROVE  /\ SessionTypes' /\ Pools' /\ ClaimIs'
         /\ \A d \in Client \ {c} :
              (Connected(d) /\ Asking(d) /\ Once(d) /\ Told(d) /\ Sends(d) /\ NoSend(d))'
         /\ \A j \in Conn : conn[j] # c => Conveys(j)'
         /\ (Once(c)' <=> (S!Job(c) \in {"check", "ack"} /\ client'[c].pc = "idle" =>
                             \A k \in Conn : conn[k] # c))
         /\ NoSend(c)'
<1>1. /\ hub' = hub /\ conn' = conn /\ cast' = cast /\ landed' = landed /\ alive' = alive
      /\ claim' = claim /\ inbox' = inbox /\ claimed' = claimed /\ archive' = archive
  BY DEF ClientStep
<1>2. SessionTypes' /\ Pools' /\ ClaimIs'
  BY <1>1 DEF ClientStep, SInv, SessionTypes, Pools, ClaimIs, S!Gone
<1>3. ASSUME NEW d \in Client \ {c}
      PROVE  (Connected(d) /\ Asking(d) /\ Once(d) /\ Told(d) /\ Sends(d) /\ NoSend(d))'
  <2>1. Connected(d) /\ Asking(d) /\ Once(d) /\ Told(d) /\ Sends(d) /\ NoSend(d)
    BY OfClient
  <2>2. client[d].pc \in Active => client[d].on \in Conn
    BY OpenIs
  <2>3. /\ client'[d] = client[d] /\ S!Job(d)' = S!Job(d) /\ Asks(d)' = Asks(d)
        /\ Clear(d)' <=> Clear(d)
        /\ \A j \in Conn : /\ Channel(j)' <=> Channel(j)
                           /\ Beating(j)' <=> Beating(j)
                           /\ S!Gone(j)' <=> S!Gone(j)
                           /\ conn[j] = d => (Armed(j)' <=> Armed(j))
    BY ClientFrame DEF ClientStep
  <2>4. Connected(d)'
    BY <1>1, <2>1, <2>3 DEF Connected
  <2>5. Asking(d)'
    BY <1>1, <2>1, <2>2, <2>3 DEF Asking, Active
  <2>6. Once(d)'
    BY <1>1, <2>1, <2>3 DEF Once
  <2>7. Told(d)'
    BY <1>1, <2>1, <2>3 DEF Told
  <2>8. Sends(d)'
    BY <1>1, <2>1, <2>3 DEF Sends
  <2>9. NoSend(d)'
    BY <1>1, <2>1, <2>3 DEF NoSend
  <2>10. QED
    BY <2>4, <2>5, <2>6, <2>7, <2>8, <2>9
<1>4. ASSUME NEW j \in Conn, conn[j] # c
      PROVE  Conveys(j)'
  <2>1. Conveys(j) /\ conn[j] \in Client \cup {None}
    BY OfConn
  <2>2. /\ up'[j] = up[j] /\ down'[j] = down[j]
        /\ Channel(j)' <=> Channel(j)
        /\ Beating(j)' <=> Beating(j)
        /\ S!Gone(j)' <=> S!Gone(j)
        /\ S!Uses(j)' <=> S!Uses(j)
    BY <1>4, ClientFrame DEF ClientStep
  <2>3. CASE conn[j] = None
    BY <1>1, <2>1, <2>2, <2>3 DEF Conveys, Unopened
  <2>4. CASE conn[j] \in Client \ {c}
    <3>1. conn[j] # None
      BY <2>4, NoneIs
    <3>2. S!Job(conn[j])' = S!Job(conn[j]) /\ Asks(conn[j])' = Asks(conn[j])
          /\ (Clear(conn[j])' <=> Clear(conn[j])) /\ client'[conn[j]] = client[conn[j]]
      BY <1>1, <2>4, ClientFrame DEF ClientStep
    <3>3. HubIs(j)' /\ OneSend(j)'
      BY <1>1, <2>1, <2>2, <3>1, <3>2 DEF Conveys, HubIs, OneSend
    <3>4. \A f \in Frames(up[j]) : (UpIs(j, f) /\ UpNow(j, f))'
      BY <1>1, <2>1, <2>2, <3>1, <3>2 DEF Conveys, UpIs, UpNow
    <3>5. \A f \in Frames(down[j]) : (DownIs(j, f) /\ DownNow(j, f))'
      BY <1>1, <2>1, <2>2, <3>1, <3>2 DEF Conveys, DownIs, DownNow
    <3>6. S!Job(conn[j]) \in {"check", "ack"} => Streams(j)'
      BY <1>1, <2>1, <2>2, <3>1, <3>2 DEF Conveys, Streams
    <3>7. QED
      BY <1>1, <2>1, <2>2, <3>1, <3>2, <3>3, <3>4, <3>5, <3>6 DEF Conveys
  <2>5. QED
    BY <1>4, <2>1, <2>3, <2>4
<1>5. Once(c)' <=> (S!Job(c) \in {"check", "ack"} /\ client'[c].pc = "idle" =>
                      \A k \in Conn : conn[k] # c)
  <2>1. Once(c) /\ S!Job(c)' = S!Job(c)
    BY OfClient, ClientFrame
  <2>2. QED
    BY <1>1, <2>1 DEF Once
<1>6. NoSend(c)'
  <2>1. NoSend(c) /\ S!Job(c)' = S!Job(c)
    BY OfClient, ClientFrame
  <2>2. QED
    BY <1>1, <2>1 DEF NoSend
<1>7. QED
  BY <1>2, <1>3, <1>4, <1>5, <1>6

\* A connection that its client has not open.
LEMMA NotOpen ==
  ASSUME SInv, NEW c \in Client, ClientStep(c), NEW j \in Conn, conn[j] = c, ~S!Uses(j)',
         up'[j] = up[j], Frames(down'[j]) \subseteq Frames(down[j])
  PROVE  Conveys(j)'
<1>1. /\ hub' = hub /\ conn' = conn /\ cast' = cast /\ inbox' = inbox /\ claimed' = claimed
      /\ archive' = archive
  BY DEF ClientStep
<1>2. Conveys(j) /\ conn[j] # None
  BY OfConn, NoneIs
<1>3. /\ Channel(j)' <=> Channel(j)
      /\ Beating(j)' <=> Beating(j)
      /\ S!Gone(j)' <=> S!Gone(j)
      /\ S!Job(conn[j])' = S!Job(conn[j]) /\ Asks(conn[j])' = Asks(conn[j])
  BY <1>1, ClientFrame
<1>4. HubIs(j)' /\ OneSend(j)'
  BY <1>1, <1>2, <1>3 DEF Conveys, HubIs, OneSend
<1>5. \A f \in Frames(up[j]) : (UpIs(j, f) /\ UpNow(j, f))'
  BY <1>1, <1>2, <1>3 DEF Conveys, UpIs, UpNow
<1>6. \A f \in Frames(down'[j]) : (DownIs(j, f) /\ DownNow(j, f))'
  BY <1>1, <1>2, <1>3 DEF Conveys, DownIs, DownNow
<1>7. Streams(j)'
  BY DEF Streams
<1>8. QED
  BY <1>1, <1>2, <1>3, <1>4, <1>5, <1>6, <1>7 DEF Conveys

\* What of the hub and its connections a client does not change.
Theirs == <<cast, conn, alive, hub, claim, inbox, claimed, archive, landed>>

\* A client that leaves its connection, to report or to start again.
LEMMA LeavingKeeps ==
  ASSUME SInv, NEW c \in Client, UNCHANGED Theirs, up' = up,
         NEW r \in ClientRec, client' = [client EXCEPT ![c] = r],
         r.pc \in {"idle", "done"}, r.on = None, r.pc = "idle" => r.out = None,
         down' = down \/ (/\ client[c].on \in Conn /\ down[client[c].on] # <<>>
                          /\ down' = [down EXCEPT ![client[c].on] = Tail(@)]),
         r.shown \subseteq client[c].shown,
         r.pc = "idle" => S!Job(c) \notin {"check", "ack"},
         S!Job(c) \in {"check", "ack"} /\ r.out = "ok" =>
           \A k \in Conn : conn[k] = c => S!Gone(k) /\ hub[k].did \subseteq r.shown,
         S!Job(c) = "check" /\ r.out = "ok" => inbox = {},
         S!Job(c) = "send" /\ (r.pc = "idle" \/ r.out \in Retriable) => Clear(c)
  PROVE  SInv'
<1>1. /\ hub' = hub /\ conn' = conn /\ cast' = cast /\ landed' = landed /\ alive' = alive
      /\ claim' = claim /\ inbox' = inbox /\ claimed' = claimed /\ archive' = archive
  BY DEF Theirs
<1>2. /\ client \in [Client -> ClientRec] /\ up \in [Conn -> Seq(UpFrame)]
      /\ down \in [Conn -> Seq(DownFrame)]
  BY DEF SInv, SessionTypes
<1>3. client'[c] = r /\ client' \in [Client -> ClientRec]
      /\ \A d \in Client \ {c} : client'[d] = client[d]
  BY <1>2
<1>4. \A j \in Conn : /\ down'[j] \in Seq(DownFrame) /\ Frames(down'[j]) \subseteq Frames(down[j])
                      /\ conn[j] # c => down'[j] = down[j]
  <2>1. CASE down' = down
    BY <1>2, <2>1
  <2>2. CASE /\ client[c].on \in Conn /\ down[client[c].on] # <<>>
             /\ down' = [down EXCEPT ![client[c].on] = Tail(@)]
    <3>1. client[c].on # None /\ conn[client[c].on] = c
      BY <2>2, NoneIs, OfClient DEF Connected
    <3>2. down[client[c].on] \in Seq(DownFrame)
      BY <1>2, <2>2
    <3>3. /\ Tail(down[client[c].on]) \in Seq(DownFrame)
          /\ Frames(Tail(down[client[c].on])) \subseteq Frames(down[client[c].on])
      BY <2>2, <3>2, TailFrames
    <3>4. QED
      BY <1>2, <2>2, <3>1, <3>3
  <2>3. QED
    BY <2>1, <2>2
<1>5. down' \in [Conn -> Seq(DownFrame)]
  <2>1. CASE down' = down
    BY <1>2, <2>1
  <2>2. CASE client[c].on \in Conn /\ down' = [down EXCEPT ![client[c].on] = Tail(@)]
    BY <1>2, <1>4, <2>2
  <2>3. QED
    BY <2>1, <2>2
<1>6. ClientStep(c)
  BY <1>1, <1>2, <1>3, <1>4, <1>5 DEF ClientStep
<1>7. S!Job(c)' = S!Job(c) /\ (Clear(c)' <=> Clear(c))
      /\ \A j \in Conn : (Armed(j)' <=> Armed(j)) /\ (S!Gone(j)' <=> S!Gone(j))
  BY <1>6, ClientFrame
<1>8. ASSUME NEW j \in Conn, conn[j] = c
      PROVE  Conveys(j)'
  <2>1. ~S!Uses(j)'
    BY <1>1, <1>3, <1>8, NoneIs DEF S!Uses, S!On
  <2>2. QED
    BY <1>4, <1>6, <1>8, <2>1, NotOpen
<1>9. Connected(c)'
  BY <1>3 DEF Connected, Active
<1>10. Asking(c)'
  BY <1>3 DEF Asking
<1>11. Told(c)'
  <2>1. Told(c)
    BY OfClient
  <2>2. QED
    BY <1>1, <1>3, <1>7, <2>1 DEF Told
<1>12. Sends(c)'
  <2>1. Sends(c)
    BY OfClient
  <2>2. QED
    BY <1>1, <1>3, <1>7, <2>1 DEF Sends
<1>13. Once(c)' /\ NoSend(c)'
  BY <1>3, <1>6, ClientOthers
<1>14. QED
  BY <1>6, <1>8, <1>9, <1>10, <1>11, <1>12, <1>13, ClientOthers DEF SInv

\* A client that fails.
LEMMA FailKeeps ==
  ASSUME SInv, NEW c \in Client, UNCHANGED Theirs, up' = up,
         NEW code \in (S!Reports \ {"order", "ok"}), S!Fail(c, code),
         client[c].pc # "done",
         down' = down \/ (/\ client[c].on \in Conn /\ down[client[c].on] # <<>>
                          /\ down' = [down EXCEPT ![client[c].on] = Tail(@)]),
         S!Job(c) = "send" /\ code \in Retriable => Clear(c)
  PROVE  SInv'
<1>1. client[c] \in ClientRec
  BY OfClient
<1>2. CASE client' =
             [client EXCEPT ![c] = [client[c] EXCEPT !.pc = "done", !.on = None, !.out = code]]
  <2> DEFINE r == [client[c] EXCEPT !.pc = "done", !.on = None, !.out = code]
  <2>1. r \in ClientRec
    BY <1>1 DEF ClientRec
  <2>2. r.pc = "done" /\ r.on = None /\ r.out = code /\ r.shown = client[c].shown
    BY <1>1 DEF ClientRec
  <2>3. client' = [client EXCEPT ![c] = r]
    BY <1>2
  <2> HIDE DEF r
  <2>4. QED
    BY <2>1, <2>2, <2>3, LeavingKeeps
<1>3. ASSUME S!Job(c) = "lane", NEW b \in BOOLEAN,
             client' = [client EXCEPT ![c] = [S!Idle EXCEPT !.fenced = b]]
      PROVE  SInv'
  <2> DEFINE r == [S!Idle EXCEPT !.fenced = b]
  <2>1. r \in ClientRec
    BY DEF ClientRec, S!Idle
  <2>2. r.pc = "idle" /\ r.on = None /\ r.out = None /\ r.shown = {}
    BY DEF S!Idle
  <2>3. client' = [client EXCEPT ![c] = r]
    BY <1>3
  <2> HIDE DEF r
  <2>4. QED
    BY <1>3, <2>1, <2>2, <2>3, LeavingKeeps
<1> DEFINE fenced == client[c].fenced /\ client[c].ask \notin {"tick", "lease-release"}
           again == code \in {"connect", "lost"} \/ (code = "fenced" /\ ~fenced)
<1>4. client' = [client EXCEPT ![c] =
        IF S!Job(c) # "lane" \/ ~again
          THEN [client[c] EXCEPT !.pc = "done", !.on = None, !.out = code]
          ELSE [S!Idle EXCEPT !.fenced = (code = "fenced") \/ fenced]]
  BY DEF S!Fail
<1>5. ((code = "fenced") \/ fenced) \in BOOLEAN
  OBVIOUS
<1> HIDE DEF fenced, again
<1>6. CASE S!Job(c) # "lane" \/ ~again
  BY <1>2, <1>4, <1>6
<1>7. CASE S!Job(c) = "lane" /\ again
  BY <1>3, <1>4, <1>5, <1>7
<1>8. QED
  BY <1>6, <1>7

LEMMA UnreachableKeeps == ASSUME SInv, NEW c \in Client, S!Unreachable(c) PROVE SInv'
<1>1. S!Fail(c, "connect") /\ UNCHANGED Theirs /\ up' = up /\ down' = down /\ client[c].pc = "idle"
  BY DEF S!Unreachable, S!pool, Theirs
<1>2. "connect" \in S!Reports \ {"order", "ok"}
  BY DEF S!Reports, S!Refusals
<1>3. S!Job(c) = "send" => Clear(c)
  BY <1>1, OfClient DEF Sends
<1>4. QED
  BY <1>1, <1>2, <1>3, FailKeeps

\* What a lost connection is reported as: a send that may have landed is unknown.
LEMMA LossIs ==
  ASSUME SInv, NEW c \in Client, client[c].pc \in {"request", "waiting"}
  PROVE  /\ S!LossCode(c) \in S!Reports \ {"order", "ok"}
         /\ S!Job(c) = "send" /\ S!LossCode(c) \in Retriable => Clear(c)
<1>1. S!LossCode(c) \in {"send-unknown", "result-unknown", "lost"}
  BY DEF S!LossCode
<1>2. client[c].sent => S!LossCode(c) = "send-unknown"
  BY DEF S!LossCode
<1>3. "send-unknown" \notin Retriable
  BY DEF Retriable, S!Refusals
<1>4. ASSUME S!Job(c) = "send", ~client[c].sent
      PROVE  Clear(c)
  BY <1>4, OfClient DEF Asking, Sends
<1>5. {"send-unknown", "result-unknown", "lost"} \subseteq S!Reports \ {"order", "ok"}
  BY DEF S!Reports, S!Refusals
<1>6. QED
  BY <1>1, <1>2, <1>3, <1>4, <1>5

LEMMA LostKeeps == ASSUME SInv, NEW c \in Client, S!Lost(c) \/ S!TimesOut(c) PROVE SInv'
<1>1. /\ S!Fail(c, S!LossCode(c)) /\ UNCHANGED Theirs /\ up' = up /\ down' = down
      /\ client[c].pc \in {"request", "waiting"}
  BY DEF S!Lost, S!TimesOut, S!pool, Theirs
<1>2. QED
  BY <1>1, LossIs, FailKeeps

LEMMA HelloFailsKeeps == ASSUME SInv, NEW c \in Client, S!HelloFails(c) PROVE SInv'
<1>1. /\ S!Fail(c, "connect") \/ S!Fail(c, "hello-timeout")
      /\ UNCHANGED Theirs /\ up' = up /\ down' = down /\ client[c].pc = "hello"
  BY DEF S!HelloFails, S!pool, Theirs
<1>2. {"connect", "hello-timeout"} \subseteq S!Reports \ {"order", "ok"}
  BY DEF S!Reports, S!Refusals
<1>3. S!Job(c) = "send" => Clear(c)
  BY <1>1, OfClient DEF Sends
<1>4. QED
  BY <1>1, <1>2, <1>3, FailKeeps

\* The answer a client reads: of its own connection.
LEMMA GotIs ==
  ASSUME SInv, NEW c \in Client, NEW t, S!Got(c, t), client[c].pc \in Active
  PROVE  \E k \in Conn :
           /\ k = client[c].on /\ conn[k] = c /\ S!Uses(k) /\ conn[k] # None
           /\ down[k] \in Seq(DownFrame) /\ down[k] # <<>>
           /\ down' = [down EXCEPT ![k] = Tail(@)] /\ up' = up /\ UNCHANGED Theirs
           /\ Head(down[k]) \in Frames(down[k]) /\ Head(down[k]) \in DownFrame
           /\ Head(down[k]).t = t /\ DownIs(k, Head(down[k])) /\ DownNow(k, Head(down[k]))
           /\ S!Mine(c) <=> Head(down[k]).id = client[c].id
<1> DEFINE k == client[c].on
<1>1. k \in Conn /\ conn[k] = c /\ S!Uses(k) /\ conn[k] # None
  BY OpenIs
<1>2. /\ down[k] # <<>> /\ down' = [down EXCEPT ![k] = Tail(@)] /\ Head(down[k]).t = t
      /\ up' = up /\ UNCHANGED <<cast, conn, alive, hub, claim, inbox, claimed, archive, landed>>
  BY DEF S!Got, S!On, S!pool
<1>3. down[k] \in Seq(DownFrame) /\ Conveys(k)
  BY <1>1, OfConn
<1>4. Head(down[k]) \in Frames(down[k]) /\ Head(down[k]) \in DownFrame
  BY <1>2, <1>3, TailFrames
<1>5. DownIs(k, Head(down[k])) /\ DownNow(k, Head(down[k]))
  BY <1>1, <1>3, <1>4 DEF Conveys
<1>6. S!Mine(c) <=> Head(down[k]).id = client[c].id
  BY DEF S!Mine, S!On
<1>7. UNCHANGED Theirs
  BY <1>2 DEF Theirs
<1> HIDE DEF k
<1>8. k = client[c].on
  BY DEF k
<1>9. QED
  BY <1>1, <1>2, <1>3, <1>4, <1>5, <1>6, <1>7, <1>8

LEMMA RefusedKeeps == ASSUME SInv, NEW c \in Client, S!Refused(c) PROVE SInv'
<1>1. client[c].pc \in {"hello", "waiting"}
  BY DEF S!Refused
<1>2. PICK code \in S!Refusals : S!Got(c, code)
  BY DEF S!Refused
<1>3. client[c].pc \in Active
  BY <1>1 DEF Active
<1>4. PICK k \in Conn :
           /\ k = client[c].on /\ conn[k] = c /\ S!Uses(k) /\ conn[k] # None
           /\ down[k] \in Seq(DownFrame) /\ down[k] # <<>>
           /\ down' = [down EXCEPT ![k] = Tail(@)] /\ up' = up /\ UNCHANGED Theirs
           /\ Head(down[k]) \in Frames(down[k]) /\ Head(down[k]) \in DownFrame
           /\ Head(down[k]).t = code /\ DownIs(k, Head(down[k])) /\ DownNow(k, Head(down[k]))
           /\ S!Mine(c) <=> Head(down[k]).id = client[c].id
  BY <1>2, <1>3, GotIs
<1>5. code \in S!Reports \ {"order", "ok"}
  BY <1>4 DEF DownFrame, Answers, S!Refusals, S!Reports
<1>6. S!Fail(c, IF client[c].pc = "hello" \/ S!Mine(c) THEN code
                ELSE IF client[c].sent THEN "send-unknown" ELSE "malformed")
  BY <1>4 DEF S!Refused, S!On
<1>7. ASSUME S!Job(c) = "send", client[c].pc = "hello" \/ S!Mine(c)
      PROVE  Clear(c)
  <2>1. CASE client[c].pc = "hello"
    BY <1>7, <2>1, OfClient DEF Sends
  <2>2. CASE client[c].pc = "waiting" /\ S!Mine(c)
    <3>1. client[c].ask \in Asks(c) /\ Asking(c)
      BY <1>3, OfClient DEF Connected
    <3>2. client[c].id = 2
      BY <1>7, <2>2, <3>1 DEF Asking, Asks, LaneAsks
    <3>3. Head(down[k]).id = 2
      BY <1>4, <2>2, <3>2
    <3>4. QED
      BY <1>4, <1>7, <3>3 DEF DownNow
  <2>3. QED
    BY <1>1, <1>7, <2>1, <2>2
<1>8. "send-unknown" \notin Retriable /\ "malformed" \notin Retriable
      /\ {"send-unknown", "malformed"} \subseteq S!Reports \ {"order", "ok"}
  BY DEF Retriable, S!Refusals, S!Reports
<1>9. client[c].on \in Conn /\ down[client[c].on] # <<>>
      /\ down' = [down EXCEPT ![client[c].on] = Tail(@)] /\ up' = up /\ UNCHANGED Theirs
  BY <1>4
<1>10. CASE client[c].pc = "hello" \/ S!Mine(c)
  BY <1>1, <1>5, <1>6, <1>7, <1>9, <1>10, FailKeeps
<1>11. CASE ~(client[c].pc = "hello" \/ S!Mine(c))
  <2>1. S!Fail(c, "send-unknown") \/ S!Fail(c, "malformed")
    BY <1>6, <1>11
  <2>2. QED
    BY <1>1, <1>8, <1>9, <2>1, FailKeeps
<1>12. QED
  BY <1>10, <1>11

LEMMA SendAgainKeeps == ASSUME SInv, NEW c \in Client, S!SendAgain(c) PROVE SInv'
<1>1. /\ S!Job(c) = "send" /\ client[c].out \in Retriable
      /\ client' = [client EXCEPT ![c] = S!Idle] /\ UNCHANGED Theirs /\ up' = up /\ down' = down
  BY DEF S!SendAgain, S!pool, Theirs, Retriable
<1>2. Clear(c)
  BY <1>1, OfClient DEF Sends
<1>3. S!Idle \in ClientRec
  BY DEF S!Idle, ClientRec
<1>4. S!Idle.pc = "idle" /\ S!Idle.on = None /\ S!Idle.out = None /\ S!Idle.shown = {}
  BY DEF S!Idle
<1>5. S!Idle.out # "ok"
  BY <1>4, NoneIs
<1>6. QED
  BY <1>1, <1>2, <1>3, <1>4, <1>5, LeavingKeeps

LEMMA ClientKilledKeeps == ASSUME SInv, NEW c \in Client, S!ClientKilled(c) PROVE SInv'
<1>1. /\ client' = [client EXCEPT ![c].pc = "done", ![c].on = None, ![c].out = "killed"]
      /\ UNCHANGED Theirs /\ up' = up /\ down' = down
  BY DEF S!ClientKilled, S!pool, Theirs
<1>2. client[c] \in ClientRec /\ client \in [Client -> ClientRec]
  BY OfClient DEF SInv, SessionTypes
<1> DEFINE r == [client[c] EXCEPT !.pc = "done", !.on = None, !.out = "killed"]
<1>3. "killed" \in S!Reports \ {"order"} /\ "killed" \notin Retriable
  BY DEF S!Reports, S!Refusals, Retriable
<1>4. r \in ClientRec
  BY <1>2, <1>3 DEF ClientRec
<1>5. r.pc = "done" /\ r.on = None /\ r.out = "killed" /\ r.shown = client[c].shown
  BY <1>2 DEF ClientRec
<1>6. client' = [client EXCEPT ![c] = r]
  BY <1>1, <1>2
<1> HIDE DEF r
<1>7. QED
  BY <1>1, <1>3, <1>4, <1>5, <1>6, LeavingKeeps

\* A client that goes on with its connection, and may have read a frame of it.
LEMMA GoingOnKeeps ==
  ASSUME SInv, NEW c \in Client, client[c].pc \in Active, UNCHANGED Theirs, up' = up,
         NEW k \in Conn, k = client[c].on,
         NEW r \in ClientRec, client' = [client EXCEPT ![c] = r],
         r.pc \in Active, r.on = k, r.ask \in Asks(c), Asking(c)',
         \/ down' = down /\ r.shown = client[c].shown
         \/ /\ down[k] # <<>> /\ down' = [down EXCEPT ![k] = Tail(@)]
            /\ IF Head(down[k]).t = "item" THEN r.shown = client[c].shown \cup {Head(down[k]).m}
                                           ELSE r.shown = client[c].shown,
         \/ r.id > client[c].id
         \/ r.id = client[c].id /\ client[c].pc = "request"
         \/ r.id = client[c].id /\ r.pc = client[c].pc /\ r.ask = client[c].ask,
         r.pc = "waiting" \/ client[c].pc # "waiting" \/ S!Job(c) = "lane"
  PROVE  SInv'
<1>1. /\ hub' = hub /\ conn' = conn /\ cast' = cast /\ landed' = landed /\ alive' = alive
      /\ claim' = claim /\ inbox' = inbox /\ claimed' = claimed /\ archive' = archive
  BY DEF Theirs
<1>2. /\ client \in [Client -> ClientRec] /\ up \in [Conn -> Seq(UpFrame)]
      /\ down \in [Conn -> Seq(DownFrame)] /\ down[k] \in Seq(DownFrame)
      /\ client[c] \in ClientRec /\ client[c].id \in Nat /\ r.id \in Nat
  BY DEF SInv, SessionTypes, ClientRec
<1>3. client'[c] = r /\ client' \in [Client -> ClientRec]
      /\ \A d \in Client \ {c} : client'[d] = client[d]
  BY <1>2
<1>4. conn[k] = c /\ S!Uses(k) /\ conn[k] # None /\ Conveys(k) /\ S!Job(c) \in S!Jobs
  BY OpenIs, OfConn
<1>5. /\ down'[k] \in Seq(DownFrame) /\ Frames(down'[k]) \subseteq Frames(down[k])
      /\ down' \in [Conn -> Seq(DownFrame)] /\ \A j \in Conn \ {k} : down'[j] = down[j]
  <2>1. CASE down' = down
    BY <1>2, <2>1
  <2>2. CASE down[k] # <<>> /\ down' = [down EXCEPT ![k] = Tail(@)]
    <3>1. Tail(down[k]) \in Seq(DownFrame) /\ Frames(Tail(down[k])) \subseteq Frames(down[k])
      BY <1>2, <2>2, TailFrames
    <3>2. QED
      BY <1>2, <2>2, <3>1
  <2>3. QED
    BY <2>1, <2>2
<1>6. ClientStep(c)
  BY <1>1, <1>2, <1>3, <1>4, <1>5 DEF ClientStep
<1>7. /\ S!Job(c)' = S!Job(c) /\ (Clear(c)' <=> Clear(c)) /\ Asks(c)' = Asks(c)
      /\ \A j \in Conn : /\ Armed(j)' <=> Armed(j)
                         /\ S!Gone(j)' <=> S!Gone(j)
                         /\ Channel(j)' <=> Channel(j)
                         /\ Beating(j)' <=> Beating(j)
  BY <1>6, ClientFrame
<1>8. ASSUME NEW j \in Conn, conn[j] = c, j # k
      PROVE  Conveys(j)'
  <2>1. ~S!Uses(j)'
    BY <1>1, <1>3, <1>8 DEF S!Uses, S!On
  <2>2. QED
    BY <1>5, <1>6, <1>8, <2>1, NotOpen
<1>9. S!Uses(k)'
  BY <1>1, <1>3, <1>4 DEF S!Uses, S!On
<1>10. Conveys(k)'
  <2>1. HubIs(k)'
    <3>1. hub[k].pc \in {"check", "ack", "answer"} => client[c].pc = "waiting" /\ S!Job(c) # "lane"
      BY <1>4 DEF Conveys, HubIs
    <3>2. QED
      BY <1>1, <1>3, <1>4, <1>7, <3>1 DEF Conveys, HubIs
  <2>2. OneSend(k)'
    BY <1>1, <1>4, <1>7 DEF Conveys, OneSend
  <2>3. \A f \in Frames(up[k]) : UpIs(k, f)'
    BY <1>1, <1>4, <1>7 DEF Conveys, UpIs
  <2>4. ASSUME NEW f \in Frames(up[k])
        PROVE  UpNow(k, f)'
    <3>1. UpNow(k, f) /\ f.id \in Nat
      <4>1. up[k] \in Seq(UpFrame)
        BY OfConn
      <4>2. f \in UpFrame
        BY <4>1, FramesTyped
      <4>3. QED
        BY <1>4, <4>2 DEF Conveys, UpFrame
    <3>2. /\ f.id <= client[c].id /\ (client[c].pc = "request" => f.id < client[c].id)
          /\ client[c].pc = "waiting" /\ f.id = client[c].id => f.t = client[c].ask
      BY <1>4, <3>1 DEF UpNow
    <3>3. /\ f.id <= r.id /\ (r.pc = "request" => f.id < r.id)
          /\ r.pc = "waiting" /\ f.id = r.id => f.t = r.ask
      BY <1>2, <3>1, <3>2
    <3>4. client'[conn'[k]] = r
      BY <1>1, <1>3, <1>4
    <3>5. QED
      BY <3>3, <3>4 DEF UpNow
  <2>5. \A f \in Frames(down[k]) : DownIs(k, f)'
    BY <1>1, <1>4, <1>7 DEF Conveys, DownIs
  <2>6. ASSUME NEW f \in Frames(down[k])
        PROVE  DownNow(k, f)'
    <3>1. DownNow(k, f) /\ f.id \in Nat
      <4>1. f \in DownFrame
        BY <1>2, FramesTyped
      <4>2. QED
        BY <1>4, <4>1 DEF Conveys, DownFrame
    <3>2. /\ f.id <= client[c].id /\ (client[c].pc = "request" => f.id < client[c].id)
          /\ client[c].pc = "waiting" /\ f.id = client[c].id /\ f.t = "ok" =>
               /\ client[c].ask = "lease-acquire" => Channel(k)
               /\ client[c].ask = "register" => Beating(k)
          /\ S!Job(c) = "send" /\ f.t \in S!Refusals /\ f.id = 2 => Clear(c)
      BY <1>4, <3>1 DEF DownNow
    <3>3. /\ f.id <= r.id /\ (r.pc = "request" => f.id < r.id)
          /\ r.pc = "waiting" /\ f.id = r.id /\ f.t = "ok" =>
               /\ r.ask = "lease-acquire" => Channel(k)
               /\ r.ask = "register" => Beating(k)
      BY <1>2, <3>1, <3>2
    <3>4. client'[conn'[k]] = r /\ conn'[k] = c
      BY <1>1, <1>3, <1>4
    <3>5. QED
      BY <1>7, <3>2, <3>3, <3>4 DEF DownNow
  <2>7. ASSUME S!Job(c) \in {"check", "ack"}
        PROVE  Streams(k)'
    <3>1. Streams(k)
      BY <1>4, <2>7 DEF Conveys
    <3> SUFFICES ASSUME NEW m \in hub[k].did
                 PROVE  /\ alive[k] => m \in r.shown \/ \E f \in Frames(down'[k]) : f.t = "item" /\ f.m = m
                        /\ \A i \in 1 .. Len(down'[k]) : down'[k][i].t = "ok" =>
                             \/ m \in r.shown
                             \/ \E j \in 1 .. (i - 1) : down'[k][j].t = "item" /\ down'[k][j].m = m
      BY <1>1, <1>3, <1>4 DEF Streams
    <3>2. CASE down' = down /\ r.shown = client[c].shown
      BY <1>4, <3>1, <3>2 DEF Streams
    <3>3. CASE /\ down[k] # <<>> /\ down' = [down EXCEPT ![k] = Tail(@)]
               /\ IF Head(down[k]).t = "item" THEN r.shown = client[c].shown \cup {Head(down[k]).m}
                                              ELSE r.shown = client[c].shown
      <4>1. /\ down'[k] = Tail(down[k]) /\ Head(down[k]) = down[k][1]
            /\ Len(down[k]) \in Nat \ {0} /\ Len(down'[k]) = Len(down[k]) - 1
            /\ \A i \in 1 .. Len(down'[k]) : down'[k][i] = down[k][i + 1]
        BY <1>2, <3>3, TailFrames
      <4>2. client[c].shown \subseteq r.shown /\ (down[k][1].t = "item" => down[k][1].m \in r.shown)
        BY <3>3, <4>1
      <4>3. \A i \in 2 .. Len(down[k]) : i - 1 \in 1 .. Len(down'[k]) /\ down'[k][i - 1] = down[k][i]
        BY <4>1
      <4>4. ASSUME NEW f \in Frames(down[k]) PROVE f = down[k][1] \/ f \in Frames(down'[k])
        <5>1. PICK i \in 1 .. Len(down[k]) : f = down[k][i]
          BY DEF Frames
        <5>2. CASE i = 1
          BY <5>1, <5>2
        <5>3. CASE i \in 2 .. Len(down[k])
          <6>1. i - 1 \in 1 .. Len(down'[k]) /\ f = down'[k][i - 1]
            BY <4>3, <5>1, <5>3
          <6>2. QED
            BY <6>1 DEF Frames
        <5>4. QED
          BY <4>1, <5>2, <5>3
      <4>5. ASSUME NEW i \in 1 .. Len(down'[k]), down'[k][i].t = "ok", m \notin r.shown
            PROVE  \E j \in 1 .. (i - 1) : down'[k][j].t = "item" /\ down'[k][j].m = m
        <5>1. i + 1 \in 1 .. Len(down[k]) /\ down[k][i + 1].t = "ok" /\ m \notin client[c].shown
          BY <4>1, <4>2, <4>5
        <5>2. PICK j \in 1 .. ((i + 1) - 1) : down[k][j].t = "item" /\ down[k][j].m = m
          BY <1>4, <3>1, <5>1 DEF Streams
        <5>3. j # 1
          BY <4>2, <4>5, <5>2
        <5>4. j - 1 \in 1 .. (i - 1) /\ j \in 2 .. Len(down[k])
          BY <4>1, <5>2, <5>3
        <5>5. QED
          BY <4>3, <5>2, <5>4
      <4>6. ASSUME alive[k] PROVE m \in r.shown \/ \E f \in Frames(down'[k]) : f.t = "item" /\ f.m = m
        <5>1. m \in client[c].shown \/ \E f \in Frames(down[k]) : f.t = "item" /\ f.m = m
          BY <1>4, <3>1, <4>6 DEF Streams
        <5>2. CASE m \in client[c].shown
          BY <4>2, <5>2
        <5>3. CASE m \notin client[c].shown
          <6>1. PICK f \in Frames(down[k]) : f.t = "item" /\ f.m = m
            BY <5>1, <5>3
          <6>2. QED
            BY <4>2, <4>4, <6>1
        <5>4. QED
          BY <5>2, <5>3
      <4>7. QED
        BY <4>5, <4>6
    <3>4. QED
      BY <3>2, <3>3
  <2>8. QED
    BY <1>1, <1>4, <1>5, <1>7, <2>1, <2>2, <2>3, <2>4, <2>5, <2>6, <2>7 DEF Conveys
<1>11. Connected(c)'
  BY <1>1, <1>3, <1>4, <1>7, NoneIs DEF Connected
<1>12. Told(c)'
  <2>1. Told(c)
    BY OfClient
  <2>2. r.out # "ok"
    <3>1. r.out = None
      BY <1>3 DEF Asking, Active
    <3>2. QED
      BY <3>1, NoneIs
  <2>3. down[k] # <<>> => DownIs(k, Head(down[k]))
    BY <1>2, <1>4, TailFrames DEF Conveys
  <2>4. QED
    BY <1>1, <1>3, <1>4, <1>7, <2>1, <2>2, <2>3 DEF Told, DownIs
<1>13. Sends(c)'
  <2>1. Sends(c)
    BY OfClient
  <2>2. r.out \notin Retriable
    <3>1. r.out = None
      BY <1>3 DEF Asking, Active
    <3>2. QED
      BY <3>1, NoneIs
  <2>3. S!Job(c) = "send" /\ r.pc \in {"idle", "hello", "request"} => Clear(c)
    BY <2>1 DEF Sends, Active
  <2>4. QED
    BY <1>1, <1>3, <1>7, <2>1, <2>2, <2>3 DEF Sends
<1>14. Once(c)' /\ NoSend(c)'
  <2>1. r.pc # "idle"
    BY DEF Active
  <2>2. QED
    BY <1>3, <1>6, <2>1, ClientOthers
<1>15. \A j \in Conn : Conveys(j)'
  BY <1>6, <1>8, <1>10, ClientOthers
<1>16. QED
  BY <1>6, <1>11, <1>12, <1>13, <1>14, <1>15, ClientOthers DEF SInv

LEMMA WriteFirstKeeps == ASSUME SInv, NEW c \in Client, S!WriteFirst(c) PROVE SInv'
<1>1. /\ client[c].pc = "request" /\ S!Job(c) = "send"
      /\ client' = [client EXCEPT ![c].sent = TRUE] /\ UNCHANGED Theirs /\ up' = up /\ down' = down
  BY DEF S!WriteFirst, S!pool, Theirs
<1>2. client[c] \in ClientRec /\ client \in [Client -> ClientRec] /\ Asking(c)
  BY OfClient DEF SInv, SessionTypes
<1> DEFINE r == [client[c] EXCEPT !.sent = TRUE]
<1>3. r \in ClientRec
  BY <1>2 DEF ClientRec
<1>4. /\ r.pc = "request" /\ r.on = client[c].on /\ r.shown = client[c].shown
      /\ r.ask = client[c].ask /\ r.id = client[c].id /\ r.out = client[c].out
  BY <1>1, <1>2 DEF ClientRec
<1>5. client' = [client EXCEPT ![c] = r]
  BY <1>1, <1>2
<1> HIDE DEF r
<1>6. client'[c] = r
  BY <1>2, <1>5
<1>7. /\ client[c].pc \in Active /\ client[c].on \in Conn /\ client[c].ask \in Asks(c)
      /\ "request" \in Active
  <2>1. client[c].pc \in Active /\ "request" \in Active
    BY <1>1 DEF Active
  <2>2. QED
    BY <2>1, OpenIs, OfClient DEF Connected
<1>8. Asking(c)'
  <2>1. r.ask = "send"
    BY <1>1, <1>4, <1>7 DEF Asks
  <2>2. "send" \notin LaneAsks
    BY DEF LaneAsks
  <2>3. r.id = 2 /\ r.out = None
    BY <1>1, <1>2, <1>4, <2>1, <2>2 DEF Asking
  <2>4. "send" \notin {"tick", "lease-release", "register"}
    OBVIOUS
  <2>5. QED
    BY <1>4, <1>6, <2>1, <2>2, <2>3, <2>4 DEF Asking
<1>9. QED
  BY <1>1, <1>3, <1>4, <1>5, <1>7, <1>8, GoingOnKeeps

LEMMA HelloOKKeeps == ASSUME SInv, NEW c \in Client, S!HelloOK(c) PROVE SInv'
<1>1. /\ client[c].pc = "hello" /\ S!Got(c, "hello-ok")
      /\ client' = [client EXCEPT ![c].pc = "request", ![c].id = @ + 1]
  BY DEF S!HelloOK
<1>2. client[c] \in ClientRec /\ client \in [Client -> ClientRec] /\ Asking(c)
  BY OfClient DEF SInv, SessionTypes
<1>3. client[c].pc \in Active /\ client[c].id = 1 /\ client[c].ask \in Asks(c) /\ "request" \in Active
  <2>1. client[c].pc \in Active /\ client[c].id = 1 /\ "request" \in Active
    BY <1>1, <1>2 DEF Active, Asking
  <2>2. QED
    BY <2>1, OfClient DEF Connected
<1>4. PICK k \in Conn :
           /\ k = client[c].on /\ down[k] # <<>>
           /\ down' = [down EXCEPT ![k] = Tail(@)] /\ up' = up /\ UNCHANGED Theirs
           /\ Head(down[k]).t = "hello-ok"
  BY <1>1, <1>3, GotIs
<1> DEFINE r == [client[c] EXCEPT !.pc = "request", !.id = @ + 1]
<1>5. r \in ClientRec
  <2>1. client[c].id + 1 \in Nat /\ "request" \in Active
    BY <1>3
  <2>2. QED
    BY <1>2, <2>1 DEF ClientRec
<1>6. /\ r.pc = "request" /\ r.on = client[c].on /\ r.shown = client[c].shown
      /\ r.ask = client[c].ask /\ r.id = 2 /\ r.out = client[c].out
  BY <1>2, <1>3 DEF ClientRec
<1>7. client' = [client EXCEPT ![c] = r]
  BY <1>1, <1>2 DEF ClientRec
<1> HIDE DEF r
<1>8. client'[c] = r
  BY <1>2, <1>7
<1>9. Asking(c)'
  <2>1. r.ask \notin LaneAsks \ {"lease-acquire"}
    <3>1. S!Job(c) \in S!Jobs
      BY <1>3, OpenIs
    <3>2. S!Job(c) # "lane" => client[c].ask \notin LaneAsks
      BY <1>3, <3>1 DEF Asks, LaneAsks, S!Jobs
    <3>3. S!Job(c) = "lane" => client[c].ask = "lease-acquire"
      BY <1>1, <1>2 DEF Asking
    <3>4. QED
      BY <1>6, <3>2, <3>3
  <2>2. r.out = None
    BY <1>1, <1>2, <1>6 DEF Asking
  <2>3. r.ask \notin {"tick", "lease-release", "register"}
    BY <2>1 DEF LaneAsks
  <2>4. QED
    BY <1>6, <1>8, <2>1, <2>2, <2>3 DEF Asking
<1>10. r.id > client[c].id /\ client[c].pc # "waiting" /\ r.pc \in Active /\ r.ask \in Asks(c)
       /\ r.on = k /\ Head(down[k]).t # "item"
  BY <1>1, <1>3, <1>4, <1>6
<1>11. QED
  BY <1>3, <1>4, <1>5, <1>6, <1>7, <1>9, <1>10, GoingOnKeeps

LEMMA StreamedKeeps == ASSUME SInv, NEW c \in Client, S!Streamed(c) PROVE SInv'
<1>1. /\ client[c].pc = "waiting" /\ S!Got(c, "item")
      /\ client' = [client EXCEPT ![c].shown = @ \cup {Head(down[client[c].on]).m}]
  BY DEF S!Streamed, S!On
<1>2. client[c] \in ClientRec /\ client \in [Client -> ClientRec] /\ Asking(c)
  BY OfClient DEF SInv, SessionTypes
<1>3. client[c].pc \in Active /\ client[c].ask \in Asks(c)
  <2>1. client[c].pc \in Active
    BY <1>1 DEF Active
  <2>2. QED
    BY <2>1, OfClient DEF Connected
<1>4. PICK k \in Conn :
           /\ k = client[c].on /\ down[k] # <<>>
           /\ down' = [down EXCEPT ![k] = Tail(@)] /\ up' = up /\ UNCHANGED Theirs
           /\ Head(down[k]).t = "item" /\ DownIs(k, Head(down[k]))
  BY <1>1, <1>3, GotIs
<1> DEFINE m == Head(down[k]).m
           r == [client[c] EXCEPT !.shown = client[c].shown \cup {m}]
<1>5. m \in Mail
  BY <1>4 DEF DownIs
<1> HIDE DEF m
<1>6. r \in ClientRec
  BY <1>2, <1>5 DEF ClientRec
<1>7. /\ r.pc = client[c].pc /\ r.on = client[c].on /\ r.shown = client[c].shown \cup {m}
      /\ r.ask = client[c].ask /\ r.id = client[c].id /\ r.out = client[c].out
  BY <1>2 DEF ClientRec
<1>8. r.sent <=> client[c].sent
  BY <1>2 DEF ClientRec
<1>9. client' = [client EXCEPT ![c] = r]
  BY <1>1, <1>2, <1>4 DEF m
<1> HIDE DEF r
<1>10. client'[c] = r
  BY <1>2, <1>9
<1>11. Asking(c)'
  <2>1. cast' = cast /\ hub' = hub
    BY <1>4 DEF Theirs
  <2>2. S!Job(c)' = S!Job(c)
    BY <2>1 DEF S!Job
  <2>3. \A j \in Conn : (Channel(j)' <=> Channel(j)) /\ (Beating(j)' <=> Beating(j))
    BY <2>1 DEF Channel, Beating, S!Gone
  <2>4. client[c].on \in Conn
    BY <1>4
  <2>5. QED
    BY <1>2, <1>7, <1>8, <1>10, <2>2, <2>3, <2>4 DEF Asking
<1>12. r.pc = "waiting" /\ r.pc \in Active /\ r.ask \in Asks(c) /\ r.on = k
  BY <1>1, <1>3, <1>4, <1>7
<1>13. QED
  BY <1>3, <1>4, <1>6, <1>7, <1>9, <1>11, <1>12, GoingOnKeeps DEF m

LEMMA LetGoKeeps == ASSUME SInv, NEW c \in Client, S!LetGo(c) PROVE SInv'
<1>1. /\ client[c].pc = "request" /\ client[c].ask = "tick"
      /\ client' = [client EXCEPT ![c].ask = "lease-release"]
      /\ UNCHANGED Theirs /\ up' = up /\ down' = down
  BY DEF S!LetGo, S!pool, Theirs
<1>2. client[c] \in ClientRec /\ client \in [Client -> ClientRec] /\ Asking(c)
  BY OfClient DEF SInv, SessionTypes
<1> DEFINE r == [client[c] EXCEPT !.ask = "lease-release"]
<1>3. r \in ClientRec
  BY <1>2 DEF ClientRec, LaneAsks
<1>4. /\ r.pc = "request" /\ r.on = client[c].on /\ r.shown = client[c].shown
      /\ r.ask = "lease-release" /\ r.id = client[c].id /\ r.out = client[c].out
  BY <1>1, <1>2 DEF ClientRec
<1>5. client' = [client EXCEPT ![c] = r]
  BY <1>1, <1>2
<1> HIDE DEF r
<1>6. client'[c] = r
  BY <1>2, <1>5
<1>7. client[c].pc \in Active /\ client[c].on \in Conn /\ "request" \in Active /\ S!Job(c) \in S!Jobs
      /\ client[c].ask \in Asks(c)
  <2>1. client[c].pc \in Active /\ "request" \in Active
    BY <1>1 DEF Active
  <2>2. QED
    BY <2>1, OpenIs, OfClient DEF Connected
<1>8. S!Job(c) = "lane" /\ "lease-release" \in Asks(c)
  <2>1. S!Job(c) = "lane"
    BY <1>1, <1>7 DEF Asks, S!Jobs
  <2>2. QED
    BY <2>1 DEF Asks, LaneAsks
<1>9. Asking(c)'
  <2>1. cast' = cast /\ hub' = hub
    BY <1>1 DEF Theirs
  <2>2. Beating(client[c].on)'
    BY <1>1, <1>2, <2>1 DEF Beating, S!Gone, Asking
  <2>3. r.id >= 2 /\ r.out = None
    BY <1>1, <1>2, <1>4 DEF Asking
  <2>4. "lease-release" \in LaneAsks \ {"lease-acquire"}
    BY DEF LaneAsks
  <2>5. QED
    BY <1>4, <1>6, <2>2, <2>3, <2>4 DEF Asking
<1>10. QED
  BY <1>1, <1>3, <1>4, <1>5, <1>7, <1>8, <1>9, GoingOnKeeps

LEMMA AnsweredKeeps == ASSUME SInv, NEW c \in Client, S!Answered(c) PROVE SInv'
<1>1. client[c].pc = "waiting" /\ S!Got(c, "ok") /\ S!Mine(c)
  BY DEF S!Answered
<1>2. client[c] \in ClientRec /\ client \in [Client -> ClientRec] /\ Asking(c) /\ Once(c)
  BY OfClient DEF SInv, SessionTypes
<1>3. client[c].pc \in Active /\ client[c].ask \in Asks(c) /\ client[c].id \in Nat /\ client[c].id >= 2
  <2>1. client[c].pc \in Active /\ client[c].id \in Nat /\ client[c].id >= 2
    BY <1>1, <1>2 DEF Active, Asking, ClientRec
  <2>2. QED
    BY <2>1, OfClient DEF Connected
<1>4. PICK k \in Conn :
           /\ k = client[c].on /\ conn[k] = c /\ S!Uses(k) /\ conn[k] # None
           /\ down[k] \in Seq(DownFrame) /\ down[k] # <<>>
           /\ down' = [down EXCEPT ![k] = Tail(@)] /\ up' = up /\ UNCHANGED Theirs
           /\ Head(down[k]).t = "ok" /\ DownIs(k, Head(down[k])) /\ DownNow(k, Head(down[k]))
           /\ Head(down[k]).id = client[c].id
  BY <1>1, <1>3, GotIs
<1>5. CASE /\ S!Job(c) # "lane" \/ client[c].ask = "lease-release"
           /\ client' = [client EXCEPT ![c] = [client[c] EXCEPT !.pc = "done", !.on = None, !.out = "ok"]]
  <2> DEFINE r == [client[c] EXCEPT !.pc = "done", !.on = None, !.out = "ok"]
  <2>1. "ok" \in S!Reports \ {"order"} /\ "ok" \notin Retriable
    BY DEF S!Reports, S!Refusals, Retriable
  <2>2. r \in ClientRec
    BY <1>2, <2>1 DEF ClientRec
  <2>3. r.pc = "done" /\ r.on = None /\ r.out = "ok" /\ r.shown = client[c].shown
    BY <1>2 DEF ClientRec
  <2>4. client' = [client EXCEPT ![c] = r]
    BY <1>2, <1>5
  <2> HIDE DEF r
  <2>5. ASSUME S!Job(c) \in {"check", "ack"}, NEW j \in Conn, conn[j] = c
        PROVE  S!Gone(j) /\ hub[j].did \subseteq r.shown
    <3>1. j = k
      BY <1>2, <1>4, <2>5 DEF Once
    <3>2. S!Gone(k)
      BY <1>4, <2>5 DEF DownIs
    <3>3. Streams(k)
      BY <1>4, <2>5, OfConn DEF Conveys
    <3>4. Len(down[k]) \in Nat \ {0} /\ down[k][1].t = "ok"
      BY <1>4, TailFrames
    <3>5. \A m \in hub[k].did : m \in client[c].shown \/ \E i \in 1 .. (1 - 1) : TRUE
      BY <1>4, <3>3, <3>4 DEF Streams
    <3>6. hub[k].did \subseteq client[c].shown
      BY <3>5
    <3>7. QED
      BY <2>3, <3>1, <3>2, <3>6
  <2>6. S!Job(c) = "check" => inbox = {}
    BY <1>4 DEF DownIs
  <2>7. client[c].on \in Conn /\ down[client[c].on] # <<>>
        /\ down' = [down EXCEPT ![client[c].on] = Tail(@)] /\ up' = up /\ UNCHANGED Theirs
    BY <1>4
  <2>8. QED
    BY <2>1, <2>2, <2>3, <2>4, <2>5, <2>6, <2>7, LeavingKeeps
<1>6. CASE /\ S!Job(c) = "lane" /\ client[c].ask # "lease-release"
           /\ client' = [client EXCEPT ![c] =
                [client[c] EXCEPT !.pc = "request", !.id = @ + 1, !.ask = S!Then(@)]]
  <2>1. Asks(c) = LaneAsks
    BY <1>6 DEF Asks
  <2> DEFINE next == S!Then(client[c].ask)
             r == [client[c] EXCEPT !.pc = "request", !.id = @ + 1, !.ask = next]
  <2>2. /\ next \in {"register", "tick"}
        /\ next = "register" => client[c].ask = "lease-acquire"
        /\ next = "tick" => client[c].ask \in {"register", "tick"}
    BY <1>3, <1>6, <2>1 DEF S!Then, LaneAsks
  <2> HIDE DEF next
  <2>3. r \in ClientRec
    <3>1. client[c].id + 1 \in Nat /\ "request" \in Active /\ next \in LaneAsks
      BY <1>3, <2>2 DEF Active, LaneAsks
    <3>2. QED
      BY <1>2, <3>1 DEF ClientRec
  <2>4. /\ r.pc = "request" /\ r.on = client[c].on /\ r.shown = client[c].shown
        /\ r.ask = next /\ r.id = client[c].id + 1 /\ r.out = client[c].out
    BY <1>2 DEF ClientRec
  <2>5. client' = [client EXCEPT ![c] = r]
    BY <1>6 DEF next
  <2> HIDE DEF r
  <2>6. client'[c] = r
    BY <1>2, <2>5
  <2>7. Asking(c)'
    <3>1. hub' = hub
      BY <1>4 DEF Theirs
    <3>2. next = "register" => Channel(k)'
      <4>1. client[c].ask = "lease-acquire" => Channel(k)
        BY <1>1, <1>4 DEF DownNow
      <4>2. Channel(k)' <=> Channel(k)
        BY <3>1 DEF Channel, S!Gone
      <4>3. QED
        BY <2>2, <4>1, <4>2
    <3>3. next = "tick" => Beating(k)'
      <4>1. client[c].ask = "register" => Beating(k)
        BY <1>1, <1>4 DEF DownNow
      <4>2. client[c].ask = "tick" => Beating(k)
        BY <1>1, <1>2, <1>4 DEF Asking
      <4>3. Beating(k)' <=> Beating(k)
        BY <3>1 DEF Beating, S!Gone
      <4>4. QED
        BY <2>2, <4>1, <4>2, <4>3
    <3>4. r.out = None /\ r.id >= 2
      BY <1>1, <1>2, <1>3, <2>4 DEF Asking
    <3>5. r.ask \in LaneAsks \ {"lease-acquire"} /\ r.ask # "lease-release"
      BY <2>2, <2>4 DEF LaneAsks
    <3>6. r.on = k
      BY <1>4, <2>4
    <3>7. QED
      BY <2>4, <2>6, <3>2, <3>3, <3>4, <3>5, <3>6 DEF Asking
  <2>8. r.id > client[c].id /\ r.pc \in Active /\ r.ask \in Asks(c)
        /\ r.on = k /\ Head(down[k]).t # "item"
    BY <1>3, <1>4, <2>1, <2>2, <2>4 DEF Active, LaneAsks
  <2>9. QED
    BY <1>3, <1>4, <1>6, <2>3, <2>4, <2>5, <2>7, <2>8, GoingOnKeeps
<1>7. client' = [client EXCEPT ![c] =
        IF S!Job(c) # "lane" \/ client[c].ask = "lease-release"
          THEN [client[c] EXCEPT !.pc = "done", !.on = None, !.out = "ok"]
          ELSE [client[c] EXCEPT !.pc = "request", !.id = @ + 1, !.ask = S!Then(@)]]
  BY DEF S!Answered
<1>8. QED
  BY <1>5, <1>6, <1>7

\* A request is written: on a live connection it is the last frame there.
LEMMA RequestKeeps == ASSUME SInv, NEW c \in Client, S!Write(c) PROVE SInv'
<1> DEFINE r == [client[c] EXCEPT !.pc = "waiting"]
<1>a. client[c].pc \in Active
  BY DEF S!Write, Active
<1>0. PICK k \in Conn : k = client[c].on
  BY <1>a, OpenIs
<1>1. /\ client[c].pc = "request" /\ (S!Job(c) = "send" => client[c].sent)
      /\ client' = [client EXCEPT ![c].pc = "waiting"]
      /\ up' = IF alive[k] THEN [up EXCEPT ![k] = Append(@, [t |-> client[c].ask, id |-> client[c].id, m |-> None])]
               ELSE up
      /\ UNCHANGED Theirs /\ down' = down
  BY <1>0 DEF S!Write, S!On, S!Frame, S!pool, Theirs
<1>2. /\ client[c] \in ClientRec /\ client \in [Client -> ClientRec] /\ up \in [Conn -> Seq(UpFrame)]
      /\ down \in [Conn -> Seq(DownFrame)]
      /\ Asking(c) /\ client[c].pc \in Active /\ "waiting" \in Active
  BY <1>1, OfClient DEF SInv, SessionTypes, Active
<1>3. k \in Conn /\ conn[k] = c /\ S!Uses(k) /\ conn[k] # None /\ Conveys(k) /\ S!Job(c) \in S!Jobs
      /\ client[c].ask \in Asks(c)
  BY <1>0, <1>2, OpenIs, OfConn, OfClient DEF Connected
<1>4. r \in ClientRec
  BY <1>2 DEF ClientRec
<1>5. /\ r.pc = "waiting" /\ r.on = k /\ r.shown = client[c].shown
      /\ r.ask = client[c].ask /\ r.id = client[c].id /\ r.out = client[c].out
  BY <1>0, <1>2 DEF ClientRec
<1>6. r.sent <=> client[c].sent
  BY <1>2 DEF ClientRec
<1>7. client' = [client EXCEPT ![c] = r]
  BY <1>1, <1>2
<1> HIDE DEF r
<1>8. client'[c] = r /\ client' \in [Client -> ClientRec] /\ \A d \in Client \ {c} : client'[d] = client[d]
  BY <1>2, <1>4, <1>7
<1>9. /\ hub' = hub /\ conn' = conn /\ cast' = cast /\ landed' = landed /\ alive' = alive
      /\ claim' = claim /\ inbox' = inbox /\ claimed' = claimed /\ archive' = archive
  BY <1>1 DEF Theirs
<1>10. Asking(c)'
  <2>1. S!Job(c)' = S!Job(c)
    BY <1>9 DEF S!Job
  <2>2. (Channel(k)' <=> Channel(k)) /\ (Beating(k)' <=> Beating(k))
    BY <1>9 DEF Channel, Beating, S!Gone
  <2>3. QED
    BY <1>0, <1>1, <1>2, <1>5, <1>6, <1>8, <2>1, <2>2 DEF Asking
<1>11. CASE ~alive[k]
  <2>1. up' = up
    BY <1>1, <1>11
  <2>2. r.pc \in Active /\ r.ask \in Asks(c)
    BY <1>2, <1>3, <1>5
  <2>3. QED
    BY <1>0, <1>1, <1>2, <1>3, <1>4, <1>5, <1>7, <1>10, <2>1, <2>2, GoingOnKeeps
<1>12. CASE alive[k]
  <2>1. client[c].ask \notin {"hello"} /\ client[c].ask \in S!Jobs \cup LaneAsks
    BY <1>3 DEF Asks, LaneAsks, S!Jobs
  <2>a. [t |-> client[c].ask, id |-> client[c].id, m |-> None] \in UpFrame
    BY <1>2, <2>1 DEF UpFrame, ClientRec
  <2>b. PICK f \in UpFrame : f = [t |-> client[c].ask, id |-> client[c].id, m |-> None]
    BY <2>a
  <2>2. f.t = client[c].ask /\ f.id = client[c].id /\ client[c].id \in Nat
    BY <1>2, <2>b DEF ClientRec
  <2>3. up' = [up EXCEPT ![k] = Append(@, f)] /\ up[k] \in Seq(UpFrame)
    BY <1>1, <1>2, <1>3, <1>12, <2>b
  <2>4. /\ Append(up[k], f) \in Seq(UpFrame) /\ Len(Append(up[k], f)) = Len(up[k]) + 1 /\ Len(up[k]) \in Nat
        /\ \A i \in 1 .. Len(up[k]) : Append(up[k], f)[i] = up[k][i]
        /\ Append(up[k], f)[Len(up[k]) + 1] = f
        /\ Frames(Append(up[k], f)) = Frames(up[k]) \cup {f}
    BY <2>2, <2>3, AppendFrames
  <2>5. /\ up' \in [Conn -> Seq(UpFrame)] /\ up'[k] = Append(up[k], f)
        /\ \A j \in Conn \ {k} : up'[j] = up[j]
    BY <1>2, <1>3, <2>3, <2>4
  <2>6. ClientStep(c)
    BY <1>1, <1>2, <1>3, <1>8, <1>9, <2>5 DEF ClientStep
  <2>7. /\ S!Job(c)' = S!Job(c) /\ Asks(c)' = Asks(c)
        /\ \A j \in Conn : /\ S!Gone(j)' <=> S!Gone(j)
                           /\ Channel(j)' <=> Channel(j)
                           /\ Beating(j)' <=> Beating(j)
        /\ \A j \in Conn \ {k} : Armed(j)' <=> Armed(j)
    BY <2>5, <2>6, ClientFrame
  <2>8. ASSUME NEW j \in Conn, conn[j] = c, j # k
        PROVE  Conveys(j)'
    <3>1. ~S!Uses(j)'
      BY <1>5, <1>8, <1>9, <2>8 DEF S!Uses, S!On
    <3>2. QED
      BY <1>1, <2>5, <2>6, <2>8, <3>1, NotOpen
  <2>9. client'[conn'[k]] = r /\ conn'[k] = c
    BY <1>3, <1>8, <1>9
  <2>10. HubIs(k)'
    <3>1. hub[k].pc \notin {"check", "ack", "answer"}
      BY <1>1, <1>3 DEF Conveys, HubIs
    <3>2. QED
      BY <1>3, <1>9, <3>1 DEF Conveys, HubIs
  <2>11. UpIs(k, f)'
    <3>1. /\ f.t \in Asks(c) /\ f.id >= 2
          /\ f.t \notin LaneAsks \ {"lease-acquire"} => f.id <= 2
          /\ f.t = "register" => Channel(k)
          /\ f.t \in {"tick", "lease-release"} => Beating(k)
      BY <1>0, <1>1, <1>2, <1>3, <2>2 DEF Asking
    <3>2. f.t # "hello"
      BY <2>1, <2>2
    <3>3. QED
      BY <2>7, <2>9, <1>3, <3>1, <3>2 DEF UpIs
  <2>12. \A g \in Frames(up[k]) : UpIs(k, g)'
    BY <1>3, <1>9, <2>7 DEF Conveys, UpIs
  <2>13. ASSUME NEW g \in Frames(up[k]) \cup {f}
         PROVE  UpNow(k, g)'
    <3>1. CASE g = f
      BY <1>5, <2>2, <2>9, <3>1 DEF UpNow
    <3>2. CASE g \in Frames(up[k])
      <4>1. UpNow(k, g)
        BY <1>3, <3>2 DEF Conveys
      <4>2. g.id \in Nat
        <5>1. g \in UpFrame
          BY <2>3, <3>2, FramesTyped
        <5>2. QED
          BY <5>1 DEF UpFrame
      <4>3. g.id < client[c].id
        BY <1>1, <1>3, <4>1 DEF UpNow
      <4>4. g.id < r.id
        BY <1>5, <4>3
      <4>5. QED
        BY <1>5, <2>2, <2>9, <4>2, <4>4 DEF UpNow
    <3>3. QED
      BY <3>1, <3>2
  <2>14. \A g \in Frames(down[k]) : DownIs(k, g)'
    BY <1>3, <1>9, <2>7 DEF Conveys, DownIs
  <2>15. ASSUME NEW g \in Frames(down[k])
         PROVE  DownNow(k, g)'
    <3>1. DownNow(k, g)
      BY <1>3 DEF Conveys
    <3>2. g.id \in Nat
      <4>1. down[k] \in Seq(DownFrame)
        BY <1>3, OfConn
      <4>2. g \in DownFrame
        BY <4>1, FramesTyped
      <4>3. QED
        BY <4>2 DEF DownFrame
    <3>3. g.id < client[c].id
      BY <1>1, <1>3, <3>1 DEF DownNow
    <3>4. g.id < r.id
      BY <1>5, <3>3
    <3>5. S!Job(c) = "send" => r.id = 2
      BY <1>1, <1>2, <1>3, <1>5 DEF Asking, Asks, LaneAsks
    <3>6. S!Job(conn[k])' = S!Job(c)
      BY <2>7, <2>9
    <3>7. QED
      BY <1>5, <2>2, <2>9, <3>2, <3>4, <3>5, <3>6 DEF DownNow
  <2>16. S!Job(c) \in {"check", "ack"} => Streams(k)'
    <3>1. S!Job(c) \in {"check", "ack"} => Streams(k)
      BY <1>3 DEF Conveys
    <3>2. QED
      BY <1>1, <1>3, <1>5, <1>9, <2>9, <3>1 DEF Streams
  <2>17. Sends(c) /\ (S!Job(c) = "send" => Clear(c))
    BY <1>1, OfClient DEF Sends
  <2>18. OneSend(k)'
    <3> SUFFICES ASSUME ~S!Gone(k), NEW i \in 1 .. Len(up'[k]), NEW j \in 1 .. Len(up'[k]),
                        up'[k][i].t = "send", up'[k][j].t = "send"
                 PROVE  i = j
      BY <2>7 DEF OneSend
    <3>1. CASE S!Job(c) = "send"
      <4>1. \A g \in Frames(up[k]) : g.t # "send"
        BY <1>3, <2>17, <3>1 DEF Clear, Armed
      <4>2. \A n \in 1 .. Len(up[k]) : up'[k][n].t # "send"
        BY <2>4, <2>5, <4>1 DEF Frames
      <4>3. i = Len(up[k]) + 1 /\ j = Len(up[k]) + 1
        BY <2>4, <2>5, <4>2
      <4>4. QED
        BY <4>3
    <3>2. CASE S!Job(c) # "send"
      <4>1. f.t # "send"
        BY <1>3, <2>2, <3>2 DEF Asks, LaneAsks
      <4>2. i \in 1 .. Len(up[k]) /\ j \in 1 .. Len(up[k])
        <5>1. i # Len(up[k]) + 1 /\ j # Len(up[k]) + 1
          BY <2>4, <2>5, <4>1
        <5>2. i \in 1 .. (Len(up[k]) + 1) /\ j \in 1 .. (Len(up[k]) + 1)
          BY <2>4, <2>5
        <5>3. QED
          BY <2>4, <5>1, <5>2
      <4>3. OneSend(k)
        BY <1>3 DEF Conveys
      <4>4. QED
        BY <2>4, <2>5, <4>2, <4>3 DEF OneSend
    <3>3. QED
      BY <3>1, <3>2
  <2>19. Conveys(k)'
    <3>1. hub'[k].did \cap inbox' = {} /\ S!Job(conn[k])' = S!Job(c)
      BY <1>3, <1>9, <2>7 DEF Conveys
    <3>2. Frames(up'[k]) = Frames(up[k]) \cup {f} /\ down' = down
      BY <1>1, <2>4, <2>5
    <3>3. QED
      BY <1>3, <1>9, <2>9, <2>10, <2>11, <2>12, <2>13, <2>14, <2>15, <2>16, <2>18, <3>1, <3>2
         DEF Conveys
  <2>20. Connected(c)'
    BY <1>2, <1>3, <1>5, <1>8, <1>9, <2>7, NoneIs DEF Connected
  <2>21. Told(c)'
    <3>1. Told(c)
      BY OfClient
    <3>2. r.out # "ok"
      BY <1>1, <1>2, <1>5, NoneIs DEF Asking
    <3>3. QED
      BY <1>5, <1>8, <1>9, <2>7, <3>1, <3>2 DEF Told
  <2>22. Sends(c)'
    <3>1. r.out \notin Retriable
      BY <1>1, <1>2, <1>5, NoneIs DEF Asking
    <3>2. S!Job(c) = "send" => landed[c] = 0 /\ \A j \in Conn \ {k} : conn[j] = c => ~Armed(j)'
      BY <2>7, <2>17 DEF Clear
    <3>3. QED
      BY <1>5, <1>8, <1>9, <2>7, <3>1, <3>2 DEF Sends
  <2>23. Once(c)' /\ NoSend(c)'
    BY <1>5, <1>8, <2>6, ClientOthers
  <2>24. \A j \in Conn : Conveys(j)'
    BY <2>6, <2>8, <2>19, ClientOthers
  <2>25. QED
    BY <1>10, <2>6, <2>20, <2>21, <2>22, <2>23, <2>24, ClientOthers DEF SInv
<1>13. QED
  BY <1>11, <1>12

\* A client dials: its connection is one that nobody had.
LEMMA DialKeeps == ASSUME SInv, NEW c \in Client, NEW k \in Conn, S!Dial(c, k) PROVE SInv'
<1> DEFINE ask == IF S!Job(c) = "lane" THEN "lease-acquire" ELSE S!Job(c)
           r == [S!Idle EXCEPT !.pc = "hello", !.on = k, !.id = 1,
                   !.fenced = client[c].fenced, !.ask = ask]
           f == [t |-> "hello", id |-> 1, m |-> None]
<1>1. /\ client[c].pc = "idle" /\ S!Job(c) # None /\ conn[k] = None
      /\ client' = [client EXCEPT ![c] = r]
      /\ conn' = [conn EXCEPT ![k] = c] /\ up' = [up EXCEPT ![k] = <<f>>]
      /\ hub' = [hub EXCEPT ![k].pc = "hello"]
      /\ UNCHANGED <<cast, alive, down, claim, inbox, claimed, archive, landed>>
  BY DEF S!Dial, S!Free, S!Frame, S!pool
<1>2. /\ client[c] \in ClientRec /\ client \in [Client -> ClientRec] /\ up \in [Conn -> Seq(UpFrame)]
      /\ conn \in [Conn -> Client \cup {None}] /\ hub \in [Conn -> SessionRec] /\ hub[k] \in SessionRec
  BY OfClient DEF SInv, SessionTypes
<1>3. S!Job(c) \in S!Jobs
  BY <1>1, OfClient
<1>4. ask \in Asks(c) /\ ask \in S!Jobs \cup LaneAsks /\ (S!Job(c) = "lane" => ask = "lease-acquire")
  BY <1>3 DEF Asks, LaneAsks
<1> HIDE DEF ask
<1>5. r \in ClientRec
  BY <1>2, <1>4 DEF ClientRec, Active, S!Idle
<1>6. /\ r.pc = "hello" /\ r.on = k /\ r.id = 1 /\ r.shown = {} /\ r.ask = ask /\ r.out = None
  BY DEF S!Idle
<1>7. f \in UpFrame /\ f.t = "hello" /\ f.id = 1
  BY DEF UpFrame
<1> HIDE DEF r, f
<1>8. /\ hub[k] = S!Asleep /\ up[k] = <<>> /\ down[k] = <<>>
  BY <1>1, OfConn DEF Conveys, Unopened
<1>9. /\ hub' \in [Conn -> SessionRec] /\ \A j \in Conn \ {k} : hub'[j] = hub[j]
      /\ hub'[k].pc = "hello" /\ hub'[k].did = {} /\ hub'[k].last = 0
  <2>1. S!Asleep.did = {} /\ S!Asleep.last = 0
    BY DEF S!Asleep
  <2>2. hub[k].did = {} /\ hub[k].last = 0
    BY <1>8, <2>1
  <2>3. [hub[k] EXCEPT !.pc = "hello"] \in SessionRec
    BY <1>2 DEF SessionRec
  <2>4. /\ [hub[k] EXCEPT !.pc = "hello"].pc = "hello" /\ [hub[k] EXCEPT !.pc = "hello"].did = {}
        /\ [hub[k] EXCEPT !.pc = "hello"].last = 0
    BY <1>2, <2>2 DEF SessionRec
  <2>5. QED
    BY <1>1, <1>2, <2>3, <2>4
<1>10. /\ <<f>> \in Seq(UpFrame) /\ Len(<<f>>) = 1 /\ <<f>>[1] = f
  BY <1>7
<1>11. Frames(<<f>>) = {f}
  BY <1>10 DEF Frames
<1>12. /\ up' \in [Conn -> Seq(UpFrame)] /\ up'[k] = <<f>> /\ \A j \in Conn \ {k} : up'[j] = up[j]
       /\ conn' \in [Conn -> Client \cup {None}] /\ conn'[k] = c
       /\ \A j \in Conn \ {k} : conn'[j] = conn[j]
       /\ client' \in [Client -> ClientRec] /\ client'[c] = r
       /\ \A d \in Client \ {c} : client'[d] = client[d]
  <2>1. /\ up' \in [Conn -> Seq(UpFrame)] /\ up'[k] = <<f>>
        /\ \A j \in Conn \ {k} : up'[j] = up[j]
    BY <1>1, <1>2, <1>10
  <2>2. /\ conn' \in [Conn -> Client \cup {None}] /\ conn'[k] = c
        /\ \A j \in Conn \ {k} : conn'[j] = conn[j]
    BY <1>1, <1>2
  <2>3. /\ client' \in [Client -> ClientRec] /\ client'[c] = r
        /\ \A d \in Client \ {c} : client'[d] = client[d]
    BY <1>1, <1>2, <1>5
  <2>4. QED
    BY <2>1, <2>2, <2>3
<1>13. client[c].on = None
  BY <1>1, OfClient DEF Connected, Active
<1>14. ~Armed(k)' /\ ~Armed(k)
  BY <1>7, <1>8, <1>11, <1>12, EmptyFrames DEF Armed
<1>15. /\ \A j \in Conn \ {k} : /\ Channel(j)' <=> Channel(j)
                                /\ Beating(j)' <=> Beating(j)
                                /\ S!Gone(j)' <=> S!Gone(j)
                                /\ Armed(j)' <=> Armed(j)
       /\ \A d \in Client : S!Job(d)' = S!Job(d) /\ Asks(d)' = Asks(d)
  BY <1>1, <1>9, <1>12 DEF Channel, Beating, S!Gone, Armed, S!Job, Asks
<1>16. ASSUME NEW d \in Client
       PROVE  Clear(d) => Clear(d)'
  BY <1>1, <1>12, <1>14, <1>15 DEF Clear
<1>17. ASSUME NEW d \in Client \ {c}
       PROVE  (Connected(d) /\ Asking(d) /\ Once(d) /\ Told(d) /\ Sends(d) /\ NoSend(d))'
  <2>1. Connected(d) /\ Asking(d) /\ Once(d) /\ Told(d) /\ Sends(d) /\ NoSend(d)
    BY OfClient
  <2>2. client'[d] = client[d] /\ S!Job(d)' = S!Job(d) /\ Asks(d)' = Asks(d)
    BY <1>12, <1>15
  <2>3. client[d].on # None => client[d].on \in Conn \ {k} /\ conn[client[d].on] = d
    <3>1. client[d] \in ClientRec
      BY OfClient
    <3>2. client[d].on # None => client[d].on \in Conn
      BY <3>1 DEF ClientRec
    <3>3. QED
      BY <1>1, <2>1, <3>2, NoneIs DEF Connected
  <2>4. \A j \in Conn : conn'[j] = d <=> (j # k /\ conn[j] = d)
    BY <1>1, <1>12, NoneIs
  <2>5. Connected(d)'
    BY <1>12, <2>1, <2>2, <2>3 DEF Connected
  <2>6. Asking(d)'
    <3>1. client[d].pc \in {"request", "waiting"} => client[d].on \in Conn \ {k}
      BY <2>1, <2>3 DEF Connected, Active
    <3>2. QED
      BY <1>15, <2>1, <2>2, <3>1 DEF Asking
  <2>7. Once(d)'
    BY <2>1, <2>2, <2>4 DEF Once
  <2>8. Told(d)'
    BY <1>1, <1>9, <1>15, <2>1, <2>2, <2>4 DEF Told
  <2>9. Sends(d)'
    BY <1>1, <1>15, <1>16, <2>1, <2>2, <2>4 DEF Sends
  <2>10. NoSend(d)'
    BY <1>1, <2>1, <2>2 DEF NoSend
  <2>11. QED
    BY <2>5, <2>6, <2>7, <2>8, <2>9, <2>10
<1>18. Connected(c)' /\ Asking(c)' /\ NoSend(c)'
  <2>1. NoSend(c) /\ S!Job(c)' = S!Job(c) /\ Asks(c)' = Asks(c)
    BY <1>15, OfClient
  <2>2. "hello" \in Active /\ k # None
    BY NoneIs DEF Active
  <2>3. Connected(c)'
    BY <1>4, <1>6, <1>12, <2>1, <2>2 DEF Connected
  <2>4. Asking(c)'
    BY <1>4, <1>6, <1>12, <2>1 DEF Asking
  <2>5. NoSend(c)'
    BY <1>1, <2>1 DEF NoSend
  <2>6. QED
    BY <2>3, <2>4, <2>5
<1>19. Once(c)' /\ Told(c)' /\ Sends(c)'
  <2>1. Once(c) /\ Told(c) /\ Sends(c) /\ S!Job(c)' = S!Job(c)
    BY <1>15, OfClient
  <2>2. Once(c)'
    <3>1. S!Job(c) \in {"check", "ack"} => \A j \in Conn : conn'[j] = c => j = k
      BY <1>1, <1>12, <2>1 DEF Once
    <3>2. QED
      BY <1>6, <1>12, <2>1, <3>1 DEF Once
  <2>3. Told(c)'
    BY <1>6, <1>12, <2>1, NoneIs DEF Told
  <2>4. Sends(c)'
    <3>1. S!Job(c) = "send" => Clear(c) /\ Clear(c)'
      BY <1>1, <1>16, <2>1 DEF Sends
    <3>2. S!Job(c) = "send" => \A j \in Conn : conn'[j] = c => ~Armed(j)'
      BY <3>1 DEF Clear
    <3>3. landed' = landed
      BY <1>1
    <3>4. QED
      BY <2>1, <3>1, <3>2, <3>3 DEF Sends
  <2>5. QED
    BY <2>2, <2>3, <2>4
<1>20. ASSUME NEW j \in Conn, j # k
       PROVE  Conveys(j)'
  <2>1. Conveys(j) /\ conn[j] \in Client \cup {None} /\ conn'[j] = conn[j]
    BY <1>12, <1>20, OfConn
  <2>2. /\ up'[j] = up[j] /\ down' = down /\ hub'[j] = hub[j] /\ alive' = alive /\ inbox' = inbox
        /\ claimed' = claimed /\ archive' = archive
        /\ Channel(j)' <=> Channel(j)
        /\ Beating(j)' <=> Beating(j)
        /\ S!Gone(j)' <=> S!Gone(j)
    BY <1>1, <1>9, <1>12, <1>15, <1>20
  <2>3. CASE conn[j] = None
    BY <2>1, <2>2, <2>3 DEF Conveys, Unopened
  <2>4. CASE conn[j] = c
    <3>1. conn[j] # None
      BY <2>4, NoneIs
    <3>2. ~S!Uses(j)'
      BY <1>6, <1>12, <1>20, <2>1, <2>4 DEF S!Uses, S!On
    <3>3. S!Job(conn[j])' = S!Job(conn[j]) /\ Asks(conn[j])' = Asks(conn[j])
      BY <1>15, <2>1, <2>4
    <3>4. HubIs(j)' /\ OneSend(j)' /\ Streams(j)'
      BY <2>1, <2>2, <3>1, <3>2, <3>3 DEF Conveys, HubIs, OneSend, Streams
    <3>5. \A g \in Frames(up[j]) : (UpIs(j, g) /\ UpNow(j, g))'
      BY <2>1, <2>2, <3>1, <3>2, <3>3 DEF Conveys, UpIs, UpNow
    <3>6. \A g \in Frames(down[j]) : (DownIs(j, g) /\ DownNow(j, g))'
      BY <2>1, <2>2, <3>1, <3>2, <3>3 DEF Conveys, DownIs, DownNow
    <3>7. QED
      BY <2>1, <2>2, <3>1, <3>3, <3>4, <3>5, <3>6 DEF Conveys
  <2>5. CASE conn[j] \in Client \ {c}
    <3>1. conn[j] # None
      BY <2>5, NoneIs
    <3>2. S!Job(conn[j])' = S!Job(conn[j]) /\ Asks(conn[j])' = Asks(conn[j])
          /\ (Clear(conn[j]) => Clear(conn[j])') /\ client'[conn[j]] = client[conn[j]]
      BY <1>12, <1>15, <1>16, <2>1, <2>5
    <3>3. S!Uses(j)' <=> S!Uses(j)
      BY <2>1, <3>2 DEF S!Uses, S!On
    <3>4. HubIs(j)' /\ OneSend(j)'
      BY <2>1, <2>2, <3>1, <3>2, <3>3 DEF Conveys, HubIs, OneSend
    <3>5. \A g \in Frames(up[j]) : (UpIs(j, g) /\ UpNow(j, g))'
      BY <2>1, <2>2, <3>1, <3>2, <3>3 DEF Conveys, UpIs, UpNow
    <3>6. \A g \in Frames(down[j]) : (DownIs(j, g) /\ DownNow(j, g))'
      BY <2>1, <2>2, <3>1, <3>2, <3>3 DEF Conveys, DownIs, DownNow
    <3>7. S!Job(conn[j]) \in {"check", "ack"} => Streams(j)'
      BY <2>1, <2>2, <3>1, <3>2, <3>3 DEF Conveys, Streams
    <3>8. QED
      BY <2>1, <2>2, <3>1, <3>2, <3>4, <3>5, <3>6, <3>7 DEF Conveys
  <2>6. QED
    BY <2>1, <2>3, <2>4, <2>5
<1>21. Conveys(k)'
  <2>1. /\ client'[conn'[k]] = r /\ conn'[k] = c /\ c # None /\ S!Job(c)' = S!Job(c)
        /\ Asks(c)' = Asks(c)
    BY <1>12, <1>15, NoneIs
  <2>2. HubIs(k)'
    BY <1>9 DEF HubIs
  <2>3. OneSend(k)'
    BY <1>10, <1>12 DEF OneSend
  <2>4. ASSUME NEW g \in Frames(up'[k])
        PROVE  UpIs(k, g)' /\ UpNow(k, g)'
    <3>1. g.t = "hello" /\ g.id = 1
      BY <1>7, <1>11, <1>12, <2>4
    <3>2. "hello" \notin LaneAsks
      BY DEF LaneAsks
    <3>3. UpIs(k, g)'
      BY <3>1, <3>2 DEF UpIs
    <3>4. UpNow(k, g)'
      BY <1>6, <2>1, <3>1 DEF UpNow
    <3>5. QED
      BY <3>3, <3>4
  <2>5. Frames(down'[k]) = {}
    BY <1>1, <1>8, EmptyFrames
  <2>6. Streams(k)'
    BY <1>9 DEF Streams
  <2>7. QED
    BY <1>3, <1>9, <2>1, <2>2, <2>3, <2>4, <2>5, <2>6 DEF Conveys
<1>22. SessionTypes' /\ Pools'
  BY <1>1, <1>9, <1>12 DEF SInv, SessionTypes, Pools
<1>23. ClaimIs'
  <2>1. ClaimIs /\ claim' = claim /\ claim \in [by : Conn, fresh : BOOLEAN] \cup {None}
    BY <1>1 DEF SInv, SessionTypes
  <2>2. claim # None => claim.by # k
    <3>1. ~S!Gone(k) /\ hub[k].mode # "channel"
      <4>1. S!Asleep.pc = "none" /\ S!Asleep.mode = ""
        BY DEF S!Asleep
      <4>2. QED
        BY <1>8, <4>1 DEF S!Gone
    <3>2. QED
      BY <2>1, <3>1 DEF ClaimIs
  <2>3. QED
    BY <1>9, <2>1, <2>2 DEF ClaimIs, S!Gone
<1>24. QED
  BY <1>17, <1>18, <1>19, <1>20, <1>21, <1>22, <1>23 DEF SInv

-----------------------------------------------------------------------------
(* The sessions: the theorem *)

LEMMA SessionsStart == S!Init => SInv
<1> SUFFICES ASSUME S!Init PROVE SInv
  OBVIOUS
<1>1. /\ client = [c \in Client |-> S!Idle] /\ conn = [k \in Conn |-> None]
      /\ alive = [k \in Conn |-> TRUE]
      /\ up = [k \in Conn |-> <<>>] /\ down = [k \in Conn |-> <<>>]
      /\ hub = [k \in Conn |-> S!Asleep] /\ claim = None
      /\ inbox = Mail /\ claimed = {} /\ archive = {} /\ landed = [c \in Client |-> 0]
      /\ cast.job \in [Client -> S!Jobs \cup {None}]
  BY SessionAssumption DEF S!Init
<1>2. S!Idle \in ClientRec /\ S!Asleep \in SessionRec
  BY DEF S!Idle, ClientRec, S!Asleep, SessionRec
<1>3. /\ S!Idle.pc = "idle" /\ S!Idle.on = None /\ S!Idle.out = None /\ S!Idle.shown = {}
      /\ S!Asleep.pc = "none" /\ S!Asleep.did = {}
  BY DEF S!Idle, S!Asleep
<1>4. SessionTypes
  <2>1. <<>> \in Seq(UpFrame) /\ <<>> \in Seq(DownFrame)
    BY EmptySeq
  <2>2. QED
    BY <1>1, <1>2, <2>1 DEF SessionTypes
<1>5. Pools /\ ClaimIs
  BY <1>1 DEF Pools, ClaimIs
<1>6. ASSUME NEW k \in Conn
      PROVE  Conveys(k) /\ ~Armed(k)
  BY <1>1, <1>3, EmptyFrames DEF Conveys, Unopened, Armed
<1>7. ASSUME NEW c \in Client
      PROVE  Connected(c) /\ Asking(c) /\ Once(c) /\ Told(c) /\ Sends(c) /\ NoSend(c)
  <2>1. client[c].pc = "idle" /\ client[c].on = None /\ client[c].out = None /\ client[c].shown = {}
        /\ landed[c] = 0 /\ \A k \in Conn : conn[k] # c
    BY <1>1, <1>3, NoneIs
  <2>2. Connected(c) /\ Asking(c)
    BY <2>1 DEF Connected, Asking, Active
  <2>3. Once(c) /\ Told(c)
    BY <2>1, NoneIs DEF Once, Told
  <2>4. Sends(c) /\ NoSend(c)
    BY <2>1 DEF Sends, NoSend, Clear
  <2>5. QED
    BY <2>2, <2>3, <2>4
<1>8. QED
  BY <1>4, <1>5, <1>6, <1>7 DEF SInv

LEMMA SessionStepsKeep == SInv /\ [S!Next]_session => SInv'
<1> SUFFICES ASSUME SInv, [S!Next]_session PROVE SInv'
  OBVIOUS
<1>1. CASE \E c \in Client :
             \/ \E k \in Conn : S!Dial(c, k)
             \/ S!Unreachable(c) \/ S!WriteFirst(c) \/ S!Write(c) \/ S!Lost(c) \/ S!TimesOut(c)
             \/ S!HelloFails(c) \/ S!HelloOK(c) \/ S!Streamed(c) \/ S!Refused(c) \/ S!Answered(c)
             \/ S!LetGo(c) \/ S!SendAgain(c) \/ S!ClientKilled(c)
  BY <1>1, DialKeeps, UnreachableKeeps, WriteFirstKeeps, RequestKeeps, LostKeeps, HelloFailsKeeps,
     HelloOKKeeps, StreamedKeeps, RefusedKeeps, AnsweredKeeps, LetGoKeeps, SendAgainKeeps,
     ClientKilledKeeps
<1>2. CASE \E k \in Conn :
             \/ S!Hello(k) \/ S!HelloRefused(k) \/ S!Acquire(k) \/ S!Register(k) \/ S!Tick(k)
             \/ S!Release(k) \/ S!Send(k) \/ S!Query(k)
             \/ \E t \in {"check", "ack"} : S!Stream(k, t)
             \/ \E m \in Mail : S!ClaimOne(k, m) \/ S!AckOne(k, m)
             \/ S!Finish(k) \/ S!Break(k) \/ S!HangsUp(k) \/ S!Deadline(k) \/ S!Stopped(k)
             \/ S!HubKilled(k) \/ S!Cut(k)
  BY <1>2, HelloKeeps, HelloRefusedKeeps, AcquireKeeps, RegisterKeeps, TickKeeps, ReleaseKeeps,
     SendKeeps, QueryKeeps, StreamKeeps, ClaimOneKeeps, AckOneKeeps, FinishKeeps, BreakKeeps,
     StopsKeep, DeadlineKeeps, HubKilledKeeps, CutKeeps
<1>3. CASE S!ClaimAges \/ S!Invalidate \/ UNCHANGED session
  BY <1>3, ClaimAgesKeeps, InvalidateKeeps, SessionStays
<1>4. QED
  BY <1>1, <1>2, <1>3 DEF S!Next

LEMMA TalksOnly == [Moves(Next) \/ Keeps(K!Next) \/ Talks(S!Next)]_all => [S!Next]_session
BY DEF Moves, Keeps, Talks, all

\* What the invariant says of a hub that answers.
LEMMA SessionsType == SInv => S!TypeOK
<1> SUFFICES ASSUME SInv PROVE S!TypeOK
  OBVIOUS
<1>1. \A c \in Client : client[c].out \in S!Reports \cup {None} /\ client[c].shown \subseteq Mail
  BY OfClient DEF ClientRec
<1>2. ASSUME NEW k \in Conn
      PROVE  hub[k].last <= 2 \/ hub[k].mode = "channel"
  <2>1. S!Asleep.last = 0
    BY DEF S!Asleep
  <2>2. QED
    BY <2>1, OfConn DEF Conveys, Unopened, HubIs
<1>3. claim # None => claim.by \in Conn /\ (~S!Gone(claim.by) => hub[claim.by].mode = "channel")
  BY DEF SInv, SessionTypes, ClaimIs
<1>4. inbox \cap claimed = {} /\ claimed \cap archive = {}
  BY DEF SInv, Pools
<1>5. QED
  BY <1>1, <1>2, <1>3, <1>4 DEF S!TypeOK

LEMMA ReportsHold == SInv => ReportsTrue
<1> SUFFICES ASSUME SInv PROVE ReportsTrue
  OBVIOUS
<1>1. ASSUME NEW c \in Client
      PROVE  /\ landed[c] <= 1
             /\ client[c].out \in S!Refusals \cup {"lost", "connect", "hello-timeout"} => landed[c] = 0
  <2>1. Sends(c) /\ NoSend(c) /\ landed[c] \in Nat
    BY OfClient
  <2>2. CASE S!Job(c) = "send"
    BY <2>1, <2>2 DEF Sends, Clear, Retriable
  <2>3. CASE S!Job(c) # "send"
    BY <2>1, <2>3 DEF NoSend
  <2>4. QED
    BY <2>2, <2>3
<1>2. ASSUME NEW k \in Conn, conn[k] # None
      PROVE  LET c == conn[k] IN
             /\ S!Job(c) = "check" => client[c].shown \subseteq claimed \cup archive
             /\ S!Job(c) = "ack" => client[c].shown \subseteq archive
             /\ S!Job(c) \in {"check", "ack"} /\ client[c].out = "ok" =>
                  hub[k].did \subseteq client[c].shown
             /\ S!Job(c) = "check" /\ client[c].out = "ok" => inbox = {}
  <2>1. conn[k] \in Client
    BY <1>2, OfConn
  <2>2. Told(conn[k])
    BY <2>1, OfClient
  <2>3. QED
    BY <2>2 DEF Told
<1>3. \A c \in Client : client[c].out # "order"
  <2>1. "order" # None
    BY SessionAssumption DEF S!Reports, S!Refusals
  <2>2. QED
    BY <2>1, OfClient DEF ClientRec
<1>4. QED
  BY <1>1, <1>2, <1>3 DEF ReportsTrue, S!SendTrue, S!ResultTrue, S!InOrder

\* What a client says of its session is true, whichever connection dies when: a
\* reported failure of a send that reached the hub landed nothing and no body
\* lands twice (hubclient/session.go), a check or an ack that reports messages
\* names those the hub moved (hub_session.go), and no lane is refused for the
\* order of its verbs (op/channel.go). For every cast of clients and any number
\* of clients, connections, messages and faults.
THEOREM ReportsAreTrue == HubRuns => []ReportsTrue
<1> DEFINE step == Moves(Next) \/ Keeps(K!Next) \/ Talks(S!Next)
<1>1. HubInit => SInv
  BY SessionsStart DEF HubInit
<1>2. SInv /\ [step]_all => SInv'
  BY TalksOnly, SessionStepsKeep
<1> HIDE DEF step
<1>3. HubRuns => HubInit /\ [][step]_all
  BY DEF HubRuns, step
<1>4. QED
  BY <1>1, <1>2, <1>3, ReportsHold, PTL

-----------------------------------------------------------------------------
(* The three sides: types *)

LEMMA MoveTypesFit == MoveInv => TypeOK
<1> SUFFICES ASSUME MoveInv PROVE TypeOK
  OBVIOUS
<1>1. MoveTypes /\ Exclusive /\ Trees
  BY DEF MoveInv
<1>2. QED
  BY <1>1 DEF MoveTypes, Exclusive, Trees, TypeOK

LEMMA KeyTypesFit == KeyInv => K!TypeOK
<1> SUFFICES ASSUME KeyInv PROVE K!TypeOK
  OBVIOUS
<1>1. DiskTypes /\ AuthTypes /\ Files2
  BY DEF KeyInv
<1>2. \A v \in K!Version : pub[v] # 0 /\ priv[v] # 0 => pub[v] = priv[v]
  BY <1>1 DEF Files2
<1>3. QED
  BY <1>1, <1>2 DEF DiskTypes, AuthTypes, Agents, K!TypeOK

\* The disks, the keys and the sessions keep their types, of which: no lock is
\* shared while it is held alone, a frozen tree has a new one beside it
\* (hub_migrate.go), a public half is that of its private half (hub_keys.go), a
\* live claim is of a channel's session, and a message is in one directory of the
\* pool (hub_session.go).
THEOREM HubTypesHold == HubRuns => []HubTypeOK
<1> DEFINE step == Moves(Next) \/ Keeps(K!Next) \/ Talks(S!Next)
           inv == MoveInv /\ KeyInv /\ SInv
<1>1. HubInit => inv
  BY MoveStarts, KeysStart, SessionsStart DEF HubInit
<1>2. inv /\ [step]_all => inv'
  <2> SUFFICES ASSUME inv, [step]_all PROVE inv'
    OBVIOUS
  <2>1. MoveInv'
    BY MovesOnly, MoveStepsKeep
  <2>2. KeyInv'
    BY KeepsOnly, KeyStepsKeep
  <2>3. SInv'
    BY TalksOnly, SessionStepsKeep
  <2>4. QED
    BY <2>1, <2>2, <2>3
<1>3. inv => HubTypeOK
  BY MoveTypesFit, KeyTypesFit, SessionsType DEF HubTypeOK
<1> HIDE DEF step, inv
<1>4. HubRuns => HubInit /\ [][step]_all
  BY DEF HubRuns, step
<1>5. QED
  BY <1>1, <1>2, <1>3, <1>4, PTL
=============================================================================
