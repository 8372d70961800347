----------------------------- MODULE MailboxProofs -----------------------------
(***************************************************************************)
(* Theorems about Mailbox for every set of messages and commands: nothing  *)
(* accepted is lost, one message has one place, what is archived was shown *)
(* and stays, and the directories implement Delivery. An entry is open     *)
(* while its maker is inside the lock and may take it back; every step     *)
(* leaves the lasting entries alone, or moves one to a name that lasts.    *)
(***************************************************************************)
EXTENDS Mailbox, TLAPS

-----------------------------------------------------------------------------
(* The invariant *)

\* The steps of a move that run inside the recipient's lock.
Inside == {"link", "sync", "remove", "dedup", "syncsrc", "syncinbox", "syncdst"}

\* Whoever is inside a move holds the lock, and no other command does.
Locked == \A c \in Cmd : cmd[c].step \in Inside <=> lock = c

\* What a command may be doing: only new mail is claimed, only ack archives,
\* a move has a message, and only a claim is shown.
Legal(r) == /\ r.op = "claim" => r.stage = "fresh"
            /\ r.op = "archive" => r.stage = "acking"
            /\ r.step # "list" => r.msg \in Msg
            /\ r.step = "show" => r.op = "claim"
Lawful == \A c \in Cmd : Legal(cmd[c])

\* Both names stand until the source goes; the destination stands to the end.
Linked == \A c \in Cmd :
  /\ cmd[c].step \in Inside \ {"link"} => file[M(c)][Dst(c)] # 0
  /\ cmd[c].step \in {"sync", "remove", "dedup"} => file[M(c)][Src(c)] # 0

\* A sender inside the lock has linked its message.
Landing == \A m \in Msg : lock = m => file[m][Inbox] # 0

\* An entry whose maker is still inside the lock and may take it back.
Open(m, pl) == Tentative(m, pl) \/ (pl = Inbox /\ lock = m)
Lasts(m, pl) == file[m][pl] # 0 /\ ~Open(m, pl)
Lasting == {m \in Msg : \E pl \in Place : Lasts(m, pl)}

\* The places of settled mail, of which no name is used twice: one that is
\* free, or may be taken back, is not on the disk either.
Final == {pl \in Place : pl # Inbox /\ pl # Claimed}
FinalFresh == \A m \in Msg : \A pl \in Final :
                file[m][pl] = 0 \/ Open(m, pl) => disk[m][pl] = 0

Faultless == \A k \in DOMAIN faults : faults[k] = 0

\* Two places only between the link and the removal of the same move.
Single == Faultless =>
  \A m \in Msg : landed[m] = 1 =>
    \A x, y \in Place : file[m][x] # 0 /\ file[m][y] # 0 =>
      \/ x = y
      \/ \E c \in Cmd : /\ cmd[c].step \in {"sync", "remove"} /\ M(c) = m
                        /\ {x, y} = {Src(c), Dst(c)}

\* What is claimed was shown, or a check has it in its hands.
Shows(m) == \E c \in Cmd : At(c, "show") /\ M(c) = m
Claims(m) == \E c \in Cmd : cmd[c].step \in Inside /\ cmd[c].op = "claim" /\ M(c) = m
Seen == Faultless =>
  \A m \in Msg : /\ file[m][Claimed] # 0 => m \in shown \/ Shows(m) \/ Claims(m)
                 /\ (\E t \in Sec : file[m][Archive(t)] # 0) => m \in shown \/ Shows(m)

BaseInv == TypeOK /\ Locked /\ Lawful /\ Linked /\ Landing /\ FinalFresh /\ Single /\ Seen

\* What no maker can take back is on the disk, as far as power can be cut.
Firm == Cuts = 0 \/ \A m \in Msg, pl \in Place :
                      Lasts(m, pl) => disk[m][pl] = file[m][pl]
OnDisk == \A m \in Msg, pl \in Place : disk[m][pl] # 0 => m \in Lasting
Kept == /\ accepted \subseteq Lasting
        /\ \A c \in Cmd : At(c, "show") => M(c) \in Lasting

KeepInv == BaseInv /\ Firm /\ OnDisk /\ Kept

\* What was shown, or is about to be, has a name outside the inbox that is
\* not taken back (where nothing is ever taken back: any such name).
Held(m, pl) == /\ pl # Inbox /\ file[m][pl] # 0
               /\ (Errors = 0 /\ Cuts = 0) \/ ~Tentative(m, pl)
ShownKept == \A m \in Msg : m \in shown \/ Shows(m) => \E pl \in Place : Held(m, pl)
-----------------------------------------------------------------------------
(* The kinds of step *)

\* What a step does to the entries, and to the ones that may be taken back.
\* Nothing is moved: entries are at most made good, and directories synced.
Stays ==
  /\ file' = file
  /\ \A m \in Msg, pl \in Place :
       /\ Open(m, pl)' => Open(m, pl)
       /\ \/ disk'[m][pl] = disk[m][pl]
          \/ disk'[m][pl] = file[m][pl] /\ ~Open(m, pl)'
       /\ Kills = 0 /\ Open(m, pl) /\ ~Open(m, pl)' => disk'[m][pl] = file[m][pl]

\* Entry pl of m alone becomes i.
Writes(m, pl, i) ==
  /\ file' \in [Msg -> [Place -> Nat]] /\ disk' = disk
  /\ \A n \in Msg, x \in Place :
       file'[n][x] = IF n = m /\ x = pl THEN i ELSE file[n][x]

Adds(m, pl) ==
  /\ \E i \in Nat \ {0} : Writes(m, pl, i)
  /\ file[m][pl] = 0
  /\ \A n \in Msg, x \in Place : ~Open(n, x) /\ (Open(n, x)' <=> n = m /\ x = pl)

Undoes(m, pl) ==
  /\ Errors # 0 /\ Writes(m, pl, 0)
  /\ \A n \in Msg, x \in Place : (Open(n, x) <=> n = m /\ x = pl) /\ ~Open(n, x)'

Moves(m, src, dst) ==
  /\ Writes(m, src, 0)
  /\ src # dst /\ src \notin Final /\ dst # Inbox /\ file[m][dst] # 0
  /\ \A n \in Msg, x \in Place : ~Open(n, x) /\ ~Open(n, x)'

Cut == /\ Cuts > 0
       /\ disk' = file'
       /\ \A n \in Msg, x \in Place : /\ ~Open(n, x)'
                                      /\ file'[n][x] \in {0, file[n][x], disk[n][x]}
                                      /\ disk[n][x] = file[n][x] => file'[n][x] = file[n][x]
       /\ UNCHANGED <<accepted, shown>>
       /\ \A c \in Cmd : ~At(c, "show")'

Shape == \/ Stays
         \/ \E m \in Msg, pl \in Place : Adds(m, pl) \/ Undoes(m, pl)
         \/ \E m \in Msg : \E src, dst \in Place : Moves(m, src, dst)
         \/ Cut

-----------------------------------------------------------------------------
(* The kinds of step a command takes *)

\* The other commands stand still; c goes on to step s of the same move.
Rest(c) == \A d \in Cmd \ {c} : cmd'[d] = cmd[d]
Onward(c, s) == /\ Rest(c) /\ cmd'[c].step = s
                /\ cmd'[c].stage = cmd[c].stage /\ cmd'[c].op = cmd[c].op
                /\ cmd'[c].msg = cmd[c].msg /\ cmd'[c].at = cmd[c].at

\* Commands stay what they may be; what counts as a fault is counted.
Well == /\ cmd' \in [Cmd -> Command] /\ Lawful'
        /\ faults' = faults \/ (faults' \in [{"kill", "cut", "error"} -> Nat] /\ ~Faultless')

\* A listing, a take, a display, or the end of a command, outside the lock.
Outside(c) ==
  /\ cmd[c].step \notin Inside /\ Rest(c) /\ cmd'[c].step \in {"list", "want"}
  /\ UNCHANGED <<file, disk, landed, accepted, sec, lock>>
  /\ \/ shown' = shown /\ (Faultless' => cmd[c].step # "show")
     \/ \E m \in Msg : /\ shown' = shown \cup {m}
                       /\ \/ cmd[c].step = "show" /\ m = M(c)
                          \/ cmd[c].step = "list" /\ file[m][Claimed] # 0

Enters(c) ==
  /\ cmd[c].step = "want" /\ lock = Free /\ lock' = c /\ Onward(c, "link")
  /\ UNCHANGED <<file, disk, landed, accepted, sec, shown, faults>>

Links(c) ==
  /\ cmd[c].step = "link" /\ Onward(c, "sync")
  /\ file[M(c)][Src(c)] # 0 /\ file[M(c)][Dst(c)] = 0
  /\ Put(M(c), Dst(c), file[M(c)][Src(c)])
  /\ UNCHANGED <<disk, landed, accepted, sec, lock, shown, faults>>

\* A step of a move that changes no entry and keeps the lock.
Passes(c) ==
  /\ \/ /\ cmd[c].step = "link" /\ Onward(c, "dedup") /\ disk' = disk
        /\ file[M(c)][Src(c)] # 0 /\ file[M(c)][Dst(c)] # 0
     \/ cmd[c].step = "sync" /\ Onward(c, "remove") /\ SyncDir(Dst(c).dir)
     \/ cmd[c].step = "syncsrc" /\ Onward(c, "syncdst") /\ SyncDir(Src(c).dir)
  /\ UNCHANGED <<file, landed, accepted, sec, lock, shown, faults>>

\* The lock is given back, by the end of a move, its failure or a kill.
Leaves(c) ==
  /\ cmd[c].step \in Inside /\ lock' = Free
  /\ \/ Rest(c) /\ cmd'[c].step = "list"
     \/ /\ Onward(c, "show") /\ cmd[c].op = "claim" /\ cmd[c].step # "sync"
        /\ file[M(c)][Claimed] # 0
  /\ disk' = disk \/ (cmd[c].step # "sync" /\ \E d \in {Src(c).dir, Dst(c).dir} : SyncDir(d))
  /\ cmd[c].step = "sync" => Kills > 0
  /\ Faultless' => /\ cmd[c].step \notin {"sync", "remove"}
                   /\ cmd[c].op = "claim" /\ file[M(c)][Claimed] # 0 => Onward(c, "show")
  /\ UNCHANGED <<file, landed, accepted, sec, shown>>

TakesBack(c) ==
  /\ cmd[c].step = "sync" /\ Rest(c) /\ cmd'[c].step = "list"
  /\ Put(M(c), Dst(c), 0) /\ lock' = Free
  /\ Errors > 0 /\ ~Faultless'
  /\ UNCHANGED <<disk, landed, accepted, sec, shown>>

Removes(c) ==
  /\ cmd[c].step \in {"remove", "dedup"}
  /\ \E s \in {"syncinbox", "syncsrc"} : Onward(c, s)
  /\ Put(M(c), Src(c), 0)
  /\ UNCHANGED <<disk, landed, accepted, sec, lock, shown, faults>>

Walks(c) == Well /\ (\/ Outside(c) \/ Enters(c) \/ Links(c) \/ Passes(c)
                     \/ Leaves(c) \/ TakesBack(c) \/ Removes(c))


USE MsgAssumption, CmdAssumption, BoundAssumption

-----------------------------------------------------------------------------
(* Places *)

LEMMA Places ==
  /\ Inbox \in Place /\ Claimed \in Place /\ Inbox # Claimed
  /\ Inbox \notin Final /\ Claimed \notin Final
  /\ \A t \in Sec : Archive(t) \in Final /\ Malformed(t) \in Final
  /\ \A pl \in Final : \E t \in Sec : pl = Archive(t) \/ pl = Malformed(t)
  /\ \A pl \in Place : pl = Inbox \/ pl = Claimed \/ pl \in Final
<1>1. Inbox \in Place /\ Claimed \in Place /\ Inbox # Claimed
  BY DEF Place, Inbox, Claimed
<1>2. Inbox \notin Final /\ Claimed \notin Final
  BY DEF Final
<1>3. \A t \in Sec : Archive(t) \in Place /\ Malformed(t) \in Place
  BY DEF Place, Archive, Malformed
<1>4. \A t \in Sec : /\ Archive(t) # Inbox /\ Archive(t) # Claimed
                     /\ Malformed(t) # Inbox /\ Malformed(t) # Claimed
  BY DEF Archive, Malformed, Inbox, Claimed
<1>5. \A t \in Sec : Archive(t) \in Final /\ Malformed(t) \in Final
  BY <1>3, <1>4 DEF Final
<1>6. ASSUME NEW pl \in Final
      PROVE  \E t \in Sec : pl = Archive(t) \/ pl = Malformed(t)
  <2>1. pl \in Place /\ pl # Inbox /\ pl # Claimed
    BY DEF Final
  <2>2. CASE pl \in [dir : {"inbox", "claimed"}, sec : {0}]
    BY <2>1, <2>2 DEF Inbox, Claimed
  <2>3. CASE pl \in [dir : {"archive", "malformed"}, sec : Sec]
    BY <2>3 DEF Archive, Malformed
  <2>4. QED
    BY <2>1, <2>2, <2>3 DEF Place
<1>7. \A pl \in Place : pl = Inbox \/ pl = Claimed \/ pl \in Final
  BY DEF Final
<1>8. QED
  BY <1>1, <1>2, <1>5, <1>6, <1>7

\* A settled message has an entry in a final place.
LEMMA Finally ==
  ASSUME NEW m \in Msg
  PROVE  Settled(m) <=> \E pl \in Final : file[m][pl] # 0
BY Places DEF Settled

\* The two names of a move.
LEMMA Ends ==
  ASSUME TypeOK, NEW c \in Cmd, Legal(cmd[c])
  PROVE  /\ Src(c) \in Place /\ Src(c) \notin Final
         /\ Dst(c) \in Place /\ Dst(c) # Inbox /\ Dst(c) # Src(c)
         /\ cmd[c].op = "claim" => Src(c) = Inbox /\ Dst(c) = Claimed
         /\ cmd[c].op = "archive" => Src(c) = Claimed /\ Dst(c) = Archive(cmd[c].at)
         /\ cmd[c].op # "claim" => Dst(c) \in Final
<1>1. cmd[c].at \in Sec
  BY DEF TypeOK, Command
<1>2. Src(c) = Inbox \/ Src(c) = Claimed
  BY DEF Src
<1>3. cmd[c].op = "claim" => Src(c) = Inbox /\ Dst(c) = Claimed
  BY DEF Legal, Src, Dst
<1>4. cmd[c].op = "archive" => Src(c) = Claimed /\ Dst(c) = Archive(cmd[c].at)
  BY DEF Legal, Src, Dst
<1>5. cmd[c].op # "claim" => Dst(c) \in {Archive(cmd[c].at), Malformed(cmd[c].at)}
  BY DEF Dst
<1>6. cmd[c].op # "claim" => Dst(c) \in Final
  BY <1>1, <1>5, Places
<1>7. Final \subseteq Place
  BY DEF Final
<1>8. QED
  BY <1>2, <1>3, <1>4, <1>6, <1>7, Places

-----------------------------------------------------------------------------
(* What the steps do to the record of their command *)

LEMMA Faulting ==
  ASSUME TypeOK, NEW k \in {"kill", "cut", "error"}, NEW b \in Nat, Fault(k, b)
  PROVE  /\ faults' \in [{"kill", "cut", "error"} -> Nat] /\ ~Faultless'
         /\ b > 0
<1>1. faults \in [{"kill", "cut", "error"} -> Nat]
  BY DEF TypeOK
<1>2. faults' = [faults EXCEPT ![k] = @ + 1] /\ faults[k] < b
  BY DEF Fault
<1>3. faults'[k] # 0 /\ k \in DOMAIN faults'
  BY <1>1, <1>2
<1>4. QED
  BY <1>1, <1>2, <1>3 DEF Faultless

LEMMA Setting ==
  ASSUME TypeOK, Lawful, NEW c \in Cmd, NEW r \in Command, Legal(r), Set(c, r)
  PROVE  /\ cmd' \in [Cmd -> Command] /\ Lawful'
         /\ Rest(c) /\ cmd'[c] = r
<1>1. cmd' = [cmd EXCEPT ![c] = r] /\ cmd \in [Cmd -> Command]
  BY DEF Set, TypeOK
<1>2. cmd' \in [Cmd -> Command] /\ Rest(c) /\ cmd'[c] = r
  BY <1>1 DEF Rest
<1>3. \A d \in Cmd : Legal(cmd'[d])
  BY <1>2 DEF Lawful, Rest
<1>4. QED
  BY <1>2, <1>3 DEF Lawful

LEMMA Going ==
  ASSUME TypeOK, Lawful, NEW c \in Cmd, NEW s \in Steps, Go(c, s),
         s # "list" => cmd[c].msg \in Msg, s = "show" => cmd[c].op = "claim"
  PROVE  cmd' \in [Cmd -> Command] /\ Lawful' /\ Onward(c, s)
<1>1. cmd[c] \in Command /\ Legal(cmd[c])
  BY DEF TypeOK, Lawful
<1> DEFINE r == [cmd[c] EXCEPT !.step = s]
<1>2. /\ r \in Command /\ r.step = s /\ r.stage = cmd[c].stage /\ r.op = cmd[c].op
      /\ r.msg = cmd[c].msg /\ r.at = cmd[c].at
  BY <1>1 DEF Command
<1>3. Set(c, r)
  BY DEF Go
<1> HIDE DEF r
<1>4. Legal(r)
  BY <1>1, <1>2 DEF Legal
<1>5. QED
  BY <1>2, <1>3, <1>4, Setting DEF Onward

LEMMA Idling ==
  ASSUME TypeOK, Lawful, NEW c \in Cmd, Set(c, Idle)
  PROVE  cmd' \in [Cmd -> Command] /\ Lawful' /\ Rest(c) /\ cmd'[c].step = "list"
<1>1. Idle \in Command
  BY DEF Idle, Command, Stages, Steps, Sec
<1>2. Legal(Idle) /\ Idle.step = "list"
  BY DEF Legal, Idle
<1>3. QED
  BY <1>1, <1>2, Setting

LEMMA Taking ==
  ASSUME TypeOK, Lawful, NEW c \in Cmd, NEW m \in Msg,
         NEW op \in {"claim", "archive", "enforce", "quarantine"}, NEW b \in BOOLEAN,
         op = "claim" => cmd[c].stage = "fresh", op = "archive" => cmd[c].stage = "acking",
         Take(c, m, op, b)
  PROVE  cmd' \in [Cmd -> Command] /\ Lawful' /\ Rest(c) /\ cmd'[c].step = "want"
<1>1. cmd[c] \in Command
  BY DEF TypeOK
<1> DEFINE r == [cmd[c] EXCEPT !.step = "want", !.op = op, !.msg = m,
                               !.news = @ \ {m}, !.olds = @ \ {m}, !.batch = b]
<1>2. r \in Command
  BY <1>1 DEF Command, Steps
<1>3. r.step = "want" /\ r.op = op /\ r.msg = m /\ r.stage = cmd[c].stage
  BY <1>1 DEF Command
<1>4. Set(c, r)
  BY DEF Take
<1> HIDE DEF r
<1>5. Legal(r)
  BY <1>3 DEF Legal
<1>6. QED
  BY <1>2, <1>3, <1>4, <1>5, Setting

\* A listing goes on, or on to the next one.
LEMMA Relisting ==
  ASSUME TypeOK, Lawful, NEW c \in Cmd, NEW st \in Stages, NEW O \in SUBSET Msg,
         cmd[c].step = "list", st = cmd[c].stage \/ cmd[c].stage \in {"names", "residue"},
         Set(c, [cmd[c] EXCEPT !.stage = st, !.olds = O])
  PROVE  cmd' \in [Cmd -> Command] /\ Lawful' /\ Rest(c) /\ cmd'[c].step = "list"
<1>1. cmd[c] \in Command /\ Legal(cmd[c])
  BY DEF TypeOK, Lawful
<1> DEFINE r == [cmd[c] EXCEPT !.stage = st, !.olds = O]
<1>2. r \in Command /\ r.step = "list" /\ r.op = cmd[c].op /\ r.stage = st
  BY <1>1 DEF Command
<1>3. Set(c, r)
  OBVIOUS
<1> HIDE DEF r
<1>4. Legal(r)
  BY <1>1, <1>2 DEF Legal
<1>5. QED
  BY <1>2, <1>3, <1>4, Setting

-----------------------------------------------------------------------------
(* Each action is one of the kinds *)

LEMMA Quiet ==
  ASSUME NEW c \in Cmd, cmd' \in [Cmd -> Command], Lawful', Rest(c),
         cmd[c].step \notin Inside, cmd'[c].step \in {"list", "want"},
         UNCHANGED <<file, disk, landed, accepted, sec, lock, shown>>,
         \/ faults' = faults
         \/ faults' \in [{"kill", "cut", "error"} -> Nat] /\ ~Faultless',
         cmd[c].step = "show" => ~Faultless'
  PROVE  Walks(c)
BY DEF Walks, Well, Outside

LEMMA Starts ==
  ASSUME TypeOK, Lawful, NEW c \in Cmd, CheckStart(c) \/ AckStart(c)
  PROVE  Walks(c)
<1>1. cmd[c].step = "list"
  BY DEF CheckStart, AckStart, Listing
<1>2. sec \in Sec /\ Present(Inbox) \in SUBSET Msg /\ Present(Claimed) \in SUBSET Msg
  BY DEF TypeOK, Present
<1>3. ASSUME NEW r \in Command, r.step = "list", r.op = "none", Set(c, r),
             UNCHANGED <<file, disk, landed, accepted, sec, lock, shown, faults>>
      PROVE  Walks(c)
  <2>1. Legal(r)
    BY <1>3 DEF Legal
  <2>2. cmd' \in [Cmd -> Command] /\ Lawful' /\ Rest(c) /\ cmd'[c].step = "list"
    BY <1>3, <2>1, Setting
  <2>3. QED
    BY <1>1, <1>3, <2>2, Quiet DEF Inside
<1>4. CASE CheckStart(c)
  <2> DEFINE r == [Idle EXCEPT !.stage = "names", !.at = sec, !.news = Present(Inbox)]
  <2>1. r \in Command /\ r.step = "list" /\ r.op = "none"
    BY <1>2 DEF Idle, Command, Stages, Steps
  <2>2. Set(c, r) /\ UNCHANGED <<file, disk, landed, accepted, sec, lock, shown, faults>>
    BY <1>4 DEF CheckStart
  <2> HIDE DEF r
  <2>3. QED
    BY <1>3, <2>1, <2>2
<1>5. CASE AckStart(c)
  <2> DEFINE r == [Idle EXCEPT !.stage = "acking", !.at = sec, !.olds = Present(Claimed)]
  <2>1. r \in Command /\ r.step = "list" /\ r.op = "none"
    BY <1>2 DEF Idle, Command, Stages, Steps
  <2>2. Set(c, r) /\ UNCHANGED <<file, disk, landed, accepted, sec, lock, shown, faults>>
    BY <1>5 DEF AckStart
  <2> HIDE DEF r
  <2>3. QED
    BY <1>3, <2>1, <2>2
<1>6. QED
  BY <1>4, <1>5

LEMMA Relists ==
  ASSUME TypeOK, Lawful, NEW c \in Cmd, ListResidue(c) \/ ResidueDone(c)
  PROVE  Walks(c)
<1>1. cmd[c].step = "list" /\ cmd[c].stage \in {"names", "residue"} /\ faults' = faults
  BY DEF ListResidue, ResidueDone, Listing
<1>2. cmd[c] \in Command
  BY DEF TypeOK
<1>3. cmd[c].olds \in SUBSET Msg /\ Present(Claimed) \in SUBSET Msg
  BY <1>2 DEF Command, Present
<1>4. {"residue", "fresh"} \subseteq Stages
  BY DEF Stages
<1>5. CASE ListResidue(c)
  <2>1. Set(c, [cmd[c] EXCEPT !.stage = "residue", !.olds = Present(Claimed)])
    BY <1>5 DEF ListResidue
  <2>2. cmd' \in [Cmd -> Command] /\ Lawful' /\ Rest(c) /\ cmd'[c].step = "list"
    BY <1>1, <1>3, <1>4, <2>1, Relisting
  <2>3. QED
    BY <1>1, <1>5, <2>2, Quiet DEF ListResidue, Inside
<1>6. CASE ResidueDone(c)
  <2>1. [cmd[c] EXCEPT !.stage = "fresh"]
          = [cmd[c] EXCEPT !.stage = "fresh", !.olds = cmd[c].olds]
    BY <1>2 DEF Command
  <2>2. Set(c, [cmd[c] EXCEPT !.stage = "fresh", !.olds = cmd[c].olds])
    BY <1>6, <2>1 DEF ResidueDone
  <2>3. cmd' \in [Cmd -> Command] /\ Lawful' /\ Rest(c) /\ cmd'[c].step = "list"
    BY <1>1, <1>3, <1>4, <2>2, Relisting
  <2>4. QED
    BY <1>1, <1>6, <2>3, Quiet DEF ResidueDone, Inside
<1>7. QED
  BY <1>5, <1>6

LEMMA Stops ==
  ASSUME TypeOK, Lawful, NEW c \in Cmd,
         Stop(c) \/ AckDone(c) \/ Refused(c) \/ \E m \in Msg : ResidueUnreadable(c, m)
  PROVE  Walks(c)
<1>1. cmd[c].step \in {"list", "want"} /\ Set(c, Idle)
  BY DEF Stop, AckDone, Refused, ResidueUnreadable, Listing, At
<1>2. UNCHANGED <<file, disk, landed, accepted, sec, lock, shown>>
  BY DEF Stop, AckDone, Refused, ResidueUnreadable
<1>3. faults' = faults \/ Fault("error", Errors)
  BY DEF Stop, AckDone, Refused, ResidueUnreadable
<1>4. cmd' \in [Cmd -> Command] /\ Lawful' /\ Rest(c) /\ cmd'[c].step = "list"
  BY <1>1, Idling
<1>5. \/ faults' = faults
      \/ faults' \in [{"kill", "cut", "error"} -> Nat] /\ ~Faultless'
  BY <1>3, Faulting
<1>6. QED
  BY <1>1, <1>2, <1>4, <1>5, Quiet DEF Inside

LEMMA Takes ==
  ASSUME TypeOK, Lawful, NEW c \in Cmd, NEW m \in Msg,
         \/ TakeBadName(c, m) \/ ResidueTooBig(c, m) \/ TakeUnreadable(c, m)
         \/ TakeBadBody(c, m) \/ TakeNew(c, m) \/ TakeClaimed(c, m)
  PROVE  Walks(c)
<1>1. cmd[c].step = "list"
  BY DEF TakeBadName, ResidueTooBig, TakeUnreadable, TakeBadBody, TakeNew, TakeClaimed, Listing
<1>2. cmd[c].batch \in BOOLEAN
  <2>1. cmd[c] \in Command
    BY DEF TypeOK
  <2>2. QED
    BY <2>1 DEF Command
<1>3. faults' = faults \/ Fault("error", Errors)
  BY DEF TakeBadName, ResidueTooBig, TakeUnreadable, TakeBadBody, TakeNew, TakeClaimed
<1>4. PICK op \in {"claim", "archive", "enforce", "quarantine"}, b \in BOOLEAN :
        /\ Take(c, m, op, b)
        /\ op = "claim" => cmd[c].stage = "fresh"
        /\ op = "archive" => cmd[c].stage = "acking"
  BY <1>2 DEF TakeBadName, ResidueTooBig, TakeUnreadable, TakeBadBody, TakeNew, TakeClaimed,
              Listing
<1>5. cmd' \in [Cmd -> Command] /\ Lawful' /\ Rest(c) /\ cmd'[c].step = "want"
  BY <1>4, Taking
<1>6. UNCHANGED <<file, disk, landed, accepted, sec, lock, shown>>
  BY <1>4 DEF Take
<1>7. \/ faults' = faults
      \/ faults' \in [{"kill", "cut", "error"} -> Nat] /\ ~Faultless'
  BY <1>3, Faulting
<1>8. QED
  BY <1>1, <1>5, <1>6, <1>7, Quiet DEF Inside

LEMMA Displays ==
  ASSUME TypeOK, Lawful, NEW c \in Cmd, Show(c) \/ \E m \in Msg : Redeliver(c, m)
  PROVE  Walks(c)
<1>1. CASE Show(c)
  <2>1. cmd[c].step = "show" /\ Go(c, "list") /\ shown' = shown \cup {M(c)}
    BY <1>1 DEF Show, At
  <2>2. M(c) \in Msg
    BY <2>1 DEF Lawful, Legal, M
  <2>3. cmd' \in [Cmd -> Command] /\ Lawful' /\ Onward(c, "list")
    BY <2>1, <2>2, Going DEF M, Steps
  <2>4. QED
    BY <1>1, <2>1, <2>2, <2>3 DEF Show, Walks, Well, Outside, Onward, Inside
<1>2. ASSUME NEW m \in Msg, Redeliver(c, m)
      PROVE  Walks(c)
  <2>1. cmd[c].step = "list" /\ file[m][Claimed] # 0 /\ shown' = shown \cup {m}
    BY <1>2 DEF Redeliver, Listing
  <2>2. cmd[c] \in Command
    BY DEF TypeOK
  <2>3. cmd[c].stage \in Stages /\ cmd[c].olds \ {m} \in SUBSET Msg
    BY <2>2 DEF Command
  <2>4. [cmd[c] EXCEPT !.olds = @ \ {m}]
          = [cmd[c] EXCEPT !.stage = cmd[c].stage, !.olds = cmd[c].olds \ {m}]
    BY <2>2 DEF Command
  <2>5. Set(c, [cmd[c] EXCEPT !.stage = cmd[c].stage, !.olds = cmd[c].olds \ {m}])
    BY <1>2, <2>4 DEF Redeliver
  <2>6. cmd' \in [Cmd -> Command] /\ Lawful' /\ Rest(c) /\ cmd'[c].step = "list"
    <3> DEFINE O == cmd[c].olds \ {m}
    <3>1. O \in SUBSET Msg /\ Set(c, [cmd[c] EXCEPT !.stage = cmd[c].stage, !.olds = O])
      BY <2>3, <2>5
    <3> HIDE DEF O
    <3>2. QED
      BY <2>1, <2>3, <3>1, Relisting
  <2>7. QED
    BY <1>2, <2>1, <2>6 DEF Redeliver, Walks, Well, Outside, Inside
<1>3. QED
  BY <1>1, <1>2

-----------------------------------------------------------------------------
(* The steps of a move *)

LEMMA Ending ==
  ASSUME TypeOK, Lawful, NEW c \in Cmd, cmd[c].step \in Inside
  PROVE  /\ Moved(c) => /\ cmd' \in [Cmd -> Command] /\ Lawful' /\ lock' = Free
                        /\ IF cmd[c].op = "claim" THEN Onward(c, "show")
                                                  ELSE Onward(c, "list")
         /\ Failed(c) => /\ cmd' \in [Cmd -> Command] /\ Lawful' /\ lock' = Free
                         /\ Rest(c) /\ cmd'[c].step = "list"
<1>1. cmd[c].msg \in Msg
  BY DEF Lawful, Legal, Inside
<1>2. "show" \in Steps /\ "list" \in Steps
  BY DEF Steps
<1>3. ASSUME Moved(c)
      PROVE  /\ cmd' \in [Cmd -> Command] /\ Lawful' /\ lock' = Free
             /\ IF cmd[c].op = "claim" THEN Onward(c, "show") ELSE Onward(c, "list")
  <2>1. CASE cmd[c].op = "claim"
    <3>1. lock' = Free /\ Go(c, "show")
      BY <1>3, <2>1 DEF Moved
    <3>2. QED
      BY <1>1, <1>2, <2>1, <3>1, Going
  <2>2. CASE cmd[c].op # "claim"
    <3>1. lock' = Free /\ Go(c, "list")
      BY <1>3, <2>2 DEF Moved
    <3>2. QED
      BY <1>1, <1>2, <2>2, <3>1, Going
  <2>3. QED
    BY <2>1, <2>2
<1>4. ASSUME Failed(c)
      PROVE  /\ cmd' \in [Cmd -> Command] /\ Lawful' /\ lock' = Free
             /\ Rest(c) /\ cmd'[c].step = "list"
  <2>1. lock' = Free /\ (Go(c, "list") \/ Set(c, Idle))
    BY <1>4 DEF Failed
  <2>2. CASE Go(c, "list")
    <3>1. cmd' \in [Cmd -> Command] /\ Lawful' /\ Onward(c, "list")
      BY <1>1, <1>2, <2>2, Going
    <3>2. QED
      BY <2>1, <3>1 DEF Onward
  <2>3. CASE Set(c, Idle)
    BY <2>1, <2>3, Idling
  <2>4. QED
    BY <2>1, <2>2, <2>3
<1>5. QED
  BY <1>3, <1>4

\* The steps that stay in the lock.
LEMMA MovesOn ==
  ASSUME TypeOK, Lawful, NEW c \in Cmd,
         Lock(c) \/ Link(c) \/ Sync(c) \/ Remove(c)
  PROVE  Walks(c)
<1>1. cmd[c].step \in {"want", "link", "sync", "remove", "dedup"}
  BY DEF Lock, Link, Sync, Remove, At
<1>2. cmd[c].msg \in Msg
  BY <1>1 DEF Lawful, Legal
<1>3. ASSUME NEW s \in {"link", "sync", "remove", "syncinbox", "syncsrc"}, Go(c, s)
      PROVE  cmd' \in [Cmd -> Command] /\ Lawful' /\ Onward(c, s)
  <2>1. s \in Steps /\ s # "show"
    BY <1>3 DEF Steps
  <2>2. QED
    BY <1>2, <1>3, <2>1, Going
<1>4. CASE Lock(c)
  <2>1. Go(c, "link")
    BY <1>4 DEF Lock
  <2>2. cmd' \in [Cmd -> Command] /\ Lawful' /\ Onward(c, "link")
    BY <1>3, <2>1
  <2>3. Enters(c)
    BY <1>4, <2>2 DEF Lock, At, Enters
  <2>4. QED
    BY <1>4, <2>2, <2>3 DEF Lock, Walks, Well
<1>5. CASE Link(c)
  <2>1. Go(c, "sync")
    BY <1>5 DEF Link
  <2>2. cmd' \in [Cmd -> Command] /\ Lawful' /\ Onward(c, "sync")
    BY <1>3, <2>1
  <2>3. Links(c)
    BY <1>5, <2>2 DEF Link, At, Links
  <2>4. QED
    BY <1>5, <2>2, <2>3 DEF Link, Walks, Well
<1>6. CASE Sync(c)
  <2>1. Go(c, "remove")
    BY <1>6 DEF Sync
  <2>2. cmd' \in [Cmd -> Command] /\ Lawful' /\ Onward(c, "remove")
    BY <1>3, <2>1
  <2>3. Passes(c)
    BY <1>6, <2>2 DEF Sync, At, Passes
  <2>4. QED
    BY <1>6, <2>2, <2>3 DEF Sync, Walks, Well
<1>7. CASE Remove(c)
  <2>1. PICK s \in {"syncinbox", "syncsrc"} : Go(c, s)
    BY <1>7 DEF Remove
  <2>2. cmd' \in [Cmd -> Command] /\ Lawful' /\ Onward(c, s)
    BY <1>3, <2>1
  <2>3. Removes(c)
    BY <1>7, <2>2 DEF Remove, At, Removes
  <2>4. QED
    BY <1>7, <2>2, <2>3 DEF Remove, Walks, Well
<1>8. QED
  BY <1>4, <1>5, <1>6, <1>7

\* The two ends of the attempt to link.
LEMMA LinkEnds ==
  ASSUME TypeOK, Lawful, NEW c \in Cmd, LinkExists(c) \/ SourceGone(c)
  PROVE  Walks(c)
<1>1. cmd[c].step = "link" /\ cmd[c].step \in Inside
  BY DEF LinkExists, SourceGone, At, Inside
<1>2. UNCHANGED <<file, disk, landed, accepted, sec, shown, faults>>
  BY DEF LinkExists, SourceGone
<1>3. cmd[c].op = "claim" => Dst(c) = Claimed
  BY Ends DEF Lawful
<1>4. ASSUME Failed(c), cmd[c].op = "claim" => file[M(c)][Dst(c)] = 0
      PROVE  Walks(c)
  <2>1. cmd' \in [Cmd -> Command] /\ Lawful' /\ lock' = Free /\ Rest(c) /\ cmd'[c].step = "list"
    BY <1>1, <1>4, Ending
  <2>2. Leaves(c)
    BY <1>1, <1>2, <1>3, <1>4, <2>1 DEF Leaves
  <2>3. QED
    BY <1>2, <2>1, <2>2 DEF Walks, Well
<1>5. ASSUME Moved(c), file[M(c)][Dst(c)] # 0
      PROVE  Walks(c)
  <2>1. /\ cmd' \in [Cmd -> Command] /\ Lawful' /\ lock' = Free
        /\ IF cmd[c].op = "claim" THEN Onward(c, "show") ELSE Onward(c, "list")
    BY <1>1, <1>5, Ending
  <2>2. Leaves(c)
    BY <1>1, <1>2, <1>3, <1>5, <2>1 DEF Leaves, Onward
  <2>3. QED
    BY <1>2, <2>1, <2>2 DEF Walks, Well
<1>6. CASE LinkExists(c)
  <2>1. file[M(c)][Src(c)] # 0 /\ file[M(c)][Dst(c)] # 0
    BY <1>6 DEF LinkExists
  <2>2. CASE Go(c, "dedup") /\ UNCHANGED lock
    <3>1. cmd[c].msg \in Msg /\ "dedup" \in Steps
      BY <1>1 DEF Lawful, Legal, Steps
    <3>2. cmd' \in [Cmd -> Command] /\ Lawful' /\ Onward(c, "dedup")
      BY <2>2, <3>1, Going
    <3>3. Passes(c)
      BY <1>1, <1>2, <2>1, <2>2, <3>2 DEF Passes
    <3>4. QED
      BY <1>2, <3>2, <3>3 DEF Walks, Well
  <2>3. CASE Failed(c) /\ cmd[c].op # "claim"
    BY <1>4, <2>3
  <2>4. QED
    BY <1>6, <2>2, <2>3 DEF LinkExists
<1>7. CASE SourceGone(c)
  BY <1>4, <1>5, <1>7 DEF SourceGone
<1>8. QED
  BY <1>6, <1>7

\* The steps after the removal, and the end of the move.
LEMMA SyncsOut ==
  ASSUME TypeOK, Lawful, Linked, NEW c \in Cmd, SyncSrc(c) \/ SyncDst(c)
  PROVE  Walks(c)
<1>1. cmd[c].step \in {"syncsrc", "syncinbox", "syncdst"} /\ cmd[c].step \in Inside
  BY DEF SyncSrc, SyncDst, At, Inside
<1>2. UNCHANGED <<file, landed, accepted, sec, shown, faults>>
  BY DEF SyncSrc, SyncDst
<1>3. cmd[c].op = "claim" => Dst(c) = Claimed
  BY Ends DEF Lawful
<1>4. file[M(c)][Dst(c)] # 0
  BY <1>1 DEF Linked
<1>5. ASSUME Moved(c), NEW d \in {Src(c).dir, Dst(c).dir}, SyncDir(d)
      PROVE  Walks(c)
  <2>1. /\ cmd' \in [Cmd -> Command] /\ Lawful' /\ lock' = Free
        /\ IF cmd[c].op = "claim" THEN Onward(c, "show") ELSE Onward(c, "list")
    BY <1>1, <1>5, Ending
  <2>2. Leaves(c)
    BY <1>1, <1>2, <1>3, <1>4, <1>5, <2>1 DEF Leaves, Onward
  <2>3. QED
    BY <1>2, <2>1, <2>2 DEF Walks, Well
<1>6. CASE SyncDst(c)
  BY <1>5, <1>6 DEF SyncDst
<1>7. CASE SyncSrc(c)
  <2>1. CASE Moved(c)
    BY <1>5, <1>7, <2>1 DEF SyncSrc
  <2>2. CASE cmd[c].step = "syncsrc" /\ Go(c, "syncdst") /\ UNCHANGED lock
    <3>1. cmd[c].msg \in Msg /\ "syncdst" \in Steps
      BY <1>1 DEF Lawful, Legal, Steps
    <3>2. cmd' \in [Cmd -> Command] /\ Lawful' /\ Onward(c, "syncdst")
      BY <2>2, <3>1, Going
    <3>3. Passes(c)
      BY <1>2, <1>7, <2>2, <3>2 DEF Passes, SyncSrc
    <3>4. QED
      BY <1>2, <3>2, <3>3 DEF Walks, Well
  <2>3. QED
    BY <1>7, <2>1, <2>2 DEF SyncSrc, At
<1>8. QED
  BY <1>6, <1>7

\* A failed system call, and a kill.
LEMMA Breaks ==
  ASSUME TypeOK, Lawful, Locked, NEW c \in Cmd, SyncFails(c) \/ StepFails(c) \/ Kill(c)
  PROVE  Walks(c)
<1>1. Errors \in Nat /\ Kills \in Nat
  OBVIOUS
<1>2. CASE SyncFails(c)
  <2>1. /\ Errors > 0 /\ ~Faultless'
        /\ faults' \in [{"kill", "cut", "error"} -> Nat]
    BY <1>1, <1>2, Faulting DEF SyncFails
  <2>2. cmd[c].step = "sync" /\ cmd[c].step \in Inside /\ Failed(c)
    BY <1>2 DEF SyncFails, At, Inside
  <2>3. cmd' \in [Cmd -> Command] /\ Lawful' /\ lock' = Free /\ Rest(c) /\ cmd'[c].step = "list"
    BY <2>2, Ending
  <2>4. TakesBack(c)
    BY <1>2, <2>1, <2>2, <2>3 DEF SyncFails, TakesBack
  <2>5. QED
    BY <2>1, <2>3, <2>4 DEF Walks, Well
<1>3. CASE StepFails(c)
  <2>1. ~Faultless' /\ faults' \in [{"kill", "cut", "error"} -> Nat]
    BY <1>1, <1>3, Faulting DEF StepFails
  <2>2. cmd[c].step # "sync" /\ cmd[c].step \in Inside /\ Failed(c)
    BY <1>3 DEF StepFails, Inside
  <2>3. cmd' \in [Cmd -> Command] /\ Lawful' /\ lock' = Free /\ Rest(c) /\ cmd'[c].step = "list"
    BY <2>2, Ending
  <2>4. Leaves(c)
    BY <1>3, <2>1, <2>2, <2>3 DEF StepFails, Leaves
  <2>5. QED
    BY <2>1, <2>3, <2>4 DEF Walks, Well
<1>4. CASE Kill(c)
  <2>1. ~Faultless' /\ Kills > 0 /\ faults' \in [{"kill", "cut", "error"} -> Nat]
    BY <1>1, <1>4, Faulting DEF Kill
  <2>2. cmd' \in [Cmd -> Command] /\ Lawful' /\ Rest(c) /\ cmd'[c].step = "list"
    BY <1>4, Idling DEF Kill
  <2>3. CASE cmd[c].step \in Inside
    <3>1. lock' = Free
      BY <1>4, <2>3 DEF Kill, Locked
    <3>2. Leaves(c)
      BY <1>4, <2>1, <2>2, <2>3, <3>1 DEF Kill, Leaves
    <3>3. QED
      BY <2>1, <2>2, <3>2 DEF Walks, Well
  <2>4. CASE cmd[c].step \notin Inside
    <3>1. lock' = lock
      BY <1>4, <2>4 DEF Kill, Locked
    <3>2. Outside(c)
      BY <1>4, <2>1, <2>2, <2>4, <3>1 DEF Kill, Outside
    <3>3. QED
      BY <2>1, <2>2, <3>2 DEF Walks, Well
  <2>5. QED
    BY <2>3, <2>4
<1>5. QED
  BY <1>2, <1>3, <1>4

\* Every step is a command's, of one of the kinds, a sender's, or the
\* environment's.
LEMMA Cases ==
  ASSUME TypeOK, Locked, Lawful, Linked, Next
  PROVE  \/ \E c \in Cmd : Walks(c)
         \/ \E m \in Msg : SendStep(m)
         \/ PowerCut \/ Tick
<1>1. ASSUME NEW c \in Cmd, CheckStep(c) PROVE Walks(c)
  BY <1>1, Starts, Relists, Stops, Takes, Displays DEF CheckStep
<1>2. ASSUME NEW c \in Cmd, AckStep(c) PROVE Walks(c)
  BY <1>2, Starts, Stops, Takes DEF AckStep
<1>3. ASSUME NEW c \in Cmd, MoveStep(c) PROVE Walks(c)
  BY <1>3, MovesOn, LinkEnds, SyncsOut DEF MoveStep
<1>4. ASSUME NEW c \in Cmd, FaultStep(c) PROVE Walks(c)
  BY <1>4, Stops, Breaks DEF FaultStep
<1>5. QED
  BY <1>1, <1>2, <1>3, <1>4 DEF Next

-----------------------------------------------------------------------------
(* Types and the lock *)

LEMMA EntryTypes ==
  ASSUME TypeOK
  PROVE  /\ file \in [Msg -> [Place -> Nat]] /\ disk \in [Msg -> [Place -> Nat]]
         /\ \A n \in Msg : /\ landed[n] \in Nat /\ landed[n] <= MaxLand[n] /\ MaxLand[n] \in Nat
                           /\ file[n] \in [Place -> Nat] /\ disk[n] \in [Place -> Nat]
         /\ \A n \in Msg, x \in Place :
              /\ file[n][x] \in Nat /\ disk[n][x] \in Nat
              /\ file[n][x] <= landed[n] /\ disk[n][x] <= landed[n]
<1>1. file \in [Msg -> [Place -> Nat]] /\ disk \in [Msg -> [Place -> Nat]]
  BY DEF TypeOK
<1>2. ASSUME NEW n \in Msg
      PROVE  /\ landed[n] \in Nat /\ landed[n] <= MaxLand[n] /\ MaxLand[n] \in Nat
             /\ file[n] \in [Place -> Nat] /\ disk[n] \in [Place -> Nat]
  <2>1. landed \in [Msg -> Nat] /\ MaxLand \in [Msg -> Nat \ {0}]
    BY BoundAssumption DEF TypeOK
  <2>2. landed[n] \in 0..MaxLand[n]
    BY DEF TypeOK
  <2>3. QED
    BY <1>1, <2>1, <2>2
<1>3. ASSUME NEW n \in Msg, NEW x \in Place
      PROVE  /\ file[n][x] \in Nat /\ disk[n][x] \in Nat
             /\ file[n][x] <= landed[n] /\ disk[n][x] <= landed[n]
  <2>1. {file[n][x], disk[n][x]} \subseteq 0..landed[n]
    BY DEF TypeOK
  <2>2. QED
    BY <1>2, <2>1
<1>4. QED
  BY <1>1, <1>2, <1>3

LEMMA Putting ==
  ASSUME TypeOK, NEW m \in Msg, NEW pl \in Place, NEW i \in Nat, Put(m, pl, i), disk' = disk
  PROVE  Writes(m, pl, i)
<1>1. file \in [Msg -> [Place -> Nat]] /\ file[m] \in [Place -> Nat]
  BY DEF TypeOK
<1>2. file' = [file EXCEPT ![m] = [file[m] EXCEPT ![pl] = i]]
  BY DEF Put
<1>3. [file[m] EXCEPT ![pl] = i] \in [Place -> Nat]
  BY <1>1
<1>4. file' \in [Msg -> [Place -> Nat]]
  BY <1>1, <1>2, <1>3
<1>5. \A n \in Msg, x \in Place :
        file'[n][x] = IF n = m /\ x = pl THEN i ELSE file[n][x]
  BY <1>1, <1>2
<1>6. QED
  BY <1>4, <1>5 DEF Writes

LEMMA Syncing ==
  ASSUME TypeOK, NEW d, SyncDir(d)
  PROVE  /\ disk' \in [Msg -> [Place -> Nat]]
         /\ \A n \in Msg, x \in Place :
              disk'[n][x] = IF x.dir = d THEN file[n][x] ELSE disk[n][x]
<1>1. \A n \in Msg, x \in Place : file[n][x] \in Nat /\ disk[n][x] \in Nat
  BY EntryTypes
<1>2. QED
  BY <1>1 DEF SyncDir

\* The entries after a command's step.
LEMMA Entries ==
  ASSUME TypeOK, Lawful, NEW c \in Cmd, Walks(c)
  PROVE  /\ file' \in [Msg -> [Place -> Nat]] /\ disk' \in [Msg -> [Place -> Nat]]
         /\ \A n \in Msg, x \in Place : file'[n][x] \in 0..landed[n] /\ disk'[n][x] \in 0..landed[n]
<1>1. /\ file \in [Msg -> [Place -> Nat]] /\ disk \in [Msg -> [Place -> Nat]]
      /\ \A n \in Msg, x \in Place : file[n][x] \in 0..landed[n] /\ disk[n][x] \in 0..landed[n]
      /\ \A n \in Msg : landed[n] \in Nat
  BY EntryTypes
<1>2. ASSUME file' = file, disk' = disk \/ \E d : SyncDir(d)
      PROVE  /\ file' \in [Msg -> [Place -> Nat]] /\ disk' \in [Msg -> [Place -> Nat]]
             /\ \A n \in Msg, x \in Place : file'[n][x] \in 0..landed[n] /\ disk'[n][x] \in 0..landed[n]
  BY <1>1, <1>2, Syncing
<1>3. ASSUME NEW m \in Msg, NEW pl \in Place, NEW i \in 0..landed[m], Writes(m, pl, i)
      PROVE  /\ file' \in [Msg -> [Place -> Nat]] /\ disk' \in [Msg -> [Place -> Nat]]
             /\ \A n \in Msg, x \in Place : file'[n][x] \in 0..landed[n] /\ disk'[n][x] \in 0..landed[n]
  BY <1>1, <1>3 DEF Writes
<1>4. Src(c) \in Place /\ Dst(c) \in Place
  BY Ends DEF Lawful
<1>5. cmd[c].step # "list" => M(c) \in Msg
  BY DEF Lawful, Legal, M
<1>6. CASE Outside(c) \/ Enters(c) \/ Passes(c) \/ Leaves(c)
  <2>1. file' = file /\ (disk' = disk \/ \E d : SyncDir(d))
    BY <1>6 DEF Outside, Enters, Passes, Leaves
  <2>2. QED
    BY <1>2, <2>1
<1>7. CASE Links(c)
  <2>1. M(c) \in Msg /\ Put(M(c), Dst(c), file[M(c)][Src(c)]) /\ disk' = disk
    BY <1>5, <1>7 DEF Links
  <2>2. file[M(c)][Src(c)] \in 0..landed[M(c)] /\ file[M(c)][Src(c)] \in Nat
    <3>1. M(c) \in Msg
      BY <2>1
    <3>2. file[M(c)][Src(c)] \in 0..landed[M(c)]
      BY <1>1, <1>4, <3>1, Zenon
    <3>3. landed[M(c)] \in Nat
      BY <1>1, <3>1
    <3>4. QED
      BY <3>2, <3>3
  <2>3. QED
    BY <1>3, <1>4, <2>1, <2>2, Putting
<1>8. CASE TakesBack(c)
  <2>1. M(c) \in Msg /\ Put(M(c), Dst(c), 0) /\ disk' = disk
    BY <1>5, <1>8 DEF TakesBack
  <2>2. 0 \in 0..landed[M(c)] /\ 0 \in Nat
    <3>1. landed[M(c)] \in Nat
      BY <1>1, <2>1, Zenon
    <3>2. QED
      BY <3>1
  <2>3. Writes(M(c), Dst(c), 0)
    BY <1>4, <2>1, <2>2, Putting
  <2>4. QED
    BY <1>3, <1>4, <2>1, <2>2, <2>3
<1>9. CASE Removes(c)
  <2>1. M(c) \in Msg /\ Put(M(c), Src(c), 0) /\ disk' = disk
    BY <1>5, <1>9 DEF Removes
  <2>2. 0 \in 0..landed[M(c)] /\ 0 \in Nat
    <3>1. landed[M(c)] \in Nat
      BY <1>1, <2>1, Zenon
    <3>2. QED
      BY <3>1
  <2>3. Writes(M(c), Src(c), 0)
    BY <1>4, <2>1, <2>2, Putting
  <2>4. QED
    BY <1>3, <1>4, <2>1, <2>2, <2>3
<1>10. QED
  BY <1>6, <1>7, <1>8, <1>9 DEF Walks

\* A sender's step concerns its own message, in the inbox.
LEMMA Senders ==
  ASSUME TypeOK, NEW m \in Msg, SendStep(m)
  PROVE  /\ UNCHANGED <<sec, cmd, shown>> /\ accepted' \in SUBSET Msg
         /\ \/ SendLink(m) /\ Writes(m, Inbox, landed[m] + 1) /\ faults' = faults
            \/ SendSync(m) /\ file' = file /\ faults' = faults
            \/ SendSyncFails(m) /\ Writes(m, Inbox, 0) /\ ~Faultless'
            \/ SenderKilled(m) /\ file' = file /\ disk' = disk /\ ~Faultless' /\ Kills > 0
         /\ faults' \in [{"kill", "cut", "error"} -> Nat]
<1>1. Inbox \in Place /\ landed[m] + 1 \in Nat /\ accepted \in SUBSET Msg
  <2>1. landed[m] \in Nat
    BY EntryTypes
  <2>2. accepted \in SUBSET Msg
    BY DEF TypeOK
  <2>3. QED
    BY <2>1, <2>2, Places
<1>2. faults \in [{"kill", "cut", "error"} -> Nat] /\ Errors \in Nat /\ Kills \in Nat
  BY DEF TypeOK
<1>3. CASE SendLink(m)
  BY <1>1, <1>2, <1>3, Putting DEF SendLink
<1>4. CASE SendSync(m)
  BY <1>1, <1>2, <1>4 DEF SendSync
<1>5. CASE SendSyncFails(m)
  BY <1>1, <1>2, <1>5, Putting, Faulting DEF SendSyncFails
<1>6. CASE SenderKilled(m)
  BY <1>1, <1>2, <1>6, Faulting DEF SenderKilled
<1>7. QED
  BY <1>3, <1>4, <1>5, <1>6 DEF SendStep

\* What a power cut leaves of each entry, and that nobody survives it.
LEMMA Cutting ==
  ASSUME TypeOK, PowerCut
  PROVE  /\ disk' = file' /\ file' \in [Msg -> [Place -> Nat]]
         /\ \A n \in Msg, x \in Place :
              /\ file'[n][x] \in {0, file[n][x], disk[n][x]}
              /\ file[n][x] = disk[n][x] => file'[n][x] = file[n][x]
         /\ cmd' \in [Cmd -> Command] /\ \A c \in Cmd : cmd'[c] = Idle
         /\ lock' = Free /\ Cuts > 0 /\ ~Faultless'
         /\ faults' \in [{"kill", "cut", "error"} -> Nat]
         /\ UNCHANGED <<landed, accepted, sec, shown>>
<1>1. /\ file \in [Msg -> [Place -> Nat]] /\ disk \in [Msg -> [Place -> Nat]]
      /\ \A n \in Msg, x \in Place : file[n][x] \in Nat /\ disk[n][x] \in Nat
  BY EntryTypes
<1>2. PICK old \in SUBSET Unsynced : \E gone \in SUBSET old :
        file' = [n \in Msg |-> [x \in Place |->
                  CASE <<n, x>> \in gone -> 0
                    [] <<n, x>> \in old \ gone -> disk[n][x]
                    [] OTHER -> file[n][x]]]
  BY DEF PowerCut
<1>3. PICK gone \in SUBSET old :
        file' = [n \in Msg |-> [x \in Place |->
                  CASE <<n, x>> \in gone -> 0
                    [] <<n, x>> \in old \ gone -> disk[n][x]
                    [] OTHER -> file[n][x]]]
  BY <1>2
<1>4. \A n \in Msg, x \in Place :
        /\ file'[n][x] \in {0, file[n][x], disk[n][x]}
        /\ file[n][x] = disk[n][x] => file'[n][x] = file[n][x]
  <2> SUFFICES ASSUME NEW n \in Msg, NEW x \in Place
               PROVE  /\ file'[n][x] \in {0, file[n][x], disk[n][x]}
                      /\ file[n][x] = disk[n][x] => file'[n][x] = file[n][x]
    OBVIOUS
  <2>1. file'[n][x] = CASE <<n, x>> \in gone -> 0
                        [] <<n, x>> \in old \ gone -> disk[n][x]
                        [] OTHER -> file[n][x]
    BY <1>3
  <2>2. file[n][x] = disk[n][x] => <<n, x>> \notin old /\ <<n, x>> \notin gone
    BY <1>3 DEF Unsynced
  <2>3. CASE <<n, x>> \in gone
    BY <2>1, <2>2, <2>3
  <2>4. CASE <<n, x>> \in old \ gone
    BY <2>1, <2>2, <2>4
  <2>5. CASE <<n, x>> \notin old
    BY <1>3, <2>1, <2>5
  <2>6. QED
    BY <2>3, <2>4, <2>5
<1>5. file' \in [Msg -> [Place -> Nat]]
  <2>1. \A n \in Msg, x \in Place : file'[n][x] \in Nat
    BY <1>1, <1>4
  <2>2. DOMAIN file' = Msg /\ \A n \in Msg : DOMAIN file'[n] = Place
    BY <1>3
  <2>3. file' = [n \in Msg |-> [x \in Place |-> file'[n][x]]]
    BY <1>3
  <2>4. QED
    BY <2>1, <2>3
<1>6. Idle \in Command
  BY DEF Idle, Command, Stages, Steps, Sec
<1>7. cmd' \in [Cmd -> Command] /\ \A c \in Cmd : cmd'[c] = Idle
  BY <1>6 DEF PowerCut
<1>8. Cuts > 0 /\ ~Faultless' /\ faults' \in [{"kill", "cut", "error"} -> Nat]
  BY Faulting DEF PowerCut
<1>9. QED
  BY <1>4, <1>5, <1>7, <1>8 DEF PowerCut

-----------------------------------------------------------------------------
(* Types, the lock and the two names of a move are kept *)

LEMMA SameEnds ==
  ASSUME NEW c \in Cmd, NEW s, Onward(c, s)
  PROVE  \A d \in Cmd : M(d)' = M(d) /\ Src(d)' = Src(d) /\ Dst(d)' = Dst(d)
<1>1. \A d \in Cmd : /\ cmd'[d].stage = cmd[d].stage /\ cmd'[d].op = cmd[d].op
                     /\ cmd'[d].msg = cmd[d].msg /\ cmd'[d].at = cmd[d].at
  BY DEF Onward, Rest
<1>2. QED
  BY <1>1 DEF M, Src, Dst

LEMMA SameOthers ==
  ASSUME NEW c \in Cmd, Rest(c)
  PROVE  \A d \in Cmd \ {c} : M(d)' = M(d) /\ Src(d)' = Src(d) /\ Dst(d)' = Dst(d)
BY DEF Rest, M, Src, Dst

\* One command at most is inside, and none while a sender has the lock.
LEMMA OneInside ==
  ASSUME Locked, NEW c \in Cmd, cmd[c].step \in Inside
  PROVE  lock = c /\ \A d \in Cmd \ {c} : cmd[d].step \notin Inside
BY DEF Locked

LEMMA NoneInside ==
  ASSUME Locked, lock \in Msg \cup {Free}
  PROVE  \A d \in Cmd : cmd[d].step \notin Inside
BY DEF Locked

LEMMA Retyped ==
  ASSUME file' \in [Msg -> [Place -> Nat]], disk' \in [Msg -> [Place -> Nat]],
         landed' \in [Msg -> Nat],
         \A n \in Msg, x \in Place : file'[n][x] \in 0..landed'[n] /\ disk'[n][x] \in 0..landed'[n],
         \A n \in Msg : landed'[n] <= MaxLand[n],
         accepted' \subseteq Msg, shown' \subseteq Msg, sec' \in Sec,
         lock' \in Cmd \cup Msg \cup {Free}, cmd' \in [Cmd -> Command],
         faults' \in [{"kill", "cut", "error"} -> Nat]
  PROVE  TypeOK'
<1>1. \A n \in Msg : /\ landed'[n] \in 0..MaxLand[n]
                     /\ \A x \in Place : {file'[n][x], disk'[n][x]} \subseteq 0..landed'[n]
  OBVIOUS
<1>2. QED
  BY <1>1 DEF TypeOK

LEMMA TypeStep ==
  ASSUME TypeOK, Locked, Lawful, Linked, Next
  PROVE  TypeOK'
<1>1. /\ accepted \subseteq Msg /\ shown \subseteq Msg /\ sec \in Sec
      /\ lock \in Cmd \cup Msg \cup {Free} /\ landed \in [Msg -> Nat]
      /\ cmd \in [Cmd -> Command]
      /\ faults \in [{"kill", "cut", "error"} -> Nat]
  BY DEF TypeOK
<1>2. /\ file \in [Msg -> [Place -> Nat]] /\ disk \in [Msg -> [Place -> Nat]]
      /\ \A n \in Msg, x \in Place : file[n][x] \in 0..landed[n] /\ disk[n][x] \in 0..landed[n]
      /\ \A n \in Msg : landed[n] <= MaxLand[n]
  BY EntryTypes
<1>3. ASSUME NEW c \in Cmd, Walks(c) PROVE TypeOK'
  <2>1. UNCHANGED <<landed, accepted, sec>> /\ lock' \in {lock, c, Free} /\ shown' \subseteq Msg
    BY <1>1, <1>3 DEF Walks, Outside, Enters, Links, Passes, Leaves, TakesBack, Removes
  <2>2. cmd' \in [Cmd -> Command] /\ faults' \in [{"kill", "cut", "error"} -> Nat]
    BY <1>1, <1>3 DEF Walks, Well
  <2>3. /\ file' \in [Msg -> [Place -> Nat]] /\ disk' \in [Msg -> [Place -> Nat]]
        /\ \A n \in Msg, x \in Place : file'[n][x] \in 0..landed[n] /\ disk'[n][x] \in 0..landed[n]
    BY <1>3, Entries
  <2>4. QED
    BY <1>1, <1>2, <2>1, <2>2, <2>3, Retyped
<1>4. ASSUME NEW m \in Msg, SendStep(m) PROVE TypeOK'
  <2>1. /\ UNCHANGED <<sec, cmd, shown>> /\ accepted' \in SUBSET Msg
        /\ faults' \in [{"kill", "cut", "error"} -> Nat]
    BY <1>4, Senders
  <2>2. lock' \in {m, Free}
    BY <1>4 DEF SendStep, SendLink, SendSync, SendSyncFails, SenderKilled
  <2>3. CASE SendLink(m) /\ Writes(m, Inbox, landed[m] + 1)
    <3>1. /\ landed' \in [Msg -> Nat] /\ landed'[m] = landed[m] + 1 /\ landed[m] < MaxLand[m]
          /\ \A n \in Msg \ {m} : landed'[n] = landed[n]
      <4>1. landed' = [landed EXCEPT ![m] = landed[m] + 1] /\ landed[m] < MaxLand[m]
        BY <2>3 DEF SendLink
      <4>2. landed[m] + 1 \in Nat
        BY <1>1
      <4>3. QED
        BY <1>1, <4>1, <4>2
    <3>2. landed[m] \in Nat /\ MaxLand[m] \in Nat /\ \A n \in Msg : landed'[n] <= MaxLand[n]
      BY <1>1, <1>2, <3>1
    <3>3. /\ file' \in [Msg -> [Place -> Nat]] /\ disk' \in [Msg -> [Place -> Nat]]
          /\ \A n \in Msg, x \in Place : file'[n][x] \in 0..landed'[n] /\ disk'[n][x] \in 0..landed'[n]
      BY <1>1, <1>2, <2>3, <3>1 DEF Writes
    <3>4. QED
      BY <1>1, <2>1, <2>2, <3>1, <3>2, <3>3, Retyped
  <2>4. CASE SendSync(m)
    <3>1. landed' = landed /\ file' = file /\ SyncDir("inbox")
      BY <2>4 DEF SendSync
    <3>2. /\ disk' \in [Msg -> [Place -> Nat]]
          /\ \A n \in Msg, x \in Place : disk'[n][x] \in 0..landed[n]
      BY <1>2, <3>1, Syncing
    <3>3. QED
      BY <1>1, <1>2, <2>1, <2>2, <3>1, <3>2, Retyped
  <2>5. CASE SendSyncFails(m) /\ Writes(m, Inbox, 0)
    <3>1. landed' = landed
      BY <2>5 DEF SendSyncFails
    <3>2. /\ file' \in [Msg -> [Place -> Nat]] /\ disk' \in [Msg -> [Place -> Nat]]
          /\ \A n \in Msg, x \in Place : file'[n][x] \in 0..landed[n] /\ disk'[n][x] \in 0..landed[n]
      BY <1>1, <1>2, <2>5 DEF Writes
    <3>3. QED
      BY <1>1, <1>2, <2>1, <2>2, <3>1, <3>2, Retyped
  <2>6. CASE SenderKilled(m)
    BY <1>1, <1>2, <2>1, <2>2, <2>6, Retyped DEF SenderKilled
  <2>7. QED
    BY <1>4, <2>3, <2>4, <2>5, <2>6, Senders
<1>5. CASE PowerCut
  <2>1. /\ disk' = file' /\ file' \in [Msg -> [Place -> Nat]]
        /\ \A n \in Msg, x \in Place : file'[n][x] \in {0, file[n][x], disk[n][x]}
        /\ cmd' \in [Cmd -> Command]
        /\ lock' = Free /\ faults' \in [{"kill", "cut", "error"} -> Nat]
        /\ UNCHANGED <<landed, accepted, sec, shown>>
    BY <1>5, Cutting
  <2>2. \A n \in Msg, x \in Place : file'[n][x] \in 0..landed'[n] /\ disk'[n][x] \in 0..landed'[n]
    BY <1>1, <1>2, <2>1
  <2>3. QED
    BY <1>1, <1>2, <2>1, <2>2, Retyped
<1>6. CASE Tick
  <2>1. sec' \in Sec
    BY <1>1, <1>6 DEF Tick, Sec
  <2>2. UNCHANGED <<file, disk, landed, accepted, lock, cmd, shown, faults>>
    BY <1>6 DEF Tick
  <2>3. QED
    BY <1>1, <1>2, <2>1, <2>2, Retyped
<1>7. QED
  BY <1>3, <1>4, <1>5, <1>6, Cases

\* Idle commands, and commands that stand still, are what they may be.
LEMMA LawfulStep ==
  ASSUME TypeOK, Locked, Lawful, Linked, Next
  PROVE  Lawful'
<1>1. Legal(Idle)
  BY DEF Legal, Idle
<1>2. CASE PowerCut
  BY <1>1, <1>2, Cutting DEF Lawful
<1>3. CASE (\E m \in Msg : SendStep(m)) \/ Tick
  <2>1. cmd' = cmd
    BY <1>3, Senders DEF Tick
  <2>2. QED
    BY <2>1 DEF Lawful
<1>4. QED
  BY <1>2, <1>3, Cases DEF Walks, Well

LEMMA LockedStep ==
  ASSUME TypeOK, Locked, Lawful, Linked, Next
  PROVE  Locked'
<1>1. Free \notin Cmd /\ lock \in Cmd \cup Msg \cup {Free}
  BY DEF TypeOK
<1>2. ASSUME NEW c \in Cmd, Walks(c) PROVE Locked'
  <2>1. CASE Outside(c)
    BY <2>1 DEF Outside, Rest, Locked, Inside
  <2>2. CASE Enters(c)
    BY <1>1, <2>2 DEF Enters, Onward, Rest, Locked, Inside
  <2>3. CASE Links(c) \/ Passes(c) \/ Removes(c)
    <3>1. lock' = lock /\ cmd[c].step \in Inside /\ cmd'[c].step \in Inside /\ Rest(c)
      BY <2>3 DEF Links, Passes, Removes, Onward, Inside
    <3>2. QED
      BY <3>1 DEF Locked, Rest
  <2>4. CASE Leaves(c) \/ TakesBack(c)
    <3>1. lock' = Free /\ cmd[c].step \in Inside /\ cmd'[c].step \notin Inside /\ Rest(c)
      BY <2>4 DEF Leaves, TakesBack, Onward, Inside
    <3>2. QED
      BY <1>1, <3>1 DEF Locked, Rest
  <2>5. QED
    BY <1>2, <2>1, <2>2, <2>3, <2>4 DEF Walks
<1>3. ASSUME NEW m \in Msg, SendStep(m) PROVE Locked'
  <2>1. lock \in {m, Free} /\ lock' \in {m, Free}
    BY <1>3 DEF SendStep, SendLink, SendSync, SendSyncFails, SenderKilled
  <2>2. cmd' = cmd /\ m \notin Cmd
    BY <1>3, Senders
  <2>3. QED
    BY <1>1, <2>1, <2>2 DEF Locked
<1>4. CASE PowerCut
  <2>1. lock' = Free /\ \A c \in Cmd : cmd'[c] = Idle
    BY <1>4, Cutting
  <2>2. Idle.step \notin Inside
    BY DEF Idle, Inside
  <2>3. QED
    BY <1>1, <2>1, <2>2 DEF Locked
<1>5. CASE Tick
  BY <1>5 DEF Tick, Locked
<1>6. QED
  BY <1>2, <1>3, <1>4, <1>5, Cases

LEMMA LinkedStep ==
  ASSUME TypeOK, Locked, Lawful, Linked, Next
  PROVE  Linked'
<1>1. Locked'
  BY LockedStep
<1>2. ASSUME NEW c \in Cmd, Walks(c) PROVE Linked'
  <2>1. Src(c) \in Place /\ Dst(c) \in Place /\ Src(c) # Dst(c)
    BY Ends DEF Lawful
  <2>2. cmd[c].step # "list" => M(c) \in Msg
    BY DEF Lawful, Legal, M
  <2>3. CASE Outside(c)
    <3>1. file' = file /\ cmd'[c].step \notin Inside /\ Rest(c)
      BY <2>3 DEF Outside, Inside
    <3>2. QED
      BY <3>1, SameOthers DEF Linked, Rest, Inside
  <2>4. CASE Enters(c)
    <3>1. file' = file /\ Onward(c, "link")
      BY <2>4 DEF Enters
    <3>2. QED
      BY <3>1, SameEnds DEF Linked, Onward, Rest
  <2>5. ASSUME cmd[c].step \in Inside, Rest(c), cmd'[c].step \notin Inside
        PROVE  Linked'
    <3>1. \A d \in Cmd : cmd'[d].step \notin Inside
      BY <2>5, OneInside DEF Rest
    <3>2. QED
      BY <3>1 DEF Linked, Inside
  <2>6. ASSUME NEW s \in Inside, cmd[c].step \in Inside, Onward(c, s),
               s # "link" => file'[M(c)][Dst(c)] # 0,
               s \in {"sync", "remove", "dedup"} => file'[M(c)][Src(c)] # 0
        PROVE  Linked'
    <3>1. cmd'[c].step = s /\ \A d \in Cmd \ {c} : cmd'[d].step \notin Inside
      BY <2>6, OneInside DEF Onward, Rest
    <3>2. M(c)' = M(c) /\ Src(c)' = Src(c) /\ Dst(c)' = Dst(c)
      BY <2>6, SameEnds
    <3>3. QED
      BY <2>6, <3>1, <3>2 DEF Linked, Inside
  <2>7. CASE Links(c)
    <3>1. Put(M(c), Dst(c), file[M(c)][Src(c)]) /\ disk' = disk /\ M(c) \in Msg
      BY <2>2, <2>7 DEF Links
    <3>2. file[M(c)][Src(c)] \in Nat
      BY <2>1, <3>1, EntryTypes, Zenon
    <3>3. Writes(M(c), Dst(c), file[M(c)][Src(c)])
      BY <2>1, <3>1, <3>2, Putting
    <3>4. file'[M(c)][Dst(c)] = file[M(c)][Src(c)] /\ file'[M(c)][Src(c)] = file[M(c)][Src(c)]
      BY <2>1, <3>1, <3>3 DEF Writes
    <3>5. QED
      BY <2>6, <2>7, <3>4 DEF Links, Inside
  <2>8. CASE Passes(c)
    <3>1. file' = file /\ cmd[c].step \in Inside
      BY <2>8 DEF Passes, Inside
    <3>2. PICK s \in {"dedup", "remove", "syncdst"} :
            /\ Onward(c, s) /\ file[M(c)][Dst(c)] # 0
            /\ s # "syncdst" => file[M(c)][Src(c)] # 0
      BY <2>8 DEF Passes, Linked, Inside
    <3>3. s \in Inside /\ s # "sync"
      BY DEF Inside
    <3>4. QED
      BY <2>6, <3>1, <3>2, <3>3
  <2>9. CASE Leaves(c) \/ TakesBack(c)
    BY <2>5, <2>9 DEF Leaves, TakesBack, Onward, Inside
  <2>10. CASE Removes(c)
    <3>1. Put(M(c), Src(c), 0) /\ disk' = disk /\ M(c) \in Msg
      BY <2>2, <2>10 DEF Removes
    <3>2. Writes(M(c), Src(c), 0)
      BY <2>1, <3>1, Putting
    <3>3. file'[M(c)][Dst(c)] = file[M(c)][Dst(c)]
      BY <2>1, <3>1, <3>2 DEF Writes
    <3>4. cmd[c].step \in Inside \ {"link"} /\ file[M(c)][Dst(c)] # 0
      BY <2>10 DEF Removes, Linked, Inside
    <3>5. PICK s \in {"syncinbox", "syncsrc"} : Onward(c, s)
      BY <2>10 DEF Removes
    <3>6. QED
      BY <2>6, <3>3, <3>4, <3>5 DEF Inside
  <2>11. QED
    BY <1>2, <2>3, <2>4, <2>7, <2>8, <2>9, <2>10 DEF Walks
<1>3. ASSUME NEW m \in Msg, SendStep(m) PROVE Linked'
  <2>1. lock \in Msg \cup {Free}
    BY <1>3 DEF SendStep, SendLink, SendSync, SendSyncFails, SenderKilled
  <2>2. cmd' = cmd
    BY <1>3, Senders
  <2>3. QED
    BY <2>1, <2>2, NoneInside DEF Linked, Inside
<1>4. CASE PowerCut
  BY <1>4, Cutting DEF Linked, Idle, Inside
<1>5. CASE Tick
  BY <1>5 DEF Tick, Linked, M, Src, Dst
<1>6. QED
  BY <1>2, <1>3, <1>4, <1>5, Cases

-----------------------------------------------------------------------------
(* Every step leaves the lasting entries alone, or moves one *)

\* Which entry is open depends on who holds the lock.
LEMMA OpenFree ==
  /\ Locked /\ lock = Free => \A n \in Msg, x \in Place : ~Open(n, x)
  /\ Locked' /\ lock' = Free => \A n \in Msg, x \in Place : ~Open(n, x)'
BY DEF Open, Tentative, Locked, Inside, At

LEMMA OpenSender ==
  ASSUME NEW m \in Msg
  PROVE  /\ Locked /\ lock = m => \A n \in Msg, x \in Place : Open(n, x) <=> n = m /\ x = Inbox
         /\ Locked' /\ lock' = m => \A n \in Msg, x \in Place : Open(n, x)' <=> n = m /\ x = Inbox
<1>1. m \notin Cmd
  OBVIOUS
<1>2. Locked /\ lock = m => \A d \in Cmd : cmd[d].step # "sync"
  BY <1>1 DEF Locked, Inside
<1>3. Locked' /\ lock' = m => \A d \in Cmd : cmd'[d].step # "sync"
  BY <1>1 DEF Locked, Inside
<1>4. Inbox' = Inbox
  BY DEF Inbox
<1>5. QED
  BY <1>2, <1>3, <1>4 DEF Open, Tentative, At

LEMMA OpenHolder ==
  ASSUME Locked, NEW c \in Cmd, cmd[c].step \in Inside
  PROVE  \A n \in Msg, x \in Place :
           Open(n, x) <=> cmd[c].step = "sync" /\ M(c) = n /\ Dst(c) = x
<1>1. lock = c /\ c \notin Msg /\ \A d \in Cmd \ {c} : cmd[d].step # "sync"
  BY OneInside DEF Inside
<1>2. QED
  BY <1>1 DEF Open, Tentative, At

LEMMA OpenHolderNext ==
  ASSUME Locked', NEW c \in Cmd, cmd'[c].step \in Inside
  PROVE  \A n \in Msg, x \in Place :
           Open(n, x)' <=> cmd'[c].step = "sync" /\ M(c)' = n /\ Dst(c)' = x
<1>1. lock' = c /\ c \notin Msg /\ \A d \in Cmd \ {c} : cmd'[d].step # "sync"
  BY DEF Locked, Inside
<1>2. QED
  BY <1>1 DEF Open, Tentative, At

\* Outside the lock no entry is opened or closed.
LEMMA OpenOutside ==
  ASSUME NEW c \in Cmd, Outside(c)
  PROVE  \A n \in Msg, x \in Place : Open(n, x)' <=> Open(n, x)
<1>1. lock' = lock /\ Rest(c) /\ cmd[c].step # "sync" /\ cmd'[c].step # "sync"
  BY DEF Outside, Inside
<1>2. \A n \in Msg, x \in Place : Tentative(n, x)' <=> Tentative(n, x)
  BY <1>1, SameOthers DEF Tentative, At, Rest
<1>3. Inbox' = Inbox
  BY DEF Inbox
<1>4. QED
  BY <1>1, <1>2, <1>3 DEF Open

LEMMA StaysClosed ==
  ASSUME file' = file, \A n \in Msg, x \in Place : ~Open(n, x) /\ ~Open(n, x)',
         \A n \in Msg, x \in Place : disk'[n][x] = disk[n][x] \/ disk'[n][x] = file[n][x]
  PROVE  Stays
BY DEF Stays

LEMMA WalkShape ==
  ASSUME TypeOK, Locked, Lawful, Linked, Locked', NEW c \in Cmd, Walks(c)
  PROVE  Shape
<1>1. /\ Src(c) \in Place /\ Dst(c) \in Place /\ Src(c) # Dst(c) /\ Src(c) \notin Final
      /\ Dst(c) # Inbox /\ Free \notin Cmd
  BY Ends DEF Lawful
<1>2. cmd[c].step # "list" => M(c) \in Msg
  BY DEF Lawful, Legal, M
<1>3. CASE Outside(c)
  <2>1. file' = file /\ disk' = disk
    BY <1>3 DEF Outside
  <2>2. Stays
    BY <1>3, <2>1, OpenOutside DEF Stays
  <2>3. QED
    BY <2>2 DEF Shape
<1>4. CASE Enters(c)
  <2>1. file' = file /\ disk' = disk /\ lock = Free /\ cmd'[c].step = "link"
    BY <1>4 DEF Enters, Onward
  <2>2. \A n \in Msg, x \in Place : ~Open(n, x) /\ ~Open(n, x)'
    BY <2>1, OpenFree, OpenHolderNext DEF Inside
  <2>3. QED
    BY <2>1, <2>2, StaysClosed DEF Shape
<1>5. CASE Links(c)
  <2>1. /\ M(c) \in Msg /\ Put(M(c), Dst(c), file[M(c)][Src(c)]) /\ disk' = disk
        /\ file[M(c)][Src(c)] # 0 /\ file[M(c)][Dst(c)] = 0 /\ cmd[c].step = "link"
    BY <1>2, <1>5 DEF Links
  <2>2. file[M(c)][Src(c)] \in Nat
    BY <1>1, <2>1, EntryTypes, Zenon
  <2>3. Writes(M(c), Dst(c), file[M(c)][Src(c)])
    BY <1>1, <2>1, <2>2, Putting
  <2>4. cmd'[c].step = "sync" /\ M(c)' = M(c) /\ Dst(c)' = Dst(c)
    BY <1>5, SameEnds DEF Links, Onward
  <2>5. \A n \in Msg, x \in Place :
          ~Open(n, x) /\ (Open(n, x)' <=> n = M(c) /\ x = Dst(c))
    <3>1. cmd[c].step \in Inside /\ cmd'[c].step \in Inside
      BY <2>1, <2>4 DEF Inside
    <3>2. \A n \in Msg, x \in Place : ~Open(n, x)
      BY <2>1, <3>1, OpenHolder
    <3>3. \A n \in Msg, x \in Place : Open(n, x)' <=> M(c) = n /\ Dst(c) = x
      BY <2>4, <3>1, OpenHolderNext
    <3>4. QED
      BY <3>2, <3>3
  <2>6. Adds(M(c), Dst(c))
    BY <2>1, <2>2, <2>3, <2>5 DEF Adds
  <2>7. QED
    BY <1>1, <2>1, <2>6 DEF Shape
<1>6. CASE Passes(c)
  <2>1. file' = file /\ cmd[c].step \in Inside /\ cmd'[c].step \in Inside \ {"sync"}
    BY <1>6 DEF Passes, Onward, Inside
  <2>2. \A n \in Msg, x \in Place : ~Open(n, x)'
    BY <2>1, OpenHolderNext
  <2>3. disk' = disk \/ \E d : SyncDir(d)
    BY <1>6 DEF Passes
  <2>4. \A n \in Msg, x \in Place : disk'[n][x] = disk[n][x] \/ disk'[n][x] = file[n][x]
    BY <2>3, Syncing
  <2>5. ASSUME NEW n \in Msg, NEW x \in Place, Open(n, x)
        PROVE  disk'[n][x] = file[n][x]
    <3>1. cmd[c].step = "sync" /\ Dst(c) = x
      BY <2>1, <2>5, OpenHolder
    <3>2. SyncDir(x.dir)
      BY <1>6, <3>1 DEF Passes
    <3>3. QED
      BY <3>2, Syncing
  <2>6. Stays
    BY <2>1, <2>2, <2>4, <2>5 DEF Stays
  <2>7. QED
    BY <2>6 DEF Shape
<1>7. CASE Leaves(c)
  <2>1. file' = file /\ cmd[c].step \in Inside /\ lock' = Free
        /\ (cmd[c].step = "sync" => Kills > 0)
    BY <1>7 DEF Leaves
  <2>2. \A n \in Msg, x \in Place : ~Open(n, x)'
    BY <2>1, OpenFree
  <2>3. disk' = disk \/ \E d : SyncDir(d)
    BY <1>7 DEF Leaves
  <2>4. \A n \in Msg, x \in Place : disk'[n][x] = disk[n][x] \/ disk'[n][x] = file[n][x]
    BY <2>3, Syncing
  <2>5. \A n \in Msg, x \in Place : Open(n, x) => Kills # 0
    <3>1. cmd[c].step = "sync" => Kills # 0
      BY <2>1
    <3>2. QED
      BY <2>1, <3>1, OpenHolder
  <2>6. Stays
    BY <2>1, <2>2, <2>4, <2>5 DEF Stays
  <2>7. QED
    BY <2>6 DEF Shape
<1>8. CASE TakesBack(c)
  <2>1. /\ M(c) \in Msg /\ Put(M(c), Dst(c), 0) /\ disk' = disk /\ lock' = Free
        /\ cmd[c].step = "sync" /\ Errors # 0
    BY <1>2, <1>8 DEF TakesBack
  <2>2. Writes(M(c), Dst(c), 0)
    BY <1>1, <2>1, Putting
  <2>3. \A n \in Msg, x \in Place : Open(n, x) <=> n = M(c) /\ x = Dst(c)
    <3>1. cmd[c].step \in Inside
      BY <2>1 DEF Inside
    <3>2. QED
      BY <2>1, <3>1, OpenHolder
  <2>4. Undoes(M(c), Dst(c))
    BY <2>1, <2>2, <2>3, OpenFree DEF Undoes
  <2>5. QED
    BY <1>1, <2>1, <2>4 DEF Shape
<1>9. CASE Removes(c)
  <2>1. /\ M(c) \in Msg /\ Put(M(c), Src(c), 0) /\ disk' = disk
        /\ cmd[c].step \in Inside \ {"sync"} /\ cmd'[c].step \in Inside \ {"sync"}
        /\ file[M(c)][Dst(c)] # 0
    BY <1>2, <1>9 DEF Removes, Onward, Linked, Inside
  <2>2. Writes(M(c), Src(c), 0)
    BY <1>1, <2>1, Putting
  <2>3. \A n \in Msg, x \in Place : ~Open(n, x) /\ ~Open(n, x)'
    BY <2>1, OpenHolder, OpenHolderNext
  <2>4. Moves(M(c), Src(c), Dst(c))
    BY <1>1, <2>1, <2>2, <2>3 DEF Moves
  <2>5. QED
    BY <1>1, <2>1, <2>4 DEF Shape
<1>10. QED
  BY <1>3, <1>4, <1>5, <1>6, <1>7, <1>8, <1>9 DEF Walks

LEMMA SendShape ==
  ASSUME TypeOK, Locked, Locked', NEW m \in Msg, SendStep(m)
  PROVE  Shape
<1>1. Inbox \in Place /\ Free # m
  BY Places
<1>2. CASE SendLink(m) /\ Writes(m, Inbox, landed[m] + 1)
  <2>1. lock = Free /\ lock' = m /\ file[m][Inbox] = 0
    BY <1>2 DEF SendLink
  <2>2. landed[m] + 1 \in Nat \ {0}
    BY EntryTypes
  <2>3. \A n \in Msg, x \in Place : ~Open(n, x) /\ (Open(n, x)' <=> n = m /\ x = Inbox)
    BY <2>1, OpenFree, OpenSender
  <2>4. Adds(m, Inbox)
    BY <1>2, <2>1, <2>2, <2>3 DEF Adds
  <2>5. QED
    BY <1>1, <2>4 DEF Shape
<1>3. CASE SendSync(m)
  <2>1. lock = m /\ lock' = Free /\ file' = file /\ SyncDir("inbox")
    BY <1>3 DEF SendSync
  <2>2. \A n \in Msg, x \in Place : (Open(n, x) <=> n = m /\ x = Inbox) /\ ~Open(n, x)'
    BY <2>1, OpenFree, OpenSender
  <2>3. /\ disk'[m][Inbox] = file[m][Inbox]
        /\ \A n \in Msg, x \in Place : disk'[n][x] = disk[n][x] \/ disk'[n][x] = file[n][x]
    BY <1>1, <2>1, Syncing DEF Inbox
  <2>4. Stays
    BY <2>1, <2>2, <2>3 DEF Stays
  <2>5. QED
    BY <2>4 DEF Shape
<1>4. CASE SendSyncFails(m) /\ Writes(m, Inbox, 0)
  <2>1. lock = m /\ lock' = Free /\ Errors # 0
    BY <1>4, Faulting DEF SendSyncFails
  <2>2. Undoes(m, Inbox)
    BY <1>1, <1>4, <2>1, OpenFree, OpenSender DEF Undoes
  <2>3. QED
    BY <1>1, <2>2 DEF Shape
<1>5. CASE SenderKilled(m) /\ file' = file /\ disk' = disk /\ Kills > 0
  <2>1. lock' = Free /\ Kills # 0
    BY <1>5 DEF SenderKilled
  <2>2. \A n \in Msg, x \in Place : ~Open(n, x)'
    BY <2>1, OpenFree
  <2>3. Stays
    BY <1>5, <2>1, <2>2 DEF Stays
  <2>4. QED
    BY <2>3 DEF Shape
<1>6. QED
  BY <1>2, <1>3, <1>4, <1>5, Senders

LEMMA Shapes ==
  ASSUME TypeOK, Locked, Lawful, Linked, Next
  PROVE  Shape
<1>1. Locked'
  BY LockedStep
<1>2. CASE PowerCut
  <2>1. /\ Cuts > 0 /\ disk' = file' /\ lock' = Free /\ UNCHANGED <<accepted, shown>>
        /\ \A n \in Msg, x \in Place :
              /\ file'[n][x] \in {0, file[n][x], disk[n][x]}
              /\ file[n][x] = disk[n][x] => file'[n][x] = file[n][x]
        /\ \A c \in Cmd : cmd'[c] = Idle
    BY <1>2, Cutting
  <2>2. \A n \in Msg, x \in Place : ~Open(n, x)'
    BY <1>1, <2>1, OpenFree
  <2>3. \A c \in Cmd : ~At(c, "show")'
    BY <2>1 DEF At, Idle
  <2>4. QED
    BY <2>1, <2>2, <2>3 DEF Shape, Cut
<1>3. CASE Tick
  <2>1. UNCHANGED <<file, disk, lock, cmd>>
    BY <1>3 DEF Tick
  <2>2. \A n \in Msg, x \in Place : Open(n, x)' <=> Open(n, x)
    BY <2>1 DEF Open, Tentative, At, M, Dst, Inbox
  <2>3. Stays
    BY <2>1, <2>2 DEF Stays
  <2>4. QED
    BY <2>3 DEF Shape
<1>4. QED
  BY <1>1, <1>2, <1>3, Cases, WalkShape, SendShape

-----------------------------------------------------------------------------
(* What lasts *)

LEMMA LandingStep ==
  ASSUME TypeOK, Locked, Lawful, Linked, Landing, Next
  PROVE  Landing'
<1>1. Inbox \in Place /\ Inbox' = Inbox
  BY Places DEF Inbox
<1> SUFFICES ASSUME NEW n \in Msg, lock' = n PROVE file'[n][Inbox] # 0
  BY <1>1 DEF Landing
<1>2. n \notin Cmd /\ n # Free
  OBVIOUS
<1>3. ASSUME NEW c \in Cmd, Walks(c) PROVE file'[n][Inbox] # 0
  <2>1. lock = n \/ lock' \in {c, Free}
    BY <1>3 DEF Walks, Outside, Enters, Links, Passes, Leaves, TakesBack, Removes
  <2>2. cmd[c].step \notin Inside
    BY <1>2, <2>1, NoneInside
  <2>3. file' = file
    BY <1>3, <2>2 DEF Walks, Outside, Enters, Links, Passes, Leaves, TakesBack, Removes, Inside
  <2>4. QED
    BY <1>2, <2>1, <2>3 DEF Landing
<1>4. ASSUME NEW m \in Msg, SendStep(m) PROVE file'[n][Inbox] # 0
  <2>1. SendLink(m) /\ n = m
    BY <1>2, <1>4 DEF SendStep, SendLink, SendSync, SendSyncFails, SenderKilled
  <2>2. Put(m, Inbox, landed[m] + 1) /\ disk' = disk /\ landed[m] + 1 \in Nat \ {0}
    BY <2>1, EntryTypes DEF SendLink
  <2>3. Writes(m, Inbox, landed[m] + 1)
    BY <1>1, <2>2, Putting
  <2>4. QED
    BY <1>1, <2>1, <2>2, <2>3 DEF Writes
<1>5. CASE PowerCut
  BY <1>2, <1>5, Cutting
<1>6. CASE Tick
  BY <1>6 DEF Tick, Landing
<1>7. QED
  BY <1>3, <1>4, <1>5, <1>6, Cases

LEMMA FinalFreshStep ==
  ASSUME TypeOK, FinalFresh, Shape
  PROVE  FinalFresh'
<1>1. Final \subseteq Place /\ Final' = Final
  BY DEF Final, Place, Inbox, Claimed, Sec
<1> SUFFICES ASSUME NEW n \in Msg, NEW x \in Final, file'[n][x] = 0 \/ Open(n, x)'
             PROVE  disk'[n][x] = 0
  BY <1>1 DEF FinalFresh
<1>2. x \in Place /\ (file[n][x] = 0 \/ Open(n, x) => disk[n][x] = 0)
  BY <1>1 DEF FinalFresh
<1>3. CASE Stays
  BY <1>2, <1>3 DEF Stays
<1>4. ASSUME NEW m \in Msg, NEW pl \in Place, Adds(m, pl) PROVE disk'[n][x] = 0
  BY <1>2, <1>4 DEF Adds, Writes
<1>5. ASSUME NEW m \in Msg, NEW pl \in Place, Undoes(m, pl) PROVE disk'[n][x] = 0
  BY <1>2, <1>5 DEF Undoes, Writes
<1>6. ASSUME NEW m \in Msg, NEW src \in Place, NEW dst \in Place, Moves(m, src, dst)
      PROVE  disk'[n][x] = 0
  BY <1>2, <1>6 DEF Moves, Writes
<1>7. CASE Cut
  BY <1>2, <1>7 DEF Cut
<1>8. QED
  BY <1>3, <1>4, <1>5, <1>6, <1>7 DEF Shape

\* A message that lasts goes on lasting.
LEMMA LastingStep ==
  ASSUME TypeOK, Firm, Shape, NEW n \in Lasting
  PROVE  n \in Lasting'
<1>1. n \in Msg /\ Place' = Place
  BY DEF Lasting, Place, Sec
<1>2. PICK x \in Place : file[n][x] # 0 /\ ~Open(n, x)
  BY DEF Lasting, Lasts
<1>3. ASSUME NEW y \in Place, file'[n][y] # 0, ~Open(n, y)'
      PROVE  n \in Lasting'
  BY <1>1, <1>3 DEF Lasting, Lasts
<1>4. CASE Stays
  <2>1. file'[n][x] # 0 /\ ~Open(n, x)'
    BY <1>1, <1>2, <1>4 DEF Stays
  <2>2. QED
    BY <1>3, <2>1
<1>5. ASSUME NEW m \in Msg, NEW pl \in Place, Adds(m, pl) PROVE n \in Lasting'
  <2>1. ~(n = m /\ x = pl)
    BY <1>2, <1>5 DEF Adds
  <2>2. file'[n][x] # 0 /\ ~Open(n, x)'
    BY <1>1, <1>2, <1>5, <2>1 DEF Adds, Writes
  <2>3. QED
    BY <1>3, <2>2
<1>6. ASSUME NEW m \in Msg, NEW pl \in Place, Undoes(m, pl) PROVE n \in Lasting'
  <2>1. ~(n = m /\ x = pl)
    BY <1>2, <1>6 DEF Undoes
  <2>2. file'[n][x] # 0 /\ ~Open(n, x)'
    BY <1>1, <1>2, <1>6, <2>1 DEF Undoes, Writes
  <2>3. QED
    BY <1>3, <2>2
<1>7. ASSUME NEW m \in Msg, NEW src \in Place, NEW dst \in Place, Moves(m, src, dst)
      PROVE  n \in Lasting'
  <2> DEFINE y == IF n = m THEN dst ELSE x
  <2>1. y \in Place /\ file'[n][y] # 0 /\ ~Open(n, y)'
    BY <1>1, <1>2, <1>7 DEF Moves, Writes
  <2>2. QED
    BY <1>3, <2>1
<1>8. CASE Cut
  <2>1. Cuts # 0
    BY <1>8 DEF Cut
  <2>2. disk[n][x] = file[n][x]
    BY <1>1, <1>2, <2>1 DEF Firm, Lasts
  <2>3. file'[n][x] # 0 /\ ~Open(n, x)'
    BY <1>1, <1>2, <1>8, <2>2 DEF Cut
  <2>4. QED
    BY <1>3, <2>3
<1>9. QED
  BY <1>4, <1>5, <1>6, <1>7, <1>8 DEF Shape

LEMMA FirmStep ==
  ASSUME TypeOK, Cuts = 0 \/ Kills = 0, Firm, Shape
  PROVE  Firm'
<1>1. Place' = Place
  BY DEF Place, Sec
<1>2. CASE Cuts = 0
  BY <1>2 DEF Firm
<1>3. CASE Cuts # 0
  <2>1. Kills = 0
    BY <1>3
  <2> SUFFICES ASSUME NEW n \in Msg, NEW x \in Place, file'[n][x] # 0, ~Open(n, x)'
               PROVE  disk'[n][x] = file'[n][x]
    BY <1>1 DEF Firm, Lasts
  <2>2. file[n][x] # 0 /\ ~Open(n, x) => disk[n][x] = file[n][x]
    BY <1>3 DEF Firm, Lasts
  <2>3. CASE Stays
    BY <2>1, <2>2, <2>3 DEF Stays
  <2>4. ASSUME NEW m \in Msg, NEW pl \in Place, Adds(m, pl) PROVE disk'[n][x] = file'[n][x]
    BY <2>2, <2>4 DEF Adds, Writes
  <2>5. ASSUME NEW m \in Msg, NEW pl \in Place, Undoes(m, pl) PROVE disk'[n][x] = file'[n][x]
    <3>1. ~(n = m /\ x = pl)
      BY <2>5 DEF Undoes, Writes
    <3>2. ~Open(n, x)
      BY <2>5, <3>1 DEF Undoes
    <3>3. QED
      BY <2>2, <2>5, <3>1, <3>2 DEF Undoes, Writes
  <2>6. ASSUME NEW m \in Msg, NEW src \in Place, NEW dst \in Place, Moves(m, src, dst)
        PROVE  disk'[n][x] = file'[n][x]
    BY <2>2, <2>6 DEF Moves, Writes
  <2>7. CASE Cut
    BY <2>7 DEF Cut
  <2>8. QED
    BY <2>3, <2>4, <2>5, <2>6, <2>7 DEF Shape
<1>4. QED
  BY <1>2, <1>3

LEMMA OnDiskStep ==
  ASSUME TypeOK, Firm, OnDisk, Shape
  PROVE  OnDisk'
<1>1. Place' = Place
  BY DEF Place, Sec
<1> SUFFICES ASSUME NEW n \in Msg, NEW x \in Place, disk'[n][x] # 0
             PROVE  n \in Lasting'
  BY <1>1 DEF OnDisk
<1>2. ASSUME disk[n][x] # 0 PROVE n \in Lasting'
  <2>1. n \in Lasting
    BY <1>2 DEF OnDisk
  <2>2. QED
    BY <2>1, LastingStep
<1>3. ASSUME file'[n][x] # 0, ~Open(n, x)' PROVE n \in Lasting'
  BY <1>1, <1>3 DEF Lasting, Lasts
<1>4. CASE Stays
  BY <1>2, <1>3, <1>4 DEF Stays
<1>5. CASE Cut
  BY <1>3, <1>5 DEF Cut
<1>6. CASE disk' = disk
  BY <1>2, <1>6
<1>7. QED
  BY <1>4, <1>5, <1>6 DEF Shape, Adds, Undoes, Moves, Writes

LEMMA KeptStep ==
  ASSUME TypeOK, Locked, Lawful, Linked, Landing, Firm, Kept, Shape, Next
  PROVE  Kept'
<1>1. Locked' /\ Place' = Place /\ Inbox' = Inbox /\ Claimed' = Claimed
  BY LockedStep DEF Place, Sec, Inbox, Claimed
<1>2. \A n \in Lasting : n \in Lasting'
  BY LastingStep
<1>3. accepted \subseteq Lasting /\ \A c \in Cmd : At(c, "show") => M(c) \in Lasting
  BY DEF Kept
<1>4. ASSUME NEW n \in Msg, NEW x \in Place, file'[n][x] # 0, ~Open(n, x)' PROVE n \in Lasting'
  BY <1>1, <1>4 DEF Lasting, Lasts
<1>5. ASSUME NEW c \in Cmd, Walks(c) PROVE Kept'
  <2>1. accepted' = accepted /\ Rest(c)
    BY <1>5 DEF Walks, Outside, Enters, Links, Passes, Leaves, TakesBack, Removes, Onward
  <2>2. \A d \in Cmd \ {c} : At(d, "show")' => M(d)' \in Lasting'
    BY <1>2, <1>3, <2>1, SameOthers DEF At, Rest
  <2>3. ASSUME cmd'[c].step = "show" PROVE M(c)' \in Lasting'
    <3>1. Leaves(c) /\ Onward(c, "show") /\ file[M(c)][Claimed] # 0
      BY <1>5, <2>3 DEF Walks, Outside, Enters, Links, Passes, Leaves, TakesBack, Removes, Onward
    <3>2. M(c)' = M(c) /\ M(c) \in Msg
      BY <3>1, SameEnds DEF Leaves, Inside, Lawful, Legal, M
    <3>3. lock' = Free /\ file' = file
      BY <3>1 DEF Leaves
    <3>4. ~Open(M(c), Claimed)'
      BY <1>1, <3>2, <3>3, OpenFree, Places
    <3>5. QED
      BY <1>4, <3>1, <3>2, <3>3, <3>4, Places
  <2>4. QED
    BY <1>2, <1>3, <2>1, <2>2, <2>3 DEF Kept, At
<1>6. ASSUME NEW m \in Msg, SendStep(m) PROVE Kept'
  <2>1. cmd' = cmd /\ (accepted' = accepted \/ (SendSync(m) /\ accepted' = accepted \cup {m}))
    BY <1>6, Senders DEF SendStep, SendLink, SendSync, SendSyncFails, SenderKilled
  <2>2. ASSUME SendSync(m) PROVE m \in Lasting'
    <3>1. lock = m /\ lock' = Free /\ file' = file
      BY <2>2 DEF SendSync
    <3>2. file'[m][Inbox] # 0 /\ ~Open(m, Inbox)'
      BY <1>1, <3>1, OpenFree, Places DEF Landing
    <3>3. QED
      BY <1>4, <3>2, Places
  <2>3. \A c \in Cmd : At(c, "show")' => M(c)' \in Lasting'
    BY <1>2, <1>3, <2>1 DEF At, M
  <2>4. QED
    BY <1>2, <1>3, <2>1, <2>2, <2>3 DEF Kept
<1>7. CASE PowerCut
  <2>1. accepted' = accepted /\ \A c \in Cmd : cmd'[c] = Idle
    BY <1>7, Cutting
  <2>2. \A c \in Cmd : ~At(c, "show")'
    BY <2>1 DEF At, Idle
  <2>3. QED
    BY <1>2, <1>3, <2>1, <2>2 DEF Kept
<1>8. CASE Tick
  <2>1. UNCHANGED <<accepted, cmd>>
    BY <1>8 DEF Tick
  <2>2. QED
    BY <1>2, <1>3, <2>1 DEF Kept, At, M
<1>9. QED
  BY <1>5, <1>6, <1>7, <1>8, Cases

-----------------------------------------------------------------------------
(* One place, and nothing archived unseen *)

\* Faults are never forgotten.
LEMMA FaultsLast ==
  ASSUME TypeOK, Locked, Lawful, Linked, Next, Faultless'
  PROVE  faults' = faults /\ Faultless
<1>1. faults' = faults
  BY Cases, Senders, Cutting DEF Walks, Well, Tick, SendStep, SendSyncFails, SenderKilled
<1>2. QED
  BY <1>1 DEF Faultless

LEMMA SingleStep ==
  ASSUME TypeOK, Locked, Lawful, Linked, Single, Next
  PROVE  Single'
<1>1. Place' = Place
  BY DEF Place, Sec
<1> SUFFICES ASSUME Faultless', NEW n \in Msg, landed'[n] = 1, NEW x \in Place, NEW y \in Place,
                    file'[n][x] # 0, file'[n][y] # 0, x # y
             PROVE  \E c \in Cmd : /\ cmd'[c].step \in {"sync", "remove"} /\ M(c)' = n
                                   /\ {x, y} = {Src(c)', Dst(c)'}
  BY <1>1 DEF Single
<1>2. Faultless
  BY FaultsLast
<1>3. ASSUME landed[n] = 1, NEW u \in Place, NEW v \in Place, u # v,
             file[n][u] # 0, file[n][v] # 0
      PROVE  \E c \in Cmd : /\ cmd[c].step \in {"sync", "remove"} /\ M(c) = n
                            /\ {u, v} = {Src(c), Dst(c)} /\ lock = c
  BY <1>2, <1>3 DEF Single, Locked, Inside
<1>4. ASSUME NEW c \in Cmd, Walks(c)
      PROVE  \E d \in Cmd : /\ cmd'[d].step \in {"sync", "remove"} /\ M(d)' = n
                            /\ {x, y} = {Src(d)', Dst(d)'}
  <2>1. landed[n] = 1
    BY <1>4 DEF Walks, Outside, Enters, Links, Passes, Leaves, TakesBack, Removes
  <2>2. Src(c) \in Place /\ Dst(c) \in Place /\ Src(c) # Dst(c) /\ Free \notin Cmd
    BY Ends DEF Lawful
  <2>3. cmd[c].step # "list" => M(c) \in Msg
    BY DEF Lawful, Legal, M
  <2>4. CASE Outside(c)
    <3>1. file' = file /\ Rest(c) /\ cmd[c].step \notin Inside
      BY <2>4 DEF Outside
    <3>2. PICK d \in Cmd : /\ cmd[d].step \in {"sync", "remove"} /\ M(d) = n
                           /\ {x, y} = {Src(d), Dst(d)}
      BY <1>3, <2>1, <3>1
    <3>3. d # c
      BY <3>1, <3>2 DEF Inside
    <3>4. QED
      BY <3>1, <3>2, <3>3, SameOthers DEF Rest
  <2>5. CASE Enters(c)
    <3>1. file' = file /\ lock = Free
      BY <2>5 DEF Enters
    <3>2. QED
      BY <1>3, <2>1, <2>2, <3>1
  <2>6. CASE Links(c)
    <3>1. /\ lock = c /\ cmd[c].step = "link" /\ M(c) \in Msg /\ disk' = disk
          /\ Put(M(c), Dst(c), file[M(c)][Src(c)]) /\ file[M(c)][Src(c)] # 0
      BY <2>3, <2>6 DEF Links, Locked, Inside
    <3>2. file[M(c)][Src(c)] \in Nat
      BY <2>2, <3>1, EntryTypes, Zenon
    <3>3. Writes(M(c), Dst(c), file[M(c)][Src(c)])
      BY <2>2, <3>1, <3>2, Putting
    <3>4. \A u, v \in Place : file[n][u] # 0 /\ file[n][v] # 0 => u = v
      BY <1>3, <2>1, <3>1
    <3>5. /\ file'[n][x] = IF n = M(c) /\ x = Dst(c) THEN file[M(c)][Src(c)] ELSE file[n][x]
          /\ file'[n][y] = IF n = M(c) /\ y = Dst(c) THEN file[M(c)][Src(c)] ELSE file[n][y]
      BY <3>3 DEF Writes
    <3>6. n = M(c) /\ {x, y} = {Src(c), Dst(c)}
      BY <2>2, <3>1, <3>4, <3>5
    <3>7. cmd'[c].step = "sync" /\ M(c)' = M(c) /\ Src(c)' = Src(c) /\ Dst(c)' = Dst(c)
      BY <2>6, SameEnds DEF Links, Onward
    <3>8. QED
      BY <3>6, <3>7
  <2>7. CASE Passes(c)
    <3>1. file' = file /\ cmd[c].step \in Inside
      BY <2>7 DEF Passes, Inside
    <3>2. lock = c
      BY <3>1 DEF Locked
    <3>3. /\ cmd[c].step \in {"sync", "remove"} /\ M(c) = n
          /\ {x, y} = {Src(c), Dst(c)}
      BY <1>3, <2>1, <3>1, <3>2
    <3>4. Onward(c, "remove")
      BY <2>7, <3>3 DEF Passes
    <3>5. QED
      BY <3>3, <3>4, SameEnds DEF Onward
  <2>8. CASE Leaves(c)
    <3>1. file' = file /\ cmd[c].step \in Inside \ {"sync", "remove"}
      BY <2>8 DEF Leaves
    <3>2. lock = c
      BY <3>1 DEF Locked
    <3>3. QED
      BY <1>3, <2>1, <3>1, <3>2
  <2>9. CASE TakesBack(c)
    BY <2>9 DEF TakesBack
  <2>10. CASE Removes(c)
    <3>1. /\ lock = c /\ M(c) \in Msg /\ disk' = disk /\ Put(M(c), Src(c), 0)
      BY <2>3, <2>10 DEF Removes, Locked, Inside
    <3>2. Writes(M(c), Src(c), 0)
      BY <2>2, <3>1, Putting
    <3>3. file[n][x] # 0 /\ file[n][y] # 0 /\ ~(n = M(c) /\ Src(c) \in {x, y})
      BY <3>2 DEF Writes
    <3>4. M(c) = n /\ {x, y} = {Src(c), Dst(c)}
      BY <1>3, <2>1, <3>1, <3>3
    <3>5. QED
      BY <3>3, <3>4
  <2>11. QED
    BY <1>4, <2>4, <2>5, <2>6, <2>7, <2>8, <2>9, <2>10 DEF Walks
<1>5. ASSUME NEW m \in Msg, SendStep(m) PROVE FALSE
  <2>1. lock \in {m, Free} /\ lock \notin Cmd
    BY <1>5 DEF SendStep, SendLink, SendSync, SendSyncFails, SenderKilled
  <2>2. landed[n] = 1 => file[n][x] = 0 \/ file[n][y] = 0
    BY <1>3, <2>1
  <2>3. CASE SendLink(m) /\ Writes(m, Inbox, landed[m] + 1)
    <3>1. landed' = [landed EXCEPT ![m] = landed[m] + 1] /\ landed \in [Msg -> Nat]
      BY <2>3 DEF SendLink, TypeOK
    <3>2. CASE n = m
      <4>1. landed[m] + 1 = 1 /\ landed[m] \in Nat
        BY <3>1, <3>2
      <4>2. landed[m] = 0
        BY <4>1
      <4>3. file[n][x] = 0 /\ file[n][y] = 0
        <5>1. /\ file[n][x] \in Nat /\ file[n][x] <= landed[n]
              /\ file[n][y] \in Nat /\ file[n][y] <= landed[n]
          BY EntryTypes
        <5>2. QED
          BY <3>2, <4>2, <5>1
      <4>4. x = Inbox /\ y = Inbox
        BY <2>3, <4>3 DEF Writes
      <4>5. QED
        BY <4>4
    <3>3. CASE n # m
      BY <2>2, <2>3, <3>1, <3>3 DEF Writes
    <3>4. QED
      BY <3>2, <3>3
  <2>4. CASE SendSync(m) /\ file' = file
    BY <2>2, <2>4 DEF SendSync
  <2>5. QED
    BY <1>5, <2>3, <2>4, Senders
<1>6. CASE PowerCut
  BY <1>6, Cutting
<1>7. CASE Tick
  <2>1. UNCHANGED <<file, landed, cmd>>
    BY <1>7 DEF Tick
  <2>2. PICK d \in Cmd : /\ cmd[d].step \in {"sync", "remove"} /\ M(d) = n
                         /\ {x, y} = {Src(d), Dst(d)}
    BY <1>3, <2>1
  <2>3. M(d)' = M(d) /\ Src(d)' = Src(d) /\ Dst(d)' = Dst(d)
    BY <2>1 DEF M, Src, Dst
  <2>4. QED
    BY <2>1, <2>2, <2>3
<1>8. QED
  BY <1>4, <1>5, <1>6, <1>7, Cases

\* Only an archiving move has a name in the archive.
LEMMA ArchiveOnly ==
  ASSUME TypeOK, Lawful, NEW c \in Cmd, NEW t \in Sec, Dst(c) = Archive(t)
  PROVE  cmd[c].op = "archive" /\ Src(c) = Claimed
<1>1. Archive(t) # Claimed
  BY Places
<1>2. cmd[c].op # "archive" => Dst(c) = Claimed \/ Dst(c) = Malformed(cmd[c].at)
  BY DEF Dst
<1>3. Malformed(cmd[c].at) # Archive(t)
  BY DEF Malformed, Archive
<1>4. cmd[c].op = "archive"
  BY <1>1, <1>2, <1>3
<1>5. QED
  BY <1>4, Ends DEF Lawful

LEMMA SeenStep ==
  ASSUME TypeOK, Locked, Lawful, Linked, Seen, Next
  PROVE  Seen'
<1>1. Claimed' = Claimed /\ Sec' = Sec /\ \A t \in Sec : Archive(t)' = Archive(t)
  BY DEF Claimed, Sec, Archive
<1> SUFFICES ASSUME Faultless', NEW n \in Msg
             PROVE  /\ file'[n][Claimed] # 0 => n \in shown' \/ Shows(n)' \/ Claims(n)'
                    /\ \A t \in Sec : file'[n][Archive(t)] # 0 => n \in shown' \/ Shows(n)'
  BY <1>1 DEF Seen
<1>2. Faultless
  BY FaultsLast
<1>3. /\ file[n][Claimed] # 0 => n \in shown \/ Shows(n) \/ Claims(n)
      /\ \A t \in Sec : file[n][Archive(t)] # 0 => n \in shown \/ Shows(n)
  BY <1>2 DEF Seen
<1>4. Claimed \in Place /\ Inbox # Claimed
      /\ \A t \in Sec : Archive(t) \in Place /\ Archive(t) # Inbox /\ Archive(t) # Claimed
  BY Places DEF Final
<1>5. ASSUME NEW c \in Cmd, Walks(c)
      PROVE  /\ file'[n][Claimed] # 0 => n \in shown' \/ Shows(n)' \/ Claims(n)'
             /\ \A t \in Sec : file'[n][Archive(t)] # 0 => n \in shown' \/ Shows(n)'
  <2>1. Src(c) \in Place /\ Src(c) \notin Final /\ Dst(c) \in Place
    BY Ends DEF Lawful
  <2>2. cmd[c].step # "list" => M(c) \in Msg
    BY DEF Lawful, Legal, M
  <2>3. CASE Outside(c)
    <3>1. file' = file /\ Rest(c) /\ cmd[c].step \notin Inside /\ shown \subseteq shown'
      BY <2>3 DEF Outside
    <3>2. cmd[c].step = "show" => M(c) \in shown'
      BY <2>3 DEF Outside
    <3>3. n \in shown \/ Shows(n) => n \in shown' \/ Shows(n)'
      BY <3>1, <3>2, SameOthers DEF Shows, At, Rest
    <3>4. Claims(n) => Claims(n)'
      BY <3>1, SameOthers DEF Claims, Rest
    <3>5. QED
      BY <1>3, <3>1, <3>3, <3>4
  <2>4. CASE Enters(c)
    <3>1. /\ file' = file /\ shown' = shown /\ Onward(c, "link")
          /\ cmd[c].step = "want"
      BY <2>4 DEF Enters
    <3>2. Shows(n) => Shows(n)'
      BY <3>1, SameEnds DEF Shows, At, Onward, Rest
    <3>3. Claims(n) => Claims(n)'
      BY <3>1, SameEnds DEF Claims, Onward, Rest, Inside
    <3>4. QED
      BY <1>3, <3>1, <3>2, <3>3
  <2>5. ASSUME cmd[c].step \in Inside, NEW s \in Inside, Onward(c, s), shown' = shown
        PROVE  /\ n \in shown \/ Shows(n) => n \in shown' \/ Shows(n)'
               /\ Claims(n) => Claims(n)'
    <3>1. cmd[c].step # "show"
      BY <2>5 DEF Inside
    <3>2. Shows(n) => Shows(n)'
      BY <2>5, <3>1, SameEnds DEF Shows, At, Onward, Rest
    <3>3. Claims(n) => Claims(n)'
      BY <2>5, SameEnds DEF Claims, Onward, Rest
    <3>4. QED
      BY <2>5, <3>2, <3>3
  <2>6. CASE Links(c)
    <3>1. /\ cmd[c].step \in Inside /\ M(c) \in Msg /\ disk' = disk /\ shown' = shown
          /\ Put(M(c), Dst(c), file[M(c)][Src(c)]) /\ file[M(c)][Src(c)] # 0
          /\ Onward(c, "sync") /\ "sync" \in Inside
      BY <2>2, <2>6 DEF Links, Inside
    <3>2. file[M(c)][Src(c)] \in Nat
      BY <2>1, <3>1, EntryTypes, Zenon
    <3>3. Writes(M(c), Dst(c), file[M(c)][Src(c)])
      BY <2>1, <3>1, <3>2, Putting
    <3>4. \A x \in Place : (n = M(c) /\ x = Dst(c)) \/ file'[n][x] = file[n][x]
      BY <3>3 DEF Writes
    <3>5. /\ n \in shown \/ Shows(n) => n \in shown' \/ Shows(n)'
          /\ Claims(n) => Claims(n)'
      BY <2>5, <3>1
    <3>6. ASSUME n = M(c), Dst(c) = Claimed
          PROVE  Claims(n)'
      <4>1. cmd[c].op = "claim"
        BY <3>6, Ends, Places DEF Lawful
      <4>2. cmd'[c].op = "claim" /\ cmd'[c].step = "sync" /\ M(c)' = n
        BY <3>1, <3>6, <4>1, SameEnds DEF Onward
      <4>3. QED
        BY <3>1, <4>2 DEF Claims
    <3>7. ASSUME NEW t \in Sec, n = M(c), Dst(c) = Archive(t)
          PROVE  n \in shown' \/ Shows(n)'
      <4>1. cmd[c].op = "archive" /\ Src(c) = Claimed
        BY <3>7, ArchiveOnly
      <4>2. file[n][Claimed] # 0
        BY <3>1, <3>7, <4>1
      <4>3. ~Claims(n)
        BY <3>1, <4>1, OneInside DEF Claims
      <4>4. QED
        BY <1>3, <3>5, <4>2, <4>3
    <3>8. QED
      BY <1>3, <1>4, <3>4, <3>5, <3>6, <3>7
  <2>7. CASE Passes(c)
    <3>1. /\ file' = file /\ shown' = shown /\ cmd[c].step \in Inside
          /\ \E s \in Inside : Onward(c, s)
      BY <2>7 DEF Passes, Inside
    <3>2. QED
      BY <1>3, <2>5, <3>1
  <2>8. CASE Leaves(c)
    <3>1. /\ file' = file /\ shown' = shown /\ cmd[c].step \in Inside /\ Rest(c)
          /\ cmd[c].op = "claim" /\ file[M(c)][Claimed] # 0 => Onward(c, "show")
      BY <2>8 DEF Leaves, Onward
    <3>2. Shows(n) => Shows(n)'
      BY <3>1, SameOthers DEF Shows, At, Rest, Inside
    <3>3. Claims(n) /\ file[n][Claimed] # 0 => Claims(n)' \/ Shows(n)'
      <4> SUFFICES ASSUME NEW d \in Cmd, cmd[d].step \in Inside, cmd[d].op = "claim", M(d) = n,
                          file[n][Claimed] # 0
                   PROVE  Shows(n)'
        BY DEF Claims
      <4>1. d = c
        BY <3>1, OneInside
      <4>2. Onward(c, "show")
        BY <3>1, <4>1
      <4>3. M(c)' = n /\ cmd'[c].step = "show"
        BY <4>1, <4>2, SameEnds DEF Onward
      <4>4. QED
        BY <4>3 DEF Shows, At
    <3>4. QED
      BY <1>3, <3>1, <3>2, <3>3
  <2>9. CASE TakesBack(c)
    BY <2>9 DEF TakesBack
  <2>10. CASE Removes(c)
    <3>1. /\ cmd[c].step \in Inside /\ M(c) \in Msg /\ disk' = disk /\ shown' = shown
          /\ Put(M(c), Src(c), 0) /\ \E s \in Inside : Onward(c, s)
      BY <2>2, <2>10 DEF Removes, Inside
    <3>2. Writes(M(c), Src(c), 0)
      BY <2>1, <3>1, Putting
    <3>3. \A x \in Place : file'[n][x] # 0 => file[n][x] # 0
      BY <3>2 DEF Writes
    <3>4. /\ n \in shown \/ Shows(n) => n \in shown' \/ Shows(n)'
          /\ Claims(n) => Claims(n)'
      BY <2>5, <3>1
    <3>5. QED
      BY <1>3, <1>4, <3>3, <3>4
  <2>11. QED
    BY <1>5, <2>3, <2>4, <2>6, <2>7, <2>8, <2>9, <2>10 DEF Walks
<1>6. ASSUME NEW m \in Msg, SendStep(m)
      PROVE  /\ file'[n][Claimed] # 0 => n \in shown' \/ Shows(n)' \/ Claims(n)'
             /\ \A t \in Sec : file'[n][Archive(t)] # 0 => n \in shown' \/ Shows(n)'
  <2>1. UNCHANGED <<cmd, shown>>
    BY <1>6, Senders
  <2>2. (Shows(n)' <=> Shows(n)) /\ (Claims(n)' <=> Claims(n))
    BY <2>1 DEF Shows, Claims, At, M
  <2>3. \A x \in Place : x = Inbox \/ file'[n][x] = file[n][x]
    BY <1>6, Senders DEF Writes
  <2>4. QED
    BY <1>3, <1>4, <2>1, <2>2, <2>3
<1>7. CASE PowerCut
  BY <1>7, Cutting
<1>8. CASE Tick
  <2>1. UNCHANGED <<file, cmd, shown>>
    BY <1>8 DEF Tick
  <2>2. (Shows(n)' <=> Shows(n)) /\ (Claims(n)' <=> Claims(n))
    BY <2>1 DEF Shows, Claims, At, M
  <2>3. QED
    BY <1>3, <2>1, <2>2
<1>9. QED
  BY <1>5, <1>6, <1>7, <1>8, Cases

-----------------------------------------------------------------------------
(* What was shown is held *)

\* One command at a time, as the fence of a lane that is served promises; or
\* nothing that is ever taken back.
Calm == Errors = 0 /\ Cuts = 0
Alone == \A c, d \in Cmd : c = d

LEMMA ShownKeptStep ==
  ASSUME TypeOK, Locked, Lawful, Linked, Firm, ShownKept, Shape, Next, Calm \/ Alone
  PROVE  ShownKept'
<1>1. Locked' /\ Place' = Place /\ Inbox' = Inbox /\ Claimed' = Claimed
  BY LockedStep DEF Place, Sec, Inbox, Claimed
<1>2. Claimed \in Place /\ Claimed # Inbox
  BY Places
<1>3. \A n \in Msg, x \in Place : Held(n, x) <=> x # Inbox /\ file[n][x] # 0 /\ (Calm \/ ~Open(n, x))
  BY DEF Held, Open, Calm
<1>4. \A n \in Msg, x \in Place :
        Held(n, x)' <=> x # Inbox /\ file'[n][x] # 0 /\ (Calm \/ ~Open(n, x)')
  BY <1>1 DEF Held, Open, Calm
<1> SUFFICES ASSUME NEW n \in Msg, n \in shown' \/ Shows(n)'
             PROVE  \E x \in Place : Held(n, x)'
  BY <1>1 DEF ShownKept
<1>5. ASSUME n \in shown \/ Shows(n)
      PROVE  \E x \in Place : Held(n, x)'
  <2>1. PICK x \in Place : x # Inbox /\ file[n][x] # 0 /\ (Calm \/ ~Open(n, x))
    BY <1>3, <1>5 DEF ShownKept
  <2>2. CASE Stays
    BY <1>4, <2>1, <2>2 DEF Stays
  <2>3. ASSUME NEW m \in Msg, NEW pl \in Place, Adds(m, pl) PROVE \E y \in Place : Held(n, y)'
    <3>1. ~(n = m /\ x = pl)
      BY <2>1, <2>3 DEF Adds
    <3>2. file'[n][x] # 0 /\ ~Open(n, x)'
      BY <2>1, <2>3, <3>1 DEF Adds, Writes
    <3>3. QED
      BY <1>4, <2>1, <3>2
  <2>4. ASSUME NEW m \in Msg, NEW pl \in Place, Undoes(m, pl) PROVE \E y \in Place : Held(n, y)'
    <3>1. ~Calm
      BY <2>4 DEF Undoes, Calm
    <3>2. ~(n = m /\ x = pl)
      BY <2>1, <2>4, <3>1 DEF Undoes
    <3>3. file'[n][x] # 0 /\ ~Open(n, x)'
      BY <2>1, <2>4, <3>2 DEF Undoes, Writes
    <3>4. QED
      BY <1>4, <2>1, <3>3
  <2>5. ASSUME NEW m \in Msg, NEW src \in Place, NEW dst \in Place, Moves(m, src, dst)
        PROVE  \E y \in Place : Held(n, y)'
    <3> DEFINE y == IF n = m THEN dst ELSE x
    <3>1. y \in Place /\ y # Inbox /\ file'[n][y] # 0 /\ ~Open(n, y)'
      BY <2>1, <2>5 DEF Moves, Writes
    <3>2. QED
      BY <1>4, <3>1
  <2>6. CASE Cut
    <3>1. Cuts # 0 /\ ~Open(n, x)
      BY <2>1, <2>6 DEF Cut, Calm
    <3>2. disk[n][x] = file[n][x]
      BY <2>1, <3>1 DEF Firm, Lasts
    <3>3. file'[n][x] # 0 /\ ~Open(n, x)'
      BY <2>1, <2>6, <3>2 DEF Cut
    <3>4. QED
      BY <1>4, <2>1, <3>3
  <2>7. QED
    BY <2>2, <2>3, <2>4, <2>5, <2>6 DEF Shape
<1>6. ASSUME NEW c \in Cmd, Walks(c), ~(n \in shown \/ Shows(n))
      PROVE  \E x \in Place : Held(n, x)'
  <2>1. CASE Outside(c)
    <3>1. file' = file /\ Rest(c) /\ cmd[c].step \notin Inside /\ cmd'[c].step \in {"list", "want"}
      BY <2>1 DEF Outside
    <3>2. ~Shows(n)'
      BY <1>6, <3>1, SameOthers DEF Shows, At, Rest
    <3>3. file[n][Claimed] # 0
      BY <1>6, <2>1, <3>2 DEF Outside, Shows, At
    <3>4. Alone => ~Open(n, Claimed)'
      <4>1. Alone => \A d \in Cmd : cmd'[d].step # "sync"
        BY <3>1 DEF Alone
      <4>2. QED
        BY <1>1, <1>2, <4>1 DEF Open, Tentative, At
    <3>5. QED
      BY <1>2, <1>4, <3>1, <3>3, <3>4
  <2>2. CASE Leaves(c) /\ Onward(c, "show")
    <3>1. shown' = shown /\ file' = file /\ lock' = Free /\ file[M(c)][Claimed] # 0
      BY <1>6, <2>2 DEF Leaves, Onward, Shows, At
    <3>2. M(c) = n
      BY <1>6, <2>2, <3>1, SameEnds DEF Shows, At, Onward, Rest
    <3>3. ~Open(n, Claimed)'
      BY <1>1, <1>2, <3>1, OpenFree
    <3>4. QED
      BY <1>2, <1>4, <3>1, <3>2, <3>3
  <2>3. CASE \/ Enters(c) \/ Links(c) \/ Passes(c) \/ TakesBack(c) \/ Removes(c)
             \/ Leaves(c) /\ ~Onward(c, "show")
    <3>1. shown' = shown /\ Rest(c) /\ cmd'[c].step # "show"
      BY <2>3 DEF Enters, Links, Passes, TakesBack, Removes, Leaves, Onward
    <3>2. QED
      BY <1>6, <3>1, SameOthers DEF Shows, At, Rest
  <2>4. QED
    BY <1>6, <2>1, <2>2, <2>3 DEF Walks
<1>7. ASSUME NEW m \in Msg, SendStep(m) PROVE n \in shown \/ Shows(n)
  <2>1. UNCHANGED <<cmd, shown>>
    BY <1>7, Senders
  <2>2. QED
    BY <2>1 DEF Shows, At, M
<1>8. CASE PowerCut
  <2>1. shown' = shown /\ \A c \in Cmd : cmd'[c] = Idle
    BY <1>8, Cutting
  <2>2. ~Shows(n)'
    BY <2>1 DEF Shows, At, Idle
  <2>3. QED
    BY <1>5, <2>1, <2>2
<1>9. CASE Tick
  <2>1. UNCHANGED <<cmd, shown>>
    BY <1>9 DEF Tick
  <2>2. n \in shown \/ Shows(n)
    BY <2>1 DEF Shows, At, M
  <2>3. QED
    BY <1>5, <2>2
<1>10. QED
  BY <1>5, <1>6, <1>7, <1>8, <1>9, Cases

-----------------------------------------------------------------------------
(* The invariants *)

LEMMA InitInv == Init => KeepInv /\ ShownKept
<1> SUFFICES ASSUME Init PROVE KeepInv /\ ShownKept
  OBVIOUS
<1>1. PICK R \in SUBSET {m \in Msg : Kind[m] \in {"good", "toobig"}} :
        /\ file = [m \in Msg |-> [pl \in Place |->
                     IF m \in R /\ pl = Claimed THEN 1 ELSE 0]]
        /\ landed = [m \in Msg |-> IF m \in R THEN 1 ELSE 0]
        /\ accepted = R /\ shown = R
  BY DEF Init
<1>2. /\ disk = file /\ sec = 0 /\ lock = Free
      /\ cmd = [c \in Cmd |-> Idle]
      /\ faults = [k \in {"kill", "cut", "error"} |-> 0]
  BY DEF Init
<1>3. /\ \A n \in R : n \in Msg
      /\ \A n \in Msg, x \in Place : file[n][x] = IF n \in R /\ x = Claimed THEN 1 ELSE 0
  BY <1>1
<1>4. Idle \in Command /\ Idle.step = "list" /\ Idle.op = "none" /\ Legal(Idle)
  BY DEF Idle, Command, Stages, Steps, Sec, Legal
<1>5. \A c \in Cmd : cmd[c] = Idle
  BY <1>2
<1>6. Locked
  BY <1>2, <1>4, <1>5 DEF Locked, Inside
<1>7. \A n \in Msg, x \in Place : ~Open(n, x)
  BY <1>2, <1>6, OpenFree
<1>8. TypeOK
  <2>1. file \in [Msg -> [Place -> Nat]] /\ landed \in [Msg -> Nat]
    BY <1>1
  <2>2. \A n \in Msg : /\ landed[n] \in 0..MaxLand[n]
                       /\ \A x \in Place : {file[n][x], disk[n][x]} \subseteq 0..landed[n]
    <3> TAKE n \in Msg
    <3>1. MaxLand[n] \in Nat \ {0} /\ landed[n] = IF n \in R THEN 1 ELSE 0
      BY <1>1
    <3>2. \A x \in Place : file[n][x] \in 0..landed[n] /\ disk[n][x] \in 0..landed[n]
      BY <1>2, <1>3, <3>1
    <3>3. QED
      BY <3>1, <3>2
  <2>3. QED
    BY <1>1, <1>2, <1>4, <2>1, <2>2 DEF TypeOK, Sec
<1>9. Lawful /\ Linked /\ Landing
  BY <1>2, <1>4, <1>5 DEF Lawful, Linked, Landing, Inside
<1>10. FinalFresh
  BY <1>2, <1>3, <1>7, Places DEF FinalFresh, Final
<1>11. Single
  BY <1>3 DEF Single
<1>12. Seen
  <2>1. \A t \in Sec : Archive(t) \in Place /\ Archive(t) # Claimed
    BY Places DEF Final
  <2>2. \A n \in Msg : /\ file[n][Claimed] # 0 => n \in shown
                       /\ \A t \in Sec : file[n][Archive(t)] = 0
    BY <1>1, <1>3, <2>1, Places
  <2>3. QED
    BY <2>2 DEF Seen
<1>13. \A n \in R : n \in Msg /\ file[n][Claimed] # 0
  <2> TAKE n \in R
  <2>1. n \in Msg /\ Claimed \in Place
    BY <1>3, Places
  <2>2. file[n][Claimed] = 1
    BY <1>3, <2>1
  <2>3. QED
    BY <2>1, <2>2
<1>14. \A n \in R : n \in Lasting
  BY <1>13, <1>7, Places DEF Lasting, Lasts
<1>15. Firm
  BY <1>2 DEF Firm
<1>16. OnDisk
  BY <1>2, <1>3, <1>14 DEF OnDisk
<1>17. Kept
  BY <1>1, <1>4, <1>5, <1>14 DEF Kept, At
<1>18. ShownKept
  <2>1. \A n \in Msg : ~Shows(n)
    BY <1>4, <1>5 DEF Shows, At
  <2>2. \A n \in R : Held(n, Claimed)
    <3>1. \A n \in R : ~Open(n, Claimed)
      BY <1>7, <1>13, Places
    <3>2. QED
      BY <1>13, <3>1, Places DEF Held, Open
  <2>3. QED
    BY <1>1, <2>1, <2>2, Places DEF ShownKept
<1>19. QED
  BY <1>6, <1>8, <1>9, <1>10, <1>11, <1>12, <1>15, <1>16, <1>17, <1>18 DEF KeepInv, BaseInv

LEMMA BaseStep ==
  ASSUME BaseInv, [Next]_vars
  PROVE  BaseInv'
<1> USE DEF BaseInv
<1>1. CASE Next
  <2>1. Shape
    BY <1>1, Shapes
  <2>2. TypeOK' /\ Locked' /\ Lawful' /\ Linked' /\ Landing'
    BY <1>1, TypeStep, LockedStep, LawfulStep, LinkedStep, LandingStep
  <2>3. FinalFresh' /\ Single' /\ Seen'
    BY <1>1, <2>1, FinalFreshStep, SingleStep, SeenStep
  <2>4. QED
    BY <2>2, <2>3
<1>2. CASE UNCHANGED vars
  <2>1. TypeOK'
    BY <1>2 DEF vars, TypeOK
  <2>2. Locked' /\ Lawful' /\ Linked' /\ Landing'
    BY <1>2 DEF vars, Locked, Lawful, Linked, Landing, M, Src, Dst
  <2>3. FinalFresh'
    BY <1>2 DEF vars, FinalFresh, Open, Tentative, At, M, Dst, Final
  <2>4. Single'
    BY <1>2 DEF vars, Single, Faultless, M, Src, Dst
  <2>5. Seen'
    BY <1>2 DEF vars, Seen, Faultless, Shows, Claims, At, M
  <2>6. QED
    BY <2>1, <2>2, <2>3, <2>4, <2>5
<1>3. QED
  BY <1>1, <1>2

\* What lasts, where power is not cut or nobody is killed.
LEMMA KeepStep ==
  ASSUME Cuts = 0 \/ Kills = 0, KeepInv, [Next]_vars
  PROVE  KeepInv'
<1>1. BaseInv' /\ BaseInv /\ Firm /\ OnDisk /\ Kept
  BY BaseStep DEF KeepInv
<1>2. CASE Next
  <2>1. Shape
    BY <1>1, <1>2, Shapes DEF BaseInv
  <2>2. Firm' /\ OnDisk' /\ Kept'
    BY <1>1, <1>2, <2>1, FirmStep, OnDiskStep, KeptStep DEF BaseInv
  <2>3. QED
    BY <1>1, <2>2 DEF KeepInv
<1>3. CASE UNCHANGED vars
  <2>1. (Lasting' = Lasting) /\ Firm'
    BY <1>1, <1>3 DEF vars, Lasting, Lasts, Firm, Open, Tentative, At, M, Dst
  <2>2. OnDisk' /\ Kept'
    BY <1>1, <1>3, <2>1 DEF vars, OnDisk, Kept, At, M
  <2>3. QED
    BY <1>1, <2>1, <2>2 DEF KeepInv
<1>4. QED
  BY <1>2, <1>3

LEMMA ShownStep ==
  ASSUME Cuts = 0 \/ Kills = 0, Calm \/ Alone, KeepInv, ShownKept, [Next]_vars
  PROVE  ShownKept'
<1>1. BaseInv /\ Firm
  BY DEF KeepInv
<1>2. CASE Next
  <2>1. Shape
    BY <1>1, <1>2, Shapes DEF BaseInv
  <2>2. QED
    BY <1>1, <1>2, <2>1, ShownKeptStep DEF BaseInv
<1>3. CASE UNCHANGED vars
  BY <1>3 DEF vars, ShownKept, Shows, Held, Tentative, At, M, Dst
<1>4. QED
  BY <1>2, <1>3

-----------------------------------------------------------------------------
(* The theorems *)

LEMMA Inductive == Spec => []BaseInv
<1>1. Init => BaseInv
  BY InitInv DEF KeepInv
<1>2. BaseInv /\ [Next]_vars => BaseInv'
  BY BaseStep
<1>3. QED
  BY <1>1, <1>2, PTL DEF Spec

\* Every reachable state has its type: an entry is an inode that landed, a
\* command is in one of its loops and steps.
THEOREM TypeCorrect == Spec => []TypeOK
<1>1. BaseInv => TypeOK
  BY DEF BaseInv
<1>2. QED
  BY <1>1, Inductive, PTL

\* Without a fault a message that landed once is in one place whenever nobody
\* is inside the lock, however many checks and acks run at once.
THEOREM OnePlaceAlways == Spec => []OnePlace
<1>1. BaseInv => OnePlace
  <2> SUFFICES ASSUME BaseInv, lock = Free, \A k \in DOMAIN faults : faults[k] = 0,
                      NEW m \in Msg, landed[m] = 1, NEW x \in Place, NEW y \in Place,
                      file[m][x] # 0, file[m][y] # 0
               PROVE  x = y
    BY DEF OnePlace
  <2>1. \A c \in Cmd : cmd[c].step \notin Inside
    BY NoneInside DEF BaseInv
  <2>2. QED
    BY <2>1 DEF BaseInv, Single, Faultless, Inside
<1>2. QED
  BY <1>1, Inductive, PTL

\* Without a fault nothing is archived that was not displayed, or is about to
\* be by the check that claimed it.
THEOREM CommittedWasSeen == Spec => []CommittedSeen
<1>1. BaseInv => CommittedSeen
  BY DEF BaseInv, Seen, CommittedSeen, Faultless, Shows
<1>2. QED
  BY <1>1, Inductive, PTL

\* What was archived or quarantined, and synced, is neither overwritten nor
\* removed, whatever is killed, fails or is cut (linkNoClobber).
THEOREM ArchiveStays == Spec => ArchiveImmutable
<1> DEFINE A == \A m \in Msg : \A t \in Sec : \A pl \in {Archive(t), Malformed(t)} :
                  file[m][pl] # 0 /\ disk[m][pl] = file[m][pl] => file'[m][pl] = file[m][pl]
<1>1. BaseInv /\ [Next]_vars => A
  <2> SUFFICES ASSUME BaseInv, [Next]_vars, NEW n \in Msg, NEW x \in Final,
                      file[n][x] # 0, disk[n][x] = file[n][x]
               PROVE  file'[n][x] = file[n][x]
    BY Places
  <2>1. x \in Place /\ ~Open(n, x)
    BY DEF BaseInv, FinalFresh, Final
  <2>2. CASE UNCHANGED vars
    BY <2>2 DEF vars
  <2>3. CASE Next
    <3>1. Shape
      BY <2>3, Shapes DEF BaseInv
    <3>2. ASSUME NEW m \in Msg, NEW pl \in Place, Adds(m, pl) \/ Undoes(m, pl)
          PROVE  file'[n][x] = file[n][x]
      <4>1. ~(n = m /\ x = pl)
        BY <2>1, <3>2 DEF Adds, Undoes
      <4>2. QED
        BY <2>1, <3>2, <4>1 DEF Adds, Undoes, Writes
    <3>3. ASSUME NEW m \in Msg, NEW src \in Place, NEW dst \in Place, Moves(m, src, dst)
          PROVE  file'[n][x] = file[n][x]
      BY <2>1, <3>3 DEF Moves, Writes
    <3>4. QED
      BY <2>1, <3>1, <3>2, <3>3 DEF Shape, Stays, Cut
  <2>4. QED
    BY <2>2, <2>3
<1>2. Spec => [][A]_vars
  BY <1>1, Inductive, PTL DEF Spec
<1>3. QED
  BY <1>2 DEF ArchiveImmutable

LEMMA Keeps == ASSUME Cuts = 0 \/ Kills = 0 PROVE Spec => []KeepInv
<1>1. Init => KeepInv
  BY InitInv
<1>2. KeepInv /\ [Next]_vars => KeepInv'
  BY KeepStep
<1>3. QED
  BY <1>1, <1>2, PTL DEF Spec

\* A delivered message is never lost, as long as power is not cut or nobody
\* is killed: both together lose one, a check killed before its sync being
\* taken at its word by the next.
THEOREM NothingLost == ASSUME Cuts = 0 \/ Kills = 0 PROVE Spec => []NoLoss
<1>1. KeepInv => NoLoss
  BY DEF KeepInv, BaseInv, TypeOK, Kept, NoLoss, Lasting, Lasts
<1>2. QED
  BY <1>1, Keeps, PTL

\* A delivered message has a place, and without a fault one place only.
THEOREM AlwaysPlaced == ASSUME Cuts = 0 \/ Kills = 0 PROVE Spec => []Placed
<1>1. Spec => [](NoLoss /\ OnePlace)
  BY NothingLost, OnePlaceAlways, PTL
<1>2. QED
  BY <1>1 DEF Placed

\* What was displayed and not committed is still claimed, if commands run one
\* at a time, or no link is ever taken back.
THEOREM ShownIsHeld ==
  ASSUME Cuts = 0 \/ Kills = 0, Calm \/ Alone
  PROVE  Spec => []ShownHeld
<1>1. Init => KeepInv /\ ShownKept
  BY InitInv
<1>2. KeepInv /\ ShownKept /\ [Next]_vars => (KeepInv /\ ShownKept)'
  BY KeepStep, ShownStep
<1>3. KeepInv /\ ShownKept => ShownHeld
  <2> SUFFICES ASSUME KeepInv, ShownKept, NEW m \in shown
               PROVE  file[m][Claimed] # 0 \/ Settled(m)
    BY DEF ShownHeld
  <2>1. m \in Msg
    BY DEF KeepInv, BaseInv, TypeOK
  <2>2. PICK x \in Place : x # Inbox /\ file[m][x] # 0
    BY <2>1 DEF ShownKept, Held
  <2>3. x = Claimed \/ x \in Final
    BY <2>2, Places
  <2>4. QED
    BY <2>1, <2>2, <2>3, Finally
<1>4. QED
  BY <1>1, <1>2, <1>3, PTL DEF Spec

\* What was accepted, displayed or archived survives I/O errors and either
\* kills or power cuts.
THEOREM Survives ==
  ASSUME Cuts = 0 \/ Kills = 0, Calm \/ Alone
  PROVE  Spec => Durable
<1>1. Spec => [](NoLoss /\ ShownHeld)
  BY NothingLost, ShownIsHeld, PTL
<1>2. QED
  BY <1>1, ArchiveStays DEF Durable

-----------------------------------------------------------------------------
(* The directories implement Delivery *)

Ended == {m \in Msg : \E pl \in Final : Lasts(m, pl)}

\* What the refinement calls held and settled, in terms of lasting entries.
LEMMA Standing ==
  /\ Firm => StandsSettled = Ended /\ StandsHeld = Lasting \ Ended
  /\ Firm' => StandsSettled' = Ended' /\ StandsHeld' = (Lasting \ Ended)'
<1>1. /\ Place' = Place /\ Final' = Final /\ Inbox' = Inbox /\ Claimed' = Claimed
      /\ Sec' = Sec /\ \A t \in Sec : Archive(t)' = Archive(t) /\ Malformed(t)' = Malformed(t)
  BY DEF Place, Sec, Final, Inbox, Claimed, Archive, Malformed
<1>2. \A pl \in Final : pl \in Place /\ pl # Inbox
  BY DEF Final
<1>3. Firm => \A m \in Msg, pl \in Place :
                Lasts(m, pl) <=> Stands(m, pl) /\ ~(pl = Inbox /\ lock = m)
  BY DEF Firm, Lasts, Stands, Open
<1>4. Firm' => \A m \in Msg, pl \in Place :
                 Lasts(m, pl)' <=> Stands(m, pl)' /\ ~(pl = Inbox /\ lock' = m)
  BY <1>1 DEF Firm, Lasts, Stands, Open
<1>5. Firm => StandsSettled = Ended
  BY <1>2, <1>3, Places DEF StandsSettled, Ended
<1>6. Firm' => StandsSettled' = Ended'
  BY <1>1, <1>2, <1>4, Places DEF StandsSettled, Ended
<1>7. Firm => \A m \in Msg \ Ended :
                m \in Lasting <=> Stands(m, Claimed) \/ (lock # m /\ Stands(m, Inbox))
  BY <1>3, Places DEF Lasting, Ended
<1>8. Firm' => \A m \in Msg \ Ended' :
                 m \in Lasting' <=> Stands(m, Claimed)' \/ (lock' # m /\ Stands(m, Inbox)')
  BY <1>1, <1>4, Places DEF Lasting, Ended
<1>9. Firm => StandsHeld = Lasting \ Ended
  BY <1>5, <1>7 DEF StandsHeld, Lasting
<1>10. Firm' => StandsHeld' = (Lasting \ Ended)'
  BY <1>1, <1>6, <1>8 DEF StandsHeld, Lasting
<1>11. QED
  BY <1>5, <1>6, <1>9, <1>10

\* Nobody but the holder of the lock has an open entry, and only one.
LEMMA OneOpen ==
  ASSUME Locked, NEW m \in Msg, NEW x \in Place, NEW n \in Msg, NEW y \in Place,
         Open(m, x), Open(n, y)
  PROVE  m = n /\ x = y
<1>1. CASE \E c \in Cmd : cmd[c].step \in Inside
  <2>1. PICK c \in Cmd : cmd[c].step \in Inside
    BY <1>1
  <2>2. M(c) = m /\ Dst(c) = x /\ M(c) = n /\ Dst(c) = y
    BY <2>1, OpenHolder
  <2>3. QED
    BY <2>2
<1>2. CASE ~\E c \in Cmd : cmd[c].step \in Inside
  <2>1. ~Tentative(m, x) /\ ~Tentative(n, y)
    BY <1>2 DEF Tentative, At, Inside
  <2>2. QED
    BY <2>1 DEF Open
<1>3. QED
  BY <1>1, <1>2

\* The message of a link that may be taken back still has its old name.
LEMMA LinkOfLasting ==
  ASSUME TypeOK, Locked, Lawful, Linked, NEW m \in Msg, NEW x \in Place,
         Open(m, x), x # Inbox
  PROVE  m \in Lasting
<1>1. PICK c \in Cmd : cmd[c].step = "sync" /\ M(c) = m /\ Dst(c) = x
  BY DEF Open, Tentative, At
<1>2. Src(c) \in Place /\ Src(c) # x
  BY <1>1, Ends DEF Lawful
<1>3. file[m][Src(c)] # 0
  BY <1>1 DEF Linked
<1>4. ~Open(m, Src(c))
  BY <1>1, <1>2, OpenHolder DEF Inside
<1>5. QED
  BY <1>2, <1>3, <1>4 DEF Lasting, Lasts

\* An entry that begins to last was open.
LEMMA NewLasts ==
  ASSUME TypeOK, Firm, OnDisk, FinalFresh, Shape, NEW n \in Msg, NEW x \in Place,
         Lasts(n, x)', x \in Final \/ n \notin Lasting
  PROVE  Lasts(n, x) \/ Open(n, x)
<1>1. file'[n][x] # 0 /\ ~Open(n, x)'
  BY DEF Lasts
<1>2. SUFFICES file[n][x] # 0
  BY DEF Lasts
<1>3. CASE Stays
  BY <1>1, <1>3 DEF Stays
<1>4. ASSUME NEW m \in Msg, NEW pl \in Place, Adds(m, pl) PROVE file[n][x] # 0
  BY <1>1, <1>4 DEF Adds, Writes
<1>5. ASSUME NEW m \in Msg, NEW pl \in Place, Undoes(m, pl) PROVE file[n][x] # 0
  BY <1>1, <1>5 DEF Undoes, Writes
<1>6. ASSUME NEW m \in Msg, NEW src \in Place, NEW dst \in Place, Moves(m, src, dst)
      PROVE  file[n][x] # 0
  BY <1>1, <1>6 DEF Moves, Writes
<1>7. CASE Cut
  <2>1. n \notin Lasting => disk[n][x] = 0
    BY DEF OnDisk
  <2>2. x \in Final /\ file[n][x] = 0 => disk[n][x] = 0
    BY DEF FinalFresh
  <2>3. QED
    BY <1>1, <1>7, <2>1, <2>2 DEF Cut
<1>8. QED
  BY <1>3, <1>4, <1>5, <1>6, <1>7 DEF Shape

\* What ended stays ended.
LEMMA EndedStep ==
  ASSUME TypeOK, Firm, Shape, NEW n \in Ended
  PROVE  n \in Ended'
<1>1. n \in Msg /\ Final' = Final
  BY DEF Ended, Final, Place, Sec, Inbox, Claimed
<1>2. PICK x \in Final : x \in Place /\ Lasts(n, x)
  BY DEF Ended, Final
<1> SUFFICES file'[n][x] # 0 /\ ~Open(n, x)'
  BY <1>1 DEF Ended, Lasts
<1>3. file[n][x] # 0 /\ ~Open(n, x)
  BY <1>2 DEF Lasts
<1>4. CASE Stays
  BY <1>1, <1>2, <1>3, <1>4 DEF Stays
<1>5. ASSUME NEW m \in Msg, NEW pl \in Place, Adds(m, pl)
      PROVE  file'[n][x] # 0 /\ ~Open(n, x)'
  <2>1. ~(n = m /\ x = pl)
    BY <1>3, <1>5 DEF Adds
  <2>2. QED
    BY <1>1, <1>2, <1>3, <1>5, <2>1 DEF Adds, Writes
<1>6. ASSUME NEW m \in Msg, NEW pl \in Place, Undoes(m, pl)
      PROVE  file'[n][x] # 0 /\ ~Open(n, x)'
  <2>1. ~(n = m /\ x = pl)
    BY <1>2, <1>3, <1>6 DEF Undoes
  <2>2. QED
    BY <1>1, <1>2, <1>3, <1>6, <2>1 DEF Undoes, Writes
<1>7. ASSUME NEW m \in Msg, NEW src \in Place, NEW dst \in Place, Moves(m, src, dst)
      PROVE  file'[n][x] # 0 /\ ~Open(n, x)'
  BY <1>1, <1>2, <1>3, <1>7 DEF Moves, Writes
<1>8. CASE Cut
  <2>1. Cuts # 0
    BY <1>8 DEF Cut
  <2>2. disk[n][x] = file[n][x]
    BY <1>1, <1>2, <2>1, Zenon DEF Firm
  <2>3. QED
    BY <1>1, <1>2, <1>3, <1>8, <2>2 DEF Cut
<1>9. QED
  BY <1>4, <1>5, <1>6, <1>7, <1>8 DEF Shape

\* A step shows one message that lasts, or shows none.
LEMMA ShowsLasting ==
  ASSUME KeepInv, Next
  PROVE  \/ shown' = shown
         \/ /\ \E m \in Lasting : shown' = shown \cup {m}
            /\ Lasting' = Lasting /\ Ended' = Ended
<1>1. TypeOK /\ Locked /\ Lawful /\ Linked /\ Kept
  BY DEF KeepInv, BaseInv
<1>2. ASSUME NEW c \in Cmd, Outside(c), shown' # shown
      PROVE  /\ \E m \in Lasting : shown' = shown \cup {m}
             /\ Lasting' = Lasting /\ Ended' = Ended
  <2>1. file' = file /\ Place' = Place /\ Final' = Final
    BY <1>2 DEF Outside, Place, Sec, Final, Inbox, Claimed
  <2>2. \A n \in Msg, x \in Place : Lasts(n, x)' <=> Lasts(n, x)
    BY <1>2, <2>1, OpenOutside DEF Lasts
  <2>3. Lasting' = Lasting
    BY <2>1, <2>2 DEF Lasting
  <2>4. Ended' = Ended
    BY <2>1, <2>2 DEF Ended, Final
  <2>5. PICK m \in Msg : /\ shown' = shown \cup {m}
                         /\ \/ cmd[c].step = "show" /\ m = M(c)
                            \/ file[m][Claimed] # 0
    BY <1>2 DEF Outside
  <2>6. m \in Lasting
    <3>1. CASE cmd[c].step = "show" /\ m = M(c)
      BY <1>1, <3>1 DEF Kept, At
    <3>2. CASE file[m][Claimed] # 0
      BY <1>1, <3>2, LinkOfLasting, Places DEF Lasting, Lasts
    <3>3. QED
      BY <2>5, <3>1, <3>2
  <2>7. QED
    BY <2>3, <2>4, <2>5, <2>6
<1>3. ASSUME NEW c \in Cmd, Walks(c), ~Outside(c)
      PROVE  shown' = shown
  BY <1>3 DEF Walks, Enters, Links, Passes, Leaves, TakesBack, Removes
<1>4. QED
  BY <1>1, <1>2, <1>3, Cases, Senders, Cutting DEF Tick

\* The directories implement Delivery: what lasts is held, or settled once it
\* lasts in a final place; it is delivered, settled and shown one at a time,
\* shown only while it lasts, and never unsettled.
THEOREM MailIsDelivery == ASSUME Cuts = 0 \/ Kills = 0 PROVE Spec => PromiseSpec
<1> USE DEF Promise!Init, Promise!Next, Promise!Deliver, Promise!Show, Promise!Settle,
            Promise!vars
<1>1. Init => Promise!Init
  <2> SUFFICES ASSUME Init PROVE Promise!Init
    OBVIOUS
  <2>1. KeepInv
    BY InitInv
  <2>2. StandsSettled = Ended /\ StandsHeld = Lasting \ Ended
    BY <2>1, Standing DEF KeepInv
  <2>3. accepted \subseteq Lasting /\ shown = accepted
    BY <2>1 DEF KeepInv, Kept, Init
  <2>4. Ended = {}
    <3>1. \A m \in Msg : \A x \in Final : file[m][x] = 0
      BY DEF Init, Final
    <3>2. QED
      BY <3>1 DEF Ended, Lasts
  <2>5. StandsHeld \subseteq Msg
    BY DEF StandsHeld
  <2>6. QED
    BY <2>2, <2>3, <2>4, <2>5
<1>2. KeepInv /\ [Next]_vars => [Promise!Next]_(Promise!vars)
  <2> SUFFICES ASSUME KeepInv, [Next]_vars PROVE [Promise!Next]_(Promise!vars)
    OBVIOUS
  <2>1. CASE UNCHANGED vars
    BY <2>1 DEF vars, StandsHeld, StandsSettled, Stands, Tentative, At, M, Dst
  <2>2. CASE Next
    <3>1. TypeOK /\ Locked /\ Lawful /\ Linked /\ FinalFresh /\ Firm /\ OnDisk /\ Firm'
      BY KeepStep DEF KeepInv, BaseInv
    <3>2. Shape
      BY <2>2, <3>1, Shapes
    <3>3. /\ StandsSettled = Ended /\ StandsHeld = Lasting \ Ended
          /\ StandsSettled' = Ended' /\ StandsHeld' = Lasting' \ Ended'
      BY <3>1, Standing
    <3>4. /\ Lasting \subseteq Lasting' /\ Ended \subseteq Ended'
          /\ Lasting \subseteq Msg /\ Ended \subseteq Lasting /\ Ended' \subseteq Lasting'
          /\ Lasting' \subseteq Msg
      <4>1. Lasting \subseteq Lasting' /\ Ended \subseteq Ended'
        BY <3>1, <3>2, LastingStep, EndedStep
      <4>2. Place' = Place /\ Final' = Final
        BY DEF Place, Sec, Final, Inbox, Claimed
      <4>3. QED
        BY <4>1, <4>2 DEF Lasting, Ended, Final
    <3>5. ASSUME NEW n \in Lasting' \ Lasting
          PROVE  Open(n, Inbox) /\ n \notin Ended'
      <4>1. n \in Msg /\ \A x \in Place : ~Lasts(n, x)
        BY <3>4 DEF Lasting
      <4>2. \A x \in Place : Lasts(n, x)' => Open(n, x)
        BY <3>1, <3>2, <3>5, <4>1, NewLasts
      <4>3. \A x \in Place : Lasts(n, x)' => x = Inbox
        BY <3>1, <3>5, <4>1, <4>2, LinkOfLasting
      <4>4. Place' = Place /\ Final' = Final /\ \A x \in Final : x \in Place /\ x # Inbox
        BY DEF Place, Sec, Final, Inbox, Claimed
      <4>5. QED
        BY <3>5, <4>2, <4>3, <4>4 DEF Lasting, Ended
    <3>6. ASSUME NEW n \in Ended' \ Ended
          PROVE  \E x \in Final : Open(n, x)
      <4>1. Final' = Final /\ n \in Msg /\ \A x \in Final : x \in Place /\ ~Lasts(n, x)
        BY <3>4, <3>6 DEF Ended, Final, Place, Sec, Inbox, Claimed
      <4>2. PICK x \in Final : Lasts(n, x)'
        BY <3>6, <4>1 DEF Ended
      <4>3. QED
        BY <3>1, <3>2, <4>1, <4>2, NewLasts
    <3>7. \A x \in Final : x \in Place /\ x # Inbox /\ Inbox \in Place
      BY Places DEF Final
    <3>8. CASE shown' # shown
      <4>1. PICK m \in Lasting : shown' = shown \cup {m} /\ Lasting' = Lasting /\ Ended' = Ended
        BY <2>2, <3>8, ShowsLasting
      <4>2. Promise!Show(m)
        BY <3>3, <3>4, <4>1
      <4>3. QED
        BY <3>4, <4>1, <4>2
    <3>9. ASSUME shown' = shown, NEW n \in Lasting' \ Lasting
          PROVE  Promise!Next
      <4>1. \A m \in Lasting' \ Lasting : m = n
        BY <3>1, <3>4, <3>5, <3>7, <3>9, OneOpen, Places
      <4>2. Ended' = Ended
        <5>1. SUFFICES ASSUME NEW k \in Ended' \ Ended PROVE FALSE
          BY <3>4
        <5>2. PICK x \in Final : Open(k, x)
          BY <3>6
        <5>3. k \in Msg /\ n \in Msg /\ x \in Place /\ x # Inbox /\ Inbox \in Place
          BY <3>4, <3>7
        <5>4. Open(n, Inbox)
          BY <3>5, <3>9
        <5>5. QED
          BY <3>1, <5>2, <5>3, <5>4, OneOpen
      <4>3. n \notin Ended'
        BY <3>5, <3>9
      <4>4. Promise!Deliver(n)
        BY <3>3, <3>4, <3>9, <4>1, <4>2, <4>3
      <4>5. QED
        BY <3>4, <3>9, <4>4
    <3>10. ASSUME shown' = shown, Lasting' = Lasting, NEW n \in Ended' \ Ended
           PROVE  Promise!Next
      <4>1. \A m \in Ended' \ Ended : m = n
        BY <3>1, <3>4, <3>6, <3>7, <3>10, OneOpen
      <4>2. Promise!Settle(n)
        BY <3>3, <3>4, <3>10, <4>1
      <4>3. QED
        BY <3>4, <3>10, <4>2
    <3>11. CASE shown' = shown /\ Lasting' = Lasting /\ Ended' = Ended
      BY <3>3, <3>11
    <3>12. QED
      BY <3>4, <3>8, <3>9, <3>10, <3>11
  <2>3. QED
    BY <2>1, <2>2
<1>3. QED
  BY <1>1, <1>2, Keeps, PTL DEF Spec, PromiseSpec, Promise!Spec
=============================================================================
