------------------------------ MODULE ServeLease ------------------------------
(***************************************************************************)
(* The serve lease of one agent id: internal/loop/lease.go, the per-agent  *)
(* flock of internal/loop/filelock_unix.go, and the writers that check the *)
(* lease's token before they write (internal/loop/floor.go, seq.go,        *)
(* internal/op/consume_fence.go).                                          *)
(*                                                                         *)
(* Three kinds of process share the id's state directory: serve processes  *)
(* (acquire, renew, release), short-lived commands that inherited a serve  *)
(* token in their environment or carry none (send, check, ack), and an     *)
(* operator's setup/update (InvalidateAllServeLeases). A critical section  *)
(* is two steps: one takes the lock and reads, one writes and unlocks, so  *)
(* crashes, reboots, clock steps and other processes fall between them.    *)
(***************************************************************************)
EXTENDS Integers

CONSTANTS Proc,      \* serve process slots: a (host, pid) pair each
          Cmd,       \* short-lived commands
          Oper,      \* setup/update processes invalidating every lease
          Free,      \* the lock's value when nobody holds it
          Host,      \* hosts sharing the loop directory
          HostOf,    \* the host of a serve slot, a command or an operator
          PidOf,     \* the pid of a serve slot; a restarted slot recycles it
          Skew,      \* how far a host's clock runs ahead of the reference
          NoHost,    \* the host "" an older binary recorded
          Timeout,   \* leaseTimeout, in clock units
          MaxClock, MaxToken, MaxBoot   \* bounds of the model, not of the code

ASSUME ActorAssumption == /\ Free \notin Proc \cup Cmd \cup Oper
                          /\ Proc \cap Cmd = {}
                          /\ Oper \cap (Proc \cup Cmd) = {}
ASSUME HostAssumption == /\ HostOf \in [Proc \cup Cmd \cup Oper -> Host]
                         /\ PidOf \in [Proc -> Nat]
                         /\ Skew \in [Host -> Int]
                         /\ NoHost \notin Host
ASSUME PidAssumption == \A p, q \in Proc :
                          HostOf[p] = HostOf[q] /\ PidOf[p] = PidOf[q] => p = q
ASSUME BoundAssumption == /\ Timeout \in Nat \ {0}
                          /\ {MaxClock, MaxToken, MaxBoot} \subseteq Nat
                          /\ MaxToken > 0

VARIABLES clock,   \* reference wall clock; NTP may step it back
          boot,    \* the boot epoch of each host (platformBootRef)
          claim,   \* serve.claim: a claim record, NoClaim or Unreadable
          lock,    \* the holder of state/<id>/.lock, or Free
          minted,  \* how many tokens mintServeToken has returned
          pc, tok, view,          \* serve processes
          cpc, ctok, cnow,        \* commands
          opc, osnap,             \* InvalidateAllServeLeases
          spent, wrote            \* history: lost tokens, last fenced write

sysVars == <<clock, boot, minted>>
procVars == <<pc, tok, view>>
cmdVars == <<cpc, ctok, cnow>>
operVars == <<opc, osnap>>
vars == <<sysVars, claim, lock, procVars, cmdVars, operVars, spent, wrote>>

NoToken == 0
NoKey == -1                    \* a hub request without a serve_token key
Token == 1..MaxToken           \* serve tokens, in the order they are minted
NoBoot == 0                    \* readBootRef returned ""
NoClaim == [token |-> NoToken]
Unreadable == [token |-> NoToken, torn |-> TRUE]

Claims == [token : Token, host : Host \cup {NoHost}, pid : Nat,
           boot : Nat, seen : Int]

Now(h) == clock + Skew[h]
Readable(c) == c.token # NoToken

\* claimIsStale: a future-dated last_seen has a negative age and reads fresh.
Stale(c, now) == now - c.seen >= Timeout

\* VerifyFence: the claim is there, parses, and carries this token.
Owns(t) == Readable(claim) /\ claim.token = t

Running(p) == pc[p] # "down"
InLock == {"linking", "reclaiming", "renewing", "releasing"}
CmdInLock == {"minting", "consuming"}

\* pidAlive(pid) as seen on host h: any running slot there with that number.
PidAlive(h, pid) == \E q \in Proc : HostOf[q] = h /\ PidOf[q] = pid /\ Running(q)

\* The kernel drops a dead process's flock.
DropLock(a) == IF lock = a THEN Free ELSE lock

\* Every change of the claim file goes through here: the token it carried,
\* if it carried another one, is spent.
SetClaim(c) ==
  /\ claim' = c
  /\ spent' = IF Readable(claim) /\ c.token # claim.token
                THEN spent \cup {claim.token} ELSE spent

-----------------------------------------------------------------------------
(* AcquireServeLease *)

\* Mutant of Start: a relaunched slot keeps the token of its last run.
StartReusingToken(p) ==
  /\ pc[p] = "down" /\ minted < MaxToken
  /\ minted' = minted + 1
  /\ tok' = [tok EXCEPT ![p] = IF @ = NoToken THEN minted + 1 ELSE @]
  /\ pc' = [pc EXCEPT ![p] = "wait"]
  /\ UNCHANGED <<clock, boot, claim, lock, view, cmdVars, operVars, spent, wrote>>

\* The token is minted before the lock is asked for.
Start(p) ==
  /\ pc[p] = "down" /\ minted < MaxToken
  /\ minted' = minted + 1
  /\ tok' = [tok EXCEPT ![p] = minted + 1]
  /\ pc' = [pc EXCEPT ![p] = "wait"]
  /\ UNCHANGED <<clock, boot, claim, lock, view, cmdVars, operVars, spent, wrote>>

\* withAgentLock gives up after agentLockTimeout; the launch fails.
LockTimeout(p) ==
  /\ pc[p] = "wait" /\ lock # Free
  /\ pc' = [pc EXCEPT ![p] = "down"]
  /\ UNCHANGED <<sysVars, claim, lock, tok, view, cmdVars, operVars, spent, wrote>>

\* Under the lock: sample the boot reference (unreadable on some platforms)
\* and the time, and build the claim that will be written.
AcquireLock(p) ==
  /\ pc[p] = "wait" /\ lock = Free
  /\ lock' = p
  /\ \E b \in {boot[HostOf[p]], NoBoot} :
       view' = [view EXCEPT ![p] =
                  [token |-> tok[p], host |-> HostOf[p], pid |-> PidOf[p],
                   boot |-> b, seen |-> Now(HostOf[p])]]
  /\ pc' = [pc EXCEPT ![p] = "linking"]
  /\ UNCHANGED <<sysVars, claim, tok, cmdVars, operVars, spent, wrote>>

\* linkNoClobber succeeds: nobody holds the id.
AcquireLink(p) ==
  /\ pc[p] = "linking" /\ claim = NoClaim
  /\ SetClaim(view[p])
  /\ pc' = [pc EXCEPT ![p] = "serving"]
  /\ view' = [view EXCEPT ![p] = NoClaim]
  /\ lock' = Free
  /\ UNCHANGED <<sysVars, tok, cmdVars, operVars, wrote>>

\* Mutant of Protected: a claim without a host is taken for a foreign one.
ProtectedKnownHost(p) ==
  /\ PidAlive(HostOf[p], claim.pid)
  /\ claim.host = HostOf[p]
  /\ \/ claim.boot = NoBoot
     \/ view[p].boot = NoBoot
     \/ claim.boot = view[p].boot

\* The frozen-but-alive rule: pid alive here, and nothing proves that the
\* claim was written by another host or under an earlier boot.
Protected(p) ==
  /\ PidAlive(HostOf[p], claim.pid)
  /\ claim.host \in {NoHost, HostOf[p]}
  /\ \/ claim.boot = NoBoot
     \/ view[p].boot = NoBoot
     \/ claim.boot = view[p].boot

Reclaimable(p) == /\ Readable(claim)
                  /\ Stale(claim, Now(HostOf[p]))
                  /\ ~Protected(p)

\* EEXIST: unreadable, fresh, or stale but not provably dead. Fail closed.
AcquireRefused(p) ==
  /\ pc[p] = "linking" /\ claim # NoClaim /\ ~Reclaimable(p)
  /\ pc' = [pc EXCEPT ![p] = "down"]
  /\ view' = [view EXCEPT ![p] = NoClaim]
  /\ lock' = Free
  /\ UNCHANGED <<sysVars, claim, tok, cmdVars, operVars, spent, wrote>>

AcquireDecide(p) ==
  /\ pc[p] = "linking" /\ claim # NoClaim /\ Reclaimable(p)
  /\ pc' = [pc EXCEPT ![p] = "reclaiming"]
  /\ UNCHANGED <<sysVars, claim, lock, tok, view, cmdVars, operVars, spent, wrote>>

\* atomicWriteFile over the stale claim.
AcquireRename(p) ==
  /\ pc[p] = "reclaiming"
  /\ SetClaim(view[p])
  /\ pc' = [pc EXCEPT ![p] = "serving"]
  /\ view' = [view EXCEPT ![p] = NoClaim]
  /\ lock' = Free
  /\ UNCHANGED <<sysVars, tok, cmdVars, operVars, wrote>>

-----------------------------------------------------------------------------
(* RenewLease and ReleaseLease *)

\* A holder renews however old its claim is, as long as the token is there.
RenewVerify(p) ==
  /\ pc[p] = "serving" /\ lock = Free /\ Owns(tok[p])
  /\ pc' = [pc EXCEPT ![p] = "renewing"]
  /\ lock' = p
  /\ UNCHANGED <<sysVars, claim, tok, view, cmdVars, operVars, spent, wrote>>

RenewWrite(p) ==
  /\ pc[p] = "renewing"
  /\ SetClaim([claim EXCEPT !.seen = Now(HostOf[p])])
  /\ pc' = [pc EXCEPT ![p] = "serving"]
  /\ lock' = Free
  /\ UNCHANGED <<sysVars, tok, view, cmdVars, operVars, wrote>>

\* ErrFenced: absent or another token. (An unreadable claim is a warning:
\* the lane keeps ticking.) The lane must stop.
RenewFenced(p) ==
  /\ pc[p] = "serving" /\ lock = Free
  /\ claim # Unreadable /\ ~Owns(tok[p])
  /\ pc' = [pc EXCEPT ![p] = "fenced"]
  /\ UNCHANGED <<sysVars, claim, lock, tok, view, cmdVars, operVars, spent, wrote>>

ReleaseVerify(p) ==
  /\ pc[p] \in {"serving", "fenced"} /\ lock = Free /\ Owns(tok[p])
  /\ pc' = [pc EXCEPT ![p] = "releasing"]
  /\ lock' = p
  /\ UNCHANGED <<sysVars, claim, tok, view, cmdVars, operVars, spent, wrote>>

ReleaseRemove(p) ==
  /\ pc[p] = "releasing"
  /\ SetClaim(NoClaim)
  /\ pc' = [pc EXCEPT ![p] = "down"]
  /\ lock' = Free
  /\ UNCHANGED <<sysVars, tok, view, cmdVars, operVars, wrote>>

\* Gone, unreadable or somebody else's: leave the file alone and exit.
ReleaseRefused(p) ==
  /\ pc[p] \in {"serving", "fenced"} /\ lock = Free /\ ~Owns(tok[p])
  /\ pc' = [pc EXCEPT ![p] = "down"]
  /\ UNCHANGED <<sysVars, claim, lock, tok, view, cmdVars, operVars, spent, wrote>>

-----------------------------------------------------------------------------
(* Commands: a child of a lane carries its token, a hand-run one carries     *)
(* none; a check or ack that a hub session runs for a client that predates   *)
(* the consume fence has not even an empty one                               *)

CmdStart(c) ==
  /\ cpc[c] = "idle"
  /\ \E t \in {NoToken, NoKey} \cup
        {tok[p] : p \in {q \in Proc : /\ pc[q] \in {"serving", "fenced"}
                                      /\ HostOf[q] = HostOf[c]}} :
       ctok' = [ctok EXCEPT ![c] = t]
  /\ cpc' = [cpc EXCEPT ![c] = "ready"]
  /\ UNCHANGED <<sysVars, claim, lock, procVars, cnow, operVars, spent, wrote>>

CmdExit(c) ==
  /\ cpc[c] \in {"ready", "minted", "linked"}
  /\ cpc' = [cpc EXCEPT ![c] = "idle"]
  /\ ctok' = [ctok EXCEPT ![c] = NoToken]
  /\ UNCHANGED <<sysVars, claim, lock, procVars, cnow, operVars, spent, wrote>>

\* Mutant of MintVerify: the fence is left to the check before the lock.
MintUnfenced(c) ==
  /\ cpc[c] = "ready" /\ lock = Free
  /\ cpc' = [cpc EXCEPT ![c] = "minting"]
  /\ lock' = c
  /\ UNCHANGED <<sysVars, claim, procVars, ctok, cnow, operVars, spent, wrote>>

\* Mutant of MintVerify: fence checked, lock not held until the write.
MintUnlocked(c) ==
  /\ cpc[c] = "ready" /\ lock = Free
  /\ ctok[c] = NoToken \/ Owns(ctok[c])
  /\ cpc' = [cpc EXCEPT ![c] = "minting"]
  /\ UNCHANGED <<sysVars, claim, lock, procVars, ctok, cnow, operVars, spent, wrote>>

\* MintSendStamp: the fence is checked inside the sender's own lock, before
\* the floor is persisted. No token means an intentionally unfenced mint. (A
\* hub's send frame has no compatibility arm: without the key it carries "".)
MintVerify(c) ==
  /\ cpc[c] = "ready" /\ lock = Free
  /\ ctok[c] = NoToken \/ Owns(ctok[c])
  /\ cpc' = [cpc EXCEPT ![c] = "minting"]
  /\ lock' = c
  /\ UNCHANGED <<sysVars, claim, procVars, ctok, cnow, operVars, spent, wrote>>

MintPersist(c) ==
  /\ cpc[c] = "minting"
  /\ wrote' = IF ctok[c] = NoToken THEN wrote ELSE ctok[c]
  /\ cpc' = [cpc EXCEPT ![c] = "minted"]
  /\ lock' = Free
  /\ UNCHANGED <<sysVars, claim, procVars, ctok, cnow, operVars, spent>>

\* DeliverUnderRecipientLock checks the sender's fence again, but under the
\* recipient's lock: the sender's claim may change before the link.
DeliverVerify(c) ==
  /\ cpc[c] = "minted"
  /\ ctok[c] = NoToken \/ Owns(ctok[c])
  /\ cpc' = [cpc EXCEPT ![c] = "delivering"]
  /\ UNCHANGED <<sysVars, claim, lock, procVars, ctok, cnow, operVars, spent, wrote>>

DeliverLink(c) ==
  /\ cpc[c] = "delivering"
  /\ cpc' = [cpc EXCEPT ![c] = "linked"]
  /\ UNCHANGED <<sysVars, claim, lock, procVars, ctok, cnow, operVars, spent, wrote>>

\* consumeFence: only a fresh, readable claim under another token, or none,
\* refuses; and never a request without the key (Unfenced).
MayConsume(t, now) ==
  t = NoKey \/ (Readable(claim) => Stale(claim, now) \/ claim.token = t)

\* fencedMutation: the check and the claim move, archive or quarantine are
\* one critical section of the id's lock.
ConsumeVerify(c) ==
  /\ cpc[c] = "ready" /\ lock = Free
  /\ MayConsume(ctok[c], Now(HostOf[c]))
  /\ cnow' = [cnow EXCEPT ![c] = Now(HostOf[c])]
  /\ cpc' = [cpc EXCEPT ![c] = "consuming"]
  /\ lock' = c
  /\ UNCHANGED <<sysVars, claim, procVars, ctok, operVars, spent, wrote>>

ConsumeMove(c) ==
  /\ cpc[c] = "consuming"
  /\ cpc' = [cpc EXCEPT ![c] = "ready"]
  /\ cnow' = [cnow EXCEPT ![c] = 0]
  /\ lock' = Free
  /\ UNCHANGED <<sysVars, claim, procVars, ctok, operVars, spent, wrote>>

-----------------------------------------------------------------------------
(* InvalidateAllServeLeases: snapshot without the lock, remove under it *)

Snapshot(o) ==
  /\ opc[o] = "idle" /\ claim # NoClaim
  /\ osnap' = [osnap EXCEPT ![o] = claim.token]
  /\ opc' = [opc EXCEPT ![o] = "snapped"]
  /\ UNCHANGED <<sysVars, claim, lock, procVars, cmdVars, spent, wrote>>

\* Mutant of SameClaim: whatever claim is there is removed.
AnyClaim(o) == claim # NoClaim

\* The claim the snapshot saw is still there: the same token, or, when the
\* token could not be read then or cannot be read now, the same inode.
SameClaim(o) == \/ Readable(claim) /\ claim.token = osnap[o]
                \/ claim = Unreadable

InvalidateLock(o) ==
  /\ opc[o] = "snapped" /\ lock = Free /\ SameClaim(o)
  /\ lock' = o
  /\ opc' = [opc EXCEPT ![o] = "removing"]
  /\ UNCHANGED <<sysVars, claim, procVars, cmdVars, osnap, spent, wrote>>

InvalidateRemove(o) ==
  /\ opc[o] = "removing"
  /\ SetClaim(NoClaim)
  /\ opc' = [opc EXCEPT ![o] = "idle"]
  /\ osnap' = [osnap EXCEPT ![o] = NoToken]
  /\ lock' = Free
  /\ UNCHANGED <<sysVars, procVars, cmdVars, wrote>>

\* Gone, replaced, another inode and unreadable, or no lock in time.
InvalidateSkip(o) ==
  /\ opc[o] = "snapped"
  /\ ~SameClaim(o) \/ claim = Unreadable \/ lock # Free
  /\ opc' = [opc EXCEPT ![o] = "idle"]
  /\ osnap' = [osnap EXCEPT ![o] = NoToken]
  /\ UNCHANGED <<sysVars, claim, lock, procVars, cmdVars, spent, wrote>>

-----------------------------------------------------------------------------
(* The environment *)

\* kill -9, out of memory, a closed terminal. Children survive their serve.
Crash(p) ==
  /\ Running(p)
  /\ pc' = [pc EXCEPT ![p] = "down"]
  /\ view' = [view EXCEPT ![p] = NoClaim]
  /\ lock' = DropLock(p)
  /\ UNCHANGED <<sysVars, claim, tok, cmdVars, operVars, spent, wrote>>

CmdKilled(c) ==
  /\ cpc[c] # "idle"
  /\ cpc' = [cpc EXCEPT ![c] = "idle"]
  /\ ctok' = [ctok EXCEPT ![c] = NoToken]
  /\ lock' = DropLock(c)
  /\ UNCHANGED <<sysVars, claim, procVars, cnow, operVars, spent, wrote>>

OperKilled(o) ==
  /\ opc[o] = "removing"
  /\ opc' = [opc EXCEPT ![o] = "idle"]
  /\ osnap' = [osnap EXCEPT ![o] = NoToken]
  /\ lock' = DropLock(o)
  /\ UNCHANGED <<sysVars, claim, procVars, cmdVars, spent, wrote>>

Reboot(h) ==
  /\ boot[h] < MaxBoot
  /\ boot' = [boot EXCEPT ![h] = @ + 1]
  /\ pc' = [p \in Proc |-> IF HostOf[p] = h THEN "down" ELSE pc[p]]
  /\ view' = [p \in Proc |-> IF HostOf[p] = h THEN NoClaim ELSE view[p]]
  /\ cpc' = [c \in Cmd |-> IF HostOf[c] = h THEN "idle" ELSE cpc[c]]
  /\ ctok' = [c \in Cmd |-> IF HostOf[c] = h THEN NoToken ELSE ctok[c]]
  /\ opc' = [o \in Oper |-> IF HostOf[o] = h THEN "idle" ELSE opc[o]]
  /\ osnap' = [o \in Oper |-> IF HostOf[o] = h THEN NoToken ELSE osnap[o]]
  /\ lock' = IF lock # Free /\ HostOf[lock] = h THEN Free ELSE lock
  /\ UNCHANGED <<clock, minted, claim, tok, cnow, spent, wrote>>

ClockStep ==
  /\ \E d \in {-1, 1} : /\ clock + d \in 0..MaxClock
                        /\ clock' = clock + d
  /\ UNCHANGED <<boot, minted, claim, lock, procVars, cmdVars, operVars, spent, wrote>>

\* A hand edit or a damaged file: the claim no longer parses.
Damage ==
  /\ Readable(claim) /\ lock = Free
  /\ SetClaim(Unreadable)
  /\ UNCHANGED <<sysVars, lock, procVars, cmdVars, operVars, wrote>>

-----------------------------------------------------------------------------
\* Nothing yet, or a lane launched by an older binary, whose claim records
\* neither host nor boot reference.
Init ==
  /\ clock = 0
  /\ boot = [h \in Host |-> 1]
  /\ lock = Free
  /\ view = [p \in Proc |-> NoClaim]
  /\ cpc = [c \in Cmd |-> "idle"]
  /\ ctok = [c \in Cmd |-> NoToken]
  /\ cnow = [c \in Cmd |-> 0]
  /\ opc = [o \in Oper |-> "idle"]
  /\ osnap = [o \in Oper |-> NoToken]
  /\ spent = {} /\ wrote = NoToken
  /\ \/ /\ claim = NoClaim
        /\ minted = 0
        /\ pc = [p \in Proc |-> "down"]
        /\ tok = [p \in Proc |-> NoToken]
     \/ \E old \in Proc :
          /\ claim = [token |-> 1, host |-> NoHost, pid |-> PidOf[old],
                      boot |-> NoBoot, seen |-> Now(HostOf[old])]
          /\ minted = 1
          /\ pc = [p \in Proc |-> IF p = old THEN "serving" ELSE "down"]
          /\ tok = [p \in Proc |-> IF p = old THEN 1 ELSE NoToken]

ServeStep(p) ==
  \/ Start(p) \/ LockTimeout(p) \/ AcquireLock(p) \/ AcquireLink(p)
  \/ AcquireRefused(p) \/ AcquireDecide(p) \/ AcquireRename(p)
  \/ RenewVerify(p) \/ RenewWrite(p) \/ RenewFenced(p)
  \/ ReleaseVerify(p) \/ ReleaseRemove(p) \/ ReleaseRefused(p)
  \/ Crash(p)

CmdStep(c) ==
  \/ CmdStart(c) \/ CmdExit(c)
  \/ MintVerify(c) \/ MintPersist(c) \/ DeliverVerify(c) \/ DeliverLink(c)
  \/ ConsumeVerify(c) \/ ConsumeMove(c)
  \/ CmdKilled(c)

OperStep(o) == \/ Snapshot(o) \/ InvalidateLock(o) \/ InvalidateRemove(o)
               \/ InvalidateSkip(o) \/ OperKilled(o)

Next == \/ \E p \in Proc : ServeStep(p)
        \/ \E c \in Cmd : CmdStep(c)
        \/ \E o \in Oper : OperStep(o)
        \/ \E h \in Host : Reboot(h)
        \/ ClockStep
        \/ Damage

Spec == Init /\ [][Next]_vars

-----------------------------------------------------------------------------
TypeOK ==
  /\ clock \in Int
  /\ boot \in [Host -> Nat]
  /\ minted \in 0..MaxToken
  /\ claim \in Claims \cup {NoClaim, Unreadable}
  /\ lock \in Proc \cup Cmd \cup Oper \cup {Free}
  /\ pc \in [Proc -> InLock \cup {"down", "wait", "serving", "fenced"}]
  /\ tok \in [Proc -> Token \cup {NoToken}]
  /\ view \in [Proc -> Claims \cup {NoClaim}]
  /\ cpc \in [Cmd -> CmdInLock \cup {"idle", "ready", "minted", "delivering", "linked"}]
  /\ ctok \in [Cmd -> Token \cup {NoToken, NoKey}]
  /\ cnow \in [Cmd -> Int]
  /\ opc \in [Oper -> {"idle", "snapped", "removing"}]
  /\ osnap \in [Oper -> Token \cup {NoToken}]
  /\ spent \subseteq Token
  /\ wrote \in Token \cup {NoToken}

\* A serve process, command or operator is inside a critical section exactly
\* while it is the flock's holder (withAgentLock).
LockHeld ==
  /\ \A p \in Proc : (pc[p] \in InLock) <=> (lock = p)
  /\ \A c \in Cmd : (cpc[c] \in CmdInLock) <=> (lock = c)
  /\ \A o \in Oper : (opc[o] = "removing") <=> (lock = o)

\* Between the fence check and the write it guards, the lease cannot move:
\* a stamp is persisted, a heartbeat or a release done, only by the token
\* that owns the id at that very moment (MintSendStamp, RenewLease,
\* ReleaseLease).
FencedWrite ==
  /\ \A c \in Cmd : cpc[c] = "minting" /\ ctok[c] # NoToken => Owns(ctok[c])
  /\ \A p \in Proc : pc[p] \in {"renewing", "releasing"} => Owns(tok[p])

\* A claim move, archive or quarantine never happens while a claim that was
\* fresh at the fence check belongs to somebody else (fencedMutation): the
\* lease can be neither acquired, reclaimed nor renewed in between. The hub's
\* compatibility arm is outside: a request without the serve_token key moves
\* the mail of a live lane, whoever holds it.
ConsumeExclusive ==
  \A c \in Cmd :
    cpc[c] = "consuming" /\ ctok[c] # NoKey /\ Readable(claim)
    => Stale(claim, cnow[c]) \/ claim.token = ctok[c]

\* No command writes under a token that is no longer the claim's, neither a
\* stamp nor, unless it is a request without the key, a move of the lane's mail.
Fencing == FencedWrite /\ ConsumeExclusive

\* A token that lost the id never owns it again, so a resumed holder stays
\* fenced for good (mintServeToken, SetClaim's callers).
SpentForGood == Readable(claim) => claim.token \notin spent

\* A running lane loses its id to another lane only to one on another host:
\* the reclaim rule never steals from a frozen-but-alive process of the same
\* host, whatever its claim records, not even across a reboot that recycles
\* pids (AcquireServeLease, branch d).
NoLiveSteal ==
  [][\A p, q \in Proc :
       /\ Running(p) /\ Owns(tok[p])
       /\ Readable(claim') /\ claim'.token = tok[q] /\ tok[q] # tok[p]
       => HostOf[q] # HostOf[p]]_vars

\* InvalidateAllServeLeases never takes a lease that was acquired after it
\* looked: whoever acquired during the sweep keeps the id.
SweepSparesNewcomers ==
  [][\A o \in Oper :
       opc[o] = "removing" /\ claim' = NoClaim /\ Readable(claim)
       => claim.token = osnap[o]]_vars

-----------------------------------------------------------------------------
(* The strengthening that makes the safety properties inductive *)

\* Tokens are handed out once: a running serve has one of its own, a token
\* still on its way to the claim file has never been there.
TokensApart ==
  /\ \A p \in Proc : Running(p) => tok[p] # NoToken
  /\ \A p, q \in Proc : p # q => tok[p] = NoToken \/ tok[p] # tok[q]
  /\ \A p \in Proc : tok[p] <= minted
  /\ claim.token <= minted
  /\ \A t \in spent : t <= minted
  /\ \A p \in Proc : pc[p] \in {"wait", "linking", "reclaiming"}
                      => tok[p] \notin spent /\ tok[p] # claim.token

\* The claim about to be written names its writer.
ViewBuilt ==
  \A p \in Proc : pc[p] \in {"linking", "reclaiming"} =>
    /\ view[p].token = tok[p]
    /\ view[p].host = HostOf[p]
    /\ view[p].pid = PidOf[p]
    /\ view[p].boot \in {NoBoot, boot[HostOf[p]]}

\* A running owner's claim describes it, as far as it says anything.
OwnerRecord ==
  \A p \in Proc : Running(p) /\ Owns(tok[p]) =>
    /\ claim.pid = PidOf[p]
    /\ claim.host \in {NoHost, HostOf[p]}
    /\ claim.boot \in {NoBoot, boot[HostOf[p]]}

\* A reclaim in progress found no running owner on its own host.
ReclaimSound ==
  \A p, q \in Proc : pc[q] = "reclaiming" /\ Running(p) /\ Owns(tok[p])
                     => HostOf[p] # HostOf[q]

\* A removal in progress still looks at the claim of its snapshot.
SweepTarget ==
  \A o \in Oper : opc[o] = "removing" /\ Readable(claim) => claim.token = osnap[o]

IInv == /\ TypeOK /\ LockHeld /\ FencedWrite /\ ConsumeExclusive /\ SpentForGood
        /\ TokensApart /\ ViewBuilt /\ OwnerRecord /\ ReclaimSound /\ SweepTarget

-----------------------------------------------------------------------------
\* The lease implements FencedOwner.
Promise == INSTANCE FencedOwner
             WITH NoOne <- NoToken,
                  owner <- IF Readable(claim) THEN claim.token ELSE NoToken
PromiseSpec == Promise!Spec
=============================================================================
