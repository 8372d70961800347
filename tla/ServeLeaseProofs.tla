--------------------------- MODULE ServeLeaseProofs ---------------------------
(***************************************************************************)
(* The inductive invariant IInv of ServeLease, and from it: type           *)
(* correctness, the fence (no guarded write loses its lease between check  *)
(* and write), the reclaim rule, and the refinement of FencedOwner.        *)
(* One lemma per group of conjuncts, one step per action.                  *)
(***************************************************************************)
EXTENDS ServeLease, TLAPS

\* What the claim file can hold.
AnyClaimValue == Claims \cup {NoClaim, Unreadable}

\* A claim value carries a token exactly when it is a claim record.
LEMMA ClaimToken ==
  ASSUME NEW c \in AnyClaimValue
  PROVE  /\ c.token \in Token \cup {NoToken}
         /\ Readable(c) => c \in Claims /\ c.token \in Token
         /\ c \in Claims => Readable(c)
  BY BoundAssumption
  DEF AnyClaimValue, Claims, NoClaim, Unreadable, Readable, Token, NoToken

\* Writing a claim value keeps the claim and the spent set typed.
LEMMA SetClaimType ==
  ASSUME TypeOK, NEW c \in AnyClaimValue, SetClaim(c)
  PROVE  claim' \in AnyClaimValue /\ spent' \subseteq Token
<1>1. claim \in AnyClaimValue
  BY DEF TypeOK, AnyClaimValue
<1>2. Readable(claim) => claim.token \in Token
  BY <1>1, ClaimToken
<1> QED BY <1>2 DEF TypeOK, SetClaim

\* A renewal changes the time and nothing else (RenewLease).
LEMMA RenewedClaim ==
  ASSUME NEW c \in AnyClaimValue, NEW s \in Int
  PROVE  /\ [c EXCEPT !.seen = s] \in AnyClaimValue
         /\ [c EXCEPT !.seen = s].token = c.token
<1>1. CASE c \in Claims
  BY <1>1 DEF Claims, AnyClaimValue
<1>2. CASE c = NoClaim
  <2>1. [c EXCEPT !.seen = s] = c
    BY <1>2 DEF NoClaim
  <2> QED BY <2>1
<1>3. CASE c = Unreadable
  <2>1. [c EXCEPT !.seen = s] = c
    BY <1>3 DEF Unreadable
  <2> QED BY <2>1
<1> QED BY <1>1, <1>2, <1>3 DEF AnyClaimValue

\* The initial states are typed, with or without a lane of an older binary.
LEMMA TypeInit == Init => TypeOK
  BY BoundAssumption, HostAssumption
  DEF Init, TypeOK, Claims, NoClaim, Unreadable, NoToken, NoBoot, Token, Now,
      InLock, CmdInLock

\* Every step keeps the types.
LEMMA TypeStep == TypeOK /\ TokensApart /\ FencedWrite /\ [Next]_vars => TypeOK'
<1> SUFFICES ASSUME TypeOK, TokensApart, FencedWrite, [Next]_vars PROVE TypeOK'
    OBVIOUS
<1> USE BoundAssumption, HostAssumption
    DEF TypeOK, sysVars, procVars, cmdVars, operVars, InLock, CmdInLock
<1>1. ASSUME NEW p \in Proc, ServeStep(p) PROVE TypeOK'
  <2>1. CASE Start(p)
    BY <2>1 DEF Start, Token, NoToken
  <2>2. CASE LockTimeout(p)
    BY <2>2 DEF LockTimeout
  <2>3. CASE AcquireLock(p)
    BY <2>3 DEF AcquireLock, Claims, Now, NoBoot, Token, TokensApart, Running
  <2>4. CASE AcquireLink(p)
    <3>1. SetClaim(view[p]) /\ view[p] \in AnyClaimValue
      BY <2>4 DEF AcquireLink, AnyClaimValue
    <3>2. claim' \in AnyClaimValue /\ spent' \subseteq Token
      BY <3>1, SetClaimType
    <3> QED BY <2>4, <3>2 DEF AcquireLink, AnyClaimValue
  <2>5. CASE AcquireRefused(p)
    BY <2>5 DEF AcquireRefused
  <2>6. CASE AcquireDecide(p)
    BY <2>6 DEF AcquireDecide
  <2>7. CASE AcquireRename(p)
    <3>1. SetClaim(view[p]) /\ view[p] \in AnyClaimValue
      BY <2>7 DEF AcquireRename, AnyClaimValue
    <3>2. claim' \in AnyClaimValue /\ spent' \subseteq Token
      BY <3>1, SetClaimType
    <3> QED BY <2>7, <3>2 DEF AcquireRename, AnyClaimValue
  <2>8. CASE RenewVerify(p)
    BY <2>8 DEF RenewVerify
  <2>9. CASE RenewWrite(p)
    <3>1. /\ SetClaim([claim EXCEPT !.seen = Now(HostOf[p])])
          /\ [claim EXCEPT !.seen = Now(HostOf[p])] \in AnyClaimValue
      <4>1. claim \in AnyClaimValue /\ Now(HostOf[p]) \in Int
        BY DEF AnyClaimValue, Now
      <4>2. [claim EXCEPT !.seen = Now(HostOf[p])] \in AnyClaimValue
        BY <4>1, RenewedClaim
      <4> QED BY <2>9, <4>2 DEF RenewWrite
    <3>2. claim' \in AnyClaimValue /\ spent' \subseteq Token
      BY <3>1, SetClaimType
    <3> QED BY <2>9, <3>2 DEF RenewWrite, AnyClaimValue
  <2>10. CASE RenewFenced(p)
    BY <2>10 DEF RenewFenced
  <2>11. CASE ReleaseVerify(p)
    BY <2>11 DEF ReleaseVerify
  <2>12. CASE ReleaseRemove(p)
    <3>1. SetClaim(NoClaim) /\ NoClaim \in AnyClaimValue
      BY <2>12 DEF ReleaseRemove, AnyClaimValue
    <3>2. claim' \in AnyClaimValue /\ spent' \subseteq Token
      BY <3>1, SetClaimType
    <3> QED BY <2>12, <3>2 DEF ReleaseRemove, AnyClaimValue
  <2>13. CASE ReleaseRefused(p)
    BY <2>13 DEF ReleaseRefused
  <2>14. CASE Crash(p)
    BY <2>14 DEF Crash, DropLock
  <2> QED BY <1>1, <2>1, <2>2, <2>3, <2>4, <2>5, <2>6, <2>7, <2>8, <2>9, <2>10, <2>11, <2>12, <2>13, <2>14 DEF ServeStep
<1>2. ASSUME NEW c \in Cmd, CmdStep(c) PROVE TypeOK'
  <2>1. CASE CmdStart(c)
    BY <2>1 DEF CmdStart
  <2>2. CASE CmdExit(c)
    BY <2>2 DEF CmdExit
  <2>3. CASE MintVerify(c)
    BY <2>3 DEF MintVerify
  <2>4. CASE MintPersist(c)
    <3>1. ctok[c] = NoToken \/ ctok[c] \in Token
      BY <2>4, ClaimToken DEF MintPersist, FencedWrite, Owns, AnyClaimValue
    <3> QED BY <2>4, <3>1 DEF MintPersist
  <2>5. CASE DeliverVerify(c)
    BY <2>5 DEF DeliverVerify
  <2>6. CASE DeliverLink(c)
    BY <2>6 DEF DeliverLink
  <2>7. CASE ConsumeVerify(c)
    BY <2>7 DEF ConsumeVerify, Now
  <2>8. CASE ConsumeMove(c)
    BY <2>8 DEF ConsumeMove
  <2>9. CASE CmdKilled(c)
    BY <2>9 DEF CmdKilled, DropLock
  <2> QED BY <1>2, <2>1, <2>2, <2>3, <2>4, <2>5, <2>6, <2>7, <2>8, <2>9 DEF CmdStep
<1>3. ASSUME NEW o \in Oper, OperStep(o) PROVE TypeOK'
  <2>1. CASE Snapshot(o)
    BY <2>1, ClaimToken DEF Snapshot, AnyClaimValue
  <2>2. CASE InvalidateLock(o)
    BY <2>2 DEF InvalidateLock
  <2>3. CASE InvalidateRemove(o)
    <3>1. SetClaim(NoClaim) /\ NoClaim \in AnyClaimValue
      BY <2>3 DEF InvalidateRemove, AnyClaimValue
    <3>2. claim' \in AnyClaimValue /\ spent' \subseteq Token
      BY <3>1, SetClaimType
    <3> QED BY <2>3, <3>2 DEF InvalidateRemove, AnyClaimValue
  <2>4. CASE InvalidateSkip(o)
    BY <2>4 DEF InvalidateSkip
  <2>5. CASE OperKilled(o)
    BY <2>5 DEF OperKilled, DropLock
  <2> QED BY <1>3, <2>1, <2>2, <2>3, <2>4, <2>5 DEF OperStep
<1>4. ASSUME NEW h \in Host, Reboot(h) PROVE TypeOK'
  BY <1>4 DEF Reboot
<1>5. ASSUME ClockStep PROVE TypeOK'
  BY <1>5 DEF ClockStep
<1>6. ASSUME Damage PROVE TypeOK'
  <2>1. SetClaim(Unreadable) /\ Unreadable \in AnyClaimValue
    BY <1>6 DEF Damage, AnyClaimValue
  <2>2. claim' \in AnyClaimValue /\ spent' \subseteq Token
    BY <2>1, SetClaimType
  <2> QED BY <1>6, <2>2 DEF Damage, AnyClaimValue
<1>7. ASSUME UNCHANGED vars PROVE TypeOK'
  BY <1>7 DEF vars
<1> QED BY <1>1, <1>2, <1>3, <1>4, <1>5, <1>6, <1>7 DEF Next

\* Every step keeps the critical sections and the flock together.
LEMMA LockStep == TypeOK /\ LockHeld /\ [Next]_vars => LockHeld'
<1> SUFFICES ASSUME TypeOK /\ LockHeld, [Next]_vars PROVE LockHeld'
    OBVIOUS
<1> USE ActorAssumption, HostAssumption DEF TypeOK, LockHeld, InLock, CmdInLock,
          sysVars, procVars, cmdVars, operVars
<1>1. ASSUME NEW p \in Proc, ServeStep(p) PROVE LockHeld'
  <2>1. CASE Start(p)
    BY <2>1 DEF Start
  <2>2. CASE LockTimeout(p)
    BY <2>2 DEF LockTimeout
  <2>3. CASE AcquireLock(p)
    BY <2>3 DEF AcquireLock
  <2>4. CASE AcquireLink(p)
    BY <2>4 DEF AcquireLink
  <2>5. CASE AcquireRefused(p)
    BY <2>5 DEF AcquireRefused
  <2>6. CASE AcquireDecide(p)
    BY <2>6 DEF AcquireDecide
  <2>7. CASE AcquireRename(p)
    BY <2>7 DEF AcquireRename
  <2>8. CASE RenewVerify(p)
    BY <2>8 DEF RenewVerify
  <2>9. CASE RenewWrite(p)
    BY <2>9 DEF RenewWrite
  <2>10. CASE RenewFenced(p)
    BY <2>10 DEF RenewFenced
  <2>11. CASE ReleaseVerify(p)
    BY <2>11 DEF ReleaseVerify
  <2>12. CASE ReleaseRemove(p)
    BY <2>12 DEF ReleaseRemove
  <2>13. CASE ReleaseRefused(p)
    BY <2>13 DEF ReleaseRefused
  <2>14. CASE Crash(p)
    BY <2>14 DEF Crash, DropLock
  <2> QED BY <1>1, <2>1, <2>2, <2>3, <2>4, <2>5, <2>6, <2>7, <2>8, <2>9, <2>10, <2>11, <2>12, <2>13, <2>14 DEF ServeStep
<1>2. ASSUME NEW c \in Cmd, CmdStep(c) PROVE LockHeld'
  <2>1. CASE CmdStart(c)
    BY <2>1 DEF CmdStart
  <2>2. CASE CmdExit(c)
    BY <2>2 DEF CmdExit
  <2>3. CASE MintVerify(c)
    BY <2>3 DEF MintVerify
  <2>4. CASE MintPersist(c)
    BY <2>4 DEF MintPersist
  <2>5. CASE DeliverVerify(c)
    BY <2>5 DEF DeliverVerify
  <2>6. CASE DeliverLink(c)
    BY <2>6 DEF DeliverLink
  <2>7. CASE ConsumeVerify(c)
    BY <2>7 DEF ConsumeVerify
  <2>8. CASE ConsumeMove(c)
    BY <2>8 DEF ConsumeMove
  <2>9. CASE CmdKilled(c)
    BY <2>9 DEF CmdKilled, DropLock
  <2> QED BY <1>2, <2>1, <2>2, <2>3, <2>4, <2>5, <2>6, <2>7, <2>8, <2>9 DEF CmdStep
<1>3. ASSUME NEW o \in Oper, OperStep(o) PROVE LockHeld'
  <2>1. CASE Snapshot(o)
    BY <2>1 DEF Snapshot
  <2>2. CASE InvalidateLock(o)
    BY <2>2 DEF InvalidateLock
  <2>3. CASE InvalidateRemove(o)
    BY <2>3 DEF InvalidateRemove
  <2>4. CASE InvalidateSkip(o)
    BY <2>4 DEF InvalidateSkip
  <2>5. CASE OperKilled(o)
    BY <2>5 DEF OperKilled, DropLock
  <2> QED BY <1>3, <2>1, <2>2, <2>3, <2>4, <2>5 DEF OperStep
<1>4. ASSUME NEW h \in Host, Reboot(h) PROVE LockHeld'
  BY <1>4 DEF Reboot
<1>5. ASSUME ClockStep PROVE LockHeld'
  BY <1>5 DEF ClockStep
<1>6. ASSUME Damage PROVE LockHeld'
  BY <1>6 DEF Damage
<1>7. ASSUME UNCHANGED vars PROVE LockHeld'
  BY <1>7 DEF vars
<1> QED BY <1>1, <1>2, <1>3, <1>4, <1>5, <1>6, <1>7 DEF Next

\* Every step keeps the tokens apart and the lost ones lost.
LEMMA TokenStep == TypeOK /\ FencedWrite /\ LockHeld /\ ViewBuilt /\ TokensApart /\ SpentForGood /\ [Next]_vars => (TokensApart /\ SpentForGood)'
<1> SUFFICES ASSUME TypeOK /\ FencedWrite /\ LockHeld /\ ViewBuilt /\ TokensApart /\ SpentForGood, [Next]_vars PROVE (TokensApart /\ SpentForGood)'
    OBVIOUS
<1> USE BoundAssumption DEF TypeOK, TokensApart, SpentForGood, Running, Readable, InLock,
          Token, NoToken, sysVars, procVars, cmdVars, operVars
<1>0. claim.token \in Nat
  BY ClaimToken DEF AnyClaimValue
<1>1. ASSUME NEW p \in Proc, ServeStep(p) PROVE (TokensApart /\ SpentForGood)'
  <2>1. CASE Start(p)
    BY <1>0, <2>1 DEF Start
  <2>2. CASE LockTimeout(p)
    BY <2>2 DEF LockTimeout
  <2>3. CASE AcquireLock(p)
    BY <2>3 DEF AcquireLock
  <2>4. CASE AcquireLink(p)
    BY <2>4 DEF AcquireLink, SetClaim, ViewBuilt, NoClaim
  <2>5. CASE AcquireRefused(p)
    BY <2>5 DEF AcquireRefused
  <2>6. CASE AcquireDecide(p)
    BY <2>6 DEF AcquireDecide
  <2>7. CASE AcquireRename(p)
    <3>1. /\ claim' = view[p] /\ view[p].token = tok[p]
          /\ spent' \subseteq spent \cup {claim.token}
          /\ UNCHANGED <<minted, tok>>
      BY <2>7 DEF AcquireRename, SetClaim, ViewBuilt
    <3>2. \A q \in Proc : pc'[q] \in {"wait", "linking", "reclaiming"}
                         => q # p /\ pc[q] \in {"wait", "linking", "reclaiming"}
      BY <2>7 DEF AcquireRename
    <3>3. \A q \in Proc : pc'[q] # "down" => pc[q] # "down"
      BY <2>7 DEF AcquireRename
    <3>4. pc[p] = "reclaiming"
      BY <2>7 DEF AcquireRename
    <3> QED BY <1>0, <3>1, <3>2, <3>3, <3>4
  <2>8. CASE RenewVerify(p)
    BY <2>8 DEF RenewVerify
  <2>9. CASE RenewWrite(p)
    BY <2>9 DEF RenewWrite, SetClaim, FencedWrite, Owns
  <2>10. CASE RenewFenced(p)
    BY <2>10 DEF RenewFenced
  <2>11. CASE ReleaseVerify(p)
    BY <2>11 DEF ReleaseVerify
  <2>12. CASE ReleaseRemove(p)
    BY <2>12 DEF ReleaseRemove, SetClaim, NoClaim
  <2>13. CASE ReleaseRefused(p)
    BY <2>13 DEF ReleaseRefused
  <2>14. CASE Crash(p)
    BY <2>14 DEF Crash, DropLock
  <2> QED BY <1>1, <2>1, <2>2, <2>3, <2>4, <2>5, <2>6, <2>7, <2>8, <2>9, <2>10, <2>11, <2>12, <2>13, <2>14 DEF ServeStep
<1>2. ASSUME NEW c \in Cmd, CmdStep(c) PROVE (TokensApart /\ SpentForGood)'
  <2>1. CASE CmdStart(c)
    BY <2>1 DEF CmdStart
  <2>2. CASE CmdExit(c)
    BY <2>2 DEF CmdExit
  <2>3. CASE MintVerify(c)
    BY <2>3 DEF MintVerify
  <2>4. CASE MintPersist(c)
    BY <2>4 DEF MintPersist
  <2>5. CASE DeliverVerify(c)
    BY <2>5 DEF DeliverVerify
  <2>6. CASE DeliverLink(c)
    BY <2>6 DEF DeliverLink
  <2>7. CASE ConsumeVerify(c)
    BY <2>7 DEF ConsumeVerify
  <2>8. CASE ConsumeMove(c)
    BY <2>8 DEF ConsumeMove
  <2>9. CASE CmdKilled(c)
    BY <2>9 DEF CmdKilled, DropLock
  <2> QED BY <1>2, <2>1, <2>2, <2>3, <2>4, <2>5, <2>6, <2>7, <2>8, <2>9 DEF CmdStep
<1>3. ASSUME NEW o \in Oper, OperStep(o) PROVE (TokensApart /\ SpentForGood)'
  <2>1. CASE Snapshot(o)
    BY <2>1 DEF Snapshot
  <2>2. CASE InvalidateLock(o)
    BY <2>2 DEF InvalidateLock
  <2>3. CASE InvalidateRemove(o)
    BY <2>3 DEF InvalidateRemove, SetClaim, NoClaim
  <2>4. CASE InvalidateSkip(o)
    BY <2>4 DEF InvalidateSkip
  <2>5. CASE OperKilled(o)
    BY <2>5 DEF OperKilled, DropLock
  <2> QED BY <1>3, <2>1, <2>2, <2>3, <2>4, <2>5 DEF OperStep
<1>4. ASSUME NEW h \in Host, Reboot(h) PROVE (TokensApart /\ SpentForGood)'
  BY <1>4 DEF Reboot
<1>5. ASSUME ClockStep PROVE (TokensApart /\ SpentForGood)'
  BY <1>5 DEF ClockStep
<1>6. ASSUME Damage PROVE (TokensApart /\ SpentForGood)'
  BY <1>6 DEF Damage, SetClaim, Unreadable
<1>7. ASSUME UNCHANGED vars PROVE (TokensApart /\ SpentForGood)'
  BY <1>7 DEF vars
<1> QED BY <1>1, <1>2, <1>3, <1>4, <1>5, <1>6, <1>7 DEF Next

\* Nothing moves the claim while a guarded write is between its check and
\* its write: only the lock's holder writes the claim.
LEMMA FenceStep == TypeOK /\ LockHeld /\ FencedWrite /\ ConsumeExclusive /\ SweepTarget /\ [Next]_vars => (FencedWrite /\ ConsumeExclusive /\ SweepTarget)'
<1> SUFFICES ASSUME TypeOK /\ LockHeld /\ FencedWrite /\ ConsumeExclusive /\ SweepTarget, [Next]_vars PROVE (FencedWrite /\ ConsumeExclusive /\ SweepTarget)'
    OBVIOUS
<1> USE ActorAssumption DEF TypeOK, LockHeld, InLock, CmdInLock, FencedWrite,
          ConsumeExclusive, SweepTarget, Owns, MayConsume, sysVars, procVars, cmdVars, operVars
<1>1. ASSUME NEW p \in Proc, ServeStep(p) PROVE (FencedWrite /\ ConsumeExclusive /\ SweepTarget)'
  <2>1. CASE Start(p)
    BY <2>1 DEF Start
  <2>2. CASE LockTimeout(p)
    BY <2>2 DEF LockTimeout
  <2>3. CASE AcquireLock(p)
    BY <2>3 DEF AcquireLock
  <2>4. CASE AcquireLink(p)
    BY <2>4 DEF AcquireLink, SetClaim
  <2>5. CASE AcquireRefused(p)
    BY <2>5 DEF AcquireRefused
  <2>6. CASE AcquireDecide(p)
    BY <2>6 DEF AcquireDecide
  <2>7. CASE AcquireRename(p)
    BY <2>7 DEF AcquireRename, SetClaim
  <2>8. CASE RenewVerify(p)
    BY <2>8 DEF RenewVerify
  <2>9. CASE RenewWrite(p)
    BY <2>9 DEF RenewWrite, SetClaim
  <2>10. CASE RenewFenced(p)
    BY <2>10 DEF RenewFenced
  <2>11. CASE ReleaseVerify(p)
    BY <2>11 DEF ReleaseVerify
  <2>12. CASE ReleaseRemove(p)
    BY <2>12 DEF ReleaseRemove, SetClaim
  <2>13. CASE ReleaseRefused(p)
    BY <2>13 DEF ReleaseRefused
  <2>14. CASE Crash(p)
    BY <2>14 DEF Crash, DropLock
  <2> QED BY <1>1, <2>1, <2>2, <2>3, <2>4, <2>5, <2>6, <2>7, <2>8, <2>9, <2>10, <2>11, <2>12, <2>13, <2>14 DEF ServeStep
<1>2. ASSUME NEW c \in Cmd, CmdStep(c) PROVE (FencedWrite /\ ConsumeExclusive /\ SweepTarget)'
  <2>1. CASE CmdStart(c)
    BY <2>1 DEF CmdStart
  <2>2. CASE CmdExit(c)
    BY <2>2 DEF CmdExit
  <2>3. CASE MintVerify(c)
    BY <2>3 DEF MintVerify
  <2>4. CASE MintPersist(c)
    BY <2>4 DEF MintPersist
  <2>5. CASE DeliverVerify(c)
    BY <2>5 DEF DeliverVerify
  <2>6. CASE DeliverLink(c)
    BY <2>6 DEF DeliverLink
  <2>7. CASE ConsumeVerify(c)
    BY <2>7 DEF ConsumeVerify
  <2>8. CASE ConsumeMove(c)
    BY <2>8 DEF ConsumeMove
  <2>9. CASE CmdKilled(c)
    BY <2>9 DEF CmdKilled, DropLock
  <2> QED BY <1>2, <2>1, <2>2, <2>3, <2>4, <2>5, <2>6, <2>7, <2>8, <2>9 DEF CmdStep
<1>3. ASSUME NEW o \in Oper, OperStep(o) PROVE (FencedWrite /\ ConsumeExclusive /\ SweepTarget)'
  <2>1. CASE Snapshot(o)
    BY <2>1 DEF Snapshot
  <2>2. CASE InvalidateLock(o)
    BY <2>2 DEF InvalidateLock, SameClaim, Readable, NoToken, Unreadable
  <2>3. CASE InvalidateRemove(o)
    BY <2>3 DEF InvalidateRemove, SetClaim
  <2>4. CASE InvalidateSkip(o)
    BY <2>4 DEF InvalidateSkip
  <2>5. CASE OperKilled(o)
    BY <2>5 DEF OperKilled, DropLock
  <2> QED BY <1>3, <2>1, <2>2, <2>3, <2>4, <2>5 DEF OperStep
<1>4. ASSUME NEW h \in Host, Reboot(h) PROVE (FencedWrite /\ ConsumeExclusive /\ SweepTarget)'
  BY <1>4 DEF Reboot
<1>5. ASSUME ClockStep PROVE (FencedWrite /\ ConsumeExclusive /\ SweepTarget)'
  BY <1>5 DEF ClockStep
<1>6. ASSUME Damage PROVE (FencedWrite /\ ConsumeExclusive /\ SweepTarget)'
  BY <1>6 DEF Damage, SetClaim
<1>7. ASSUME UNCHANGED vars PROVE (FencedWrite /\ ConsumeExclusive /\ SweepTarget)'
  BY <1>7 DEF vars
<1> QED BY <1>1, <1>2, <1>3, <1>4, <1>5, <1>6, <1>7 DEF Next

\* Every step keeps what a claim says of a running owner true, and a reclaim
\* in progress clear of running owners on its host.
LEMMA RecordStep == TypeOK /\ LockHeld /\ FencedWrite /\ TokensApart /\ ViewBuilt /\ OwnerRecord /\ ReclaimSound /\ [Next]_vars => (ViewBuilt /\ OwnerRecord /\ ReclaimSound)'
<1> SUFFICES ASSUME TypeOK /\ LockHeld /\ FencedWrite /\ TokensApart /\ ViewBuilt /\ OwnerRecord /\ ReclaimSound, [Next]_vars PROVE (ViewBuilt /\ OwnerRecord /\ ReclaimSound)'
    OBVIOUS
<1> USE ActorAssumption, HostAssumption DEF TypeOK, LockHeld, InLock, ViewBuilt, OwnerRecord, ReclaimSound,
          Running, Owns, Readable, NoToken, sysVars, procVars, cmdVars, operVars
<1>1. ASSUME NEW p \in Proc, ServeStep(p) PROVE (ViewBuilt /\ OwnerRecord /\ ReclaimSound)'
  <2>1. CASE Start(p)
    BY <2>1 DEF Start, TokensApart
  <2>2. CASE LockTimeout(p)
    BY <2>2 DEF LockTimeout
  <2>3. CASE AcquireLock(p)
    BY <2>3 DEF AcquireLock
  <2>4. CASE AcquireLink(p)
    BY <2>4 DEF AcquireLink, SetClaim, TokensApart
  <2>5. CASE AcquireRefused(p)
    BY <2>5 DEF AcquireRefused
  <2>6. CASE AcquireDecide(p)
    BY <2>6 DEF AcquireDecide, Reclaimable, Protected, PidAlive, TokensApart
  <2>7. CASE AcquireRename(p)
    BY <2>7 DEF AcquireRename, SetClaim, TokensApart
  <2>8. CASE RenewVerify(p)
    BY <2>8 DEF RenewVerify
  <2>9. CASE RenewWrite(p)
    BY <2>9 DEF RenewWrite, SetClaim, FencedWrite
  <2>10. CASE RenewFenced(p)
    BY <2>10 DEF RenewFenced
  <2>11. CASE ReleaseVerify(p)
    BY <2>11 DEF ReleaseVerify
  <2>12. CASE ReleaseRemove(p)
    BY <2>12 DEF ReleaseRemove, SetClaim, NoClaim
  <2>13. CASE ReleaseRefused(p)
    BY <2>13 DEF ReleaseRefused
  <2>14. CASE Crash(p)
    BY <2>14 DEF Crash, DropLock
  <2> QED BY <1>1, <2>1, <2>2, <2>3, <2>4, <2>5, <2>6, <2>7, <2>8, <2>9, <2>10, <2>11, <2>12, <2>13, <2>14 DEF ServeStep
<1>2. ASSUME NEW c \in Cmd, CmdStep(c) PROVE (ViewBuilt /\ OwnerRecord /\ ReclaimSound)'
  <2>1. CASE CmdStart(c)
    BY <2>1 DEF CmdStart
  <2>2. CASE CmdExit(c)
    BY <2>2 DEF CmdExit
  <2>3. CASE MintVerify(c)
    BY <2>3 DEF MintVerify
  <2>4. CASE MintPersist(c)
    BY <2>4 DEF MintPersist
  <2>5. CASE DeliverVerify(c)
    BY <2>5 DEF DeliverVerify
  <2>6. CASE DeliverLink(c)
    BY <2>6 DEF DeliverLink
  <2>7. CASE ConsumeVerify(c)
    BY <2>7 DEF ConsumeVerify
  <2>8. CASE ConsumeMove(c)
    BY <2>8 DEF ConsumeMove
  <2>9. CASE CmdKilled(c)
    BY <2>9 DEF CmdKilled, DropLock
  <2> QED BY <1>2, <2>1, <2>2, <2>3, <2>4, <2>5, <2>6, <2>7, <2>8, <2>9 DEF CmdStep
<1>3. ASSUME NEW o \in Oper, OperStep(o) PROVE (ViewBuilt /\ OwnerRecord /\ ReclaimSound)'
  <2>1. CASE Snapshot(o)
    BY <2>1 DEF Snapshot
  <2>2. CASE InvalidateLock(o)
    BY <2>2 DEF InvalidateLock
  <2>3. CASE InvalidateRemove(o)
    BY <2>3 DEF InvalidateRemove, SetClaim, NoClaim
  <2>4. CASE InvalidateSkip(o)
    BY <2>4 DEF InvalidateSkip
  <2>5. CASE OperKilled(o)
    BY <2>5 DEF OperKilled, DropLock
  <2> QED BY <1>3, <2>1, <2>2, <2>3, <2>4, <2>5 DEF OperStep
<1>4. ASSUME NEW h \in Host, Reboot(h) PROVE (ViewBuilt /\ OwnerRecord /\ ReclaimSound)'
  BY <1>4 DEF Reboot
<1>5. ASSUME ClockStep PROVE (ViewBuilt /\ OwnerRecord /\ ReclaimSound)'
  BY <1>5 DEF ClockStep
<1>6. ASSUME Damage PROVE (ViewBuilt /\ OwnerRecord /\ ReclaimSound)'
  BY <1>6 DEF Damage, SetClaim, Unreadable
<1>7. ASSUME UNCHANGED vars PROVE (ViewBuilt /\ OwnerRecord /\ ReclaimSound)'
  BY <1>7 DEF vars
<1> QED BY <1>1, <1>2, <1>3, <1>4, <1>5, <1>6, <1>7 DEF Next

\* IInv is an inductive invariant of the lease.
THEOREM Inductive == Spec => []IInv
<1>1. Init => IInv
  <2> SUFFICES ASSUME Init PROVE IInv
      OBVIOUS
  <2>1. TypeOK
    BY TypeInit
  <2>2. LockHeld /\ FencedWrite /\ ConsumeExclusive /\ ViewBuilt /\ ReclaimSound /\ SweepTarget
    BY ActorAssumption
    DEF Init, LockHeld, FencedWrite, ConsumeExclusive, ViewBuilt, ReclaimSound,
        SweepTarget, InLock, CmdInLock
  <2>3. TokensApart /\ SpentForGood /\ OwnerRecord
    BY DEF Init, TokensApart, SpentForGood, OwnerRecord, Running, Owns, Readable,
           NoClaim, NoToken
  <2> QED BY <2>1, <2>2, <2>3 DEF IInv
<1>2. IInv /\ [Next]_vars => IInv'
  BY TypeStep, LockStep, TokenStep, FenceStep, RecordStep DEF IInv
<1> QED BY <1>1, <1>2, PTL DEF Spec

\* Every variable keeps its type.
THEOREM TypeCorrect == Spec => []TypeOK
<1>1. IInv => TypeOK
  BY DEF IInv
<1> QED BY <1>1, Inductive, PTL

\* A stamp, a renewal or a release is written only by the token that owns the
\* id when it is written (MintSendStamp, RenewLease, ReleaseLease), and, except
\* by a request without the serve_token key, a claim move, archive or
\* quarantine is never made against a claim that was fresh under another token
\* at its fence check (fencedMutation).
THEOREM Fenced == Spec => []Fencing
<1>1. IInv => Fencing
  BY DEF IInv, Fencing
<1> QED BY <1>1, Inductive, PTL

\* A token that lost the id never owns it again.
THEOREM LostForGood == Spec => []SpentForGood
<1>1. IInv => SpentForGood
  BY DEF IInv
<1> QED BY <1>1, Inductive, PTL

\* A running lane loses its id to another lane only across hosts
\* (AcquireServeLease's frozen-but-alive rule).
THEOREM NoSteal == Spec => NoLiveSteal
<1> DEFINE Steal == \A p, q \in Proc :
             /\ Running(p) /\ Owns(tok[p])
             /\ Readable(claim') /\ claim'.token = tok[q] /\ tok[q] # tok[p]
             => HostOf[q] # HostOf[p]
<1>1. IInv /\ [Next]_vars => [Steal]_vars
  <2> SUFFICES ASSUME IInv, Next, NEW p \in Proc, NEW q \in Proc,
                      Running(p), Owns(tok[p]), Readable(claim'),
                      claim'.token = tok[q], tok[q] # tok[p]
               PROVE  HostOf[q] # HostOf[p]
      OBVIOUS
  <2>1. PICK r \in Proc : AcquireLink(r) \/ AcquireRename(r)
    <3>1. claim' # claim
      BY DEF Owns
    <3>2. CASE \E r \in Proc : ServeStep(r)
      <4>1. PICK r \in Proc : ServeStep(r)
        BY <3>2
      <4>2. ~RenewWrite(r)
        <5>1. claim \in AnyClaimValue /\ Now(HostOf[r]) \in Int
          BY HostAssumption DEF IInv, TypeOK, AnyClaimValue, Now
        <5> QED BY <5>1, RenewedClaim DEF RenewWrite, SetClaim, Owns
      <4>3. ~ReleaseRemove(r)
        BY DEF ReleaseRemove, SetClaim, NoClaim, Readable
      <4> QED BY <3>1, <4>1, <4>2, <4>3
        DEF ServeStep, Start, LockTimeout, AcquireLock, AcquireRefused, AcquireDecide,
            RenewVerify, RenewFenced, ReleaseVerify, ReleaseRefused, Crash
    <3>3. CASE \E c \in Cmd : CmdStep(c)
      BY <3>1, <3>3
      DEF CmdStep, CmdStart, CmdExit, MintVerify, MintPersist, DeliverVerify,
          DeliverLink, ConsumeVerify, ConsumeMove, CmdKilled
    <3>4. CASE \E o \in Oper : OperStep(o)
      BY <3>1, <3>4
      DEF OperStep, Snapshot, InvalidateLock, InvalidateRemove, InvalidateSkip,
          OperKilled, SetClaim, NoClaim, Readable
    <3>5. CASE (\E h \in Host : Reboot(h)) \/ ClockStep \/ Damage
      BY <3>1, <3>5 DEF Reboot, ClockStep, Damage, SetClaim, Unreadable, Readable
    <3> QED BY <3>2, <3>3, <3>4, <3>5 DEF Next
  <2>2. AcquireRename(r)
    BY <2>1 DEF AcquireLink, Owns, NoClaim, Readable
  <2>3. claim'.token = tok[r] /\ tok[r] # NoToken /\ pc[r] = "reclaiming"
    BY <2>2 DEF AcquireRename, SetClaim, IInv, ViewBuilt, TokensApart, Running
  <2>4. q = r
    BY <2>3 DEF IInv, TokensApart
  <2> QED BY <2>3, <2>4 DEF IInv, ReclaimSound
<1> QED BY <1>1, Inductive, PTL DEF Spec, NoLiveSteal

\* A sweep of InvalidateAllServeLeases removes only the claim it looked at.
THEOREM NewcomersSpared == Spec => SweepSparesNewcomers
<1>1. IInv /\ [Next]_vars =>
        [\A o \in Oper : opc[o] = "removing" /\ claim' = NoClaim /\ Readable(claim)
                         => claim.token = osnap[o]]_vars
  BY DEF IInv, SweepTarget
<1> QED BY <1>1, Inductive, PTL DEF Spec, SweepSparesNewcomers

\* The lease implements FencedOwner: one owner at a time, no token twice, and
\* every fenced write made by the owner of that moment.
THEOREM Implements == Spec => PromiseSpec
<1> DEFINE Owner == IF Readable(claim) THEN claim.token ELSE NoToken
<1> USE DEF Promise!Init, Promise!Next, Promise!Transfer, Promise!Write, Promise!vars
<1>1. Init => Promise!Init
  BY BoundAssumption DEF Init, Readable, NoClaim, NoToken, Token
<1>2. IInv /\ [Next]_vars => [Promise!Next]_(Promise!vars)
  <2> SUFFICES ASSUME IInv, [Next]_vars PROVE [Promise!Next]_(Promise!vars)
      OBVIOUS
  <2>0. /\ claim \in AnyClaimValue
        /\ \A p \in Proc : view[p] \in AnyClaimValue /\ Now(HostOf[p]) \in Int
    BY HostAssumption DEF IInv, TypeOK, AnyClaimValue, Now
  <2>1. ASSUME NEW p \in Proc, AcquireLink(p) \/ AcquireRename(p)
        PROVE  Promise!Next
    <3>1. SetClaim(view[p]) /\ view[p].token = tok[p] /\ UNCHANGED wrote
      BY <2>1 DEF AcquireLink, AcquireRename, IInv, ViewBuilt
    <3>2. tok[p] \in Token /\ tok[p] # NoToken /\ tok[p] \notin spent /\ tok[p] # claim.token
      BY <2>1 DEF AcquireLink, AcquireRename, IInv, TypeOK, TokensApart, Running
    <3>3. Owner' = tok[p]
      BY <3>1, <3>2 DEF SetClaim, Readable
    <3>4. spent' = spent \cup ({Owner} \ {NoToken})
      BY <3>1, <3>2 DEF SetClaim, Readable
    <3> QED BY <3>1, <3>2, <3>3, <3>4 DEF Readable
  <2>2. ASSUME SetClaim(NoClaim) \/ SetClaim(Unreadable), UNCHANGED wrote
        PROVE  [Promise!Next]_(Promise!vars)
    <3>1. Owner' = NoToken
      BY <2>2 DEF SetClaim, NoClaim, Unreadable, Readable
    <3>2. spent' = spent \cup ({Owner} \ {NoToken})
      BY <2>2 DEF SetClaim, NoClaim, Unreadable, Readable
    <3>3. NoToken \notin spent
      BY DEF IInv, TypeOK, Token, NoToken
    <3> QED BY <2>2, <3>1, <3>2, <3>3
  <2>3. ASSUME NEW p \in Proc, RenewWrite(p)
        PROVE  UNCHANGED Promise!vars
    <3>1. claim'.token = claim.token
      BY <2>0, <2>3, RenewedClaim DEF RenewWrite, SetClaim
    <3> QED BY <2>3, <3>1 DEF RenewWrite, SetClaim, Readable
  <2>4. ASSUME NEW c \in Cmd, MintPersist(c)
        PROVE  [Promise!Next]_(Promise!vars)
    BY <2>4 DEF MintPersist, IInv, FencedWrite, Owns
  <2>5. CASE \E p \in Proc : ServeStep(p)
    <3>1. PICK p \in Proc : ServeStep(p)
      BY <2>5
    <3>2. CASE ReleaseRemove(p)
      BY <2>2, <3>2 DEF ReleaseRemove
    <3> QED BY <2>1, <2>3, <3>1, <3>2
      DEF ServeStep, Start, LockTimeout, AcquireLock, AcquireRefused, AcquireDecide,
          RenewVerify, RenewFenced, ReleaseVerify, ReleaseRefused, Crash
  <2>6. CASE \E c \in Cmd : CmdStep(c)
    BY <2>4, <2>6
    DEF CmdStep, CmdStart, CmdExit, MintVerify, DeliverVerify,
        DeliverLink, ConsumeVerify, ConsumeMove, CmdKilled
  <2>7. CASE \E o \in Oper : OperStep(o)
    <3>1. PICK o \in Oper : OperStep(o)
      BY <2>7
    <3>2. CASE InvalidateRemove(o)
      BY <2>2, <3>2 DEF InvalidateRemove
    <3> QED BY <3>1, <3>2
      DEF OperStep, Snapshot, InvalidateLock, InvalidateSkip, OperKilled
  <2>8. CASE \E h \in Host : Reboot(h)
    BY <2>8 DEF Reboot
  <2>9. CASE ClockStep
    BY <2>9 DEF ClockStep
  <2>10. CASE Damage
    BY <2>2, <2>10 DEF Damage
  <2>11. CASE UNCHANGED vars
    BY <2>11 DEF vars
  <2> QED BY <2>5, <2>6, <2>7, <2>8, <2>9, <2>10, <2>11 DEF Next
<1> QED BY <1>1, <1>2, Inductive, PTL DEF Spec, PromiseSpec, Promise!Spec
=============================================================================
