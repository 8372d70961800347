--------------------------------- MODULE HubJoin ---------------------------------
(***************************************************************************)
(* hub join, the keys of the joining machine and the hub's authorized_keys *)
(* (internal/cli/hub_join.go, hub_keys.go, hub_authorize.go), with a kill  *)
(* after every step that leaves something on a disk.                       *)
(*                                                                         *)
(* One machine joins as one agent. The hub locks make its joins one after  *)
(* another; what moves a joined hub to a new URL is module HubMove. Host   *)
(* keys, names and the shims a join installs are left out. A key is the    *)
(* number of the ssh-keygen run that made it.                              *)
(***************************************************************************)
EXTENDS Naturals, FiniteSets, FiniteSetsExt

CONSTANTS MaxKey,   \* bound on the runs of ssh-keygen
          MaxFault, \* bound on kills, lost answers, unreachable hubs, revocations
          None

Version == 1..MaxKey
Me == "me"
Peer == "peer"
Authorizer == {"ssh", "operator", "peer"}   \* sessions of hub authorize

VARIABLES priv,    \* priv[v]: the key in <id>_ed25519.v<v>, 0 where there is none
          broken,  \* the versions whose private half ssh-keygen -y refuses
          pub,     \* pub[v]: the key in <id>_ed25519.v<v>.pub, 0 where there is none
          link,    \* the version the active symlink names, 0 when there is no link
          minted,  \* runs of ssh-keygen
          conf,    \* config.json: "none", "pending" (no pool id) or "joined"
          pointer, \* the checkout points at the hub
          join,    \* the join process
          paste,   \* the hub authorize command a join printed last
          lines,   \* lines[a]: the key of agent a in authorized_keys, 0 for none
          auth,    \* auth[z]: a session of hub authorize
          holder,  \* who holds the lock of authorized_keys
          lane,    \* the pool knows the agent: it has a row or an inbox
          faults

disk == <<priv, broken, pub, link, minted, conf, pointer>>
hub == <<lines, auth, holder, lane>>
vars == <<disk, join, paste, hub, faults>>

Off == [pc |-> "off", rotate |-> FALSE, staged |-> 0, v |-> 0, proven |-> FALSE, lost |-> FALSE, out |-> "none"]
Asleep == [pc |-> "off", key |-> 0, replace |-> FALSE, read |-> [a \in {Me, Peer} |-> 0], out |-> "none"]

Fault == faults < MaxFault /\ faults' = faults + 1
Unpasted == IF paste = None THEN FALSE ELSE lines[Me] # paste.key
Goto(pc) == join' = [join EXCEPT !.pc = pc]
End(out) == join' = [Off EXCEPT !.out = out]

-----------------------------------------------------------------------------
(* The keys directory *)

Versions == {v \in Version : priv[v] # 0}
Newest == Max(Versions)

NextVersion == IF Versions = {} THEN 1 ELSE Newest + 1
Good(v) == v \in Versions \ broken
Staged == IF Versions # {} /\ Newest > link THEN Newest ELSE 0

\* Whoever joins ran what the last join printed, or (a fault) lets the new join
\* print it again. The hub's side of a lost session ends before that: it is at
\* most one bounded wait for the lock and one rewrite.
Start(rotate) ==
  /\ join.pc = "off" /\ auth["ssh"].pc = "off" /\ auth["operator"].pc = "off"
  /\ IF Unpasted THEN Fault ELSE UNCHANGED faults
  /\ join' = [Off EXCEPT !.pc = "prepare", !.rotate = rotate] /\ paste' = None
  /\ auth' = [auth EXCEPT !["ssh"] = Asleep]
  /\ UNCHANGED <<disk, lines, holder, lane>>

\* prepareHubKey: a directory without a link adopts its newest key, or puts it
\* aside; one with a link needs a readable active key.
Prepare ==
  /\ join.pc = "prepare"
  /\ IF link # 0
       THEN IF Good(link) THEN Goto("public") ELSE End("failed")
       ELSE Goto(IF Versions = {} THEN "mint" ELSE IF Good(Newest) THEN "public" ELSE "retire")
  /\ UNCHANGED <<disk, paste, hub, faults>>

ToRepair == IF link # 0 THEN link ELSE Newest

\* ensureHubKeyPublic: a public half that is there is never touched.
EnsurePublic ==
  /\ join.pc = "public"
  /\ pub' = IF ToRepair # 0 /\ pub[ToRepair] = 0 THEN [pub EXCEPT ![ToRepair] = priv[ToRepair]] ELSE pub
  /\ Goto(IF link = 0 THEN "link" ELSE "rotate")
  /\ UNCHANGED <<priv, broken, link, minted, conf, pointer, paste, hub, faults>>

\* The private half goes first, in a rename of its own.
Retire ==
  /\ join.pc = "retire"
  /\ priv' = [priv EXCEPT ![Newest] = 0] /\ broken' = broken \ {Newest}
  /\ join' = [join EXCEPT !.pc = "retire-pub", !.v = Newest]
  /\ UNCHANGED <<pub, link, minted, conf, pointer, paste, hub, faults>>

RetirePublic ==
  /\ join.pc = "retire-pub" /\ pub' = [pub EXCEPT ![join.v] = 0]
  /\ Goto("mint")
  /\ UNCHANGED <<priv, broken, link, minted, conf, pointer, paste, hub, faults>>

\* ssh-keygen creates the private file, fills it, and writes the public one.
Mint ==
  /\ join.pc \in {"mint", "mint-staged"} /\ minted < MaxKey
  /\ minted' = minted + 1
  /\ priv' = [priv EXCEPT ![NextVersion] = minted'] /\ broken' = broken \cup {NextVersion}
  /\ join' = [join EXCEPT !.pc = IF @ = "mint" THEN "fill" ELSE "fill-staged", !.v = NextVersion]
  /\ UNCHANGED <<pub, link, conf, pointer, paste, hub, faults>>

Fill ==
  /\ join.pc \in {"fill", "fill-staged"}
  /\ broken' = broken \ {join.v}
  /\ Goto(IF join.pc = "fill" THEN "write-pub" ELSE "write-pub-staged")
  /\ UNCHANGED <<priv, pub, link, minted, conf, pointer, paste, hub, faults>>

WritePublic ==
  /\ join.pc \in {"write-pub", "write-pub-staged"}
  /\ pub' = [pub EXCEPT ![join.v] = priv[join.v]]
  /\ Goto(IF join.pc = "write-pub" THEN "link" ELSE "rotate")
  /\ UNCHANGED <<priv, broken, link, minted, conf, pointer, paste, hub, faults>>

Link ==
  /\ join.pc = "link" /\ link' = Newest /\ Goto("rotate")
  /\ UNCHANGED <<priv, broken, pub, minted, conf, pointer, paste, hub, faults>>

\* A staged key that is there is the one a rotation goes on with.
Rotate ==
  /\ join.pc = "rotate"
  /\ IF join.rotate /\ Staged = 0 /\ minted < MaxKey
       THEN Goto("mint-staged")
       ELSE join' = [Off EXCEPT !.staged = Staged, !.pc = IF Staged # 0 THEN "probe-staged" ELSE "probe"]
  /\ UNCHANGED <<disk, paste, hub, faults>>

-----------------------------------------------------------------------------
(* Probing and authorizing: finishHubJoinKey *)

\* The hub answers, refuses the key (an unreadable key is never offered), or
\* cannot be reached.
Accepted(v) == lines[Me] # 0 /\ priv[v] = lines[Me] /\ v \notin broken
Probe(v, yes, no, other) ==
  \/ Accepted(v) /\ yes /\ UNCHANGED faults
  \/ ~Accepted(v) /\ no /\ UNCHANGED faults
  \/ Fault /\ other

ProbeStaged ==
  /\ join.pc = "probe-staged"
  /\ Probe(Staged, join' = [join EXCEPT !.pc = "promote", !.proven = TRUE],
           Goto("probe-active"), join' = [join EXCEPT !.pc = "probe-active", !.lost = TRUE])
  /\ UNCHANGED <<disk, paste, hub>>

\* join.lost: the staged probe failed for another reason than its key.
ProbeActive ==
  /\ join.pc = "probe-active"
  /\ Probe(link, IF join.lost THEN End("failed") ELSE Goto("authorize"),
           IF join.lost THEN End("failed") ELSE Goto("print"), End("failed"))
  /\ UNCHANGED <<disk, paste, hub>>

ProbeOnly ==
  /\ join.pc = "probe"
  /\ Probe(link, Goto("prune"), Goto("authorize"), End("failed"))
  /\ UNCHANGED <<disk, paste, hub>>

Offered == IF join.staged # 0 THEN join.staged ELSE link
Replace == join.staged # 0 \/ Cardinality(Versions) > 1
NoPublic == pub[Offered] = 0

PrintPaste ==
  /\ join.pc = "print"
  /\ IF NoPublic THEN End("failed") /\ UNCHANGED paste
     ELSE paste' = [key |-> pub[Offered], replace |-> Replace] /\ Goto("incomplete")
  /\ UNCHANGED <<disk, hub, faults>>

Calls(z, key, replace) == auth' = [auth EXCEPT ![z] = [Asleep EXCEPT !.pc = "lock", !.key = key, !.replace = replace]]

\* authorizeHubJoinKey runs hub authorize over the operator's own ssh access.
Authorize ==
  /\ join.pc = "authorize"
  /\ IF NoPublic THEN End("failed") /\ UNCHANGED auth
     ELSE \/ auth["ssh"].pc = "off" /\ Calls("ssh", pub[Offered], Replace) /\ Goto("authorizing")
          \/ Goto("print") /\ UNCHANGED auth           \* no access, or no terminal
  /\ UNCHANGED <<disk, paste, lines, holder, lane, faults>>

\* Its answer, or the connection, is lost.
Authorized ==
  /\ join.pc = "authorizing"
  /\ \/ auth["ssh"].pc = "off" /\ auth["ssh"].out = "ok" /\ UNCHANGED faults
        /\ Goto(IF join.staged # 0 THEN "promote" ELSE "probe-again")
     \/ auth["ssh"].pc = "off" /\ auth["ssh"].out = "ok" /\ Replace
        /\ Fault /\ End("failed")          \* the old ssh master cannot be reaped
     \/ auth["ssh"].pc = "off" /\ auth["ssh"].out = "refused" /\ UNCHANGED faults /\ Goto("print")
     \/ Fault /\ Goto("print")
  /\ UNCHANGED <<disk, paste, hub>>

\* Mutant of Promote: the active key is replaced before its successor is proven.
PromoteEarly ==
  /\ join.pc \in {"promote", "probe-staged"} /\ link' = join.staged
  /\ Goto("prune")
  /\ UNCHANGED <<priv, broken, pub, minted, conf, pointer, paste, hub, faults>>

\* A symlink is made aside and renamed over the active one.
Promote ==
  /\ join.pc = "promote" /\ link' = join.staged
  /\ Goto(IF join.proven THEN "prune" ELSE "probe-again")
  /\ UNCHANGED <<priv, broken, pub, minted, conf, pointer, paste, hub, faults>>

ProbeAgain ==
  /\ join.pc = "probe-again"
  /\ Probe(link, Goto("prune"), End("failed"), End("failed"))
  /\ UNCHANGED <<disk, paste, hub>>

Old == {v \in Version : v < link /\ (priv[v] # 0 \/ (v = join.v /\ pub[v] # 0))}

\* Private half and public half of every older version, one remove at a time.
Prune ==
  /\ join.pc = "prune"
  /\ IF Old = {} THEN Goto("config") /\ UNCHANGED <<priv, broken, pub>>
     ELSE LET v == Min(Old) IN
          IF priv[v] # 0
            THEN /\ priv' = [priv EXCEPT ![v] = 0] /\ broken' = broken \ {v}
                 /\ join' = [join EXCEPT !.v = v] /\ UNCHANGED pub
            ELSE pub' = [pub EXCEPT ![v] = 0] /\ UNCHANGED <<priv, broken, join>>
  /\ UNCHANGED <<link, minted, conf, pointer, paste, hub, faults>>

-----------------------------------------------------------------------------
(* What a join records: config.json, then the pointer *)

\* A deferred rotation is still a join that works, with the old key. A hub
\* that cannot write its pool ends the join before anything is recorded.
WriteConfig ==
  /\ join.pc \in {"config", "incomplete"}
  /\ \/ join.pc = "incomplete" /\ conf = "joined" /\ End("incomplete") /\ UNCHANGED <<conf, faults>>
     \/ join.pc = "incomplete" /\ conf # "joined"
        /\ conf' = "pending" /\ Goto("point-incomplete") /\ UNCHANGED faults
     \/ join.pc = "config" /\ conf' = "joined" /\ Goto("point") /\ UNCHANGED faults
     \/ join.pc = "config" /\ Fault /\ End("failed") /\ UNCHANGED conf
  /\ UNCHANGED <<priv, broken, pub, link, minted, pointer, paste, hub>>

WritePointer ==
  /\ join.pc \in {"point", "point-incomplete"}
  /\ pointer' = TRUE
  /\ End(IF join.pc = "point" THEN "joined" ELSE "incomplete")
  /\ UNCHANGED <<priv, broken, pub, link, minted, conf, paste, hub, faults>>

Killed ==
  /\ join.pc # "off" /\ Fault /\ End("killed")
  /\ UNCHANGED <<disk, paste, hub>>

-----------------------------------------------------------------------------
(* hub authorize on the hub: one file, one lock, a bounded wait *)

AuthLock(z) ==
  /\ auth[z].pc = "lock"
  /\ \/ holder = None /\ holder' = z /\ auth' = [auth EXCEPT ![z].pc = "read"]
     \/ holder # None /\ auth' = [auth EXCEPT ![z] = [Asleep EXCEPT !.out = "refused"]] /\ UNCHANGED holder
  /\ UNCHANGED <<disk, join, paste, lines, lane, faults>>

AuthRead(z) ==
  /\ auth[z].pc = "read"
  /\ auth' = [auth EXCEPT ![z].pc = "write", ![z].read = lines]
  /\ UNCHANGED <<disk, join, paste, lines, holder, lane, faults>>

AgentOf(z) == IF z = "peer" THEN Peer ELSE Me
Held(z) == IF holder = z THEN None ELSE holder

\* An id that the pool knows without a key needs --takeover, which only the
\* operator adds.
Takeover(z) == AgentOf(z) = Me /\ lane /\ z # "operator"

\* The lines of one marker become one line, in a file renamed over the old one.
Rewritten(r, a) == [r.read EXCEPT ![a] = r.key]

\* One key is one agent: another key needs --replace-key.
AuthWrite(z) ==
  LET r == auth[z]
      a == AgentOf(z)
      refused == \/ r.read[a] \notin {0, r.key} /\ ~r.replace
                 \/ r.read[a] = 0 /\ Takeover(z)
  IN
  /\ r.pc = "write" /\ holder' = Held(z)
  /\ auth' = [auth EXCEPT ![z] = [Asleep EXCEPT !.out = IF z = "operator" THEN "none"
                                                       ELSE IF refused THEN "refused" ELSE "ok"]]
  /\ lines' = IF refused THEN lines ELSE Rewritten(r, a)
  /\ UNCHANGED <<disk, join, paste, lane, faults>>

AuthKilled(z) ==
  /\ auth[z].pc # "off" /\ Fault
  /\ auth' = [auth EXCEPT ![z] = [Asleep EXCEPT !.out = "refused"]] /\ holder' = Held(z)
  /\ UNCHANGED <<disk, join, paste, lines, lane>>

\* The operator runs the command that the last incomplete join printed.
OperatorPastes ==
  /\ join.pc = "off" /\ Unpasted /\ auth["operator"].pc = "off"
  /\ Calls("operator", paste.key, paste.replace)
  /\ UNCHANGED <<disk, join, paste, lines, holder, lane, faults>>

PeerJoins ==
  /\ auth["peer"] = Asleep /\ Calls("peer", 1, FALSE)
  /\ UNCHANGED <<disk, join, paste, lines, holder, lane, faults>>

\* hub authorize --revoke, whole under the lock. The operator who revokes a
\* machine does not then run a command it printed before.
Revoke ==
  /\ lines[Me] # 0 /\ holder = None /\ auth["operator"].pc = "off" /\ Fault
  /\ lines' = [lines EXCEPT ![Me] = 0] /\ paste' = None
  /\ UNCHANGED <<disk, join, auth, holder, lane>>

\* The lane runs with its key and registers.
LaneRuns ==
  /\ ~lane /\ conf = "joined" /\ Accepted(link) /\ lane' = TRUE
  /\ UNCHANGED <<disk, join, paste, lines, auth, holder, faults>>

-----------------------------------------------------------------------------
Init ==
  /\ priv = [v \in Version |-> 0] /\ pub = [v \in Version |-> 0]
  /\ broken = {} /\ link = 0 /\ minted = 0 /\ conf = "none" /\ pointer = FALSE
  /\ join = Off /\ paste = None
  /\ lines = [a \in {Me, Peer} |-> 0]
  /\ auth = [z \in Authorizer |-> Asleep] /\ holder = None /\ lane = FALSE
  /\ faults = 0

JoinStep ==
  \/ Prepare \/ EnsurePublic \/ Retire \/ RetirePublic \/ Mint \/ Fill \/ WritePublic \/ Link
  \/ Rotate \/ ProbeStaged \/ ProbeActive \/ ProbeOnly \/ PrintPaste \/ Authorize \/ Authorized
  \/ Promote \/ ProbeAgain \/ Prune \/ WriteConfig \/ WritePointer

AuthStep(z) == AuthLock(z) \/ AuthRead(z) \/ AuthWrite(z)

Next ==
  \/ \E rotate \in BOOLEAN : Start(rotate)
  \/ JoinStep \/ Killed
  \/ \E z \in Authorizer : AuthStep(z) \/ AuthKilled(z)
  \/ OperatorPastes \/ PeerJoins \/ Revoke \/ LaneRuns

Spec == Init /\ [][Next]_vars

\* Whoever joins runs the command again, and does what it prints; processes run.
Fairness ==
  /\ WF_vars(Start(FALSE)) /\ WF_vars(JoinStep)
  /\ \A z \in Authorizer : WF_vars(AuthStep(z))
  /\ WF_vars(OperatorPastes)

FairSpec == Spec /\ Fairness

-----------------------------------------------------------------------------
(* Properties *)

TypeOK ==
  /\ priv \in [Version -> 0..MaxKey] /\ pub \in [Version -> 0..MaxKey]
  /\ broken \subseteq Versions /\ link \in {0} \cup Versions
  /\ conf \in {"none", "pending", "joined"} /\ pointer \in BOOLEAN
  /\ lines \in [{Me, Peer} -> 0..MaxKey] /\ holder \in Authorizer \cup {None}
  /\ \A v \in Version : pub[v] # 0 /\ priv[v] # 0 => pub[v] = priv[v]

\* The key that the hub has authorized for this machine is one that this
\* machine can still present: no prune, retirement or repair destroys it.
KeyKept == lines[Me] # 0 => \E v \in Versions \ broken : priv[v] = lines[Me]

\* A join that records its pool id is not undone by a later join that could
\* not finish a rotation.
ConfKept == [][conf = "joined" => conf' = "joined"]_conf

\* What one session of hub authorize wrote is not lost to another session that
\* rewrites the same file.
PeerKept == auth["peer"].out = "ok" => lines[Peer] # 0

\* A staged key whose public half never reached the disk.
StagedStuck == link # 0 /\ Staged # 0 /\ pub[Staged] = 0
=============================================================================
