---------------------------------- MODULE MCHub ----------------------------------
(***************************************************************************)
(* A hub, for TLC: what hub join does to the disks when a hub moves to a   *)
(* new URL (HubMove) or stays where it is (K, HubJoin), or the sessions of *)
(* the clients of a hub (S, HubSession). A behaviour is one of the three.  *)
(*                                                                         *)
(* The sessions: a send that is repeated, a check and an ack beside each   *)
(* other, a lane that is relaunched, two lanes of one id.                  *)
(***************************************************************************)
EXTENDS HubMove

CONSTANTS MaxKey,                              \* of HubJoin
          Client, Conn, Mail, Casts, MaxId,    \* of HubSession
          c1, c2

VARIABLES side,
          priv, broken, pub, link, minted, conf, paste, lines, auth, lane,
          kpointer, kjoin, kholder, kfaults,
          cast, client, conn, alive, up, down, hub, claim, inbox, claimed, archive,
          landed, sfaults

K == INSTANCE HubJoin WITH pointer <- kpointer, join <- kjoin, holder <- kholder,
                           faults <- kfaults

Plays(one, two, n) == [job |-> [c \in Client |-> IF c = c1 THEN one ELSE two], faults |-> n]
Lane == Plays("lane", None, 2)
MCCasts == {Plays("send", None, 2), Plays("check", "ack", 1), Plays("query", "send", 1),
            Lane, Plays("lane", "lane", 1)}
S == INSTANCE HubSession WITH faults <- sfaults

ASSUME KeysAssumption == MaxKey \in Nat \ {0} /\ None \notin K!Authorizer
ASSUME SessionAssumption == /\ \A x \in Casts : x.job \in [Client -> S!Jobs \cup {None}]
                            /\ None \notin Client /\ None \notin Conn
                            /\ None \notin S!Jobs \cup S!Reports

keys == <<priv, broken, pub, link, minted, conf, paste, lines, auth, lane,
          kpointer, kjoin, kholder, kfaults>>
session == <<cast, client, conn, alive, up, down, hub, claim, inbox, claimed, archive,
             landed, sfaults>>
all == <<vars, keys, session, side>>

Moves(A) == side = "move" /\ A /\ UNCHANGED <<keys, session, side>>
Keeps(A) == side = "keys" /\ A /\ UNCHANGED <<vars, session, side>>
Talks(A) == side = "session" /\ A /\ UNCHANGED <<vars, keys, side>>

\* The sides that are not played stand still in one initial state.
HubInit == /\ Init /\ K!Init /\ S!Init /\ side \in {"move", "keys", "session"}
           /\ side # "move" => recorded
           /\ side # "session" => cast = Lane
HubRuns == HubInit /\ [][Moves(Next) \/ Keeps(K!Next) \/ Talks(S!Next)]_all

(* The fairness of HubMove, HubJoin and HubSession, each on its own side. *)
HubSpec ==
  /\ HubRuns
  /\ WF_all(Moves(Start(Last, TRUE)))
  /\ \A j \in Join : WF_all(Moves(JoinStep(j))) /\ WF_all(Moves(Acquire(j) \/ Busy(j)))
  /\ \A p \in Holder : WF_all(Moves(HolderStep(p)))
  /\ WF_all(Keeps(K!Start(FALSE))) /\ WF_all(Keeps(K!JoinStep))
  /\ \A z \in K!Authorizer : WF_all(Keeps(K!AuthStep(z)))
  /\ WF_all(Keeps(K!OperatorPastes))
  /\ \A k \in Conn : WF_all(Talks(S!HangsUp(k)))

\* The disks, the keys and the sessions keep their types.
HubTypeOK == TypeOK /\ K!TypeOK /\ S!TypeOK

\* A move loses no file, moves nothing under a process that holds the hub, and
\* leaves the checkout pointing at a joined hub, wherever it is killed.
MoveSafe == NothingLost /\ HolderUndisturbed /\ PointerJoined

\* No key the hub has authorized is lost, here or in the hub's file, and a join
\* that recorded its pool is not undone.
KeysSafe == [](K!KeyKept /\ K!PeerKept) /\ K!ConfKept

\* What a client reports of its session is true of the hub, and no lane is
\* refused for an order of verbs it did not choose.
ReportsTrue == S!SendTrue /\ S!ResultTrue /\ S!InOrder

(* An interrupted move, or an interrupted join, ends when the join is run     *)
(* again, unless the new tree was used in between or a rotation was killed    *)
(* inside ssh-keygen. A session whose client is gone gives the lease back      *)
(* (HubSession!ClaimFreed).                                                   *)
HubHeals ==
  /\ S!ClaimFreed
  /\ []<>(CASE side = "move" -> join[Last].out = "joined" \/ Diverged
            [] side = "keys" -> kjoin.out = "joined" \/ K!StagedStuck
            [] OTHER -> TRUE)
=============================================================================
