------------------------------- MODULE HubSession -------------------------------
(***************************************************************************)
(* A remote lane and its one-shot commands against the hub: the client     *)
(* sessions of internal/hubclient (session.go, channel.go), the sessions   *)
(* that sshd starts on the hub (internal/cli/hub_session.go), the stateful *)
(* channel behind a lane's session (internal/op/channel.go), and the       *)
(* relaunch loop of a remote serve (internal/cli/serve.go).                *)
(*                                                                         *)
(* Every attempt has a connection of its own. A connection carries frames  *)
(* in order until it dies, and then each side learns of it in its own      *)
(* time. Contents of frames, formats and limits of size are left out: what *)
(* the codec rejects, an operation refuses or a host lacks is one refusal. *)
(***************************************************************************)
EXTENDS Naturals, Sequences

CONSTANTS Client,   \* slots of client processes
          Conn,     \* connections, 1, 2, ... : bounds the attempts
          Mail,     \* what waits in the agent's inbox on the hub
          Casts,    \* who takes part with what to do, and how many faults
          MaxId,    \* bound on a lane's ticks: the last request id of one
          None

VARIABLES cast,     \* one of Casts, chosen once
          client,   \* client[c]: how far a client process is
          conn,     \* conn[k]: the client that opened connection k
          alive,    \* alive[k]: the network still carries connection k
          up, down, \* frames in flight, in order
          hub,      \* hub[k]: the session process of connection k
          claim,    \* state/<id>/serve.claim on the hub
          inbox, claimed, archive,
          landed,   \* landed[c]: how often the body of c reached its recipient
          faults

pool == <<inbox, claimed, archive, landed>>
vars == <<cast, client, conn, alive, up, down, hub, claim, pool, faults>>

\* A client's stage, its connection and the id of its request; whether a byte
\* of a send was written; what it printed; the outcome it reports; for a lane,
\* the next request, and whether the last failure was a fence.
Idle == [pc |-> "idle", on |-> None, id |-> 0, sent |-> FALSE, shown |-> {},
         out |-> None, ask |-> None, fenced |-> FALSE]

\* A session's stage, the last id it took, its mode, whether Register gave it
\* a heartbeat template, the request it works on, and what it moved or showed.
Asleep == [pc |-> "none", last |-> 0, mode |-> "", template |-> FALSE,
           re |-> 0, did |-> {}]

Job(c) == cast.job[c]
On(c) == client[c].on
Uses(k) == conn[k] # None /\ On(conn[k]) = k     \* the client has it open
Gone(k) == hub[k].pc \in {"end", "killed"}
Deaf(k) == ~alive[k] \/ ~Uses(k)
Fault == faults < cast.faults /\ faults' = faults + 1

Frame(t, id) == [t |-> t, id |-> id, m |-> None]
Reply(k, t, re, m) ==
  down' = IF Deaf(k) THEN down ELSE [down EXCEPT ![k] = Append(@, [t |-> t, id |-> re, m |-> m])]
Refusals == {"refused", "fenced", "held", "order", "unsupported"}

-----------------------------------------------------------------------------
(* The client: connect, hello, request *)

Free == {k \in Conn : conn[k] = None}

\* OpenOneShot and OpenChannel: ssh starts, and the hello is written.
Dial(c, k) ==
  /\ client[c].pc = "idle" /\ Job(c) # None
  /\ k \in Free /\ \A j \in Free : k <= j
  /\ client' = [client EXCEPT ![c] = [Idle EXCEPT !.pc = "hello", !.on = k, !.id = 1,
                  !.fenced = client[c].fenced,
                  !.ask = IF Job(c) = "lane" THEN "lease-acquire" ELSE Job(c)]]
  /\ conn' = [conn EXCEPT ![k] = c]
  /\ up' = [up EXCEPT ![k] = <<Frame("hello", 1)>>]
  /\ hub' = [hub EXCEPT ![k].pc = "hello"]
  /\ UNCHANGED <<cast, alive, down, claim, pool, faults>>

\* Where a failure leaves a client: a command reports it; a lane stops its
\* child, and launches again or gives up.
Fail(c, code) ==
  LET r == client[c]
      fenced == r.fenced /\ r.ask \notin {"tick", "lease-release"}   \* started resets it
      again == code \in {"connect", "lost"} \/ (code = "fenced" /\ ~fenced)
  IN
  client' = [client EXCEPT ![c] =
    IF Job(c) # "lane" \/ ~again
      THEN [r EXCEPT !.pc = "done", !.on = None, !.out = code]
      ELSE [Idle EXCEPT !.fenced = (code = "fenced") \/ fenced]]

Unreachable(c) ==
  /\ client[c].pc = "idle" /\ Job(c) # None /\ Fault
  /\ Fail(c, "connect")
  /\ UNCHANGED <<cast, conn, alive, up, down, hub, claim, pool>>

\* The first byte of a send goes out in a write of its own.
WriteFirst(c) ==
  /\ client[c].pc = "request" /\ Job(c) = "send" /\ ~client[c].sent
  /\ client' = [client EXCEPT ![c].sent = TRUE]
  /\ UNCHANGED <<cast, conn, alive, up, down, hub, claim, pool, faults>>

Write(c) ==
  /\ client[c].pc = "request" /\ (Job(c) = "send" => client[c].sent)
  /\ client[c].ask = "tick" => client[c].id <= MaxId
  /\ client' = [client EXCEPT ![c].pc = "waiting"]
  /\ up' = IF alive[On(c)] THEN [up EXCEPT ![On(c)] = Append(@, Frame(client[c].ask, client[c].id))]
           ELSE up
  /\ UNCHANGED <<cast, conn, alive, down, hub, claim, pool, faults>>

-----------------------------------------------------------------------------
(* The client: answers *)

\* What the loss of an operation's connection is reported as.
\* Mutant of LossCode: a send counts as sent when its answer was read.
LossCodePlain(c) == IF client[c].shown # {} THEN "result-unknown" ELSE "lost"

LossCode(c) == IF client[c].sent THEN "send-unknown"
               ELSE IF client[c].shown # {} THEN "result-unknown" ELSE "lost"

Closed(k) == down[k] = <<>> /\ (~alive[k] \/ Gone(k))

\* A failed write, an end of the stream, or a deadline that expires.
Lost(c) ==
  /\ client[c].pc \in {"request", "waiting"} /\ Closed(On(c))
  /\ Fail(c, LossCode(c))
  /\ UNCHANGED <<cast, conn, alive, up, down, hub, claim, pool, faults>>

TimesOut(c) ==
  /\ client[c].pc = "waiting" /\ down[On(c)] = <<>> /\ Fault
  /\ Fail(c, LossCode(c))
  /\ UNCHANGED <<cast, conn, alive, up, down, hub, claim, pool>>

HelloFails(c) ==
  /\ client[c].pc = "hello"
  /\ \/ /\ Closed(On(c)) /\ Fail(c, "connect") /\ UNCHANGED faults
     \/ /\ down[On(c)] = <<>> /\ Fault /\ Fail(c, "hello-timeout")
  /\ UNCHANGED <<cast, conn, alive, up, down, hub, claim, pool>>

Got(c, t) == /\ On(c) # None /\ down[On(c)] # <<>> /\ Head(down[On(c)]).t = t
             /\ down' = [down EXCEPT ![On(c)] = Tail(@)]
             /\ UNCHANGED <<cast, conn, alive, up, hub, claim, pool, faults>>
Mine(c) == Head(down[On(c)]).id = client[c].id

\* The hello is answered; agent and pool are the ones this machine joined.
HelloOK(c) ==
  /\ client[c].pc = "hello" /\ Got(c, "hello-ok")
  /\ client' = [client EXCEPT ![c].pc = "request", ![c].id = @ + 1]

\* msg, note, owed-item or ack-item.
Streamed(c) ==
  /\ client[c].pc = "waiting" /\ Got(c, "item") /\ Mine(c)
  /\ client' = [client EXCEPT ![c].shown = @ \cup {Head(down[On(c)]).m}]

\* The hub's own error frame for this request is an answer; one that names
\* another request, as a read deadline's does, is not.
Refused(c) ==
  /\ client[c].pc \in {"hello", "waiting"} /\ \E code \in Refusals : Got(c, code)
  /\ Fail(c, IF client[c].pc = "hello" \/ Mine(c) THEN Head(down[On(c)]).t
             ELSE IF client[c].sent THEN "send-unknown" ELSE "malformed")

Then(ask) == CASE ask = "lease-acquire" -> "register" [] ask = "register" -> "tick" [] OTHER -> ask

\* The terminal frame. A one-shot closes; a lane goes on, its child running
\* from the first tick on.
Answered(c) ==
  /\ client[c].pc = "waiting" /\ Got(c, "ok") /\ Mine(c)
  /\ client' = [client EXCEPT ![c] =
       IF Job(c) # "lane" \/ client[c].ask = "lease-release"
         THEN [client[c] EXCEPT !.pc = "done", !.on = None, !.out = "ok"]
         ELSE [client[c] EXCEPT !.pc = "request", !.id = @ + 1, !.ask = Then(@)]]

\* The child ended, or could not be started: the lease is given back.
LetGo(c) ==
  /\ client[c].pc = "request" /\ client[c].ask = "tick"
  /\ client' = [client EXCEPT ![c].ask = "lease-release"]
  /\ UNCHANGED <<cast, conn, alive, up, down, hub, claim, pool, faults>>

\* What reports that nothing was delivered may be run again.
SendAgain(c) ==
  /\ Job(c) = "send" /\ client[c].pc = "done"
  /\ client[c].out \in Refusals \cup {"connect", "lost", "hello-timeout"}
  /\ client' = [client EXCEPT ![c] = Idle]
  /\ UNCHANGED <<cast, conn, alive, up, down, hub, claim, pool, faults>>

ClientKilled(c) ==
  /\ client[c].pc \notin {"idle", "done"} /\ Fault
  /\ client' = [client EXCEPT ![c].pc = "done", ![c].on = None, ![c].out = "killed"]
  /\ UNCHANGED <<cast, conn, alive, up, down, hub, claim, pool>>

-----------------------------------------------------------------------------
(* The hub's session *)

Held(k) == claim # None /\ claim.by = k

\* AcquireServeLease: a fresh claim, or a stale one whose process runs, holds.
Acquirable == claim # None => ~claim.fresh /\ Gone(claim.by)

\* Every way out of serveHubSession releases a lease that is still its own.
End(k) == /\ hub' = [hub EXCEPT ![k] = [Asleep EXCEPT !.pc = "end", !.did = hub[k].did]]
          /\ claim' = IF Held(k) THEN None ELSE claim

Reads(k, pc, t) == /\ hub[k].pc = pc /\ up[k] # <<>> /\ Head(up[k]).t = t
                   /\ up' = [up EXCEPT ![k] = Tail(@)]
                   /\ UNCHANGED <<cast, client, conn, alive>>
Req(k) == Head(up[k]).id
Takes(k, t) == Reads(k, "loop", t) /\ Req(k) > hub[k].last
Stays(k, r) == hub' = [hub EXCEPT ![k] = [r EXCEPT !.last = Req(k)]]

\* The pool, the pinned agent and the version are what the hello asks for.
Hello(k) ==
  /\ Reads(k, "hello", "hello")
  /\ Reply(k, "hello-ok", Req(k), None)
  /\ hub' = [hub EXCEPT ![k].pc = "loop", ![k].last = Req(k)]
  /\ UNCHANGED <<claim, pool, faults>>

HelloRefused(k) ==
  /\ Reads(k, "hello", "hello") /\ Fault
  /\ Reply(k, "refused", Req(k), None) /\ End(k)
  /\ UNCHANGED pool

Acquire(k) ==
  /\ Takes(k, "lease-acquire") /\ hub[k].mode = ""
  /\ IF Acquirable
       THEN /\ claim' = [by |-> k, fresh |-> TRUE]
            /\ Stays(k, [hub[k] EXCEPT !.mode = "channel"])
            /\ Reply(k, "ok", Req(k), None)
       ELSE Reply(k, "held", Req(k), None) /\ End(k)
  /\ UNCHANGED <<pool, faults>>

\* In a channel a failed register leaves the session open.
Register(k) ==
  /\ Takes(k, "register")
  /\ \/ /\ Reply(k, "ok", Req(k), None) /\ UNCHANGED faults
        /\ Stays(k, [hub[k] EXCEPT !.template = TRUE])
     \/ /\ Fault /\ Reply(k, "refused", Req(k), None)
        /\ Stays(k, hub[k])
  /\ UNCHANGED <<claim, pool>>

\* Tick: a template first, then the fence; only the fence ends the session.
Tick(k) ==
  /\ Takes(k, "tick")
  /\ IF hub[k].mode # "channel" \/ ~hub[k].template
       THEN Reply(k, "order", Req(k), None) /\ Stays(k, hub[k]) /\ UNCHANGED claim
     ELSE IF ~Held(k) THEN Reply(k, "fenced", Req(k), None) /\ End(k)
     ELSE /\ claim' = [claim EXCEPT !.fresh = TRUE]
          /\ Reply(k, "ok", Req(k), None) /\ Stays(k, hub[k])
  /\ UNCHANGED <<pool, faults>>

Release(k) ==
  /\ Takes(k, "lease-release")
  /\ Reply(k, "ok", Req(k), None) /\ End(k)
  /\ UNCHANGED <<pool, faults>>

\* op.Send commits, or refuses and delivers nothing; the answer comes after.
Send(k) ==
  /\ Takes(k, "send")
  /\ \/ /\ landed' = [landed EXCEPT ![conn[k]] = @ + 1]
        /\ hub' = [hub EXCEPT ![k].pc = "answer", ![k].last = Req(k), ![k].re = Req(k)]
        /\ UNCHANGED <<down, claim, faults>>
     \/ /\ Fault /\ Reply(k, "refused", Req(k), None) /\ End(k)
        /\ UNCHANGED landed
  /\ UNCHANGED <<inbox, claimed, archive>>

\* status, gate, pending, clean-owed and a register outside a channel: one
\* answer, and it ends the session.
Query(k) ==
  /\ Takes(k, "query") /\ hub[k].mode = ""
  /\ \/ Reply(k, "ok", Req(k), None) /\ UNCHANGED faults
     \/ Fault /\ Reply(k, "refused", Req(k), None)
  /\ End(k)
  /\ UNCHANGED pool

\* op.Claim and op.Ack work through the mail and stream it.
Stream(k, t) ==
  /\ Takes(k, t)
  /\ hub' = [hub EXCEPT ![k].pc = t, ![k].last = Req(k), ![k].re = Req(k)]
  /\ UNCHANGED <<down, claim, pool, faults>>

\* A message is claimed, then its frame is written.
ClaimOne(k, m) ==
  /\ hub[k].pc = "check" /\ m \in (inbox \cup claimed) \ hub[k].did
  /\ inbox' = inbox \ {m} /\ claimed' = claimed \cup {m}
  /\ Reply(k, "item", hub[k].re, m)
  /\ hub' = [hub EXCEPT ![k].did = @ \cup {m}]
  /\ UNCHANGED <<cast, client, conn, alive, up, claim, archive, landed, faults>>

AckOne(k, m) ==
  /\ hub[k].pc = "ack" /\ m \in claimed
  /\ claimed' = claimed \ {m} /\ archive' = archive \cup {m}
  /\ Reply(k, "item", hub[k].re, m)
  /\ hub' = [hub EXCEPT ![k].did = @ \cup {m}]
  /\ UNCHANGED <<cast, client, conn, alive, up, claim, inbox, landed, faults>>

Finish(k) ==
  /\ \/ hub[k].pc = "answer"
     \/ hub[k].pc = "check" /\ inbox \cup claimed \subseteq hub[k].did
     \/ hub[k].pc = "ack" /\ claimed = {}
  /\ Reply(k, "ok", hub[k].re, None) /\ End(k)
  /\ UNCHANGED <<cast, client, conn, alive, up, pool, faults>>

\* An operation fails on the way: an error frame after what was streamed.
Break(k) ==
  /\ hub[k].pc \in {"check", "ack"} /\ Fault
  /\ Reply(k, "refused", hub[k].re, None) /\ End(k)
  /\ UNCHANGED <<cast, client, conn, alive, up, pool>>

\* An end of the stream, a failed write, sshd's SIGHUP, a read deadline.
HangsUp(k) ==
  /\ hub[k].pc # "none" /\ ~Gone(k) /\ Deaf(k)
  /\ End(k)
  /\ UNCHANGED <<cast, client, conn, alive, up, down, pool, faults>>

\* A deadline of a silent client, whose error frame answers no request.
Deadline(k) ==
  /\ hub[k].pc \in {"hello", "loop"} /\ up[k] = <<>> /\ Fault
  /\ Reply(k, "refused", 0, None) /\ End(k)
  /\ UNCHANGED <<cast, client, conn, alive, up, pool>>

\* SIGTERM or the one-shot lifetime, at any point.
Stopped(k) ==
  /\ hub[k].pc # "none" /\ ~Gone(k) /\ Fault
  /\ End(k)
  /\ UNCHANGED <<cast, client, conn, alive, up, down, pool>>

HubKilled(k) ==
  /\ hub[k].pc # "none" /\ ~Gone(k) /\ Fault
  /\ hub' = [hub EXCEPT ![k] = [Asleep EXCEPT !.pc = "killed", !.did = hub[k].did]]
  /\ UNCHANGED <<cast, client, conn, alive, up, down, claim, pool>>

-----------------------------------------------------------------------------
(* The network, and what else touches the claim *)

Prefixes(s) == {SubSeq(s, 1, n) : n \in 0..Len(s)}

\* The connection dies with what was in flight behind some point.
Cut(k) ==
  /\ alive[k] /\ Uses(k) /\ Fault
  /\ alive' = [alive EXCEPT ![k] = FALSE]
  /\ \E u \in Prefixes(up[k]), d \in Prefixes(down[k]) :
       up' = [up EXCEPT ![k] = u] /\ down' = [down EXCEPT ![k] = d]
  /\ UNCHANGED <<cast, client, conn, hub, claim, pool>>

ClaimAges ==
  /\ claim # None /\ claim.fresh
  /\ Gone(claim.by) \/ Deaf(claim.by)
  /\ claim' = [claim EXCEPT !.fresh = FALSE]
  /\ UNCHANGED <<cast, client, conn, alive, up, down, hub, pool, faults>>

\* update and setup on the hub remove every claim.
Invalidate ==
  /\ claim # None /\ Fault
  /\ claim' = None
  /\ UNCHANGED <<cast, client, conn, alive, up, down, hub, pool>>

-----------------------------------------------------------------------------
Init ==
  /\ cast \in Casts
  /\ client = [c \in Client |-> Idle]
  /\ conn = [k \in Conn |-> None]
  /\ alive = [k \in Conn |-> TRUE]
  /\ up = [k \in Conn |-> <<>>] /\ down = [k \in Conn |-> <<>>]
  /\ hub = [k \in Conn |-> Asleep]
  /\ claim = None
  /\ inbox = Mail /\ claimed = {} /\ archive = {}
  /\ landed = [c \in Client |-> 0]
  /\ faults = 0

Next ==
  \/ \E c \in Client :
       \/ \E k \in Conn : Dial(c, k)
       \/ Unreachable(c) \/ WriteFirst(c) \/ Write(c) \/ Lost(c) \/ TimesOut(c)
       \/ HelloFails(c) \/ HelloOK(c) \/ Streamed(c) \/ Refused(c) \/ Answered(c)
       \/ LetGo(c) \/ SendAgain(c) \/ ClientKilled(c)
  \/ \E k \in Conn :
       \/ Hello(k) \/ HelloRefused(k) \/ Acquire(k) \/ Register(k) \/ Tick(k) \/ Release(k)
       \/ Send(k) \/ Query(k) \/ \E t \in {"check", "ack"} : Stream(k, t)
       \/ \E m \in Mail : ClaimOne(k, m) \/ AckOne(k, m)
       \/ Finish(k) \/ Break(k) \/ HangsUp(k) \/ Deadline(k) \/ Stopped(k) \/ HubKilled(k)
       \/ Cut(k)
  \/ ClaimAges \/ Invalidate

Spec == Init /\ [][Next]_vars

\* A session's reads and writes have deadlines, and sshd signals a hang-up.
FairSpec == Spec /\ \A k \in Conn : WF_vars(HangsUp(k)) 

-----------------------------------------------------------------------------
Jobs == {"send", "check", "ack", "query", "lane"}
Reports == Refusals \cup {"ok", "connect", "hello-timeout", "lost", "send-unknown",
                          "result-unknown", "malformed", "killed"}

TypeOK ==
  /\ \A c \in Client : client[c].out \in Reports \cup {None} /\ client[c].shown \subseteq Mail
  /\ \A k \in Conn : hub[k].last <= 2 \/ hub[k].mode = "channel"
  /\ claim # None => claim.by \in Conn /\ (~Gone(claim.by) => hub[claim.by].mode = "channel")
  /\ inbox \cap claimed = {} /\ claimed \cap archive = {}

\* A send that is reported as not delivered, and may be run again, landed
\* nowhere and never will; a sender that heeds the reports delivers once.
SendTrue ==
  \A c \in Client :
    /\ landed[c] <= 1
    /\ client[c].out \in Refusals \cup {"lost", "connect", "hello-timeout"} => landed[c] = 0

\* What a client printed did happen on the hub, and a check or an ack that
\* succeeds printed all that its session did: nothing is claimed or archived
\* behind its back, and no mail that was there is left over.
ResultTrue ==
  \A k \in Conn : conn[k] # None =>
    LET c == conn[k] IN
    /\ Job(c) = "check" => client[c].shown \subseteq claimed \cup archive
    /\ Job(c) = "ack" => client[c].shown \subseteq archive
    /\ Job(c) \in {"check", "ack"} /\ client[c].out = "ok" => hub[k].did \subseteq client[c].shown
    /\ Job(c) = "check" /\ client[c].out = "ok" => inbox = {}

\* A lane never meets an order error: acquire, register and tick reach the hub
\* in this order on every connection, whatever was lost before.
InOrder == \A c \in Client : client[c].out # "order"

\* A session whose client is gone does not keep the lease for ever.
ClaimFreed == []<>(\A k \in Conn : Held(k) /\ Deaf(k) => hub[k].pc = "killed")
=============================================================================
