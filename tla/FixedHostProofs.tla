-------------------------- MODULE FixedHostProofs --------------------------
(***************************************************************************)
(* Proofs about FixedHost, for any number of faults: a trade is committed  *)
(* only when both runtimes ended it and no user was told otherwise, and    *)
(* after a lost connection runtime, client and relay agree again on the    *)
(* ticket that is under way and on whether the game stands still.          *)
(***************************************************************************)
EXTENDS FixedHost, SequenceTheorems, TLAPS

Notes == {"paired", "resumed", "paused", "over", "term", "ack"}
Controls == [state : Active \cup {"FINISHED", "ABORTED"}, pre : SUBSET Roles,
             ticket : [Roles -> {"none", "issued", "used"}],
             timer : {"off", "on", "late"}, done : SUBSET Roles, over : BOOLEAN]
Clients == [pc : {"poll", "blocked", "saves", "ticket", "play", "final", "stop", "ended"},
            owes : BOOLEAN, said : {"none", "saved", "check", "left", "aborted", "closed"}]
Children == [pc : {"off"} \cup Alive \cup Exits, held : BOOLEAN, conn : BOOLEAN]
Pipes == [ask : {"none", "event", "flag"}, answer : {"none", "ticket", "zero"}]
Links == [Roles -> {"none", "pending", "active", "dropped"}]
Relays == [link : Links, old : SUBSET Roles,
           fresh : SUBSET Roles, late : SUBSET Roles,
           ending : {"no", "tell", "pause", "register", "report"}, own : BOOLEAN,
           retained : BOOLEAN, term : BOOLEAN, acked : BOOLEAN]
NoRequest == [ask |-> "none", answer |-> "none"]

Typed ==
    /\ game \in [policy : Policies, roms : BOOLEAN, saves : BOOLEAN]
    /\ control \in Controls
    /\ client \in [Roles -> Clients]
    /\ child \in [Roles -> Children]
    /\ pipe \in [Roles -> Pipes]
    /\ relay \in Relays
    /\ wire \in [Roles -> Seq(Notes)]
    /\ up \in [Roles -> {"none", "term", "ack"}]
    /\ faults \in 0 .. MaxFaults

\* A client that does not play has no runtime, and nothing in its pipes.
Idle == \A r \in Roles : client[r].pc # "play" => child[r].pc = "off" /\ pipe[r] = NoRequest

\* A runtime waits for an answer exactly while its request or the answer is under way.
InStep(pc, p) ==
    /\ p.ask = "none" \/ p.answer = "none"
    /\ pc = "asked" <=> p.ask # "none" \/ p.answer # "none"

Asking == \A r \in Roles : child[r].pc \in Alive => InStep(child[r].pc, pipe[r])

\* A role that has claimed the end of a trade stays with it.
ClaimStays(c) == c.pc \in {"final", "stop", "ended"} /\ c.said \in {"none", "saved", "check", "aborted"}

Settled == \A r \in control.done : ClaimStays(client[r]) /\ game.policy = "commit_pair"

Quiet == \A r \in Roles : client[r].pc \notin {"stop", "ended"} => client[r].said = "none"

Committed ==
    /\ control.state = "FINISHED" => control.done = Roles
    /\ \A r \in Roles : client[r].said = "saved" => control.state = "FINISHED"

\* The host's own connection is in one place: with a handler, with the end of a bridge, or
\* registered.
Places ==
    /\ "host" \in relay.old => relay.link["host"] \in {"pending", "active"}
    /\ "host" \in relay.fresh => (relay.link["host"] = "none" \/ "host" \in relay.old) /\ ~relay.own
    /\ relay.own => /\ relay.ending \in {"tell", "pause", "register"}
                    /\ relay.link["host"] = "none" \/ "host" \in relay.old

\* What a host will know once it has read everything: the last word of the relay, or
\* what it knows already.
Marks(w) == {i \in DOMAIN w : w[i] \in {"paused", "resumed"}}
Shows(w, held, hold) ==
    \/ Marks(w) = {} /\ held = hold
    \/ \E i \in Marks(w) : (\A j \in Marks(w) : j =< i) /\ (w[i] = "paused") = hold

\* The host's connection has not been paired yet.
Calm ==
    \/ "host" \in relay.fresh
    \/ relay.link["host"] = "pending" /\ "host" \notin relay.old /\ ~relay.retained

HostKnows ==
    child["host"].pc \in {"wait", "again", "run"} /\ Up("host") =>
        IF Calm
        THEN wire["host"] = <<>> /\ child["host"].held = FALSE /\ child["host"].pc # "run"
        ELSE Shows(wire["host"], child["host"].held, ~Carried)

\* The inductive invariant.
Inv == Typed /\ Idle /\ Asking /\ Settled /\ Quiet /\ Committed /\ Places /\ HostKnows
-----------------------------------------------------------------------------
(* Facts about the operators. *)

\* There are two roles.
LEMMA TwoRoles == Other("host") = "remote" /\ Other("remote") = "host" /\ Roles = {"host", "remote"}
BY DEF Other, Roles

\* The last word is the pause's: WillHold says so.
LEMMA ShowsWillHold ==
    ASSUME NEW hold \in BOOLEAN, Shows(wire["host"], child["host"].held, hold),
           wire["host"] \in Seq(Notes)
    PROVE  WillHold <=> hold
<1> DEFINE w == wire["host"]
           marks == {i \in DOMAIN w : w[i] \in {"paused", "resumed"}}
<1>1. CASE marks = {}
  BY <1>1 DEF Shows, Marks, WillHold
<1>2. CASE marks # {}
  <2>1. PICK i \in marks : (\A j \in marks : j =< i) /\ (w[i] = "paused") = hold
    BY <1>2 DEF Shows, Marks
  <2>2. marks \subseteq Nat
    OBVIOUS
  <2>3. \A k \in marks : (\A j \in marks : j =< k) => k = i
    BY <2>1, <2>2
  <2>4. (CHOOSE k \in marks : \A j \in marks : j =< k) = i
    BY <2>1, <2>3
  <2>5. WillHold <=> (w[CHOOSE k \in marks : \A j \in marks : j =< k] = "paused")
    BY <1>2 DEF WillHold
  <2>6. QED
    BY <2>1, <2>4, <2>5
<1>3. QED
  BY <1>1, <1>2

\* A word on the pause is the last one when it is added.
LEMMA ShowsWord ==
    ASSUME NEW w \in Seq(Notes), NEW held, NEW m \in {"paused", "resumed"}
    PROVE  Shows(Append(w, m), held, m = "paused")
<1>1. /\ DOMAIN Append(w, m) = 1 .. Len(w) + 1 /\ Append(w, m)[Len(w) + 1] = m /\ Len(w) \in Nat
  OBVIOUS
<1>2. Len(w) + 1 \in Marks(Append(w, m)) /\ \A j \in Marks(Append(w, m)) : j =< Len(w) + 1
  BY <1>1 DEF Marks
<1>3. QED
  BY <1>1, <1>2 DEF Shows

\* Other messages do not matter.
LEMMA ShowsOther ==
    ASSUME NEW w \in Seq(Notes), NEW held, NEW hold \in BOOLEAN, Shows(w, held, hold),
           NEW m \in Notes \ {"paused", "resumed"}
    PROVE  Shows(Append(w, m), held, hold)
<1>1. /\ DOMAIN Append(w, m) = 1 .. Len(w) + 1 /\ DOMAIN w = 1 .. Len(w) /\ Len(w) \in Nat
      /\ Append(w, m)[Len(w) + 1] = m /\ \A i \in 1 .. Len(w) : Append(w, m)[i] = w[i]
  OBVIOUS
<1>2. Marks(Append(w, m)) = Marks(w)
  BY <1>1 DEF Marks
<1>3. \A i \in Marks(w) : Append(w, m)[i] = w[i]
  BY <1>1 DEF Marks
<1>4. QED
  BY <1>2, <1>3 DEF Shows

\* Reading the next message.
LEMMA ShowsRead ==
    ASSUME NEW w \in Seq(Notes), w # <<>>, NEW held \in BOOLEAN, NEW hold \in BOOLEAN,
           Shows(w, held, hold)
    PROVE  Shows(Tail(w), IF Head(w) = "paused" THEN TRUE
                          ELSE IF Head(w) = "resumed" THEN FALSE ELSE held, hold)
<1> DEFINE now == IF Head(w) = "paused" THEN TRUE ELSE IF Head(w) = "resumed" THEN FALSE ELSE held
<1>1. /\ Len(w) \in Nat /\ Len(w) >= 1 /\ DOMAIN w = 1 .. Len(w) /\ DOMAIN Tail(w) = 1 .. Len(w) - 1
      /\ Head(w) = w[1] /\ \A i \in 1 .. Len(w) - 1 : Tail(w)[i] = w[i + 1]
  OBVIOUS
<1>2. \A i \in Int : i \in Marks(Tail(w)) <=> i >= 1 /\ i + 1 \in Marks(w)
  BY <1>1 DEF Marks
<1>3. Marks(w) \subseteq 1 .. Len(w) /\ Marks(Tail(w)) \subseteq 1 .. Len(w) - 1
  BY <1>1 DEF Marks
<1>4. CASE Marks(w) = {}
  <2>1. Marks(Tail(w)) = {} /\ Head(w) \notin {"paused", "resumed"}
    BY <1>1, <1>2, <1>3, <1>4 DEF Marks
  <2>2. QED
    BY <1>4, <2>1 DEF Shows
<1>5. CASE Marks(w) # {}
  <2>1. PICK i \in Marks(w) : (\A j \in Marks(w) : j =< i) /\ (w[i] = "paused") = hold
    BY <1>5 DEF Shows
  <2>2. CASE i = 1
    <3>1. Marks(Tail(w)) = {}
      BY <1>2, <1>3, <2>1, <2>2
    <3>2. w[1] \in {"paused", "resumed"} /\ (w[1] = "paused") = hold
      BY <2>1, <2>2 DEF Marks
    <3>3. now = hold
      BY <1>1, <3>2
    <3>4. QED
      BY <3>1, <3>3 DEF Shows
  <2>3. CASE i # 1
    <3>1. i - 1 \in 1 .. Len(w) - 1
      BY <1>1, <1>3, <2>1, <2>3
    <3>2. i - 1 \in Marks(Tail(w)) /\ Tail(w)[i - 1] = w[i]
      <4>1. i \in Int /\ (i - 1) + 1 = i /\ i - 1 >= 1
        BY <1>1, <1>3, <2>1, <3>1
      <4>2. Tail(w)[i - 1] = w[(i - 1) + 1]
        BY <1>1, <3>1
      <4>3. i - 1 \in Int /\ (i - 1) + 1 \in Marks(w)
        BY <2>1, <4>1
      <4>4. QED
        BY <1>2, <4>1, <4>2, <4>3
    <3>3. \A j \in Marks(Tail(w)) : j =< i - 1
      <4>1. TAKE j \in Marks(Tail(w))
      <4>2. j \in Int /\ j + 1 \in Marks(w)
        BY <1>2, <1>3
      <4>3. QED
        BY <2>1, <3>1, <4>2
    <3>4. QED
      BY <2>1, <3>2, <3>3 DEF Shows
  <2>4. QED
    BY <2>2, <2>3
<1>6. QED
  BY <1>4, <1>5

\* What every step but a claim leaves of the control session.
Same(d) == d \in Controls /\ d.done = control.done /\ (d.state = "FINISHED" <=> control.state = "FINISHED")

\* The control session's operators.
LEMMA ControlSteps ==
    ASSUME control \in Controls, NEW r \in Roles, NEW resume \in BOOLEAN
    PROVE  /\ Same(control) /\ Same(Ended(control)) /\ Same(Expired(control))
           /\ control.state \in {"PREFLIGHT", "READY"} => Same(Submitted(control, r))
           /\ MayIssue(Asked(control, resume), r, resume) =>
                 Same(Issued(Asked(control, resume), r, resume))
           /\ MayUse(r) => Same(Used(control, r))
           /\ Same(PeerDisconnected(control, r))
           /\ MayBlock => Same([control EXCEPT !.state = "BLOCKED"])
           /\ control.timer = "on" => Same([control EXCEPT !.timer = "late"])
<1>1. Same(control) /\ Same(Ended(control)) /\ Same(Expired(control))
  BY DEF Same, Controls, Ended, Expired, Active
<1>2. control.state \in {"PREFLIGHT", "READY"} => Same(Submitted(control, r))
  BY DEF Same, Controls, Submitted, Active
<1>3. MayIssue(Asked(control, resume), r, resume) => Same(Issued(Asked(control, resume), r, resume))
  <2>1. SUFFICES ASSUME MayIssue(Asked(control, resume), r, resume)
                 PROVE  Same(Issued(Asked(control, resume), r, resume))
    OBVIOUS
  <2>2. Same(Asked(control, resume))
    BY DEF Same, Controls, Asked, Pausing, Active
  <2>3. \A c \in Controls : c.state \in {"READY", "WAITING_PEER", "PAUSED_REMOTE"} =>
           /\ Issued(c, r, resume) \in Controls /\ Issued(c, r, resume).done = c.done
           /\ Issued(c, r, resume).state # "FINISHED"
    BY DEF Controls, Issued, Active
  <2>4. Asked(control, resume).state \in {"READY", "WAITING_PEER", "PAUSED_REMOTE"}
    BY <2>1 DEF MayIssue
  <2>5. QED
    BY <2>2, <2>3, <2>4 DEF Same
<1>4. MayUse(r) => Same(Used(control, r))
  BY TwoRoles DEF Same, Controls, MayUse, Used, Active
<1>5. Same(PeerDisconnected(control, r))
  BY DEF Same, Controls, PeerDisconnected, RemoteDisconnected, Pausing, Active
<1>6. MayBlock => Same([control EXCEPT !.state = "BLOCKED"])
  BY DEF Same, Controls, MayBlock, Active
<1>7. control.timer = "on" => Same([control EXCEPT !.timer = "late"])
  BY DEF Same, Controls
<1>8. QED
  BY <1>1, <1>2, <1>3, <1>4, <1>5, <1>6, <1>7

\* A claim is the role's own, and finishes the session when it is the second.
LEMMA ClaimStep ==
    ASSUME control \in Controls, NEW r \in Roles, MayClaim
    PROVE  /\ Claimed(control, r) \in Controls
           /\ Claimed(control, r).done = control.done \cup {r}
           /\ Claimed(control, r).state = "FINISHED" => Claimed(control, r).done = Roles
           /\ control.state # "FINISHED"
BY DEF Controls, Claimed, MayClaim, Active

\* Faults are counted up to their bound.
LEMMA FaultTyped ==
    ASSUME faults \in 0 .. MaxFaults, Fault \/ UNCHANGED faults
    PROVE  faults' \in 0 .. MaxFaults
BY FixedHostAssumption DEF Fault

-----------------------------------------------------------------------------
(* What is left to show for a step. *)

\* A step changes at most one role's client, runtime and pipes.
LEMMA Keeps ==
    ASSUME Inv, NEW r \in Roles, Typed', game' = game,
           \A q \in Roles \ {r} : client'[q] = client[q] /\ child'[q] = child[q] /\ pipe'[q] = pipe[q],
           control'.done \ {r} \subseteq control.done,
           control'.state = "FINISHED" => control'.done = Roles,
           control.state = "FINISHED" => control'.state = "FINISHED",
           client'[r].pc # "play" => child'[r].pc = "off" /\ pipe'[r] = NoRequest,
           child'[r].pc \in Alive => InStep(child'[r].pc, pipe'[r]),
           r \in control'.done => ClaimStays(client'[r]) /\ game.policy = "commit_pair",
           client'[r].pc \notin {"stop", "ended"} => client'[r].said = "none",
           client'[r].said = "saved" => control'.state = "FINISHED",
           Places', HostKnows'
    PROVE  Inv'
<1> USE DEF Inv
<1>1. Idle'
  BY DEF Idle
<1>2. Asking'
  BY DEF Asking
<1>3. Settled'
  <2>1. SUFFICES ASSUME NEW q \in control'.done
                 PROVE  ClaimStays(client'[q]) /\ game.policy = "commit_pair"
    BY DEF Settled, ClaimStays
  <2>2. CASE q = r
    BY <2>1, <2>2
  <2>3. CASE q # r
    <3>1. q \in control.done /\ q \in Roles \ {r}
      BY <2>1, <2>3 DEF Typed, Controls
    <3>2. QED
      BY <3>1 DEF Settled
  <2>4. QED
    BY <2>2, <2>3
<1>4. Quiet'
  BY DEF Quiet
<1>5. Committed'
  BY DEF Committed
<1>6. QED
  BY <1>1, <1>2, <1>3, <1>4, <1>5

\* What the host's side of the relay is.
HostView == <<relay.link["host"], "host" \in relay.old, "host" \in relay.fresh, relay.ending,
              relay.own, relay.retained>>

\* A step that leaves the host, what it was sent and its side of the relay alone.
LEMMA HostSame ==
    ASSUME Inv, HostView' = HostView, wire'["host"] = wire["host"],
           child'["host"].conn => child["host"].conn,
           child'["host"].held = child["host"].held,
           child'["host"].pc \in {"wait", "again", "run"} /\ child'["host"].conn =>
              child["host"].pc = child'["host"].pc
    PROVE  Places' /\ HostKnows'
<1>1. /\ relay'.link["host"] = relay.link["host"] /\ ("host" \in relay'.old <=> "host" \in relay.old)
      /\ ("host" \in relay'.fresh <=> "host" \in relay.fresh)
      /\ relay'.ending = relay.ending /\ relay'.own = relay.own /\ relay'.retained = relay.retained
  BY DEF HostView
<1>2. Places'
  BY <1>1 DEF Inv, Places
<1>3. Calm' = Calm /\ Carried' = Carried
  BY <1>1 DEF Calm, Carried
<1>4. Up("host")' => Up("host")
  BY <1>1 DEF Up, Reaches, Kept
<1>5. HostKnows'
  BY <1>3, <1>4 DEF Inv, HostKnows, Up, Reaches, Kept
<1>6. QED
  BY <1>2, <1>5

\* The relay is left alone.
LEMMA ViewSame ==
    ASSUME UNCHANGED relay
    PROVE  HostView' = HostView
BY DEF HostView

\* A host that has no connection knows nothing.
LEMMA HostAway ==
    ASSUME Inv, UNCHANGED relay, ~child'["host"].conn \/ child'["host"].pc \notin {"wait", "again", "run"}
    PROVE  Places' /\ HostKnows'
BY DEF Inv, Places, HostKnows, Up, Reaches, Kept

\* The relay moves the host's connection, and says nothing to it.
LEMMA HostStays ==
    ASSUME Inv, UNCHANGED child, wire'["host"] = wire["host"],
           Up("host")' => Up("host") /\ Calm' = Calm /\ Carried' = Carried
    PROVE  HostKnows'
BY DEF Inv, HostKnows

\* A client that does not play, before and after the step.
LEMMA ClientKeeps ==
    ASSUME Inv, NEW r \in Roles, UNCHANGED <<game, child, pipe, relay, wire, up>>,
           faults' \in 0 .. MaxFaults, Same(control'),
           client' \in [Roles -> Clients], \A q \in Roles \ {r} : client'[q] = client[q],
           client[r].pc # "play", client'[r].pc # "play",
           r \in control.done => ClaimStays(client'[r]),
           client'[r].pc \notin {"stop", "ended"} => client'[r].said = "none",
           client'[r].said = "saved" => control'.state = "FINISHED"
    PROVE  Inv'
<1>1. Typed'
  BY DEF Inv, Typed, Same
<1>2. Places' /\ HostKnows'
  BY HostSame, ViewSame
<1>3. child'[r].pc = "off" /\ pipe'[r] = NoRequest /\ "off" \notin Alive
  BY DEF Inv, Idle, Alive, Recovering
<1>4. control.state = "FINISHED" => control.done = Roles
  BY DEF Inv, Committed
<1>5. r \in control.done => game.policy = "commit_pair"
  BY DEF Inv, Settled
<1>6. QED
  BY <1>1, <1>2, <1>3, <1>4, <1>5, Keeps DEF Same

\* A step that leaves the clients alone.
LEMMA BesideKeeps ==
    ASSUME Inv, NEW r \in Roles, Typed', UNCHANGED <<game, client>>, Same(control'),
           \A q \in Roles \ {r} : child'[q] = child[q] /\ pipe'[q] = pipe[q],
           client[r].pc # "play" => child'[r].pc = child[r].pc /\ pipe'[r] = pipe[r],
           child'[r].pc \in Alive => InStep(child'[r].pc, pipe'[r]),
           Places', HostKnows'
    PROVE  Inv'
<1>1. client[r].pc # "play" => child'[r].pc = "off" /\ pipe'[r] = NoRequest
  BY DEF Inv, Idle
<1>2. control.state = "FINISHED" => control.done = Roles
  BY DEF Inv, Committed
<1>3. r \in control.done => ClaimStays(client[r]) /\ game.policy = "commit_pair"
  BY DEF Inv, Settled
<1>4. client[r].pc \notin {"stop", "ended"} => client[r].said = "none"
  BY DEF Inv, Quiet
<1>5. client[r].said = "saved" => control.state = "FINISHED"
  BY DEF Inv, Committed
<1>6. QED
  BY <1>1, <1>2, <1>3, <1>4, <1>5, Keeps DEF Same

-----------------------------------------------------------------------------
(* The clients. *)

\* The room has no link session any more.
LEMMA SeeEndKeeps ==
    ASSUME Inv, NEW r \in Roles, SeeEnd(r)
    PROVE  Inv'
<1>1. /\ client[r].pc \in {"poll", "blocked"} /\ client \in [Roles -> Clients]
      /\ control \in Controls /\ faults \in 0 .. MaxFaults
      /\ UNCHANGED <<game, control, child, pipe, relay, wire, up, faults>>
  BY DEF SeeEnd, Inv, Typed
<1>2. /\ client' \in [Roles -> Clients] /\ \A q \in Roles \ {r} : client'[q] = client[q]
      /\ client'[r].pc = "ended" /\ client'[r].said = "closed"
  BY <1>1 DEF SeeEnd, Says, Clients
<1>3. r \notin control.done
  BY <1>1 DEF Inv, Settled, ClaimStays
<1>4. QED
  BY <1>1, <1>2, <1>3, ControlSteps, ClientKeeps

\* The client polls: it submits its preflight, reports a block, or prepares its runtime.
LEMMA PollKeeps ==
    ASSUME Inv, NEW r \in Roles, maybe_start_room_session(r)
    PROVE  Inv'
<1>1. /\ client[r].pc \in {"poll", "blocked"} /\ client \in [Roles -> Clients]
      /\ control \in Controls /\ faults \in 0 .. MaxFaults
      /\ UNCHANGED <<game, child, pipe, relay, wire, up>>
  BY DEF maybe_start_room_session, maybe_launch_room_host, Inv, Typed
<1>2. /\ Same(control') /\ (Fault \/ UNCHANGED faults)
      /\ \/ UNCHANGED client
         \/ \E pc \in {"blocked", "saves", "ticket"} : Client(r, pc)
         \/ client' = [client EXCEPT ![r].owes = FALSE]
  <2>1. CASE /\ client[r].pc = "blocked" /\ client[r].owes /\ MayBlock
             /\ \/ /\ client' = [client EXCEPT ![r].owes = FALSE]
                   /\ Apply(integral_api_gb_runtime_fixed_host_block) /\ UNCHANGED faults
                \/ Lost(integral_api_gb_runtime_fixed_host_block) /\ UNCHANGED client
    BY <1>1, <2>1, ControlSteps DEF Apply, Lost, integral_api_gb_runtime_fixed_host_block
  <2>2. CASE client[r].pc = "poll" /\ maybe_advance_room_gb_runtime_fixed_host_preflight(r)
    <3>1. control' = control \/ (control.state \in {"PREFLIGHT", "READY"} /\ control' = Submitted(control, r))
      BY <2>2 DEF maybe_advance_room_gb_runtime_fixed_host_preflight, Apply, Lost,
         integral_api_gb_runtime_fixed_host_submit_preflight
    <3>2. Fault \/ UNCHANGED faults
      BY <2>2 DEF maybe_advance_room_gb_runtime_fixed_host_preflight, Lost
    <3>3. UNCHANGED client \/ \E pc \in {"blocked", "saves", "ticket"} : Client(r, pc)
      BY <2>2 DEF maybe_advance_room_gb_runtime_fixed_host_preflight
    <3>4. QED
      BY <1>1, <3>1, <3>2, <3>3, ControlSteps
  <2>3. QED
    BY <2>1, <2>2 DEF maybe_start_room_session, maybe_launch_room_host
<1>3. /\ client' \in [Roles -> Clients] /\ \A q \in Roles \ {r} : client'[q] = client[q]
      /\ client'[r].pc \in {"poll", "blocked", "saves", "ticket"} /\ client'[r].said = client[r].said
  <2>1. CASE UNCHANGED client
    BY <1>1, <2>1
  <2>2. CASE \E pc \in {"blocked", "saves", "ticket"} : Client(r, pc)
    BY <1>1, <2>2 DEF Client, Clients
  <2>3. CASE client' = [client EXCEPT ![r].owes = FALSE]
    BY <1>1, <2>3 DEF Clients
  <2>4. QED
    BY <1>2, <2>1, <2>2, <2>3
<1>4. r \notin control.done /\ client[r].said = "none" /\ faults' \in 0 .. MaxFaults
  BY <1>1, <1>2, FaultTyped DEF Inv, Settled, ClaimStays, Quiet
<1>5. QED
  BY <1>1, <1>2, <1>3, <1>4, ClientKeeps

\* The host checks the SAVs, and reports or owes the report of those it cannot use.
LEMMA CheckSavesKeeps ==
    ASSUME Inv, CheckSaves
    PROVE  Inv'
<1> DEFINE r == "host"
<1>1. /\ r \in Roles /\ client[r].pc = "saves" /\ client \in [Roles -> Clients]
      /\ control \in Controls /\ faults \in 0 .. MaxFaults
      /\ UNCHANGED <<game, child, pipe, relay, wire, up>>
  BY DEF CheckSaves, Inv, Typed, Roles
<1>2. /\ Same(control') /\ (Fault \/ UNCHANGED faults)
      /\ \/ \E pc \in {"poll", "blocked", "ticket"} : Client(r, pc)
         \/ client' = [client EXCEPT ![r].pc = "blocked", ![r].owes = TRUE]
  <2>1. control' = control \/ (MayBlock /\ control' = [control EXCEPT !.state = "BLOCKED"])
    BY DEF CheckSaves, Apply, Lost, integral_api_gb_runtime_fixed_host_block
  <2>2. Fault \/ UNCHANGED faults
    BY DEF CheckSaves, Lost
  <2>3. \/ \E pc \in {"poll", "blocked", "ticket"} : Client(r, pc)
        \/ client' = [client EXCEPT ![r].pc = "blocked", ![r].owes = TRUE]
    BY DEF CheckSaves
  <2>4. QED
    BY <1>1, <2>1, <2>2, <2>3, ControlSteps
<1>3. /\ client' \in [Roles -> Clients] /\ \A q \in Roles \ {r} : client'[q] = client[q]
      /\ client'[r].pc \in {"poll", "blocked", "ticket"} /\ client'[r].said = client[r].said
  <2>1. CASE \E pc \in {"poll", "blocked", "ticket"} : Client(r, pc)
    BY <1>1, <2>1 DEF Client, Clients
  <2>2. CASE client' = [client EXCEPT ![r].pc = "blocked", ![r].owes = TRUE]
    BY <1>1, <2>2 DEF Clients
  <2>3. QED
    BY <1>2, <2>1, <2>2
<1>4. r \notin control.done /\ client[r].said = "none" /\ faults' \in 0 .. MaxFaults
  BY <1>1, <1>2, FaultTyped DEF Inv, Settled, ClaimStays, Quiet
<1>5. QED
  BY <1>1, <1>2, <1>3, <1>4, ClientKeeps

\* The end is reported once, and the commit waited for.
LEMMA EndingKeeps ==
    ASSUME Inv, NEW r \in Roles, AwaitCommit(r) \/ stop_current_game_session(r)
    PROVE  Inv'
<1>1. /\ client[r].pc \in {"final", "stop"} /\ client \in [Roles -> Clients]
      /\ control \in Controls /\ faults \in 0 .. MaxFaults
      /\ UNCHANGED <<game, child, pipe, relay, wire, up>>
  BY DEF AwaitCommit, stop_current_game_session, Inv, Typed
<1>2. /\ Same(control') /\ (Fault \/ UNCHANGED faults)
      /\ \/ Client(r, "ended")
         \/ Says(r, "ended", IF control.state = "FINISHED" THEN "saved" ELSE "check") /\ control' = control
  <2>1. control' = control \/ control' = Ended(control)
    BY DEF AwaitCommit, stop_current_game_session, Apply, Lost
  <2>2. Fault \/ UNCHANGED faults
    BY DEF AwaitCommit, stop_current_game_session, Lost
  <2>3. QED
    BY <1>1, <2>1, <2>2, ControlSteps DEF AwaitCommit, stop_current_game_session
<1>3. /\ client' \in [Roles -> Clients] /\ \A q \in Roles \ {r} : client'[q] = client[q]
      /\ client'[r].pc = "ended"
      /\ \/ client'[r].said = client[r].said
         \/ client'[r].said = "check"
         \/ client'[r].said = "saved" /\ control'.state = "FINISHED"
  <2>1. CASE Client(r, "ended")
    BY <1>1, <2>1 DEF Client, Clients
  <2>2. CASE Says(r, "ended", IF control.state = "FINISHED" THEN "saved" ELSE "check") /\ control' = control
    <3> DEFINE word == IF control.state = "FINISHED" THEN "saved" ELSE "check"
               c == [pc |-> "ended", owes |-> client[r].owes, said |-> word]
    <3>1. word = "check" \/ (word = "saved" /\ control'.state = "FINISHED")
      BY <2>2
    <3>2. client' = [client EXCEPT ![r].pc = "ended", ![r].said = word]
      BY <2>2 DEF Says
    <3> HIDE DEF word
    <3>3. c \in Clients
      BY <1>1, <3>1 DEF Clients
    <3>4. client'[r] = c /\ \A q \in Roles \ {r} : client'[q] = client[q]
      BY <1>1, <3>2 DEF Clients
    <3>5. client' \in [Roles -> Clients]
      <4>1. /\ client' = [q \in Roles |-> client'[q]]
            /\ \A q \in Roles : client'[q] \in Clients
        BY <1>1, <3>2, <3>3, <3>4
      <4> QED BY <4>1
    <3> QED BY <3>1, <3>4, <3>5
  <2>3. QED
    BY <1>2, <2>1, <2>2
<1>4. /\ r \in control.done => ClaimStays(client[r])
      /\ client[r].said = "saved" => control.state = "FINISHED"
      /\ faults' \in 0 .. MaxFaults
  BY <1>1, <1>2, FaultTyped DEF Inv, Settled, Committed
<1>5. r \in control.done => ClaimStays(client'[r])
  BY <1>3, <1>4 DEF ClaimStays
<1>6. client'[r].said = "saved" => control'.state = "FINISHED"
  BY <1>2, <1>3, <1>4 DEF Same
<1>7. QED
  BY <1>1, <1>2, <1>3, <1>4, <1>5, <1>6, ClientKeeps

\* The first ticket, and the runtime started with it.
LEMMA LaunchKeeps ==
    ASSUME Inv, NEW r \in Roles, start_room_gb_runtime_fixed_host_runtime(r)
    PROVE  Inv'
<1>1. /\ client[r].pc = "ticket" /\ client \in [Roles -> Clients] /\ child \in [Roles -> Children]
      /\ control \in Controls /\ faults \in 0 .. MaxFaults
      /\ UNCHANGED <<game, pipe, relay, wire, up>> /\ pipe[r] = NoRequest
  BY DEF start_room_gb_runtime_fixed_host_runtime, Inv, Typed, Idle
<1>2. Same(control') /\ faults' \in 0 .. MaxFaults
  <2>1. PICK arrives \in BOOLEAN : integral_api_gb_runtime_fixed_host_issue_relay_ticket(r, FALSE, arrives)
    BY DEF start_room_gb_runtime_fixed_host_runtime
  <2>2. \/ control' = control \/ control' = Expired(control)
        \/ MayIssue(Asked(control, FALSE), r, FALSE) /\ control' = Issued(Asked(control, FALSE), r, FALSE)
    BY <2>1 DEF integral_api_gb_runtime_fixed_host_issue_relay_ticket, Apply, Lost
  <2>3. Fault \/ UNCHANGED faults
    BY <2>1 DEF integral_api_gb_runtime_fixed_host_issue_relay_ticket, Lost
  <2>4. QED
    BY <1>1, <2>2, <2>3, ControlSteps, FaultTyped
<1>3. r \notin control.done /\ client[r].said = "none"
  BY <1>1 DEF Inv, Settled, ClaimStays, Quiet
<1>4. CASE Client(r, "play") /\ Launched(r)
  <2>1. /\ client' \in [Roles -> Clients] /\ \A q \in Roles \ {r} : client'[q] = client[q]
        /\ client'[r].pc = "play" /\ client'[r].said = "none"
    BY <1>1, <1>3, <1>4 DEF Client, Clients
  <2>2. /\ child' \in [Roles -> Children] /\ \A q \in Roles \ {r} : child'[q] = child[q]
        /\ child'[r].pc = "connect" /\ ~child'[r].conn
    BY <1>1, <1>4 DEF Launched, Children, Alive
  <2>3. Typed'
    BY <1>1, <1>2, <2>1, <2>2 DEF Inv, Typed, Same
  <2>4. Places' /\ HostKnows'
    <3>1. CASE r = "host"
      BY <1>1, <2>2, <3>1, HostAway
    <3>2. CASE r # "host"
      BY <1>1, <2>2, <3>2, HostSame, ViewSame, TwoRoles
    <3>3. QED
      BY <3>1, <3>2
  <2>5. InStep(child'[r].pc, pipe'[r])
    BY <1>1, <2>2 DEF InStep, NoRequest
  <2>6. control.state = "FINISHED" => control.done = Roles
    BY DEF Inv, Committed
  <2>7. QED
    BY <1>1, <1>2, <1>3, <2>1, <2>2, <2>3, <2>4, <2>5, <2>6, Keeps DEF Same
<1>5. CASE Client(r, "poll") /\ UNCHANGED child
  <2>1. /\ client' \in [Roles -> Clients] /\ \A q \in Roles \ {r} : client'[q] = client[q]
        /\ client'[r].pc = "poll" /\ client'[r].said = "none"
    BY <1>1, <1>3, <1>5 DEF Client, Clients
  <2>2. QED
    BY <1>1, <1>2, <1>3, <1>5, <2>1, ClientKeeps
<1>6. QED
  BY <1>4, <1>5 DEF start_room_gb_runtime_fixed_host_runtime

\* What is read of the request is not yet answered.
LEMMA ServeKeeps ==
    ASSUME Inv, NEW r \in Roles, Serve(r)
    PROVE  Inv'
<1>1. /\ client[r].pc \in {"play"} \/ ReadTicketRequest(r)
      /\ pipe \in [Roles -> Pipes] /\ child \in [Roles -> Children]
      /\ control \in Controls /\ faults \in 0 .. MaxFaults
      /\ UNCHANGED <<game, client, child, relay, wire, up>>
      /\ child[r].pc \in Alive => InStep(child[r].pc, pipe[r])
  BY DEF Serve, ReadTicketRequest, service_gb_reconnect_ticket, Inv, Typed, Asking
<1>2. Places' /\ HostKnows'
  BY <1>1, HostSame, ViewSame
<1>3. CASE ReadTicketRequest(r)
  <2>1. /\ pipe[r].ask = "event" /\ UNCHANGED <<control, faults>>
        /\ pipe' \in [Roles -> Pipes] /\ \A q \in Roles \ {r} : pipe'[q] = pipe[q]
        /\ pipe'[r].ask = "flag" /\ pipe'[r].answer = pipe[r].answer
    BY <1>1, <1>3 DEF ReadTicketRequest, Pipes
  <2>2. Typed'
    BY <1>1, <2>1 DEF Inv, Typed
  <2>3. client[r].pc = "play"
    BY <2>1 DEF Inv, Idle, NoRequest
  <2>4. child'[r].pc \in Alive => InStep(child'[r].pc, pipe'[r])
    BY <1>1, <2>1 DEF InStep
  <2>5. QED
    BY <1>1, <1>2, <2>1, <2>2, <2>3, <2>4, ControlSteps, BesideKeeps
<1>4. CASE service_gb_reconnect_ticket(r)
  <2>1. PICK arrives \in BOOLEAN :
           /\ integral_api_gb_runtime_fixed_host_issue_relay_ticket(r, TRUE, arrives)
           /\ pipe' = [pipe EXCEPT ![r] = [ask |-> "none",
                                           answer |-> IF arrives THEN "ticket" ELSE "zero"]]
    BY <1>4 DEF service_gb_reconnect_ticket
  <2>2. \/ control' = control \/ control' = Expired(control)
        \/ MayIssue(Asked(control, TRUE), r, TRUE) /\ control' = Issued(Asked(control, TRUE), r, TRUE)
    BY <2>1 DEF integral_api_gb_runtime_fixed_host_issue_relay_ticket, Apply, Lost
  <2>3. Fault \/ UNCHANGED faults
    BY <2>1 DEF integral_api_gb_runtime_fixed_host_issue_relay_ticket, Lost
  <2>4. Same(control') /\ faults' \in 0 .. MaxFaults
    BY <1>1, <2>2, <2>3, ControlSteps, FaultTyped
  <2>5. /\ pipe' \in [Roles -> Pipes] /\ \A q \in Roles \ {r} : pipe'[q] = pipe[q]
        /\ pipe'[r].ask = "none" /\ pipe'[r].answer # "none"
    BY <1>1, <2>1 DEF Pipes
  <2>6. Typed'
    BY <1>1, <2>4, <2>5 DEF Inv, Typed, Same
  <2>7. client[r].pc = "play" /\ InStep(child'[r].pc, pipe'[r])
    BY <1>1, <1>4, <2>5 DEF service_gb_reconnect_ticket, InStep
  <2>8. QED
    BY <1>1, <1>2, <2>4, <2>5, <2>6, <2>7, BesideKeeps
<1>5. QED
  BY <1>3, <1>4 DEF Serve

\* The runtime of a client that ends it is gone, with what was in its pipes.
LEMMA StopKeeps ==
    ASSUME Inv, NEW r \in Roles, stop_room_client(r), Same(control'), faults' \in 0 .. MaxFaults,
           \/ Says(r, "stop", "aborted") \/ Client(r, "poll")
    PROVE  Inv'
<1>1. /\ client[r].pc = "play" /\ client \in [Roles -> Clients] /\ child \in [Roles -> Children]
      /\ pipe \in [Roles -> Pipes] /\ wire \in [Roles -> Seq(Notes)] /\ UNCHANGED <<game, relay, up>>
      /\ child' = [child EXCEPT ![r] = [pc |-> "off", held |-> FALSE, conn |-> FALSE]]
      /\ wire' = [wire EXCEPT ![r] = <<>>]
      /\ pipe' = [pipe EXCEPT ![r] = NoRequest]
  BY DEF stop_room_client, Gone, discard_gb_runtime_fixed_host_result, NoRequest, Inv, Typed
<1>2. client[r].said = "none" /\ r \notin control.done
  BY <1>1 DEF Inv, Quiet, Settled, ClaimStays
<1>3. /\ client' \in [Roles -> Clients] /\ \A q \in Roles \ {r} : client'[q] = client[q]
      /\ \/ client'[r].pc = "stop" /\ client'[r].said = "aborted"
         \/ client'[r].pc = "poll" /\ client'[r].said = "none"
  <2>1. CASE Says(r, "stop", "aborted")
    BY <1>1, <2>1 DEF Says, Clients
  <2>2. CASE Client(r, "poll")
    BY <1>1, <1>2, <2>2 DEF Client, Clients
  <2>3. QED
    BY <2>1, <2>2
<1>4. /\ child' \in [Roles -> Children] /\ \A q \in Roles \ {r} : child'[q] = child[q]
      /\ child'[r].pc = "off" /\ ~child'[r].conn /\ "off" \notin Alive
      /\ pipe' \in [Roles -> Pipes] /\ \A q \in Roles \ {r} : pipe'[q] = pipe[q]
      /\ pipe'[r] = NoRequest
      /\ wire' \in [Roles -> Seq(Notes)] /\ \A q \in Roles \ {r} : wire'[q] = wire[q]
  BY <1>1 DEF Children, Pipes, NoRequest, Alive, Recovering
<1>5. Typed'
  BY <1>1, <1>3, <1>4 DEF Inv, Typed, Same
<1>6. Places' /\ HostKnows'
  <2>1. CASE r = "host"
    BY <1>1, <1>4, <2>1, HostAway
  <2>2. CASE r # "host"
    BY <1>1, <1>4, <2>2, HostSame, ViewSame, TwoRoles
  <2>3. QED
    BY <2>1, <2>2
<1>7. control.state = "FINISHED" => control.done = Roles
  BY DEF Inv, Committed
<1>8. /\ control'.done = control.done /\ (control'.state = "FINISHED" <=> control.state = "FINISHED")
      /\ r \notin control'.done
  BY <1>2 DEF Same
<1>9. /\ client'[r].pc \notin {"stop", "ended"} => client'[r].said = "none"
      /\ client'[r].said # "saved" /\ child'[r].pc \notin Alive
  BY <1>3, <1>4
<1>10. QED
  BY SMTT(20), <1>1, <1>3, <1>4, <1>5, <1>6, <1>7, <1>8, <1>9, Keeps

\* The client ends its runtime: its room's game is over, its heartbeats failed, its
\* session check failed, or its user leaves.
LEMMA LeavingKeeps ==
    ASSUME Inv, NEW r \in Roles,
           \/ mark_room_game_ended_if_used(r) \/ handle_room_heartbeat_result(r)
           \/ clear_room_link_session_id(r) \/ leave_current_room(r)
    PROVE  Inv'
<1>1. control \in Controls /\ faults \in 0 .. MaxFaults
  BY DEF Inv, Typed
<1>2. CASE mark_room_game_ended_if_used(r) \/ handle_room_heartbeat_result(r) \/ clear_room_link_session_id(r)
  <2>1. /\ stop_room_client(r) /\ (control' = control \/ control' = Ended(control))
        /\ Fault \/ UNCHANGED faults
        /\ Says(r, "stop", "aborted") \/ Client(r, "poll")
    BY <1>2 DEF mark_room_game_ended_if_used, handle_room_heartbeat_result, clear_room_link_session_id
  <2>2. QED
    BY <1>1, <2>1, ControlSteps, FaultTyped, StopKeeps
<1>3. CASE Fault /\ stop_room_client(r) /\ Says(r, "stop", "aborted") /\ UNCHANGED control
  BY <1>1, <1>3, ControlSteps, FaultTyped, StopKeeps
<1>4. CASE /\ Fault /\ client[r].pc \in {"poll", "blocked"} /\ Says(r, "ended", "left")
           /\ Apply(Ended(control)) /\ UNCHANGED <<game, child, pipe, relay, wire, up>>
  <2>1. /\ client' \in [Roles -> Clients] /\ \A q \in Roles \ {r} : client'[q] = client[q]
        /\ client'[r].pc = "ended" /\ client'[r].said = "left"
    BY <1>4 DEF Says, Clients, Inv, Typed
  <2>2. r \notin control.done /\ Same(control') /\ faults' \in 0 .. MaxFaults
    BY <1>1, <1>4, ControlSteps, FaultTyped DEF Apply, Inv, Settled, ClaimStays
  <2>3. QED
    BY <1>4, <2>1, <2>2, ClientKeeps
<1>5. QED
  BY <1>2, <1>3, <1>4 DEF leave_current_room

\* A runtime has exited: a trade that ended well is claimed for its role.
LEMMA ExitKeeps ==
    ASSUME Inv, NEW r \in Roles, monitor_room_gb_runtime_client_exit(r)
    PROVE  Inv'
<1>1. /\ client[r].pc = "play" /\ client \in [Roles -> Clients] /\ child \in [Roles -> Children]
      /\ pipe \in [Roles -> Pipes] /\ UNCHANGED <<game, relay, wire, up>>
      /\ control \in Controls /\ faults \in 0 .. MaxFaults
      /\ child' = [child EXCEPT ![r].pc = "off"]
      /\ pipe' = [pipe EXCEPT ![r] = NoRequest]
  BY DEF monitor_room_gb_runtime_client_exit, discard_gb_runtime_fixed_host_result, Child, NoRequest,
     Inv, Typed
<1>2. client[r].said = "none" /\ r \notin control.done
  BY <1>1 DEF Inv, Quiet, Settled, ClaimStays
<1>3. /\ child' \in [Roles -> Children] /\ \A q \in Roles \ {r} : child'[q] = child[q]
      /\ child'[r].pc = "off" /\ child'[r].conn = child[r].conn /\ child'[r].held = child[r].held
      /\ "off" \notin Alive
      /\ pipe' \in [Roles -> Pipes] /\ \A q \in Roles \ {r} : pipe'[q] = pipe[q]
      /\ pipe'[r] = NoRequest
  BY <1>1 DEF Children, Pipes, NoRequest, Alive, Recovering
<1>4. Places' /\ HostKnows'
  <2>1. CASE r = "host"
    BY <1>1, <1>3, <2>1, HostAway
  <2>2. CASE r # "host"
    BY <1>1, <1>3, <2>2, HostSame, ViewSame, TwoRoles
  <2>3. QED
    BY <2>1, <2>2
<1>5. control.state = "FINISHED" => control.done = Roles
  BY DEF Inv, Committed
<1>6. \/ \E said \in {"left", "aborted"} : Says(r, "stop", said) /\ UNCHANGED <<control, faults>>
      \/ /\ game.policy = "commit_pair" /\ MayClaim
         /\ \/ Client(r, "final") /\ control' = Claimed(control, r) /\ UNCHANGED faults
            \/ Says(r, "stop", "aborted") /\ control' \in {control, Claimed(control, r)} /\ Fault
  BY DEF monitor_room_gb_runtime_client_exit, handle_gb_runtime_fixed_host_trade_result, Apply, Lost
<1>7. /\ client' \in [Roles -> Clients] /\ \A q \in Roles \ {r} : client'[q] = client[q]
      /\ \/ client'[r].pc = "stop" /\ client'[r].said \in {"left", "aborted"}
         \/ client'[r].pc = "final" /\ client'[r].said = "none"
  BY SMTT(20), <1>1, <1>2, <1>6 DEF Says, Client, Clients
<1>8. faults' \in 0 .. MaxFaults
  BY <1>1, <1>6, FaultTyped
<1>9. CASE UNCHANGED control
  <2>1. Typed'
    BY <1>1, <1>3, <1>7, <1>8, <1>9 DEF Inv, Typed
  <2>2. QED
    BY <1>1, <1>2, <1>3, <1>4, <1>5, <1>7, <1>9, <2>1, Keeps
<1>10. CASE /\ game.policy = "commit_pair" /\ MayClaim /\ control' = Claimed(control, r)
            /\ \/ client'[r].pc = "stop" /\ client'[r].said = "aborted"
               \/ client'[r].pc = "final" /\ client'[r].said = "none"
  <2>1. /\ control' \in Controls /\ control'.done = control.done \cup {r}
        /\ control'.state = "FINISHED" => control'.done = Roles
        /\ control.state # "FINISHED"
    BY <1>1, <1>10, ClaimStep
  <2>2. Typed'
    BY <1>1, <1>3, <1>7, <1>8, <2>1 DEF Inv, Typed
  <2>3. ClaimStays(client'[r])
    BY <1>10 DEF ClaimStays
  <2>4. QED
    BY <1>1, <1>2, <1>3, <1>4, <1>7, <1>10, <2>1, <2>2, <2>3, Keeps
<1>11. QED
  <2>1. Says(r, "stop", "aborted") => client'[r].pc = "stop" /\ client'[r].said = "aborted"
    BY <1>1 DEF Says, Clients
  <2>2. Client(r, "final") => client'[r].pc = "final" /\ client'[r].said = "none"
    BY <1>1, <1>2 DEF Client, Clients
  <2>3. QED
    BY <1>6, <1>9, <1>10, <2>1, <2>2

-----------------------------------------------------------------------------
(* The runtimes. *)

\* A runtime that goes on to its next step, or loses its connection unnoticed.
LEMMA ChildSteps ==
    ASSUME Inv, NEW r \in Roles
    PROVE  /\ \A pc \in {"off"} \cup Alive \cup Exits : Child(r, pc) =>
                 /\ child' \in [Roles -> Children] /\ \A q \in Roles \ {r} : child'[q] = child[q]
                 /\ child'[r].pc = pc /\ child'[r].held = child[r].held /\ child'[r].conn = child[r].conn
           /\ child' = [child EXCEPT ![r].conn = FALSE] =>
                 /\ child' \in [Roles -> Children] /\ \A q \in Roles \ {r} : child'[q] = child[q]
                 /\ child'[r].pc = child[r].pc /\ ~child'[r].conn
<1>1. child \in [Roles -> Children] /\ child[r] \in Children
  BY DEF Inv, Typed
<1>2. ASSUME NEW pc \in {"off"} \cup Alive \cup Exits, Child(r, pc)
      PROVE  /\ child' \in [Roles -> Children] /\ \A q \in Roles \ {r} : child'[q] = child[q]
             /\ child'[r].pc = pc /\ child'[r].held = child[r].held /\ child'[r].conn = child[r].conn
  <2>1. child' = [child EXCEPT ![r] = [child[r] EXCEPT !.pc = pc]]
    BY <1>1, <1>2 DEF Child
  <2>2. [child[r] EXCEPT !.pc = pc] \in Children
    BY <1>1, <1>2 DEF Children
  <2>3. child'[r] = [child[r] EXCEPT !.pc = pc]
    BY <1>1, <2>1
  <2>4. QED
    BY <1>1, <2>1, <2>2, <2>3 DEF Children
<1>3. ASSUME child' = [child EXCEPT ![r].conn = FALSE]
      PROVE  /\ child' \in [Roles -> Children] /\ \A q \in Roles \ {r} : child'[q] = child[q]
             /\ child'[r].pc = child[r].pc /\ ~child'[r].conn
  <2>1. child' = [child EXCEPT ![r] = [child[r] EXCEPT !.conn = FALSE]]
    BY <1>1, <1>3
  <2>2. [child[r] EXCEPT !.conn = FALSE] \in Children
    BY <1>1 DEF Children
  <2>3. child'[r] = [child[r] EXCEPT !.conn = FALSE]
    BY <1>1, <2>1
  <2>4. QED
    BY <1>1, <2>1, <2>2, <2>3 DEF Children
<1>4. QED
  BY <1>2, <1>3

\* A runtime without a connection.
LEMMA GoneFacts ==
    ASSUME Inv, NEW r \in Roles, NEW pc \in {"off"} \cup Alive \cup Exits, Gone(r, pc), UNCHANGED relay
    PROVE  /\ child' \in [Roles -> Children] /\ \A q \in Roles \ {r} : child'[q] = child[q]
           /\ child'[r].pc = pc /\ ~child'[r].conn
           /\ wire' \in [Roles -> Seq(Notes)] /\ \A q \in Roles \ {r} : wire'[q] = wire[q]
           /\ Places' /\ HostKnows'
<1>1. /\ child \in [Roles -> Children] /\ wire \in [Roles -> Seq(Notes)]
      /\ [pc |-> pc, held |-> FALSE, conn |-> FALSE] \in Children
      /\ child' = [child EXCEPT ![r] = [pc |-> pc, held |-> FALSE, conn |-> FALSE]]
      /\ wire' = [wire EXCEPT ![r] = <<>>]
  BY DEF Inv, Typed, Gone, Children
<1>2. /\ child' \in [Roles -> Children] /\ \A q \in Roles \ {r} : child'[q] = child[q]
      /\ child'[r].pc = pc /\ ~child'[r].conn
      /\ wire' \in [Roles -> Seq(Notes)] /\ \A q \in Roles \ {r} : wire'[q] = wire[q]
  BY <1>1
<1>3. CASE r = "host"
  BY <1>2, <1>3, HostAway
<1>4. CASE r # "host"
  BY <1>2, <1>4, HostSame, ViewSame, TwoRoles
<1>5. QED
  BY <1>2, <1>3, <1>4

\* A step of a runtime that plays for its client.
LEMMA RuntimeKeeps ==
    ASSUME Inv, NEW r \in Roles, UNCHANGED <<game, client>>, child[r].pc # "off",
           Same(control'), relay' \in Relays, faults' \in 0 .. MaxFaults,
           child' \in [Roles -> Children], \A q \in Roles \ {r} : child'[q] = child[q],
           pipe' \in [Roles -> Pipes], \A q \in Roles \ {r} : pipe'[q] = pipe[q],
           wire' \in [Roles -> Seq(Notes)], up' \in [Roles -> {"none", "term", "ack"}],
           child'[r].pc \in Alive => InStep(child'[r].pc, pipe'[r]),
           Places', HostKnows'
    PROVE  Inv'
<1>1. client[r].pc = "play"
  BY DEF Inv, Idle
<1>2. Typed'
  BY DEF Inv, Typed, Same
<1>3. QED
  BY <1>1, <1>2, BesideKeeps

\* What every step of a runtime finds.
LEMMA AtRuntime ==
    ASSUME Inv
    PROVE  /\ control \in Controls /\ Same(control) /\ child \in [Roles -> Children]
           /\ pipe \in [Roles -> Pipes] /\ relay \in Relays /\ wire \in [Roles -> Seq(Notes)]
           /\ up \in [Roles -> {"none", "term", "ack"}] /\ faults \in 0 .. MaxFaults
           /\ \A r \in Roles : child[r].pc \in Alive => InStep(child[r].pc, pipe[r])
           /\ \A r \in Roles : wire[r] # <<>> => Tail(wire[r]) \in Seq(Notes) /\ Head(wire[r]) \in Notes
           /\ Alive \cap ({"off"} \cup Exits) = {}
           /\ {"connect", "wait", "run", "term", "ask", "asked", "dial", "again"} = Alive
           /\ Exits = {"ok", "leave", "fail"}
<1>1. wire \in [Roles -> Seq(Notes)]
  BY DEF Inv, Typed
<1>2. \A r \in Roles : wire[r] # <<>> => Tail(wire[r]) \in Seq(Notes) /\ Head(wire[r]) \in Notes
  <2>1. SUFFICES ASSUME NEW r \in Roles, wire[r] # <<>>
                 PROVE  Tail(wire[r]) \in Seq(Notes) /\ Head(wire[r]) \in Notes
    OBVIOUS
  <2>2. wire[r] \in Seq(Notes)
    BY <1>1
  <2>3. QED
    BY <2>1, <2>2, HeadTailProperties
<1>3. QED
  BY <1>1, <1>2 DEF Inv, Typed, Asking, Same, Alive, Recovering, Exits

\* A runtime that ends, or loses its connection.
LEMMA GoneKeeps ==
    ASSUME Inv, NEW r \in Roles, NEW pc \in {"ask"} \cup Exits, Gone(r, pc),
           child[r].pc \in Alive \ {"asked"} \/ (child[r].pc = "asked" /\ pc # "ask"),
           UNCHANGED <<game, client, control, pipe, relay>>, faults' \in 0 .. MaxFaults,
           up' \in [Roles -> {"none", "term", "ack"}]
    PROVE  Inv'
<1>1. /\ child' \in [Roles -> Children] /\ \A q \in Roles \ {r} : child'[q] = child[q]
      /\ child'[r].pc = pc /\ wire' \in [Roles -> Seq(Notes)] /\ Places' /\ HostKnows'
  BY AtRuntime, GoneFacts
<1>2. child[r].pc \in Alive /\ child[r].pc # "off"
  BY AtRuntime
<1>3. child'[r].pc \in Alive => InStep(child'[r].pc, pipe'[r])
  <2>1. child'[r].pc \in Alive => pc = "ask" /\ child[r].pc \in Alive \ {"asked"}
    BY <1>1, AtRuntime
  <2>2. InStep(child[r].pc, pipe[r])
    BY <1>2, AtRuntime
  <2>3. QED
    BY <1>1, <2>1, <2>2 DEF InStep
<1>4. QED
  BY <1>1, <1>2, <1>3, AtRuntime, RuntimeKeeps

\* A runtime presents its ticket: its connection waits for its handler.
LEMMA ConnectKeeps ==
    ASSUME Inv, NEW r \in Roles, integral_media_relay_connect(r)
    PROVE  Inv'
<1> DEFINE first == child[r].pc = "connect"
           held == relay.link[r] \in {"pending", "active"}
<1>1. /\ child[r].pc \in {"connect", "dial"} /\ UNCHANGED <<game, client, pipe, up>>
      /\ child[r].pc \in Alive \ {"asked"} /\ child[r].pc # "off"
  BY AtRuntime DEF integral_media_relay_connect
<1>2. CASE /\ MayUse(r) /\ control' = Used(control, r) /\ UNCHANGED faults
           /\ child' = [child EXCEPT ![r] = [pc |-> IF first THEN "wait" ELSE "again",
                                             held |-> FALSE, conn |-> TRUE]]
           /\ wire' = [wire EXCEPT ![r] = <<>>]
           /\ relay' = [relay EXCEPT !.fresh = @ \cup {r}, !.late = @ \cup (relay.fresh \cap {r}),
                                     !.old = IF held THEN @ \cup {r} ELSE @,
                                     !.link[r] = IF held THEN @ ELSE "none",
                                     !.own = @ /\ r # "host"]
  <2>1. /\ child' \in [Roles -> Children] /\ \A q \in Roles \ {r} : child'[q] = child[q]
        /\ child'[r].pc \in {"wait", "again"} /\ child'[r].held = FALSE
    BY <1>2, AtRuntime DEF Children
  <2>2. /\ relay' \in Relays
        /\ relay'.fresh = relay.fresh \cup {r}
        /\ relay'.old = IF held THEN relay.old \cup {r} ELSE relay.old
        /\ relay'.link[r] = (IF held THEN relay.link[r] ELSE "none")
        /\ \A q \in Roles \ {r} : relay'.link[q] = relay.link[q]
        /\ relay'.ending = relay.ending /\ relay'.retained = relay.retained
        /\ relay'.own = (relay.own /\ r # "host")
    <3> DEFINE old == IF held THEN relay.old \cup {r} ELSE relay.old
               word == IF held THEN relay.link[r] ELSE "none"
               own == relay.own /\ r # "host"
               link == [relay.link EXCEPT ![r] = word]
               late == relay.late \cup (relay.fresh \cap {r})
    <3>1. relay \in Relays
      BY AtRuntime
    <3>2. /\ old \in SUBSET Roles /\ own \in BOOLEAN /\ relay.fresh \cup {r} \in SUBSET Roles
          /\ late \in SUBSET Roles /\ word \in {"none", "pending", "active", "dropped"}
      BY <3>1 DEF Relays, Links
    <3>3. /\ link \in Links /\ link[r] = word
          /\ \A q \in Roles \ {r} : link[q] = relay.link[q]
      BY <3>1, <3>2 DEF Relays, Links
    <3>4. relay' = [relay EXCEPT !.fresh = relay.fresh \cup {r}, !.late = late, !.old = old,
                                 !.link = link, !.own = own]
      BY <1>2, <3>1 DEF Relays, Links
    <3> HIDE DEF old, word, own, link, late
    <3>5. relay' \in Relays
      BY ZenonT(40), <3>1, <3>2, <3>3, <3>4 DEF Relays
    <3>6. /\ relay'.fresh = relay.fresh \cup {r} /\ relay'.old = old
          /\ relay'.link = link /\ relay'.own = own
          /\ relay'.ending = relay.ending /\ relay'.retained = relay.retained
      BY SMTT(20), <3>1, <3>4 DEF Relays
    <3>7. QED
      BY <3>3, <3>5, <3>6 DEF old, word, own
  <2>3. wire' \in [Roles -> Seq(Notes)] /\ wire'[r] = <<>> /\ \A q \in Roles \ {r} : wire'[q] = wire[q]
    BY <1>2, AtRuntime
  <2>4. Places' /\ HostKnows'
    <3>1. CASE r = "host"
      <4>1. Calm'
        BY <2>2, <3>1 DEF Calm
      <4>2. HostKnows'
        BY <2>1, <2>3, <3>1, <4>1 DEF HostKnows
      <4>3. Places'
        BY <2>2, <3>1 DEF Inv, Places
      <4>4. QED
        BY <4>2, <4>3
    <3>2. CASE r # "host"
      <4>1. relay.own \in BOOLEAN
        BY AtRuntime DEF Relays, Links
      <4>2. HostView' = HostView
        BY <2>2, <3>2, <4>1, TwoRoles DEF HostView
      <4>3. QED
        BY <2>1, <2>3, <3>2, <4>2, HostSame, TwoRoles
    <3>3. QED
      BY <3>1, <3>2
  <2>5. Same(control')
    BY <1>2, AtRuntime, ControlSteps
  <2>6. InStep(child[r].pc, pipe[r])
    BY <1>1, AtRuntime
  <2>7. InStep(child'[r].pc, pipe'[r])
    BY <1>1, <2>1, <2>6 DEF InStep
  <2>8. QED
    BY <1>1, <1>2, <2>1, <2>2, <2>3, <2>4, <2>5, <2>7, AtRuntime, RuntimeKeeps
<1>3. CASE /\ IF MayUse(r) THEN Fault ELSE UNCHANGED faults
           /\ Gone(r, IF first THEN "fail" ELSE "ask")
           /\ UNCHANGED <<control, relay>>
  <2>1. \E pc \in {"ask"} \cup Exits : Gone(r, pc)
    BY <1>3, AtRuntime
  <2>2. faults' \in 0 .. MaxFaults
    BY <1>3, AtRuntime, FaultTyped
  <2>3. QED
    BY <1>1, <1>3, <2>1, <2>2, AtRuntime, GoneKeeps
<1>4. QED
  BY <1>2, <1>3 DEF integral_media_relay_connect, Apply

\* A runtime that waits for its peer is paired, or tries again.
LEMMA WaitKeeps ==
    ASSUME Inv, NEW r \in Roles, wait_paired(r)
    PROVE  Inv'
<1>1. /\ child[r].pc \in {"wait", "again"} /\ UNCHANGED <<game, control, client, pipe, relay, up, faults>>
      /\ child[r].pc \in Alive \ {"asked"} /\ child[r].pc # "off" /\ child[r].pc \in Alive
  BY AtRuntime DEF wait_paired
<1>2. CASE Unread(r) /\ Head(wire[r]) = "paired" /\ Child(r, "run") /\ Read(r)
  <2>1. /\ child' \in [Roles -> Children] /\ \A q \in Roles \ {r} : child'[q] = child[q]
        /\ child'[r].pc = "run" /\ child'[r].held = child[r].held /\ child'[r].conn = child[r].conn
    BY <1>2, AtRuntime, ChildSteps
  <2>2. /\ wire' \in [Roles -> Seq(Notes)] /\ \A q \in Roles \ {r} : wire'[q] = wire[q]
        /\ wire'[r] = Tail(wire[r])
    BY <1>2, AtRuntime DEF Unread, Read
  <2>3. Places' /\ HostKnows'
    <3>1. CASE r = "host"
      <4>1. Places' /\ Calm' = Calm /\ Carried' = Carried /\ (Up("host")' => Up("host"))
        BY <1>1, <2>1, <3>1 DEF Inv, Places, Calm, Carried, Up, Reaches, Kept
      <4>2. SUFFICES ASSUME Up("host")
                     PROVE  ~Calm /\ Shows(wire'["host"], child'["host"].held, ~Carried)
        BY <4>1 DEF HostKnows
      <4>3. wire["host"] \in Seq(Notes) /\ wire["host"] # <<>> /\ child["host"].held \in BOOLEAN
            /\ (~Carried) \in BOOLEAN
        BY <1>2, <3>1, AtRuntime DEF Unread, Children
      <4>4. ~Calm /\ Shows(wire["host"], child["host"].held, ~Carried)
        BY <1>1, <3>1, <4>2, <4>3 DEF Inv, HostKnows
      <4>5. Shows(Tail(wire["host"]), child["host"].held, ~Carried)
        <5>1. Shows(Tail(wire["host"]), IF Head(wire["host"]) = "paused" THEN TRUE
                          ELSE IF Head(wire["host"]) = "resumed" THEN FALSE ELSE child["host"].held,
                    ~Carried)
          BY <4>3, <4>4, ShowsRead
        <5>2. Head(wire["host"]) = "paired"
          BY <1>2, <3>1
        <5>3. QED
          BY <5>1, <5>2
      <4>6. QED
        BY <2>1, <2>2, <3>1, <4>4, <4>5
    <3>2. CASE r # "host"
      BY <1>1, <2>1, <2>2, <3>2, HostSame, ViewSame, TwoRoles
    <3>3. QED
      BY <3>1, <3>2
  <2>4. InStep(child[r].pc, pipe[r])
    BY <1>1, AtRuntime
  <2>5. InStep(child'[r].pc, pipe'[r])
    BY <1>1, <2>1, <2>4 DEF InStep
  <2>6. QED
    BY <1>1, <2>1, <2>2, <2>3, <2>5, AtRuntime, RuntimeKeeps
<1>3. CASE Gone(r, IF child[r].pc = "wait" THEN "fail" ELSE "ask")
  <2>1. \E pc \in {"ask"} \cup Exits : Gone(r, pc)
    BY <1>3, AtRuntime
  <2>2. QED
    BY <1>1, <2>1, AtRuntime, GoneKeeps
<1>4. QED
  BY <1>2, <1>3 DEF wait_paired

\* A request for a ticket is sent once, and its answer taken once.
LEMMA RecoverKeeps ==
    ASSUME Inv, NEW r \in Roles, recover_transport(r)
    PROVE  Inv'
<1>1. /\ child[r].pc \in {"ask", "asked"} /\ UNCHANGED <<game, control, client, relay, wire, up, faults>>
      /\ child[r].pc \in Alive /\ child[r].pc # "off" /\ InStep(child[r].pc, pipe[r])
  BY AtRuntime DEF recover_transport
<1>2. PICK pc \in {"ask", "asked", "dial"} : Child(r, pc)
  BY DEF recover_transport
<1>3. /\ child' \in [Roles -> Children] /\ \A q \in Roles \ {r} : child'[q] = child[q]
      /\ child'[r].pc = pc /\ child'[r].held = child[r].held /\ child'[r].conn = child[r].conn
  BY <1>2, AtRuntime, ChildSteps
<1>4. Places' /\ HostKnows'
  <2>1. CASE r = "host"
    BY <1>1, <1>3, <2>1, HostAway
  <2>2. CASE r # "host"
    BY <1>1, <1>3, <2>2, HostSame, ViewSame, TwoRoles
  <2>3. QED
    BY <2>1, <2>2
<1>5. /\ pipe' \in [Roles -> Pipes] /\ \A q \in Roles \ {r} : pipe'[q] = pipe[q]
      /\ InStep(child'[r].pc, pipe'[r])
  <2>1. CASE child[r].pc = "ask" /\ Child(r, "asked") /\ pipe' = [pipe EXCEPT ![r].ask = "event"]
    <3>1. /\ pipe' \in [Roles -> Pipes] /\ \A q \in Roles \ {r} : pipe'[q] = pipe[q]
          /\ pipe'[r].ask = "event" /\ pipe'[r].answer = pipe[r].answer
      BY ZenonT(40), <2>1, AtRuntime DEF Pipes
    <3>2. child'[r].pc = "asked" /\ pipe[r].answer = "none"
      BY <1>1, <2>1, AtRuntime DEF Child, Children, InStep
    <3>3. QED
      BY <3>1, <3>2 DEF InStep
  <2>2. CASE /\ child[r].pc = "asked" /\ pipe[r].answer # "none"
             /\ Child(r, IF pipe[r].answer = "ticket" THEN "dial" ELSE "ask")
             /\ pipe' = [pipe EXCEPT ![r].answer = "none"]
    <3>1. /\ pipe' \in [Roles -> Pipes] /\ \A q \in Roles \ {r} : pipe'[q] = pipe[q]
          /\ pipe'[r].answer = "none" /\ pipe'[r].ask = pipe[r].ask
      BY ZenonT(40), <2>2, AtRuntime DEF Pipes
    <3>2. child'[r].pc # "asked" /\ pipe[r].ask = "none"
      BY <1>1, <2>2, AtRuntime DEF Child, Children, InStep
    <3>3. QED
      BY <3>1, <3>2 DEF InStep
  <2>3. QED
    BY <2>1, <2>2 DEF recover_transport
<1>6. QED
  BY <1>1, <1>3, <1>4, <1>5, AtRuntime, RuntimeKeeps

\* The host reads what the relay says of its peer.
LEMMA HostReadsKeeps ==
    ASSUME Inv, HostReads
    PROVE  Inv'
<1> DEFINE m == Head(wire["host"])
           now == IF m = "paused" THEN TRUE ELSE IF m = "resumed" THEN FALSE ELSE child["host"].held
<1>1. /\ child["host"].pc = "run" /\ UNCHANGED <<game, control, client, pipe, relay, up, faults>>
      /\ child["host"].pc \in Alive \ {"asked"} /\ child["host"].pc # "off"
      /\ "host" \in Roles /\ InStep(child["host"].pc, pipe["host"])
      /\ wire["host"] # <<>> /\ wire["host"] \in Seq(Notes) /\ child["host"] \in Children
      /\ (~Carried) \in BOOLEAN /\ child["host"].held \in BOOLEAN
  BY AtRuntime, TwoRoles DEF HostReads, Unread, Children
<1>2. CASE Gone("host", "fail")
  BY <1>1, <1>2, AtRuntime, GoneKeeps
<1>3. CASE /\ Read("host")
           /\ child' = [child EXCEPT !["host"].held = IF m = "paused" THEN TRUE
                                                     ELSE IF m = "resumed" THEN FALSE ELSE @]
  <2>1. child' = [child EXCEPT !["host"] = [child["host"] EXCEPT !.held = now]] /\ now \in BOOLEAN
    BY <1>1, <1>3, AtRuntime
  <2>2. [child["host"] EXCEPT !.held = now] \in Children
    BY <1>1, <2>1 DEF Children
  <2>3. /\ child' \in [Roles -> Children] /\ \A q \in Roles \ {"host"} : child'[q] = child[q]
        /\ child'["host"].pc = "run" /\ child'["host"].held = now
        /\ child'["host"].conn = child["host"].conn
    <3> HIDE DEF now
    <3>1. QED
      BY <1>1, <2>1, <2>2, AtRuntime DEF Children
  <2>4. /\ wire' \in [Roles -> Seq(Notes)] /\ wire'["host"] = Tail(wire["host"])
    BY <1>1, <1>3, AtRuntime DEF Read
  <2>5. Places' /\ Calm' = Calm /\ Carried' = Carried /\ (Up("host")' => Up("host"))
    BY <1>1, <2>3 DEF Inv, Places, Calm, Carried, Up, Reaches, Kept
  <2>6. HostKnows'
    <3>1. SUFFICES ASSUME Up("host")
                   PROVE  ~Calm /\ Shows(wire'["host"], child'["host"].held, ~Carried)
      BY <2>5 DEF HostKnows
    <3>2. ~Calm /\ Shows(wire["host"], child["host"].held, ~Carried)
      BY <1>1, <3>1 DEF Inv, HostKnows
    <3>3. Shows(Tail(wire["host"]), now, ~Carried)
      BY <1>1, <3>2, ShowsRead
    <3>4. QED
      BY <2>3, <2>4, <3>2, <3>3
  <2>7. InStep(child'["host"].pc, pipe'["host"])
    BY <1>1, <2>3
  <2>8. QED
    BY <1>1, <2>3, <2>4, <2>5, <2>6, <2>7, AtRuntime, RuntimeKeeps
<1>4. QED
  BY <1>2, <1>3 DEF HostReads

\* The host proposes the end, and waits for its acknowledgement.
LEMMA HostEndsKeeps ==
    ASSUME Inv, HostFinishes \/ finish_host_session \/ HostDeadline
    PROVE  Inv'
<1>1. /\ child["host"].pc \in {"run", "term"} /\ UNCHANGED <<game, control, client, pipe, relay, faults>>
      /\ child["host"].pc \in Alive \ {"asked"} /\ child["host"].pc # "off"
      /\ "host" \in Roles /\ InStep(child["host"].pc, pipe["host"])
  BY AtRuntime, TwoRoles DEF HostFinishes, finish_host_session, HostDeadline
<1>2. CASE \E pc \in Exits : Gone("host", pc) /\ UNCHANGED up
  BY <1>1, <1>2, AtRuntime, GoneKeeps
<1>3. CASE /\ child["host"].pc = "term" /\ Unread("host") /\ Read("host") /\ UNCHANGED <<child, up>>
  <2>1. wire' \in [Roles -> Seq(Notes)]
    BY <1>1, <1>3, AtRuntime DEF Read, Unread
  <2>2. Places' /\ HostKnows'
    BY <1>1, <1>3, HostAway
  <2>3. QED
    BY <1>1, <1>3, <2>1, <2>2, AtRuntime, RuntimeKeeps
<1>4. CASE HostFinishes
  <2>1. /\ child' \in [Roles -> Children] /\ \A q \in Roles \ {"host"} : child'[q] = child[q]
        /\ child'["host"].pc = "term" /\ UNCHANGED wire
    BY <1>1, <1>4, AtRuntime, ChildSteps DEF HostFinishes
  <2>2. up' \in [Roles -> {"none", "term", "ack"}]
    BY <1>4, AtRuntime DEF HostFinishes
  <2>3. Places' /\ HostKnows'
    BY <1>1, <2>1, HostAway
  <2>4. InStep(child'["host"].pc, pipe'["host"])
    BY <1>1, <2>1 DEF InStep
  <2>5. QED
    BY <1>1, <2>1, <2>2, <2>3, <2>4, AtRuntime, RuntimeKeeps
<1>5. QED
  BY <1>2, <1>3, <1>4 DEF finish_host_session, HostDeadline, Exits

\* The other ways a runtime ends or loses its connection.
LEMMA OthersGoKeep ==
    ASSUME Inv, NEW r \in Roles,
           \/ r = "remote" /\ (RemoteReads \/ RemoteLeaves)
           \/ TransportLost(r) \/ RecoveryEnds(r)
    PROVE  Inv'
<1>1. \E pc \in {"ask"} \cup Exits :
         /\ Gone(r, pc) /\ UNCHANGED <<game, client, control, pipe, relay>>
         /\ child[r].pc \in Alive \ {"asked"} \/ (child[r].pc = "asked" /\ pc # "ask")
  <2>1. CASE r = "remote" /\ (RemoteReads \/ RemoteLeaves)
    BY <2>1, AtRuntime DEF RemoteReads, RemoteLeaves
  <2>2. CASE TransportLost(r)
    BY <2>2, AtRuntime DEF TransportLost
  <2>3. CASE RecoveryEnds(r)
    BY <2>3, AtRuntime DEF RecoveryEnds, Recovering
  <2>4. QED
    BY <2>1, <2>2, <2>3
<1>2. up' \in [Roles -> {"none", "term", "ack"}] /\ (Fault \/ UNCHANGED faults)
  BY AtRuntime DEF RemoteReads, RemoteLeaves, TransportLost, RecoveryEnds
<1>3. faults' \in 0 .. MaxFaults
  BY <1>2, AtRuntime, FaultTyped
<1>4. QED
  BY <1>1, <1>2, <1>3, AtRuntime, GoneKeeps

-----------------------------------------------------------------------------
(* The relay and the environment. *)

\* A connection is cut.
LEMMA CutKeeps ==
    ASSUME Inv, NEW r \in Roles, CutConnection(r)
    PROVE  Inv'
<1>1. /\ UNCHANGED <<game, control, client, pipe, relay>> /\ faults' \in 0 .. MaxFaults
  BY AtRuntime, FaultTyped DEF CutConnection
<1>2. /\ child' \in [Roles -> Children] /\ \A q \in Roles \ {r} : child'[q] = child[q]
      /\ child'[r].pc = child[r].pc /\ ~child'[r].conn
  BY ChildSteps DEF CutConnection
<1>3. /\ wire' \in [Roles -> Seq(Notes)] /\ \A q \in Roles \ {r} : wire'[q] = wire[q]
      /\ up' \in [Roles -> {"none", "term", "ack"}]
  BY AtRuntime DEF CutConnection
<1>4. Places' /\ HostKnows'
  <2>1. CASE r = "host"
    BY <1>1, <1>2, <2>1, HostAway
  <2>2. CASE r # "host"
    BY <1>1, <1>2, <1>3, <2>2, HostSame, ViewSame, TwoRoles
  <2>3. QED
    BY <2>1, <2>2
<1>5. Typed'
  BY <1>1, <1>2, <1>3, AtRuntime DEF Inv, Typed
<1>6. QED
  BY <1>1, <1>2, <1>4, <1>5, AtRuntime, BesideKeeps

\* What is left to show for a step of the relay.
LEMMA RelayKeeps ==
    ASSUME Inv, UNCHANGED <<game, client, child, pipe, faults>>, Same(control'),
           relay' \in Relays, wire' \in [Roles -> Seq(Notes)],
           up' \in [Roles -> {"none", "term", "ack"}], Places', HostKnows'
    PROVE  Inv'
<1>1. Typed'
  BY DEF Inv, Typed, Same
<1>2. "host" \in Roles
  BY TwoRoles
<1>3. QED
  BY <1>1, <1>2, AtRuntime, BesideKeeps

\* What the relay tells a side is of the known kind.
LEMMA TellTyped ==
    ASSUME Inv, NEW r \in Roles, NEW m \in Notes
    PROVE  Tell(r, m) \in Seq(Notes)
<1>1. wire[r] \in Seq(Notes)
  BY AtRuntime
<1>2. Append(wire[r], m) \in Seq(Notes)
  BY <1>1
<1>3. QED
  BY <1>1, <1>2 DEF Tell

\* A terminal message is sent on.
LEMMA ForwardKeeps ==
    ASSUME Inv, NEW r \in Roles, Forward(r)
    PROVE  Inv'
<1> DEFINE q == Other(r)
<1>1. /\ UNCHANGED <<game, control, client, child, pipe, faults>> /\ Bridged
      /\ up[r] \in {"term", "ack"}
      /\ relay' = [relay EXCEPT !.term = @ \/ up[r] = "term", !.acked = @ \/ (up[r] = "ack" /\ relay.term)]
  BY AtRuntime DEF Forward
<1>2. /\ wire' = [wire EXCEPT ![q] = Tell(q, up[r])]
      /\ q \in Roles /\ up' \in [Roles -> {"none", "term", "ack"}]
  BY TwoRoles, AtRuntime DEF Forward
<1>3. up[r] \in Notes \ {"paused", "resumed"} /\ Tell(q, up[r]) \in Seq(Notes)
  <2>1. up[r] \in Notes \ {"paused", "resumed"}
    BY <1>1 DEF Notes
  <2>2. QED
    BY <1>2, <2>1, TellTyped
<1>4. relay' \in Relays /\ HostView' = HostView
  <2>1. /\ (relay.term \/ up[r] = "term") \in BOOLEAN
        /\ (relay.acked \/ (up[r] = "ack" /\ relay.term)) \in BOOLEAN
    OBVIOUS
  <2>2. QED
    BY <1>1, <2>1, AtRuntime DEF Relays, Links, HostView
<1> HIDE DEF q
<1>5. wire' \in [Roles -> Seq(Notes)] /\ (q # "host" => wire'["host"] = wire["host"])
      /\ (q = "host" => wire'["host"] = Tell("host", up[r]))
  BY <1>2, <1>3, AtRuntime, TwoRoles
<1>6. CASE wire'["host"] = wire["host"]
  <2>1. Places' /\ HostKnows'
    BY <1>1, <1>4, <1>6, HostSame
  <2>2. QED
    BY <1>1, <1>2, <1>4, <1>5, <2>1, AtRuntime, RelayKeeps
<1>7. CASE wire'["host"] = Append(wire["host"], up[r]) /\ Reaches("host")
  <2>1. Places' /\ Calm' = Calm /\ Carried' = Carried /\ (Up("host")' => Up("host"))
    BY <1>1, <1>4 DEF HostView, Inv, Places, Calm, Carried, Up, Reaches, Kept
  <2>2. ~Calm
    <3>1. relay.link["host"] = "active"
      BY <1>1, TwoRoles DEF Bridged
    <3>2. QED
      BY <1>7, <3>1 DEF Inv, Places, Calm, Reaches
  <2>3. wire["host"] \in Seq(Notes) /\ (~Carried) \in BOOLEAN
    BY AtRuntime, TwoRoles
  <2>4. Shows(wire["host"], child["host"].held, ~Carried) =>
           Shows(Append(wire["host"], up[r]), child["host"].held, ~Carried)
    BY <1>3, <2>3, ShowsOther
  <2>5. HostKnows'
    BY <1>1, <1>7, <2>1, <2>2, <2>4 DEF Inv, HostKnows
  <2>6. QED
    BY <1>1, <1>2, <1>4, <1>5, <2>1, <2>5, AtRuntime, RelayKeeps
<1>8. QED
  BY <1>5, <1>6, <1>7 DEF Tell

\* What the relay is after a handler has registered its connection: the role's old one goes,
\* and a waiting peer is taken for it.
Registered(d, c, r, own, kept) ==
    /\ d \in Relays /\ d.fresh = c.fresh /\ d.ending = c.ending /\ d.own = c.own
    /\ Paired(c, r) =>
          /\ \A x \in Roles : d.link[x] = "active"
          /\ d.old = (IF own THEN c.old \ {r} ELSE c.old \cup {r})
    /\ ~Paired(c, r) =>
          /\ d.link[r] = "pending"
          /\ d.link[Other(r)] = (IF c.link[Other(r)] = "active" THEN "none" ELSE c.link[Other(r)])
          /\ d.old = (IF own THEN {} ELSE {r})
          /\ d.retained = kept

LEMMA RegisterTyped ==
    ASSUME NEW c \in Relays, NEW r \in Roles, NEW own \in BOOLEAN, NEW kept \in BOOLEAN
    PROVE  Registered(register_pending(c, r, own, kept), c, r, own, kept)
<1> DEFINE old == IF own THEN c.old \ {r} ELSE c.old \cup {r}
<1>1. /\ c.link \in Links /\ c.old \in SUBSET Roles
      /\ old \in SUBSET Roles /\ Other(r) \in Roles /\ Other(r) # r /\ Roles = {r, Other(r)}
  BY TwoRoles DEF Relays, Links
<1>2. CASE Paired(c, r)
  <2>1. register_pending(c, r, own, kept) =
           [c EXCEPT !.link = [x \in Roles |-> "active"], !.old = old, !.retained = FALSE,
                     !.term = FALSE, !.acked = FALSE]
    BY <1>2 DEF register_pending
  <2> DEFINE link == [x \in Roles |-> "active"]
             d == register_pending(c, r, own, kept)
  <2>2. link \in Links /\ \A x \in Roles : link[x] = "active"
    BY DEF Links
  <2>3. d = [c EXCEPT !.link = link, !.old = old, !.retained = FALSE, !.term = FALSE, !.acked = FALSE]
    BY <2>1
  <2> HIDE DEF old, link, d
  <2>4. d \in Relays
    BY ZenonT(40), <1>1, <2>2, <2>3 DEF Relays
  <2>5. /\ d.fresh = c.fresh /\ d.ending = c.ending /\ d.own = c.own /\ d.link = link /\ d.old = old
    BY SMTT(20), <2>3 DEF Relays
  <2>6. QED
    BY <1>2, <2>2, <2>4, <2>5 DEF Registered, d, old
<1>3. CASE ~Paired(c, r)
  <2> DEFINE link == [x \in Roles |-> IF x = r THEN "pending"
                                      ELSE IF c.link[Other(r)] = "active" THEN "none"
                                      ELSE c.link[Other(r)]]
  <2>1. register_pending(c, r, own, kept) =
           [c EXCEPT !.link = link, !.old = old \cap {r}, !.retained = kept]
    BY <1>3 DEF register_pending
  <2>2. /\ link \in Links /\ link[r] = "pending"
        /\ link[Other(r)] = (IF c.link[Other(r)] = "active" THEN "none" ELSE c.link[Other(r)])
    BY <1>1 DEF Links
  <2> DEFINE d == register_pending(c, r, own, kept)
             still == old \cap {r}
  <2>3. still = (IF own THEN {} ELSE {r}) /\ still \in SUBSET Roles
    OBVIOUS
  <2>4. d = [c EXCEPT !.link = link, !.old = still, !.retained = kept]
    BY <2>1
  <2> HIDE DEF old, link, still, d
  <2>5. d \in Relays
    BY ZenonT(40), <2>2, <2>3, <2>4 DEF Relays
  <2>6. /\ d.fresh = c.fresh /\ d.ending = c.ending /\ d.own = c.own
        /\ d.link = link /\ d.old = still /\ d.retained = kept
    BY SMTT(20), <2>4 DEF Relays
  <2>7. QED
    BY <1>3, <2>2, <2>3, <2>5, <2>6 DEF Registered, d
<1>4. QED
  BY <1>2, <1>3

\* The handler of the host's own connection.
LEMMA OwnHandled ==
    ASSUME Inv, UNCHANGED child, "host" \in relay.fresh, relay' \in Relays,
           "host" \notin relay'.fresh, "host" \notin relay'.old,
           relay'.ending = relay.ending, relay'.own = relay.own,
           \/ /\ relay'.link["host"] = "active"
              /\ wire'["host"] = IF child["host"].conn THEN Append(wire["host"], "paired") ELSE wire["host"]
           \/ relay'.link["host"] = "pending" /\ relay'.retained = FALSE /\ wire'["host"] = wire["host"]
    PROVE  Places' /\ HostKnows'
<1>1. ~relay.own /\ ~relay'.own
  BY DEF Inv, Places
<1>2. Places'
  BY <1>1 DEF Places
<1>3. SUFFICES ASSUME child["host"].pc \in {"wait", "again", "run"}, Up("host")'
               PROVE  IF Calm' THEN wire'["host"] = <<>> /\ child["host"].held = FALSE /\ child["host"].pc # "run"
                      ELSE Shows(wire'["host"], child["host"].held, ~Carried')
  BY <1>2 DEF HostKnows
<1>4. child["host"].conn
  BY <1>3 DEF Up, Reaches, Kept
<1>5. wire["host"] = <<>> /\ child["host"].held = FALSE /\ child["host"].pc # "run"
  BY <1>3, <1>4 DEF Inv, HostKnows, Calm, Up
<1>6. CASE relay'.link["host"] = "pending"
  BY <1>5, <1>6 DEF Calm
<1>7. CASE relay'.link["host"] = "active"
  <2>1. ~Calm' /\ Carried'
    BY <1>7 DEF Calm, Carried
  <2>2. wire'["host"] = Append(<<>>, "paired")
    BY <1>4, <1>5, <1>7
  <2>3. Marks(Append(<<>>, "paired")) = {}
    BY DEF Marks
  <2>4. QED
    BY <1>5, <2>1, <2>2, <2>3 DEF Shows
<1>8. QED
  BY <1>6, <1>7

\* A handler of the host that its runtime has given up registers nothing the host knows of.
LEMMA LateHandled ==
    ASSUME Inv, UNCHANGED child, wire'["host"] = wire["host"], relay' \in Relays,
           "host" \in relay'.old, relay'.link["host"] \in {"pending", "active"},
           relay'.fresh = relay.fresh, relay'.ending = relay.ending, relay'.own = relay.own
    PROVE  Places' /\ HostKnows'
<1>1. Places'
  BY DEF Inv, Places
<1>2. CASE Up("host")'
  <2>1. Up("host") /\ ("host" \in relay.fresh \/ Kept)
    BY <1>2 DEF Up, Reaches, Kept
  <2>2. Calm' = Calm
    BY <2>1 DEF Inv, Places, Calm, Kept
  <2>3. Calm \/ Carried' = Carried
    BY <2>1, <2>2 DEF Inv, Places, Calm, Carried, Kept
  <2>4. QED
    BY <1>1, <2>1, <2>2, <2>3 DEF Inv, HostKnows
<1>3. CASE ~Up("host")'
  BY <1>1, <1>3 DEF HostKnows
<1>4. QED
  BY <1>2, <1>3

\* A connection of the remote is paired with the host that waits.
LEMMA RemotePaired ==
    ASSUME Inv, UNCHANGED child, relay.link["host"] = "pending", relay' \in Relays,
           wire'["host"] = Tell("host", IF relay.retained THEN "resumed" ELSE "paired"),
           relay'.link["host"] = "active", "host" \in relay'.old <=> "host" \in relay.old,
           "host" \in relay'.fresh <=> "host" \in relay.fresh,
           relay'.ending = relay.ending, relay'.own = relay.own
    PROVE  Places' /\ HostKnows'
<1>1. Places'
  BY DEF Inv, Places
<1>2. CASE "host" \in relay.old
  <2>1. CASE Up("host")'
    <3>1. Up("host") /\ Calm' = Calm /\ (Calm \/ Carried' = Carried) /\ wire'["host"] = wire["host"]
      BY <1>2, <2>1 DEF Inv, Places, Calm, Carried, Up, Reaches, Kept, Tell
    <3>2. QED
      BY <1>1, <3>1 DEF Inv, HostKnows
  <2>2. CASE ~Up("host")'
    BY <1>1, <2>2 DEF HostKnows
  <2>3. QED
    BY <2>1, <2>2
<1>3. CASE "host" \notin relay.old
  <2>1. ~relay.own /\ "host" \notin relay.fresh
    BY <1>3 DEF Inv, Places
  <2>2. ~Calm' /\ Carried' /\ (Up("host")' <=> child["host"].conn) /\ (Up("host") <=> child["host"].conn)
    BY <1>3, <2>1 DEF Calm, Carried, Up, Reaches, Kept
  <2>3. SUFFICES ASSUME child["host"].pc \in {"wait", "again", "run"}, child["host"].conn
                 PROVE  Shows(wire'["host"], child["host"].held, FALSE)
    BY <1>1, <2>2 DEF HostKnows
  <2>4. wire'["host"] = Append(wire["host"], IF relay.retained THEN "resumed" ELSE "paired")
        /\ wire["host"] \in Seq(Notes)
    BY <1>3, <2>3, AtRuntime, TwoRoles DEF Tell, Reaches
  <2>5. CASE relay.retained
    <3>1. Shows(Append(wire["host"], "resumed"), child["host"].held, "resumed" = "paused")
      BY <2>4, ShowsWord
    <3>2. ("resumed" = "paused") = FALSE
      OBVIOUS
    <3>3. QED
      BY <2>4, <2>5, <3>1, <3>2
  <2>6. CASE ~relay.retained
    <3>1. Calm
      BY <1>3, <2>6 DEF Calm
    <3>2. wire["host"] = <<>> /\ child["host"].held = FALSE
      BY <2>2, <2>3, <3>1 DEF Inv, HostKnows
    <3>3. wire'["host"] = Append(<<>>, "paired") /\ Marks(Append(<<>>, "paired")) = {}
      BY <2>4, <2>6, <3>2 DEF Marks
    <3>4. QED
      BY <3>2, <3>3 DEF Shows
  <2>7. QED
    BY <2>5, <2>6
<1>4. QED
  BY <1>2, <1>3

\* A connection of the remote waits: the old bridge is gone.
LEMMA RemoteWaits ==
    ASSUME Inv, UNCHANGED child, wire'["host"] = wire["host"], relay' \in Relays,
           relay.link["host"] # "pending",
           relay'.link["host"] = IF relay.link["host"] = "active" THEN "none" ELSE relay.link["host"],
           "host" \notin relay'.old, "host" \in relay'.fresh <=> "host" \in relay.fresh,
           relay'.ending = relay.ending, relay'.own = relay.own
    PROVE  Places' /\ HostKnows'
<1>1. Places'
  BY DEF Inv, Places
<1>2. CASE Up("host")'
  <2>1. Up("host") /\ Calm' = Calm
    BY <1>2 DEF Inv, Places, Calm, Up, Reaches, Kept
  <2>2. Calm \/ Carried' = Carried
    BY <1>2 DEF Inv, Places, Calm, Carried, Up, Reaches, Kept
  <2>3. QED
    BY <1>1, <2>1, <2>2 DEF Inv, HostKnows
<1>3. CASE ~Up("host")'
  BY <1>1, <1>3 DEF HostKnows
<1>4. QED
  BY <1>2, <1>3

\* A handler registers its connection.
LEMMA HandleKeeps ==
    ASSUME Inv, NEW r \in Roles, handle_client(r)
    PROVE  Inv'
<1>1. /\ UNCHANGED <<game, control, client, child, pipe, faults>>
      /\ up' \in [Roles -> {"none", "term", "ack"}]
  BY AtRuntime DEF handle_client
<1>2. PICK own \in BOOLEAN :
         LET c == IF own THEN [relay EXCEPT !.fresh = @ \ {r}] ELSE [relay EXCEPT !.late = @ \ {r}] IN
         /\ r \in IF own THEN relay.fresh ELSE relay.late
         /\ relay' = register_pending(c, r, own, FALSE)
         /\ wire' = IF Paired(c, r) THEN bridge(r, own) ELSE wire
  BY DEF handle_client
<1> DEFINE c == IF own THEN [relay EXCEPT !.fresh = @ \ {r}] ELSE [relay EXCEPT !.late = @ \ {r}]
           q == Other(r)
<1>3. /\ c \in Relays /\ c.link = relay.link /\ c.old = relay.old /\ c.ending = relay.ending
      /\ c.own = relay.own /\ c.fresh = (IF own THEN relay.fresh \ {r} ELSE relay.fresh)
      /\ Paired(c, r) <=> relay.link[q] = "pending"
  BY AtRuntime DEF Relays, Paired
<1>4. /\ relay' = register_pending(c, r, own, FALSE) /\ (own => r \in relay.fresh)
      /\ wire' = IF Paired(c, r) THEN bridge(r, own) ELSE wire
  BY <1>2
<1> HIDE DEF c
<1>5. /\ relay' \in Relays /\ relay'.fresh = c.fresh /\ relay'.ending = relay.ending /\ relay'.own = relay.own
      /\ Paired(c, r) =>
            /\ \A x \in Roles : relay'.link[x] = "active"
            /\ relay'.old = (IF own THEN relay.old \ {r} ELSE relay.old \cup {r})
      /\ ~Paired(c, r) =>
            /\ relay'.link[r] = "pending"
            /\ relay'.link[q] = (IF relay.link[q] = "active" THEN "none" ELSE relay.link[q])
            /\ relay'.old = (IF own THEN {} ELSE {r})
            /\ relay'.retained = FALSE
  <2>1. FALSE \in BOOLEAN /\ c \in Relays
    BY <1>3
  <2> DEFINE d == register_pending(c, r, own, FALSE)
  <2>2. Registered(d, c, r, own, FALSE)
    BY <2>1, RegisterTyped
  <2>3. relay' = d
    BY <1>4
  <2> HIDE DEF d
  <2>4. QED
    BY <1>3, <2>2, <2>3 DEF Registered
<1>6. /\ q \in Roles /\ Roles = {r, q} /\ (r = "host" => q = "remote") /\ (r # "host" => q = "host")
      /\ q # r /\ "host" \in Roles
  BY TwoRoles
<1> DEFINE greet == IF relay.retained THEN "resumed" ELSE "paired"
<1>7. /\ wire' \in [Roles -> Seq(Notes)]
      /\ ~Paired(c, r) => wire' = wire
      /\ Paired(c, r) =>
            /\ wire'[r] = IF own /\ child[r].conn THEN Append(wire[r], "paired") ELSE wire[r]
            /\ wire'[q] = Tell(q, greet)
  <2>1. CASE ~Paired(c, r)
    BY <1>4, <2>1, AtRuntime
  <2>2. CASE Paired(c, r)
    <3>1. wire' = [x \in Roles |-> IF x = r
                                   THEN IF own /\ child[r].conn THEN Append(wire[r], "paired") ELSE wire[r]
                                   ELSE Tell(x, greet)]
      BY <1>4, <2>2 DEF bridge
    <3>2. greet \in Notes /\ "paired" \in Notes
      BY DEF Notes
    <3>3. \A x \in Roles : Tell(x, greet) \in Seq(Notes) /\ wire[x] \in Seq(Notes)
      BY <3>2, TellTyped, AtRuntime
    <3>4. Append(wire[r], "paired") \in Seq(Notes)
      BY <3>2, <3>3
    <3> HIDE DEF greet
    <3>5. QED
      BY <1>6, <2>2, <3>1, <3>3, <3>4
  <2>3. QED
    BY <2>1, <2>2
<1> HIDE DEF q
<1>8. Places' /\ HostKnows'
  <2>1. CASE r = "host" /\ own
    <3>1. /\ "host" \in relay.fresh /\ "host" \notin relay'.fresh /\ "host" \notin relay'.old
      BY <1>3, <1>4, <1>5, <2>1
    <3>2. CASE Paired(c, r)
      BY <1>1, <1>5, <1>7, <2>1, <3>1, <3>2, OwnHandled
    <3>3. CASE ~Paired(c, r)
      BY <1>1, <1>5, <1>7, <2>1, <3>1, <3>3, OwnHandled
    <3>4. QED
      BY <3>2, <3>3
  <2>2. CASE r = "host" /\ ~own
    <3>1. /\ relay'.fresh = relay.fresh /\ "host" \in relay'.old /\ wire'["host"] = wire["host"]
          /\ relay'.link["host"] \in {"pending", "active"}
      BY <1>3, <1>5, <1>6, <1>7, <2>2
    <3>2. QED
      BY <1>1, <1>5, <3>1, LateHandled
  <2>3. CASE r # "host" /\ Paired(c, r)
    <3>1. /\ relay.link["host"] = "pending" /\ relay'.link["host"] = "active"
          /\ "host" \in relay'.old <=> "host" \in relay.old
          /\ "host" \in relay'.fresh <=> "host" \in relay.fresh
          /\ wire'["host"] = Tell("host", greet)
      BY <1>3, <1>5, <1>6, <1>7, <2>3
    <3>2. QED
      BY <1>1, <1>5, <3>1, RemotePaired
  <2>4. CASE r # "host" /\ ~Paired(c, r)
    <3>1. /\ relay.link["host"] # "pending"
          /\ relay'.link["host"] = IF relay.link["host"] = "active" THEN "none" ELSE relay.link["host"]
          /\ "host" \notin relay'.old /\ ("host" \in relay'.fresh <=> "host" \in relay.fresh)
          /\ wire'["host"] = wire["host"]
      BY <1>3, <1>5, <1>6, <1>7, <2>4
    <3>2. QED
      BY <1>1, <1>5, <3>1, RemoteWaits
  <2>5. QED
    BY <2>1, <2>2, <2>3, <2>4
<1>9. QED
  BY <1>1, <1>5, <1>7, <1>8, AtRuntime, RelayKeeps

\* No connection is in the bridge any more.
LEMMA OverTyped ==
    ASSUME Inv, NEW ending \in {"no", "tell", "report"}
    PROVE  /\ Over(ending) \in Relays /\ Over(ending).fresh = relay.fresh /\ Over(ending).old = {}
           /\ Over(ending).ending = ending /\ Over(ending).retained = relay.retained
           /\ Over(ending).own = (ending = "tell" /\ "host" \notin relay.old)
           /\ \A x \in Roles : Over(ending).link[x] = "none"
<1>1. Closed \in Links /\ \A x \in Roles : Closed[x] = "none"
  BY DEF Closed, Links
<1> DEFINE own == ending = "tell" /\ "host" \notin relay.old
           d == Over(ending)
<1>2. own \in BOOLEAN /\ relay \in Relays
  BY AtRuntime
<1>3. d = [relay EXCEPT !.link = Closed, !.old = {}, !.term = FALSE, !.acked = FALSE, !.ending = ending,
                        !.own = own]
  BY DEF Over
<1> HIDE DEF own, d
<1>4. d \in Relays
  <2>1. {} \in SUBSET Roles /\ FALSE \in BOOLEAN /\ ending \in {"no", "tell", "pause", "register", "report"}
    OBVIOUS
  <2>2. QED
    BY ZenonT(40), <1>1, <1>2, <1>3, <2>1 DEF Relays
<1>5. /\ d.fresh = relay.fresh /\ d.old = {} /\ d.ending = ending
      /\ d.retained = relay.retained /\ d.own = own /\ d.link = Closed
  BY SMTT(20), <1>2, <1>3 DEF Relays
<1>6. QED
  BY <1>1, <1>4, <1>5 DEF d, own

\* One side of the bridge is gone.
LEMMA BridgeEndsKeeps ==
    ASSUME Inv, NEW r \in Roles, bridge_ends(r)
    PROVE  Inv'
<1>1. /\ UNCHANGED <<game, control, client, child, pipe, faults>> /\ relay.ending = "no"
      /\ relay.link["host"] = "active" /\ up' \in [Roles -> {"none", "term", "ack"}]
      /\ wire' = IF Aborted THEN [x \in Roles |-> Tell(x, "over")] ELSE wire
  BY AtRuntime, TwoRoles DEF bridge_ends, Bridged
<1>2. PICK ending \in {"no", "tell", "report"} : relay' = Over(ending) /\ (Aborted => ending = "no")
  BY DEF bridge_ends
<1>3. /\ relay' \in Relays /\ relay'.fresh = relay.fresh /\ relay'.old = {} /\ relay'.ending = ending
      /\ relay'.own = (ending = "tell" /\ "host" \notin relay.old) /\ relay'.link["host"] = "none"
  BY <1>2, OverTyped, TwoRoles
<1>4. ~relay.own /\ ("host" \in relay.fresh => "host" \in relay.old)
  BY <1>1 DEF Inv, Places
<1>5. Places'
  BY <1>3, <1>4 DEF Places
<1>6. wire' \in [Roles -> Seq(Notes)]
  BY <1>1, AtRuntime, TellTyped DEF Notes
<1>7. HostKnows'
  <2>1. CASE Up("host")'
    <3>1. "host" \in relay.fresh \/ (ending = "tell" /\ "host" \notin relay.old)
      BY <1>3, <2>1 DEF Up, Reaches, Kept
    <3>2. Up("host") /\ Calm' = Calm /\ (Calm \/ Carried' = Carried)
      BY <1>1, <1>3, <1>4, <2>1, <3>1 DEF Up, Reaches, Kept, Calm, Carried
    <3>3. wire'["host"] = wire["host"]
      BY <1>1, <1>2, <1>4, <3>1, TwoRoles DEF Tell, Reaches
    <3>4. QED
      BY <1>1, <3>2, <3>3 DEF Inv, HostKnows
  <2>2. CASE ~Up("host")'
    BY <2>2 DEF HostKnows
  <2>3. QED
    BY <2>1, <2>2
<1>8. QED
  BY <1>1, <1>3, <1>5, <1>6, <1>7, AtRuntime, RelayKeeps

\* The end of a bridge goes on.
LEMMA EndBridgeKeeps ==
    ASSUME Inv, EndBridge
    PROVE  Inv'
<1>1. UNCHANGED <<game, client, child, pipe, faults>> /\ "host" \in Roles /\ "remote" \in Roles
  BY TwoRoles DEF EndBridge
<1>2. relay \in Relays /\ wire["host"] \in Seq(Notes) /\ Same(control) /\ wire \in [Roles -> Seq(Notes)]
      /\ up \in [Roles -> {"none", "term", "ack"}]
  BY <1>1, AtRuntime
<1>3. ASSUME UNCHANGED <<control, up>>, relay.ending = "tell", Kept, ~Aborted,
             wire' = [wire EXCEPT !["host"] = Append(@, "paused")],
             relay' = [relay EXCEPT !.ending = "pause"]
      PROVE  Inv'
  <2>1. /\ relay' \in Relays /\ relay'.ending = "pause" /\ relay'.link = relay.link
        /\ relay'.old = relay.old /\ relay'.fresh = relay.fresh /\ relay'.own = relay.own
        /\ relay'.retained = relay.retained /\ relay.own
    BY <1>2, <1>3 DEF Relays, Links, Kept
  <2>2. Append(wire["host"], "paused") \in Seq(Notes)
    BY <1>2 DEF Notes
  <2>3. wire' \in [Roles -> Seq(Notes)] /\ wire'["host"] = Append(wire["host"], "paused")
    BY <1>1, <1>2, <1>3, <2>2
  <2>4. Places' /\ ~Carried'
    BY <2>1 DEF Inv, Places, Carried
  <2>5. ~Calm'
    BY <2>1 DEF Inv, Places, Calm
  <2>6. Shows(Append(wire["host"], "paused"), child["host"].held, "paused" = "paused")
    BY <1>2, ShowsWord
  <2>7. ("paused" = "paused") = ~Carried'
    BY <2>4
  <2>8. HostKnows'
    BY <1>1, <2>3, <2>5, <2>6, <2>7 DEF HostKnows
  <2>9. QED
    BY <1>1, <1>2, <1>3, <2>1, <2>3, <2>4, <2>8, RelayKeeps
<1>4. ASSUME UNCHANGED <<control, up>>, relay.ending = "tell", Aborted, Kept \/ UNCHANGED wire,
             wire' = IF Kept THEN [wire EXCEPT !["host"] = Append(@, "over")] ELSE wire,
             relay' = [relay EXCEPT !.ending = "no", !.own = FALSE]
      PROVE  Inv'
  <2>1. /\ relay' \in Relays /\ relay'.ending = "no" /\ relay'.link = relay.link
        /\ relay'.old = relay.old /\ relay'.fresh = relay.fresh /\ ~relay'.own
        /\ relay'.retained = relay.retained
    BY <1>2, <1>4 DEF Relays, Links
  <2>2. Append(wire["host"], "over") \in Seq(Notes)
    BY <1>2 DEF Notes
  <2>3. wire' \in [Roles -> Seq(Notes)]
    BY <1>1, <1>2, <1>4, <2>2
  <2>4. Places'
    BY <2>1 DEF Inv, Places
  <2>5. HostKnows'
    <3>1. CASE relay.own
      <4>1. ~Up("host")'
        BY <2>1, <3>1 DEF Inv, Places, Up, Reaches, Kept
      <4>2. QED
        BY <4>1 DEF HostKnows
    <3>2. CASE ~relay.own
      <4>1. wire' = wire /\ (Up("host")' => Up("host")) /\ Calm' = Calm /\ Carried' = Carried
        BY <1>1, <1>4, <2>1, <3>2 DEF Up, Reaches, Kept, Calm, Carried
      <4>2. QED
        BY <1>1, <4>1, HostStays
    <3>3. QED
      BY <3>1, <3>2
  <2>6. QED
    BY <1>1, <1>2, <1>4, <2>1, <2>3, <2>4, <2>5, RelayKeeps
<1>5. ASSUME UNCHANGED <<control, up, wire>>, relay.ending = "tell", ~Kept,
             \/ relay' = [relay EXCEPT !.ending = "pause"]
             \/ relay' = [relay EXCEPT !.ending = "report", !.own = FALSE]
      PROVE  Inv'
  <2>1. /\ relay' \in Relays /\ relay'.ending \in {"pause", "report"} /\ relay'.link = relay.link
        /\ relay'.old = relay.old /\ relay'.fresh = relay.fresh
        /\ relay'.own => relay.own /\ relay'.ending = "pause"
        /\ relay'.retained = relay.retained
    BY ZenonT(40), <1>2, <1>5 DEF Relays, Links
  <2>2. Places'
    BY <2>1 DEF Inv, Places
  <2>3. HostKnows'
    <3>1. CASE relay.own
      <4>1. ~Up("host")'
        BY <1>1, <1>5, <2>1, <3>1 DEF Inv, Places, Up, Reaches, Kept
      <4>2. QED
        BY <4>1 DEF HostKnows
    <3>2. CASE ~relay.own
      <4>1. (Up("host")' => Up("host")) /\ Calm' = Calm /\ Carried' = Carried
        BY <1>1, <2>1, <3>2 DEF Up, Reaches, Kept, Calm, Carried
      <4>2. QED
        BY <1>1, <1>5, <4>1, HostStays
    <3>3. QED
      BY <3>1, <3>2
  <2>4. QED
    BY <1>1, <1>2, <1>5, <2>1, <2>2, <2>3, RelayKeeps
<1>6. ASSUME UNCHANGED <<wire, up>>, Same(control'),
             \/ relay.ending = "pause" /\ relay' = [relay EXCEPT !.ending = "register"]
             \/ relay.ending = "report" /\ relay' = [relay EXCEPT !.ending = "no"]
      PROVE  Inv'
  <2>1. /\ relay' \in Relays /\ relay'.link = relay.link
        /\ relay'.old = relay.old /\ relay'.fresh = relay.fresh /\ relay'.own = relay.own
        /\ relay'.retained = relay.retained
        /\ \/ relay.ending = "pause" /\ relay'.ending = "register"
           \/ relay.ending = "report" /\ relay'.ending = "no"
    BY ZenonT(40), <1>2, <1>6 DEF Relays, Links
  <2>2. Places' /\ (relay.ending = "report" => ~relay.own)
    BY <2>1 DEF Inv, Places
  <2>3. (Up("host")' => Up("host")) /\ Calm' = Calm /\ Carried' = Carried
    BY <1>1, <2>1, <2>2 DEF Up, Reaches, Kept, Calm, Carried
  <2>4. HostKnows'
    BY <1>1, <1>6, <2>3, HostStays
  <2>5. QED
    BY <1>1, <1>2, <1>6, <2>1, <2>2, <2>4, RelayKeeps
<1>7. ASSUME UNCHANGED <<control, wire>>, relay.ending = "register",
             up' = IF relay.own THEN up ELSE [up EXCEPT !["host"] = "none"],
             LET c == [relay EXCEPT !.ending = "no", !.own = FALSE] IN
             relay' = IF Paired(c, "host")
                      THEN [c EXCEPT !.old = {},
                                     !.link = [x \in Roles |-> IF IF x = "host" THEN Kept ELSE Reaches(x)
                                                               THEN "dropped" ELSE "none"]]
                      ELSE register_pending(c, "host", relay.own, TRUE)
      PROVE  Inv'
  <2> DEFINE c == [relay EXCEPT !.ending = "no", !.own = FALSE]
  <2>1. /\ c \in Relays /\ c.link = relay.link /\ c.old = relay.old /\ c.ending = "no" /\ c.own = FALSE
        /\ c.fresh = relay.fresh /\ relay.own \in BOOLEAN
    BY <1>2 DEF Relays, Links
  <2>2. relay' = IF Paired(c, "host")
                 THEN [c EXCEPT !.old = {},
                                !.link = [x \in Roles |-> IF IF x = "host" THEN Kept ELSE Reaches(x)
                                                          THEN "dropped" ELSE "none"]]
                 ELSE register_pending(c, "host", relay.own, TRUE)
    BY <1>7
  <2>3. up' \in [Roles -> {"none", "term", "ack"}]
    BY <1>2, <1>7
  <2> HIDE DEF c
  <2>4. CASE Paired(c, "host")
    <3> DEFINE link == [x \in Roles |-> IF IF x = "host" THEN Kept ELSE Reaches(x)
                                        THEN "dropped" ELSE "none"]
    <3>1. /\ link \in Links
          /\ link["host"] = IF Kept THEN "dropped" ELSE "none"
      BY <1>1 DEF Links
    <3>2. relay' = [c EXCEPT !.old = {}, !.link = link]
      BY <2>2, <2>4
    <3> HIDE DEF link
    <3>3. /\ relay' \in Relays /\ relay'.link["host"] = (IF Kept THEN "dropped" ELSE "none")
          /\ relay'.old = {} /\ relay'.fresh = relay.fresh /\ relay'.ending = "no" /\ ~relay'.own
      <4>1. c \in Relays /\ {} \in SUBSET Roles /\ link \in Links
        BY <2>1, <3>1
      <4>2. relay' \in Relays
        BY ZenonT(40), <3>2, <4>1 DEF Relays
      <4>3. /\ relay'.link = link /\ relay'.old = {} /\ relay'.fresh = c.fresh
            /\ relay'.ending = c.ending /\ relay'.own = c.own
        BY SMTT(20), <3>2, <4>1 DEF Relays
      <4>4. QED
        BY <2>1, <3>1, <4>2, <4>3
    <3>4. Places'
      BY <3>3 DEF Inv, Places, Kept
    <3>5. HostKnows'
      <4>1. CASE Kept
        <5>1. Up("host") /\ relay.own /\ "host" \notin relay.fresh
          BY <1>7, <4>1 DEF Inv, Places, Up, Kept
        <5>2. ~Calm /\ ~Carried
          BY <1>7, <5>1 DEF Inv, Places, Calm, Carried
        <5>3. ~Calm' /\ ~Carried'
          BY <3>3, <4>1, <5>1 DEF Calm, Carried
        <5>4. Shows(wire["host"], child["host"].held, ~Carried) =
                 Shows(wire["host"], child["host"].held, ~Carried')
          BY <5>2, <5>3
        <5>5. QED
          BY <1>1, <1>7, <5>1, <5>2, <5>3, <5>4 DEF Inv, HostKnows
      <4>2. CASE ~Kept
        <5>1. Up("host")' => Up("host") /\ Calm /\ Calm'
          BY <1>1, <3>3, <4>2 DEF Up, Reaches, Kept, Calm
        <5>2. QED
          BY <1>1, <1>7, <5>1 DEF Inv, HostKnows
      <4>3. QED
        BY <4>1, <4>2
    <3>6. QED
      BY <1>1, <1>2, <1>7, <2>3, <3>3, <3>4, <3>5, RelayKeeps
  <2>5. CASE ~Paired(c, "host")
    <3>1. relay' = register_pending(c, "host", relay.own, TRUE)
      BY <2>2, <2>5
    <3>2. /\ relay' \in Relays /\ relay'.fresh = relay.fresh /\ relay'.ending = "no" /\ ~relay'.own
          /\ relay'.link["host"] = "pending" /\ relay'.retained = TRUE
          /\ relay'.old = (IF relay.own THEN {} ELSE {"host"})
      <4> DEFINE d == register_pending(c, "host", relay.own, TRUE)
      <4>1. TRUE \in BOOLEAN /\ c \in Relays /\ relay.own \in BOOLEAN
        BY <2>1
      <4>2. Registered(d, c, "host", relay.own, TRUE)
        BY <1>1, <4>1, RegisterTyped
      <4> HIDE DEF d
      <4>3. relay' = d
        BY <3>1 DEF d
      <4>4. QED
        BY <2>1, <2>5, <4>2, <4>3 DEF Registered
    <3>3. Places'
      BY <3>2 DEF Inv, Places
    <3>4. HostKnows'
      <4>1. CASE relay.own
        <5>1. ~Calm /\ ~Calm' /\ Carried = FALSE /\ Carried' = FALSE
          BY <1>7, <3>2, <4>1 DEF Inv, Places, Calm, Carried
        <5>2. Up("host")' => Up("host")
          BY <1>1, <1>7, <3>2, <4>1 DEF Up, Reaches, Kept
        <5>3. QED
          BY <1>1, <1>7, <5>1, <5>2 DEF Inv, HostKnows
      <4>2. CASE ~relay.own
        <5>1. Up("host")' => Up("host") /\ Calm /\ Calm'
          BY <1>1, <3>2, <4>2 DEF Up, Reaches, Kept, Calm
        <5>2. QED
          BY <1>1, <1>7, <5>1 DEF Inv, HostKnows
      <4>3. QED
        BY <4>1, <4>2
    <3>5. QED
      BY <1>1, <1>2, <1>7, <2>3, <3>2, <3>3, <3>4, RelayKeeps
  <2>6. QED
    BY <2>4, <2>5
<1>8. CASE _gb_runtime_fixed_host_peer_disconnected
  <2>1. Same(control')
    BY <1>1, <1>2, <1>8, AtRuntime, ControlSteps DEF _gb_runtime_fixed_host_peer_disconnected, Apply
  <2>2. QED
    BY <1>6, <1>8, <2>1 DEF _gb_runtime_fixed_host_peer_disconnected
<1>9. CASE _retain_gb_runtime_fixed_host_for_resume
  <2>1. CASE relay.ending = "tell"
    <3>1. CASE Aborted
      BY <1>4, <1>9, <2>1, <3>1 DEF _retain_gb_runtime_fixed_host_for_resume
    <3>2. CASE ~Aborted /\ Kept
      BY <1>3, <1>9, <2>1, <3>2 DEF _retain_gb_runtime_fixed_host_for_resume
    <3>3. CASE ~Aborted /\ ~Kept
      BY <1>5, <1>9, <2>1, <3>3 DEF _retain_gb_runtime_fixed_host_for_resume
    <3>4. QED
      BY <3>1, <3>2, <3>3
  <2>2. CASE relay.ending = "pause"
    <3>1. Same(control')
      BY <1>1, <1>2, <1>9, <2>2, AtRuntime, ControlSteps DEF _retain_gb_runtime_fixed_host_for_resume, Apply
    <3>2. QED
      BY <1>6, <1>9, <2>2, <3>1 DEF _retain_gb_runtime_fixed_host_for_resume
  <2>3. CASE relay.ending = "register"
    BY <1>7, <1>9, <2>3 DEF _retain_gb_runtime_fixed_host_for_resume
  <2>4. QED
    BY <1>9, <2>1, <2>2, <2>3 DEF _retain_gb_runtime_fixed_host_for_resume
<1>10. QED
  BY <1>8, <1>9 DEF EndBridge

\* A connection nobody holds is closed.
LEMMA CloseDroppedKeeps ==
    ASSUME Inv, NEW r \in Roles, CloseDropped(r)
    PROVE  Inv'
<1>1. /\ UNCHANGED <<game, control, client, child, pipe, wire, up, faults>> /\ relay.link[r] = "dropped"
      /\ relay' = [relay EXCEPT !.link[r] = "none"]
  BY DEF CloseDropped
<1>2. /\ relay' \in Relays /\ relay'.link[r] = "none" /\ \A q \in Roles \ {r} : relay'.link[q] = relay.link[q]
      /\ relay'.old = relay.old /\ relay'.fresh = relay.fresh /\ relay'.ending = relay.ending
      /\ relay'.own = relay.own /\ relay'.retained = relay.retained
  BY <1>1, AtRuntime DEF Relays, Links
<1>3. Places' /\ HostKnows'
  <2>1. CASE r = "host"
    <3>1. "host" \notin relay.old /\ "host" \notin relay.fresh /\ ~relay.own
      BY <1>1, <2>1 DEF Inv, Places
    <3>2. ~Up("host")' /\ Places'
      BY <1>2, <2>1, <3>1 DEF Up, Reaches, Kept, Places
    <3>3. QED
      BY <3>2 DEF HostKnows
  <2>2. CASE r # "host"
    <3>1. HostView' = HostView
      BY <1>2, <2>2, TwoRoles DEF HostView
    <3>2. QED
      BY <1>1, <3>1, HostSame
  <2>3. QED
    BY <2>1, <2>2
<1>4. QED
  BY <1>1, <1>2, <1>3, AtRuntime, RelayKeeps

\* A session that is not active is closed.
LEMMA InactiveKeeps ==
    ASSUME Inv, bridge_inactive
    PROVE  Inv'
<1>1. /\ UNCHANGED <<game, control, client, child, pipe, up, faults>> /\ relay.link["host"] = "active"
      /\ relay' = [Over("no") EXCEPT !.ending = relay.ending, !.own = relay.own]
      /\ wire' = IF Aborted THEN [x \in Roles |-> Tell(x, "over")] ELSE wire
  BY TwoRoles DEF bridge_inactive, Bridged
<1>2. /\ Over("no") \in Relays /\ Over("no").fresh = relay.fresh /\ Over("no").old = {}
      /\ Over("no").link["host"] = "none" /\ relay \in Relays
  BY OverTyped, AtRuntime, TwoRoles
<1>3. /\ relay' \in Relays /\ relay'.fresh = relay.fresh /\ relay'.old = {} /\ relay'.link["host"] = "none"
      /\ relay'.ending = relay.ending /\ relay'.own = relay.own
  BY <1>1, <1>2 DEF Relays, Links
<1>4. wire' \in [Roles -> Seq(Notes)]
  BY <1>1, AtRuntime, TellTyped DEF Notes
<1>5. Places' /\ ("host" \in relay.fresh \/ relay.own => "host" \in relay.old)
  BY <1>1, <1>3 DEF Inv, Places
<1>6. HostKnows'
  <2>1. CASE Up("host")'
    <3>1. "host" \in relay.old /\ Up("host") /\ Calm' = Calm /\ Carried' = Carried
      BY <1>1, <1>3, <1>5, <2>1 DEF Up, Reaches, Kept, Calm, Carried
    <3>2. wire'["host"] = wire["host"]
      BY <1>1, <3>1, TwoRoles DEF Tell, Reaches
    <3>3. QED
      BY <1>1, <3>1, <3>2, HostStays
  <2>2. CASE ~Up("host")'
    BY <2>2 DEF HostKnows
  <2>3. QED
    BY <2>1, <2>2
<1>7. QED
  BY <1>1, <1>3, <1>4, <1>5, <1>6, AtRuntime, RelayKeeps

\* A waiting connection is closed at its deadline.
LEMMA ExpireKeeps ==
    ASSUME Inv, NEW r \in Roles, expire_pending_client(r)
    PROVE  Inv'
<1>1. /\ UNCHANGED <<game, client, child, pipe, up, faults>> /\ relay.link[r] = "pending"
      /\ control' \in {control, Expired(control)}
      /\ wire' \in {wire, [wire EXCEPT ![r] = Tell(r, "over")]}
      /\ relay' = [relay EXCEPT !.link[r] = "none", !.old = @ \ {r},
                                !.retained = IF r = "host" THEN FALSE ELSE @]
      /\ r # "host" => wire' = wire
  BY DEF expire_pending_client, Apply
<1>2. Same(control')
  BY <1>1, AtRuntime, ControlSteps
<1>3. /\ relay' \in Relays /\ relay'.link[r] = "none" /\ relay'.old = relay.old \ {r}
      /\ \A q \in Roles \ {r} : relay'.link[q] = relay.link[q]
      /\ relay'.fresh = relay.fresh /\ relay'.ending = relay.ending /\ relay'.own = relay.own
      /\ r # "host" => relay'.retained = relay.retained
  BY <1>1, AtRuntime DEF Relays, Links
<1>4. Tell(r, "over") \in Seq(Notes)
  BY TellTyped DEF Notes
<1>5. wire' \in [Roles -> Seq(Notes)]
  BY <1>1, <1>4, AtRuntime
<1>6. Places' /\ HostKnows'
  <2>1. CASE r = "host"
    <3>1. Places' /\ ("host" \in relay.fresh \/ relay.own => "host" \in relay.old)
      BY <1>1, <1>3, <2>1 DEF Inv, Places
    <3>2. CASE Up("host")'
      <4>1. "host" \in relay.old /\ Up("host") /\ Calm' = Calm /\ Carried' = Carried
        BY <1>1, <1>3, <2>1, <3>1, <3>2 DEF Up, Reaches, Kept, Calm, Carried
      <4>2. wire'["host"] = wire["host"]
        <5>1. Tell("host", "over") = wire["host"]
          BY <4>1 DEF Tell, Reaches
        <5>2. QED
          BY <1>1, <2>1, <5>1, AtRuntime
      <4>3. QED
        BY <1>1, <3>1, <4>1, <4>2, HostStays
    <3>3. CASE ~Up("host")'
      BY <3>1, <3>3 DEF HostKnows
    <3>4. QED
      BY <3>2, <3>3
  <2>2. CASE r # "host"
    <3>1. HostView' = HostView
      BY <1>3, <2>2, TwoRoles DEF HostView
    <3>2. QED
      BY <1>1, <2>2, <3>1, HostSame
  <2>3. QED
    BY <2>1, <2>2
<1>7. QED
  BY <1>1, <1>2, <1>3, <1>5, <1>6, AtRuntime, RelayKeeps

\* Time passes at the server.
LEMMA TimeKeeps ==
    ASSUME Inv, PausePasses \/ SessionExpires
    PROVE  Inv'
<1>1. /\ UNCHANGED <<game, client, child, pipe, relay, wire, up, faults>> /\ Same(control')
  BY AtRuntime, ControlSteps, TwoRoles DEF PausePasses, SessionExpires, Apply
<1>2. Places' /\ HostKnows'
  BY <1>1, HostSame, ViewSame
<1>3. QED
  BY <1>1, <1>2, AtRuntime, RelayKeeps

-----------------------------------------------------------------------------
(* The theorems. *)

\* Everything is idle at first.
LEMMA InitHolds ==
    ASSUME Init
    PROVE  Inv
<1>1. Typed
  BY FixedHostAssumption DEF Init, Typed, Controls, Clients, Children, Pipes, Relays, Links, Active
<1>2. Idle /\ Asking /\ Settled /\ Quiet /\ Committed
  BY DEF Init, Idle, Asking, Settled, Quiet, Committed, NoRequest, Alive, Recovering
<1>3. Places /\ HostKnows
  BY TwoRoles DEF Init, Places, HostKnows, Up, Reaches, Kept
<1>4. QED
  BY <1>1, <1>2, <1>3 DEF Inv

\* No step loses the invariant.
LEMMA NextKeeps ==
    ASSUME Inv, [Next]_vars
    PROVE  Inv'
<1>1. ASSUME NEW r \in Roles, ClientStep(r)
      PROVE  Inv'
  BY <1>1, SeeEndKeeps, PollKeeps, LaunchKeeps, ExitKeeps, EndingKeeps, LeavingKeeps, CheckSavesKeeps
     DEF ClientStep
<1>2. ASSUME NEW r \in Roles, ChildStep(r)
      PROVE  Inv'
  BY <1>2, ConnectKeeps, WaitKeeps, OthersGoKeep, RecoverKeeps, HostReadsKeeps, HostEndsKeeps
     DEF ChildStep
<1>3. ASSUME NEW r \in Roles, Serve(r) \/ RecoveryEnds(r) \/ CutConnection(r)
      PROVE  Inv'
  BY <1>3, ServeKeeps, OthersGoKeep, CutKeeps
<1>4. CASE HostDeadline \/ HostFinishes \/ RemoteLeaves
  BY <1>4, HostEndsKeeps, OthersGoKeep, TwoRoles
<1>5. CASE RelayStep
  BY <1>5, HandleKeeps, ForwardKeeps, BridgeEndsKeeps, EndBridgeKeeps, CloseDroppedKeeps, InactiveKeeps,
     ExpireKeeps
     DEF RelayStep
<1>6. CASE PausePasses \/ SessionExpires
  BY <1>6, TimeKeeps
<1>7. CASE UNCHANGED vars
  <2>1. UNCHANGED <<game, control, client, child, pipe, relay, wire, up, faults>>
    BY <1>7 DEF vars
  <2>2. Places' /\ HostKnows'
    BY <2>1, HostSame, ViewSame
  <2>3. QED
    BY <2>1, <2>2, AtRuntime, RelayKeeps
<1>8. QED
  BY <1>1, <1>2, <1>3, <1>4, <1>5, <1>6, <1>7 DEF Next

\* The invariant holds in every state of every run.
THEOREM Invariance == Spec => []Inv
BY InitHolds, NextKeeps, PTL DEF Spec

\* A pair of SAVs is committed for both players or for neither: when it is, both runtimes
\* have finished and no user had left the game or was turned away.
THEOREM TradeIsSavedForBoth == Spec => []SavedForBoth
<1>1. Inv => SavedForBoth
  <2>1. SUFFICES ASSUME Inv, control.state = "FINISHED" \/ \E r \in Roles : client[r].said = "saved"
                 PROVE  /\ game.policy = "commit_pair" /\ control.state = "FINISHED"
                        /\ \A r \in Roles : client[r].said \notin {"left", "closed"} /\ child[r].pc = "off"
    BY DEF SavedForBoth
  <2>2. control.state = "FINISHED" /\ control.done = Roles
    BY <2>1 DEF Inv, Committed
  <2>3. \A r \in Roles : ClaimStays(client[r]) /\ game.policy = "commit_pair"
    BY <2>1, <2>2 DEF Inv, Settled
  <2>4. \A r \in Roles : client[r].said \notin {"left", "closed"} /\ child[r].pc = "off"
    BY <2>1, <2>3 DEF ClaimStays, Inv, Idle
  <2>5. QED
    BY <2>2, <2>3, <2>4, TwoRoles
<1>2. QED
  BY <1>1, Invariance, PTL

\* After a lost connection runtime, client, relay and the other runtime agree again on the ticket
\* that is under way and on whether the game stands still.
THEOREM ReconnectKeepsStep == Spec => []ReconnectInStep
<1>1. Inv => TypeOK
  <2>1. SUFFICES ASSUME Inv PROVE TypeOK
    OBVIOUS
  <2>2. \A r \in Roles : \A i \in DOMAIN wire[r] :
           wire[r][i] \in {"paired", "resumed", "paused", "over", "term", "ack"}
    <3>1. TAKE r \in Roles
    <3>2. wire[r] \in Seq(Notes)
      BY <2>1, AtRuntime
    <3>3. QED
      BY <3>2 DEF Notes
  <2>3. QED
    BY <2>1, <2>2 DEF Inv, Typed, TypeOK, Controls, Clients, Children, Pipes, Relays, Links
<1>2. Inv => TicketInStep
  BY DEF Inv, Asking, InStep, TicketInStep
<1>3. Inv => HeldUnlessBridged
  <2>1. SUFFICES ASSUME Inv, child["host"].pc = "run", Up("host")
                 PROVE  WillHold <=> ~Carried
    BY DEF HeldUnlessBridged
  <2>2. Shows(wire["host"], child["host"].held, ~Carried)
    BY <2>1 DEF Inv, HostKnows
  <2>3. (~Carried) \in BOOLEAN /\ wire["host"] \in Seq(Notes)
    BY <2>1, AtRuntime, TwoRoles
  <2>4. QED
    BY <2>2, <2>3, ShowsWillHold
<1>4. QED
  BY <1>1, <1>2, <1>3, Invariance, PTL DEF ReconnectInStep
=============================================================================
