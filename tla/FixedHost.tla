----------------------------- MODULE FixedHost -----------------------------
(***************************************************************************)
(* One Game Boy link game played on the Fixed Host: the two C clients, the *)
(* runtime process each of them starts, the relay that joins the runtimes, *)
(* and the control session at the server.  The host's runtime runs both    *)
(* emulators, the remote's shows pictures.  Clients poll the control       *)
(* session until both may start; runtimes recover a lost transport with    *)
(* tickets asked for over a pipe; at the end the host proposes a terminal  *)
(* state, the remote acknowledges it, and each client submits its half.    *)
(* Messages on one connection arrive in order; a connection can be cut and *)
(* an answer of the server lost at any step.                               *)
(***************************************************************************)
EXTENDS Naturals, Sequences, FiniteSets

CONSTANTS
    Policies,   \* save policies played: a subset of {"commit_pair", "discard"}
    MaxFaults   \* bound: connections cut, answers of the server lost, clients that leave or lose
                \* the session

ASSUME FixedHostAssumption ==
    /\ Policies \subseteq {"commit_pair", "discard"}
    /\ MaxFaults \in Nat

VARIABLES
    game,     \* chosen at the start: the save policy, whether the host has both ROMs, and
              \* whether it can use both SAVs
    control,  \* the control session: state, preflights, ticket per role, resume timer, the
              \* terminal claims it holds, and whether the room's game is over
    client,   \* per role: what its main loop does, a report it still owes, what it told the user
    child,    \* per role: where the runtime is, whether the host's game is held for a resume, and
              \* whether its connection is up
    pipe,     \* per role: the ticket request on its way up, and the ticket on its way down
    relay,    \* per role: the connection at the relay, and the handlers that have not registered
              \* theirs yet; how far the end of a bridge has come; the bridge's view of the ending
    wire,     \* per role: control messages the relay has sent and the runtime not read
    up,       \* per role: the terminal message the runtime has sent and the relay not read
    faults

vars == <<game, control, client, child, pipe, relay, wire, up, faults>>

Roles == {"host", "remote"}
Other(r) == CHOOSE q \in Roles : q # r
Active == {"PREFLIGHT", "READY", "BLOCKED", "WAITING_PEER", "RUNNING", "PAUSED_REMOTE", "FINALIZING"}

Recovering == {"ask", "asked", "dial", "again"}
Alive == {"connect", "wait", "run", "term"} \cup Recovering
Exits == {"ok", "leave", "fail"}

Init ==
    /\ game \in [policy : Policies, roms : BOOLEAN, saves : BOOLEAN]
    /\ control = [state |-> "PREFLIGHT", pre |-> {}, ticket |-> [r \in Roles |-> "none"],
                  timer |-> "off", done |-> {}, over |-> FALSE]
    /\ client = [r \in Roles |-> [pc |-> "poll", owes |-> FALSE, said |-> "none"]]
    /\ child = [r \in Roles |-> [pc |-> "off", held |-> FALSE, conn |-> FALSE]]
    /\ pipe = [r \in Roles |-> [ask |-> "none", answer |-> "none"]]
    /\ relay = [link |-> [r \in Roles |-> "none"], old |-> {}, fresh |-> {}, late |-> {},
                ending |-> "no", own |-> FALSE, retained |-> FALSE, term |-> FALSE,
                acked |-> FALSE]
    /\ wire = [r \in Roles |-> <<>>]
    /\ up = [r \in Roles |-> "none"]
    /\ faults = 0

Fault == faults < MaxFaults /\ faults' = faults + 1
Client(r, pc) == client' = [client EXCEPT ![r].pc = pc]
Says(r, pc, said) == client' = [client EXCEPT ![r].pc = pc, ![r].said = said]
Child(r, pc) == child' = [child EXCEPT ![r].pc = pc]

\* A runtime without a connection: what was still to be read on the old one is lost.
Gone(r, pc) ==
    /\ child' = [child EXCEPT ![r] = [pc |-> pc, held |-> FALSE, conn |-> FALSE]]
    /\ wire' = [wire EXCEPT ![r] = <<>>]

-----------------------------------------------------------------------------
\* The control session at the server, as its handlers change it.

Ended(c) == [c EXCEPT !.state = IF @ \in Active THEN "ABORTED" ELSE @, !.timer = "off",
                      !.over = TRUE]

\* Preflight of one role; READY once both are in.
Submitted(c, r) ==
    [c EXCEPT !.pre = @ \cup {r},
              !.state = IF c.pre \cup {r} = Roles THEN "READY" ELSE "PREFLIGHT"]

Pausing(c) == [c EXCEPT !.state = "PAUSED_REMOTE", !.timer = IF @ = "off" THEN "on" ELSE @]

\* The state in which a ticket would be issued; resuming pauses the session first.
Asked(c, resume) ==
    IF resume /\ c.state \in {"RUNNING", "WAITING_PEER", "PAUSED_REMOTE"} THEN Pausing(c) ELSE c

Resuming(c, r, resume) == c.state = "PAUSED_REMOTE" /\ (r = "remote" \/ resume)

MayIssue(c, r, resume) ==
    /\ ~(control.state = "PAUSED_REMOTE" /\ control.timer = "late")
    /\ c.state \in {"READY", "WAITING_PEER", "PAUSED_REMOTE"}
    /\ c.state = "PAUSED_REMOTE" => Resuming(c, r, resume)
    /\ c.ticket[r] = "none" \/ Resuming(c, r, resume)

Issued(c, r, resume) ==
    [c EXCEPT !.ticket[r] = "issued",
              !.state = IF Resuming(c, r, resume) THEN @ ELSE "WAITING_PEER"]

\* An expired resume window ends the session when a ticket is asked for.
Expired(c) ==
    IF c.state = "PAUSED_REMOTE" /\ c.timer = "late"
    THEN [c EXCEPT !.state = "ABORTED", !.timer = "off"] ELSE c

MayUse(r) == control.state \in Active /\ control.ticket[r] = "issued" /\ control.timer # "late"

\* A ticket is used once; the game runs when both are.
Used(c, r) ==
    LET both == c.ticket[Other(r)] = "used" IN
    [c EXCEPT !.ticket[r] = "used",
              !.state = IF both THEN "RUNNING"
                        ELSE IF c.timer # "off" THEN "PAUSED_REMOTE" ELSE "WAITING_PEER",
              !.timer = IF both THEN "off" ELSE @]

RemoteDisconnected(c) ==
    IF c.state # "RUNNING" THEN c
    ELSE [c EXCEPT !.state = "PAUSED_REMOTE", !.timer = "on", !.ticket["remote"] = "none"]

PeerDisconnected(c, r) ==
    IF r = "remote" THEN RemoteDisconnected(c)
    ELSE IF c.state \notin {"READY", "WAITING_PEER", "RUNNING", "PAUSED_REMOTE"} THEN c
    ELSE [Pausing(c) EXCEPT !.ticket = [q \in Roles |-> "none"]]

\* One half of the terminal claim; with both, the pair of SAVs is committed and the game over.
MayClaim == control.state \in {"RUNNING", "FINALIZING"}
\* Mutant of Claimed: the host's finish is enough.
FinishAlone(c, r) ==
    IF r = "host" \/ c.done \cup {r} = Roles
    THEN [c EXCEPT !.done = @ \cup {r}, !.state = "FINISHED", !.timer = "off", !.over = TRUE]
    ELSE [c EXCEPT !.done = @ \cup {r}, !.state = "FINALIZING"]

Claimed(c, r) ==
    IF c.done \cup {r} = Roles
    THEN [c EXCEPT !.done = Roles, !.state = "FINISHED", !.timer = "off", !.over = TRUE]
    ELSE [c EXCEPT !.done = @ \cup {r}, !.state = "FINALIZING"]

-----------------------------------------------------------------------------
\* The clients' main loops.  A reply of the server can be lost with the request applied or not.

Apply(c) == control' = c
Lost(c) == Fault /\ control' \in {control, c}

\* The room no longer has a link session: a client without a runtime lets go of it.
SeeEnd(r) ==
    /\ client[r].pc \in {"poll", "blocked"}
    /\ control.over
    /\ Says(r, "ended", "closed")
    /\ UNCHANGED <<game, control, child, pipe, relay, wire, up, faults>>

gb_runtime_fixed_host_may_start_for_control_state(r, state) ==
    IF r = "host" THEN state = "READY" ELSE state \in {"WAITING_PEER", "PAUSED_REMOTE"}

\* What the host's ROM slots hold of the two ROMs the manifest names; the remote needs none.
integral_gb_runtime_fixed_host_rom_resolve_with_probe(r) == r = "host" => game.roms

integral_api_gb_runtime_fixed_host_submit_preflight(r) == Apply(Submitted(control, r))

\* A poll with the manifest: a block is taken over, a missing preflight submitted, and a
\* runtime prepared when the role's turn has come.
maybe_advance_room_gb_runtime_fixed_host_preflight(r) ==
    LET open == control.state \in {"PREFLIGHT", "READY"}
        state == IF open THEN Submitted(control, r).state ELSE control.state
        may == gb_runtime_fixed_host_may_start_for_control_state(r, state) IN
    \/ control.state = "BLOCKED" /\ Client(r, "blocked") /\ UNCHANGED <<control, faults>>
    \/ /\ control.state # "BLOCKED"
       /\ integral_gb_runtime_fixed_host_rom_resolve_with_probe(r)
       /\ \/ open /\ integral_api_gb_runtime_fixed_host_submit_preflight(r) /\ UNCHANGED faults
          \/ ~open /\ UNCHANGED <<control, faults>>
       /\ may /\ Client(r, IF r = "host" THEN "saves" ELSE "ticket")
    \/ /\ open /\ integral_gb_runtime_fixed_host_rom_resolve_with_probe(r)
       /\ UNCHANGED client
       /\ \/ ~may /\ integral_api_gb_runtime_fixed_host_submit_preflight(r) /\ UNCHANGED faults
          \/ Lost(Submitted(control, r))

MayBlock == control.state \in {"PREFLIGHT", "READY", "BLOCKED"}
integral_api_gb_runtime_fixed_host_block == [control EXCEPT !.state = "BLOCKED"]

\* A blocked host repeats the report it owes at every poll, other clients poll the manifest.
maybe_launch_room_host(r) ==
    \/ /\ client[r].pc = "blocked" /\ client[r].owes /\ MayBlock
       /\ \/ /\ client' = [client EXCEPT ![r].owes = FALSE]
             /\ Apply(integral_api_gb_runtime_fixed_host_block) /\ UNCHANGED faults
          \/ Lost(integral_api_gb_runtime_fixed_host_block) /\ UNCHANGED client
    \/ client[r].pc = "poll" /\ maybe_advance_room_gb_runtime_fixed_host_preflight(r)

room_link_session_is_active_on_server == ~control.over

maybe_start_room_session(r) ==
    /\ room_link_session_is_active_on_server
    /\ maybe_launch_room_host(r)
    /\ UNCHANGED <<game, child, pipe, relay, wire, up>>

integral_api_gb_runtime_fixed_host_download_snapshots == control.state \in {"READY", "WAITING_PEER"}
integral_gb_runtime_link_save_preflight == game.saves

\* The host downloads both SAVs and checks them against the ROMs before it asks for a ticket.
\* SAVs it cannot use are reported; a report that fails is owed.
CheckSaves ==
    /\ client["host"].pc = "saves"
    /\ IF ~integral_api_gb_runtime_fixed_host_download_snapshots
       THEN Client("host", "poll") /\ UNCHANGED <<control, faults>>
       ELSE IF integral_gb_runtime_link_save_preflight
       THEN Client("host", "ticket") /\ UNCHANGED <<control, faults>>
       ELSE \/ /\ MayBlock /\ Client("host", "blocked")
               /\ Apply(integral_api_gb_runtime_fixed_host_block) /\ UNCHANGED faults
            \/ /\ client' = [client EXCEPT !["host"].pc = "blocked", !["host"].owes = TRUE]
               /\ IF MayBlock THEN Lost(integral_api_gb_runtime_fixed_host_block)
                  ELSE UNCHANGED <<control, faults>>
    /\ UNCHANGED <<game, child, pipe, relay, wire, up>>

\* A ticket is asked for and arrives, or it is refused or its answer lost.
integral_api_gb_runtime_fixed_host_issue_relay_ticket(r, resume, arrives) ==
    LET c == Asked(control, resume) IN
    \/ MayIssue(c, r, resume) /\ arrives /\ Apply(Issued(c, r, resume)) /\ UNCHANGED faults
    \/ MayIssue(c, r, resume) /\ ~arrives /\ Lost(Issued(c, r, resume))
    \/ ~MayIssue(c, r, resume) /\ ~arrives /\ Apply(Expired(control)) /\ UNCHANGED faults

Launched(r) == child' = [child EXCEPT ![r] = [pc |-> "connect", held |-> FALSE, conn |-> FALSE]]

\* The first ticket of a role, and the runtime started with it.  Without a ticket, or when the
\* runtime does not start, the client goes back to polling.
start_room_gb_runtime_fixed_host_runtime(r) ==
    /\ client[r].pc = "ticket"
    /\ \/ /\ integral_api_gb_runtime_fixed_host_issue_relay_ticket(r, FALSE, TRUE)
          /\ Client(r, "play") /\ Launched(r)
       \/ /\ integral_api_gb_runtime_fixed_host_issue_relay_ticket(r, FALSE, FALSE)
          /\ Client(r, "poll") /\ UNCHANGED child
    /\ UNCHANGED <<game, pipe, relay, wire, up>>

\* The reader thread turns a request on the result pipe into a flag for the main loop.
ReadTicketRequest(r) ==
    /\ pipe[r].ask = "event"
    /\ pipe' = [pipe EXCEPT ![r].ask = "flag"]
    /\ UNCHANGED <<game, control, client, child, relay, wire, up, faults>>

\* Mutant of service_gb_reconnect_ticket: the flag is read and not taken.
FlagNotTaken(r) ==
    /\ client[r].pc = "play" /\ child[r].pc \in Alive /\ pipe[r].ask = "flag"
    /\ integral_api_gb_runtime_fixed_host_issue_relay_ticket(r, TRUE, TRUE)
    /\ pipe' = [pipe EXCEPT ![r].answer = "ticket"]
    /\ UNCHANGED <<game, client, child, relay, wire, up>>

\* The main loop takes the flag, asks the server, and writes a ticket or zeros down the pipe.
service_gb_reconnect_ticket(r) ==
    /\ client[r].pc = "play" /\ child[r].pc \in Alive /\ pipe[r].ask = "flag"
    /\ \E arrives \in BOOLEAN :
          /\ integral_api_gb_runtime_fixed_host_issue_relay_ticket(r, TRUE, arrives)
          /\ pipe' = [pipe EXCEPT ![r] = [ask |-> "none",
                                          answer |-> IF arrives THEN "ticket" ELSE "zero"]]
    /\ UNCHANGED <<game, client, child, relay, wire, up>>

\* What is left in the pipes of a runtime that is gone is read and dropped.
discard_gb_runtime_fixed_host_result(r) ==
    pipe' = [pipe EXCEPT ![r] = [ask |-> "none", answer |-> "none"]]

\* A finished trade has its half submitted; a lost answer counts as a refusal.
handle_gb_runtime_fixed_host_trade_result(r) ==
    \/ MayClaim /\ Client(r, "final") /\ Apply(Claimed(control, r)) /\ UNCHANGED faults
    \/ MayClaim /\ Says(r, "stop", "aborted") /\ Lost(Claimed(control, r))
    \/ ~MayClaim /\ Says(r, "stop", "aborted") /\ UNCHANGED <<control, faults>>

\* The runtime has exited: a trade that ended well is claimed, everything else is stopped.
monitor_room_gb_runtime_client_exit(r) ==
    /\ client[r].pc = "play" /\ child[r].pc \in Exits
    /\ discard_gb_runtime_fixed_host_result(r) /\ Child(r, "off")
    /\ IF game.policy = "commit_pair" /\ child[r].pc = "ok"
       THEN handle_gb_runtime_fixed_host_trade_result(r)
       ELSE /\ Says(r, "stop", IF child[r].pc = "fail" THEN "aborted" ELSE "left")
            /\ UNCHANGED <<control, faults>>
    /\ UNCHANGED <<game, relay, wire, up>>

\* The claim was accepted: the client waits for the commit, for some time.
AwaitCommit(r) ==
    /\ client[r].pc = "final"
    /\ Says(r, "ended", IF control.state = "FINISHED" THEN "saved" ELSE "check")
    /\ UNCHANGED <<game, control, child, pipe, relay, wire, up, faults>>

\* The end is reported once; a report that is lost is not repeated.
stop_current_game_session(r) ==
    /\ client[r].pc = "stop"
    /\ Client(r, "ended")
    /\ \/ Apply(IF control.over THEN control ELSE Ended(control)) /\ UNCHANGED faults
       \/ ~control.over /\ Lost(Ended(control))
    /\ UNCHANGED <<game, child, pipe, relay, wire, up>>

\* The client ends a runtime, even one that has just exited by itself: what it has written into
\* its pipe is discarded with it.
stop_room_client(r) ==
    /\ client[r].pc = "play" /\ child[r].pc \in Alive \cup Exits
    /\ Gone(r, "off") /\ discard_gb_runtime_fixed_host_result(r)
    /\ UNCHANGED <<game, relay, up>>

\* The room shows that its game is over.
mark_room_game_ended_if_used(r) ==
    /\ control.over /\ stop_room_client(r)
    /\ Says(r, "stop", "aborted") /\ UNCHANGED <<control, faults>>

\* Three heartbeats in a row failed.
handle_room_heartbeat_result(r) ==
    /\ ~control.over /\ Fault /\ stop_room_client(r)
    /\ Says(r, "stop", "aborted") /\ UNCHANGED control

\* READY is pressed while the game runs and the check of the session fails: the session is
\* let go of with its runtime, its end reported, and found again at the next poll unless the
\* report arrived.
clear_room_link_session_id(r) ==
    /\ ~control.over /\ Fault /\ stop_room_client(r)
    /\ Client(r, "poll")
    /\ control' \in {control, Ended(control)}

\* The user leaves the room, which ends its game.
leave_current_room(r) ==
    /\ ~control.over /\ Fault
    /\ \/ stop_room_client(r) /\ Says(r, "stop", "aborted") /\ UNCHANGED control
       \/ /\ client[r].pc \in {"poll", "blocked"} /\ Says(r, "ended", "left")
          /\ Apply(Ended(control)) /\ UNCHANGED <<game, child, pipe, relay, wire, up>>

-----------------------------------------------------------------------------
\* The runtimes.

\* A role's connection at the relay is its runtime's own, or an older one that is dead (old).
\* It waits (pending), is in the bridge (active), or nobody holds it any more (dropped).
Reaches(r) == relay.link[r] # "none" /\ child[r].conn /\ r \notin relay.old

\* The end of a bridge holds the connection of the host.
Kept == relay.ending \in {"tell", "pause", "register"} /\ relay.own /\ child["host"].conn

Up(r) == Reaches(r) \/ (r \in relay.fresh /\ child[r].conn) \/ (r = "host" /\ Kept)

Unread(r) == wire[r] # <<>> /\ child[r].conn
Read(r) == wire' = [wire EXCEPT ![r] = Tail(@)]
Broken(r) == wire[r] = <<>> /\ ~Up(r)

\* A runtime presents its ticket, which is used up before its connection is registered.  The
\* first connection must succeed, a recovering runtime asks for another ticket.
integral_media_relay_connect(r) ==
    /\ child[r].pc \in {"connect", "dial"}
    /\ LET first == child[r].pc = "connect"
           held == relay.link[r] \in {"pending", "active"} IN
       \/ /\ MayUse(r)
          /\ Apply(Used(control, r)) /\ UNCHANGED faults
          /\ child' = [child EXCEPT ![r] = [pc |-> IF first THEN "wait" ELSE "again",
                                            held |-> FALSE, conn |-> TRUE]]
          /\ wire' = [wire EXCEPT ![r] = <<>>]
          /\ relay' = [relay EXCEPT !.fresh = @ \cup {r}, !.late = @ \cup (relay.fresh \cap {r}),
                                    !.old = IF held THEN @ \cup {r} ELSE @,
                                    !.link[r] = IF held THEN @ ELSE "none",
                                    !.own = @ /\ r # "host"]
       \/ /\ IF MayUse(r) THEN Fault ELSE UNCHANGED faults
          /\ Gone(r, IF first THEN "fail" ELSE "ask")
          /\ UNCHANGED <<control, relay>>
    /\ UNCHANGED <<game, client, pipe, up>>

\* Mutant of wait_paired: a connection closed before it is paired is not noticed.
WaitForever(r) ==
    /\ child[r].pc \in {"wait", "again"}
    /\ Unread(r) /\ Head(wire[r]) = "paired"
    /\ Child(r, "run") /\ Read(r)
    /\ UNCHANGED <<game, control, client, pipe, relay, up, faults>>

\* Waiting for the peer: main() gives up when the relay closes, recover_transport tries again.
wait_paired(r) ==
    /\ child[r].pc \in {"wait", "again"}
    /\ \/ /\ Unread(r) /\ Head(wire[r]) = "paired"
          /\ Child(r, "run") /\ Read(r)
       \/ /\ Broken(r)
          /\ Gone(r, IF child[r].pc = "wait" THEN "fail" ELSE "ask")
    /\ UNCHANGED <<game, control, client, pipe, relay, up, faults>>

\* The host's loop reads what the relay says of the peer; the end of the session ends it.
HostReads ==
    /\ child["host"].pc = "run" /\ Unread("host")
    /\ LET m == Head(wire["host"]) IN
       \/ m = "over" /\ Gone("host", "fail")
       \/ m # "over" /\ Read("host")
          /\ child' = [child EXCEPT !["host"].held = IF m = "paused" THEN TRUE
                                                     ELSE IF m = "resumed" THEN FALSE ELSE @]
    /\ UNCHANGED <<game, control, client, pipe, relay, up, faults>>

\* Held for a peer that did not come back in time.
HostDeadline ==
    /\ child["host"].pc = "run" /\ child["host"].held
    /\ Gone("host", "fail")
    /\ UNCHANGED <<game, control, client, pipe, relay, up, faults>>

\* The host's user ends the game: its terminal state is proposed to the peer.
HostFinishes ==
    /\ child["host"].pc = "run"
    /\ Child("host", "term")
    /\ up' = [up EXCEPT !["host"] = IF Up("host") THEN "term" ELSE @]
    /\ UNCHANGED <<game, control, client, pipe, relay, wire, faults>>

\* Only an acknowledgement within the time allowed makes the exit a success.
finish_host_session ==
    /\ child["host"].pc = "term"
    /\ \/ Unread("host") /\ Head(wire["host"]) = "ack" /\ Gone("host", "ok")
       \/ Unread("host") /\ Head(wire["host"]) # "ack" /\ Read("host") /\ UNCHANGED child
       \/ Gone("host", "fail")
    /\ UNCHANGED <<game, control, client, pipe, relay, up, faults>>

\* The remote acknowledges a terminal state and exits with it, or fails to hand its result to
\* the client; TERMINATED fails it.
RemoteReads ==
    /\ child["remote"].pc = "run" /\ Unread("remote")
    /\ LET m == Head(wire["remote"]) IN
       \/ /\ m = "term"
          /\ up' = [up EXCEPT !["remote"] = IF Up("remote") THEN "ack" ELSE @]
          /\ \/ Gone("remote", IF Up("remote") THEN "ok" ELSE "fail") /\ UNCHANGED faults
             \/ game.policy = "commit_pair" /\ Fault /\ Gone("remote", "fail")
       \/ m = "over" /\ Gone("remote", "fail") /\ UNCHANGED <<up, faults>>
    /\ UNCHANGED <<game, control, client, pipe, relay>>

RemoteLeaves ==
    /\ child["remote"].pc = "run"
    /\ Gone("remote", "leave")
    /\ UNCHANGED <<game, control, client, pipe, relay, up, faults>>

\* A runtime in play that finds its transport gone closes it and starts to recover.
TransportLost(r) ==
    /\ child[r].pc = "run" /\ Broken(r)
    /\ Gone(r, "ask")
    /\ UNCHANGED <<game, control, client, pipe, relay, up, faults>>

\* Recovery: ask for a ticket on the result pipe, take the answer from standard input; zeros
\* are no ticket.
recover_transport(r) ==
    /\ \/ /\ child[r].pc = "ask"
          /\ Child(r, "asked") /\ pipe' = [pipe EXCEPT ![r].ask = "event"]
       \/ /\ child[r].pc = "asked" /\ pipe[r].answer # "none"
          /\ Child(r, IF pipe[r].answer = "ticket" THEN "dial" ELSE "ask")
          /\ pipe' = [pipe EXCEPT ![r].answer = "none"]
    /\ UNCHANGED <<game, control, client, relay, wire, up, faults>>

\* The recovery's deadline passes, or the user gives up.
RecoveryEnds(r) ==
    /\ child[r].pc \in Recovering
    /\ Gone(r, "fail")
    /\ UNCHANGED <<game, control, client, pipe, relay, up, faults>>

-----------------------------------------------------------------------------
\* The relay.

Bridged == \A r \in Roles : relay.link[r] = "active"
Aborted == control.state = "ABORTED"
Tell(r, m) == IF Reaches(r) THEN Append(wire[r], m) ELSE wire[r]
Closed == [x \in Roles |-> "none"]

Paired(c, r) == c.link[Other(r)] = "pending"

\* A new connection at the relay replaces the role's old one, and an old pair entirely; a peer
\* that waits is taken for it.  kept: it is a host kept for a resume.
register_pending(c, r, own, kept) ==
    LET q == Other(r)
        old == IF own THEN c.old \ {r} ELSE c.old \cup {r} IN
    IF Paired(c, r)
    THEN [c EXCEPT !.link = [x \in Roles |-> "active"], !.old = old, !.retained = FALSE,
                   !.term = FALSE, !.acked = FALSE]
    ELSE [c EXCEPT !.link = [x \in Roles |-> IF x = r THEN "pending"
                                             ELSE IF c.link[q] = "active" THEN "none" ELSE c.link[q]],
                   !.old = old \cap {r}, !.retained = kept]

\* Mutant of bridge: a kept host is greeted like a new one.
GreetedAsNew(r, own) ==
    [x \in Roles |-> IF x = r THEN IF own /\ child[r].conn THEN Append(wire[r], "paired") ELSE wire[r]
                     ELSE Tell(x, "paired")]

\* Both sides of a new pair are told.  A host kept through a pause is told RESUMED, not PAIRED.
bridge(r, own) ==
    LET greet == IF relay.retained THEN "resumed" ELSE "paired" IN
    [x \in Roles |-> IF x = r THEN IF own /\ child[r].conn THEN Append(wire[r], "paired") ELSE wire[r]
                     ELSE Tell(x, greet)]

\* The handler of a connection registers it, the runtime's own or one it has given up since.
handle_client(r) ==
    /\ \E own \in BOOLEAN :
       LET c == IF own THEN [relay EXCEPT !.fresh = @ \ {r}] ELSE [relay EXCEPT !.late = @ \ {r}] IN
       /\ r \in IF own THEN relay.fresh ELSE relay.late
       /\ relay' = register_pending(c, r, own, FALSE)
       /\ wire' = IF Paired(c, r) THEN bridge(r, own) ELSE wire
    /\ up' = [up EXCEPT ![r] = "none"]
    /\ UNCHANGED <<game, control, client, child, pipe, faults>>

\* Mutant of Forward: a message is sent on whether or not one was read.
ForwardNothing(r) ==
    /\ Bridged
    /\ wire' = [wire EXCEPT ![Other(r)] = Tell(Other(r), up[r])]
    /\ up' = [up EXCEPT ![r] = "none"]
    /\ UNCHANGED <<game, control, client, child, pipe, relay, faults>>

\* One terminal message is read from one side and sent to the other.
Forward(r) ==
    /\ Bridged /\ up[r] # "none"
    /\ relay' = [relay EXCEPT !.term = @ \/ up[r] = "term",
                              !.acked = @ \/ (up[r] = "ack" /\ relay.term)]
    /\ wire' = [wire EXCEPT ![Other(r)] = Tell(Other(r), up[r])]
    /\ up' = [up EXCEPT ![r] = "none"]
    /\ UNCHANGED <<game, control, client, child, pipe, faults>>

\* No connection is in the bridge any more.
Over(ending) ==
    [relay EXCEPT !.link = Closed, !.old = {}, !.term = FALSE, !.acked = FALSE, !.ending = ending,
                  !.own = ending = "tell" /\ "host" \notin relay.old]

\* The relay finds one side of the bridge gone, and takes the pair out.  A message it has read
\* from that side counts although the bridge ends before it is sent on.  A host whose remote is
\* gone is kept waiting unless the terminal state was acknowledged; otherwise both sides are
\* closed.  One bridge ends at a time.
bridge_ends(r) ==
    /\ Bridged /\ ~Reaches(r) /\ relay.ending = "no"
    /\ \E read \in {up[r], "none"} :
       LET acked == relay.acked \/ (read = "ack" /\ relay.term)
           keep == r = "remote" /\ ~acked IN
       relay' = Over(IF Aborted \/ acked THEN "no" ELSE IF keep THEN "tell" ELSE "report")
    /\ wire' = IF Aborted THEN [x \in Roles |-> Tell(x, "over")] ELSE wire
    /\ up' = [up EXCEPT ![r] = "none"]
    /\ UNCHANGED <<game, control, client, child, pipe, faults>>

\* The rest of the end of a bridge, without a lock: the host is told of the pause, the control
\* session is paused, and the host registered as waiting.  A remote that has registered since
\* is taken for it, as every peer is, but nothing bridges the two: both connections stay open
\* and nobody holds them.  A host that cannot be told is closed and reported.
_retain_gb_runtime_fixed_host_for_resume ==
    \/ /\ relay.ending = "tell"
       /\ \/ /\ Aborted \/ Kept
             /\ wire' = IF Kept THEN [wire EXCEPT !["host"] = Append(@, IF Aborted THEN "over" ELSE "paused")]
                        ELSE wire
             /\ relay' = IF Aborted THEN [relay EXCEPT !.ending = "no", !.own = FALSE]
                         ELSE [relay EXCEPT !.ending = "pause"]
          \/ /\ ~Aborted /\ ~Kept
             /\ \/ relay' = [relay EXCEPT !.ending = "pause"]
                \/ relay' = [relay EXCEPT !.ending = "report", !.own = FALSE]
             /\ UNCHANGED wire
       /\ UNCHANGED <<control, up>>
    \/ /\ relay.ending = "pause"
       /\ Apply(PeerDisconnected(control, "remote"))
       /\ relay' = [relay EXCEPT !.ending = "register"]
       /\ UNCHANGED <<wire, up>>
    \/ /\ relay.ending = "register"
       /\ LET c == [relay EXCEPT !.ending = "no", !.own = FALSE] IN
          relay' = IF Paired(c, "host")
                   THEN [c EXCEPT !.old = {},
                                  !.link = [x \in Roles |-> IF IF x = "host" THEN Kept ELSE Reaches(x)
                                                            THEN "dropped" ELSE "none"]]
                   ELSE register_pending(c, "host", relay.own, TRUE)
       /\ up' = IF relay.own THEN up ELSE [up EXCEPT !["host"] = "none"]
       /\ UNCHANGED <<control, wire>>

\* The control session learns that the host is gone.
_gb_runtime_fixed_host_peer_disconnected ==
    /\ relay.ending = "report"
    /\ Apply(PeerDisconnected(control, "host"))
    /\ relay' = [relay EXCEPT !.ending = "no"]
    /\ UNCHANGED <<wire, up>>

EndBridge ==
    /\ _retain_gb_runtime_fixed_host_for_resume \/ _gb_runtime_fixed_host_peer_disconnected
    /\ UNCHANGED <<game, client, child, pipe, faults>>

\* A connection nobody holds is closed with the last reference to it.
CloseDropped(r) ==
    /\ relay.link[r] = "dropped"
    /\ relay' = [relay EXCEPT !.link[r] = "none"]
    /\ UNCHANGED <<game, control, client, child, pipe, wire, up, faults>>

\* The session is not active any more: TERMINATED is told of an abort, and both are closed.
bridge_inactive ==
    /\ Bridged /\ control.state \notin Active
    /\ relay' = [Over("no") EXCEPT !.ending = relay.ending, !.own = relay.own]
    /\ wire' = IF Aborted THEN [x \in Roles |-> Tell(x, "over")] ELSE wire
    /\ UNCHANGED <<game, control, client, child, pipe, up, faults>>

\* A waiting connection is closed at its deadline; for a kept host that is after the pause has
\* expired, which aborts the session, and it is told of an abort at once.
expire_pending_client(r) ==
    LET kept == r = "host" /\ relay.retained IN
    /\ relay.link[r] = "pending"
    /\ LET late == control.state = "PAUSED_REMOTE" /\ control.timer = "late" IN
       /\ kept => Aborted \/ late \/ control.state # "PAUSED_REMOTE"
       /\ Apply(IF kept THEN Expired(control) ELSE control)
    /\ wire' = IF kept /\ Aborted THEN [wire EXCEPT ![r] = Tell(r, "over")] ELSE wire
    /\ relay' = [relay EXCEPT !.link[r] = "none", !.old = @ \ {r},
                              !.retained = IF r = "host" THEN FALSE ELSE @]
    /\ UNCHANGED <<game, client, child, pipe, up, faults>>

-----------------------------------------------------------------------------
\* Cut connections, the resume window, and the server's sweeper (reconcile_session_lifecycle),
\* which ends a session both runtimes have left: a client that plays renews its lease.

CutConnection(r) ==
    /\ Up(r) /\ Fault
    /\ child' = [child EXCEPT ![r].conn = FALSE]
    /\ wire' = [wire EXCEPT ![r] = <<>>] /\ up' = [up EXCEPT ![r] = "none"]
    /\ UNCHANGED <<game, control, client, pipe, relay>>

PausePasses ==
    /\ control.timer = "on"
    /\ Apply([control EXCEPT !.timer = "late"])
    /\ UNCHANGED <<game, client, child, pipe, relay, wire, up, faults>>

SessionExpires ==
    /\ ~control.over /\ \A r \in Roles : child[r].pc = "off"
    /\ Apply(Ended(control))
    /\ UNCHANGED <<game, client, child, pipe, relay, wire, up, faults>>

ClientStep(r) ==
    \/ SeeEnd(r) \/ maybe_start_room_session(r) \/ start_room_gb_runtime_fixed_host_runtime(r)
    \/ monitor_room_gb_runtime_client_exit(r)
    \/ AwaitCommit(r) \/ stop_current_game_session(r)
    \/ mark_room_game_ended_if_used(r) \/ handle_room_heartbeat_result(r)
    \/ clear_room_link_session_id(r) \/ leave_current_room(r)
    \/ r = "host" /\ CheckSaves

Serve(r) == ReadTicketRequest(r) \/ service_gb_reconnect_ticket(r)

ChildStep(r) ==
    \/ integral_media_relay_connect(r) \/ wait_paired(r)
    \/ TransportLost(r) \/ recover_transport(r)
    \/ r = "host" /\ (HostReads \/ finish_host_session)
    \/ r = "remote" /\ RemoteReads

RelayStep ==
    \/ bridge_inactive \/ EndBridge
    \/ \E r \in Roles : handle_client(r) \/ Forward(r) \/ bridge_ends(r) \/ expire_pending_client(r)
                       \/ CloseDropped(r)

Next ==
    \/ \E r \in Roles : ClientStep(r) \/ Serve(r) \/ ChildStep(r) \/ RecoveryEnds(r) \/ CutConnection(r)
    \/ HostDeadline \/ HostFinishes \/ RemoteLeaves
    \/ RelayStep \/ PausePasses \/ SessionExpires

Spec == Init /\ [][Next]_vars

-----------------------------------------------------------------------------
\* Fairness: the processes are scheduled and deadlines pass.  Nothing is assumed of the users,
\* or of the faults, which are bounded.
Fairness ==
    /\ \A r \in Roles :
          /\ WF_vars(SeeEnd(r)) /\ WF_vars(start_room_gb_runtime_fixed_host_runtime(r))
          /\ WF_vars(monitor_room_gb_runtime_client_exit(r))
          /\ WF_vars(AwaitCommit(r)) /\ WF_vars(stop_current_game_session(r))
          /\ WF_vars(mark_room_game_ended_if_used(r))
          /\ WF_vars(Serve(r)) /\ WF_vars(ChildStep(r)) /\ WF_vars(RecoveryEnds(r))
          /\ WF_vars(Forward(r)) /\ WF_vars(bridge_ends(r)) /\ WF_vars(expire_pending_client(r))
          /\ WF_vars(handle_client(r)) /\ WF_vars(CloseDropped(r))
    /\ WF_vars(CheckSaves) /\ WF_vars(HostDeadline)
    /\ WF_vars(bridge_inactive) /\ WF_vars(EndBridge) /\ WF_vars(PausePasses) /\ WF_vars(SessionExpires)

FairSpec == Spec /\ Fairness

-----------------------------------------------------------------------------
\* Every variable holds a value of its kind.
TypeOK ==
    /\ game \in [policy : Policies, roms : BOOLEAN, saves : BOOLEAN]
    /\ control \in [state : Active \cup {"FINISHED", "ABORTED"}, pre : SUBSET Roles,
                    ticket : [Roles -> {"none", "issued", "used"}],
                    timer : {"off", "on", "late"}, done : SUBSET Roles, over : BOOLEAN]
    /\ client \in [Roles -> [pc : {"poll", "blocked", "saves", "ticket", "play", "final", "stop", "ended"},
                             owes : BOOLEAN,
                             said : {"none", "saved", "check", "left", "aborted", "closed"}]]
    /\ child \in [Roles -> [pc : {"off"} \cup Alive \cup Exits, held : BOOLEAN, conn : BOOLEAN]]
    /\ pipe \in [Roles -> [ask : {"none", "event", "flag"}, answer : {"none", "ticket", "zero"}]]
    /\ relay \in [link : [Roles -> {"none", "pending", "active", "dropped"}], old : SUBSET Roles,
                  fresh : SUBSET Roles, late : SUBSET Roles,
                  ending : {"no", "tell", "pause", "register", "report"}, own : BOOLEAN,
                  retained : BOOLEAN, term : BOOLEAN, acked : BOOLEAN]
    /\ \A r \in Roles : \A i \in DOMAIN wire[r] :
          wire[r][i] \in {"paired", "resumed", "paused", "over", "term", "ack"}
    /\ up \in [Roles -> {"none", "term", "ack"}]
    /\ faults \in 0..MaxFaults

\* A pair of SAVs is committed for both players or for neither: when the server has committed,
\* or one user was told TRADE SAVED, no user had left the game and none was turned away, and
\* both runtimes had finished (docs/C_CLIENT.md:278).
SavedForBoth ==
    control.state = "FINISHED" \/ (\E r \in Roles : client[r].said = "saved") =>
        /\ game.policy = "commit_pair" /\ control.state = "FINISHED"
        /\ \A r \in Roles : client[r].said \notin {"left", "closed"} /\ child[r].pc = "off"

\* A user who is told that the save was not updated can rely on it (the messages of
\* client_room_link.c:1768-1784).
NotUpdatedIsTrue ==
    \A r \in Roles : client[r].said \in {"left", "aborted"} => control.state # "FINISHED"

\* The reconnect handshake between a runtime and its client stays in step: a runtime that has
\* asked for a ticket has one request or one answer under way, any other has none, so no
\* ticket is taken for the answer to a later request.
TicketInStep ==
    \A r \in Roles : child[r].pc \in Alive =>
        LET asked == pipe[r].ask # "none"
            answered == pipe[r].answer # "none" IN
        /\ ~(asked /\ answered)
        /\ child[r].pc = "asked" <=> asked \/ answered

\* What the host will know of the pause once it has read everything sent to it.
WillHold ==
    LET marks == {i \in DOMAIN wire["host"] : wire["host"][i] \in {"paused", "resumed"}} IN
    IF marks = {} THEN child["host"].held
    ELSE wire["host"][CHOOSE i \in marks : \A j \in marks : j <= i] = "paused"

\* A bridge of the relay carries the host's connection, or its end has not told the host yet.
Carried ==
    \/ relay.link["host"] = "active" /\ "host" \notin relay.old
    \/ relay.ending = "tell" /\ relay.own

\* The host's game stands still exactly while no bridge carries its connection: it neither runs
\* on without the other player nor stays held beside one who is back.
HeldUnlessBridged ==
    child["host"].pc = "run" /\ Up("host") => (WillHold <=> ~Carried)

\* A game one player's client has ended, for whatever reason, ends for the other player's too,
\* and no runtime is left behind, although each client reports the end only once.
GameEndsTogether ==
    (\E r \in Roles : client[r].pc = "ended") ~>
        (control.over /\ \A r \in Roles : client[r].pc = "ended" /\ child[r].pc = "off")

\* After a lost connection runtime, client, relay and the other runtime agree again: on the
\* ticket that is under way and on whether the game stands still.
ReconnectInStep == TypeOK /\ TicketInStep /\ HeldUnlessBridged

\* What the relay says of itself: a freshly authenticated transport replaces an old pair, and
\* old bridge cleanup cannot cancel it (n64_runtime_media_relay.py:629-630).
FreshTransportStands ==
    [][\A r \in Roles :
          /\ relay.ending = "register" /\ relay'.ending = "no"
          /\ Reaches(r) /\ relay.link[r] \in {"pending", "active"}
          => relay'.link[r] \in {"pending", "active"} /\ r \notin relay'.old]_vars
=============================================================================
