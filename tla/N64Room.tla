------------------------------- MODULE N64Room -------------------------------
(***************************************************************************)
(* The client's N64 ROOM: one player's client, the server as that client   *)
(* sees it, the thread that polls the server and the emulator the Host     *)
(* starts.  The main loop is one thread, so a handler runs whole; the      *)
(* server, the other player, the polling thread and the emulator move      *)
(* between handlers, every request may fail, and a request that failed may *)
(* have been carried out.                                                  *)
(*                                                                         *)
(* `c' is the client's IntegralRoomContext, with the files it has staged   *)
(* and the record in controller2.bin the emulator reads the second         *)
(* controller from; `s' is what the server holds about this player, `w'    *)
(* the polling thread.                                                     *)
(***************************************************************************)
EXTENDS Integers, FiniteSets

CONSTANTS
    MaxSessions,  \* bound: media sessions the server creates
    MaxRooms      \* bound: ROOMs the player enters

ASSUME N64RoomAssumption == MaxSessions \in Nat /\ MaxRooms \in Nat

Ids == 0 .. MaxSessions     \* media sessions; 0 is none
Roles == {"host", "remote"}

VARIABLES role, c, s, w, over

vars == <<role, c, s, w, over>>

NoNotice == [kind |-> "none", id |-> 0, st |-> "none", why |-> "none"]

Menu == [screen |-> "menu", room |-> 0, ready |-> FALSE, self |-> FALSE, peer |-> FALSE,
         synced |-> FALSE, sess |-> 0, life |-> 0, lifeRoom |-> 0, conn |-> "none",
         rec |-> FALSE, fin |-> FALSE, term |-> FALSE, pre |-> FALSE, pid |-> "none",
         launched |-> 0, exit |-> FALSE, files |-> 0, path |-> FALSE,
         pad |-> "none", bump |-> FALSE]

NoRoom == [room |-> 0, gen |-> 0, two |-> FALSE, me |-> FALSE, peer |-> FALSE, n |-> 0,
           act |-> 0, actRoom |-> 0, same |-> TRUE, rec |-> FALSE, lock |-> FALSE,
           pf |-> {}, done |-> {}, last |-> 0, notice |-> FALSE]

\* What the polling thread brings: a heartbeat's answer or the ROOM as it is.
Idle == [st |-> "idle", n |-> NoNotice, self |-> FALSE, peer |-> FALSE]

Init ==
    /\ role \in Roles
    /\ c = Menu
    /\ s = NoRoom
    /\ w = Idle
    /\ over = {}      \* history: sessions whose emulator ended by itself

-----------------------------------------------------------------------------
\* The server, as far as this player's requests and notices depend on it.

CloseRoom(x) ==
    [x EXCEPT !.room = 0, !.two = FALSE, !.me = FALSE, !.peer = FALSE, !.notice = TRUE]

\* A media session ends.  Its ROOM is closed with it, unless the ROOM is
\* another one by now or the SAVs failed the check before the launch.
TerminateMedia(x, why) ==
    LET ended == [x EXCEPT !.act = 0, !.actRoom = 0, !.same = TRUE, !.rec = FALSE,
                           !.lock = FALSE, !.last = x.act,
                           !.pf = IF why = "preflight_failed" THEN @ \cup {x.act} ELSE @,
                           !.done = IF why = "host_finished" THEN @ \cup {x.act} ELSE @]
    IN IF x.room = 0 \/ x.actRoom # x.room THEN ended
       ELSE IF why = "preflight_failed"
            THEN [ended EXCEPT !.me = FALSE, !.peer = FALSE]
            ELSE CloseRoom(ended)

Why(x, id) == IF id \in x.pf THEN "preflight_failed"
              ELSE IF id \in x.done THEN "host_finished" ELSE "ended"

MediaNotice(x, id) ==
    IF id = x.act
    THEN [kind |-> "media", id |-> id, st |-> IF x.rec THEN "RECOVERING" ELSE "RUNNING",
          why |-> "none"]
    ELSE [kind |-> "media", id |-> id, st |-> "ENDED", why |-> Why(x, id)]

\* What a heartbeat reports: the game the player holds, else the ROOM that was
\* closed, else the media session that ended last.
SessionLifecycle(x) ==
    IF x.lock THEN MediaNotice(x, x.act)
    ELSE IF x.notice THEN [kind |-> "room", id |-> 0, st |-> "CLOSED", why |-> "none"]
    ELSE IF x.last # 0 THEN MediaNotice(x, x.last)
    ELSE NoNotice

UpdateUserState(x, ready, changed, back) ==
    IF changed THEN [x EXCEPT !.me = FALSE, !.peer = FALSE, !.same = back \/ x.act = 0]
    ELSE [x EXCEPT !.me = ready]

MayStart(x, expected) ==
    /\ x.room # 0 /\ x.two /\ x.me /\ x.peer
    /\ expected # 0 => expected = x.act
    /\ IF x.act = 0 THEN x.n < MaxSessions ELSE x.same /\ x.actRoom = x.room

CreateOrGet(x) ==
    IF x.act # 0 THEN x ELSE [x EXCEPT !.n = @ + 1, !.act = x.n + 1, !.actRoom = x.room]

StartRoom(x) == [CreateOrGet(x) EXCEPT !.lock = TRUE]

Recover(x, id) == IF id = x.act THEN [x EXCEPT !.rec = TRUE] ELSE x

FinishRoom(x, id) ==
    IF id = x.act /\ x.room = x.actRoom THEN TerminateMedia(x, "host_finished") ELSE x

TerminateRoom(x, id) == IF id = x.act THEN TerminateMedia(x, "participant_left") ELSE x

RejectPreflight(x, id) == IF id = x.act THEN TerminateMedia(x, "preflight_failed") ELSE x

LeaveRoomForUser(x) ==
    LET y == IF x.act # 0 THEN TerminateMedia(x, "cancelled") ELSE x
    IN IF y.room = 0 THEN y
       ELSE IF role = "host" THEN CloseRoom(y)
       ELSE [y EXCEPT !.room = 0, !.two = FALSE, !.me = FALSE, !.peer = FALSE]

-----------------------------------------------------------------------------
\* The client's own state.  An operator takes the context and returns it;
\* k says whether the emulator stops when it is told to and then killed.

RuntimeActive(x) == x.screen = "n64" /\ (x.conn = "paired" \/ x.pid # "none")

\* A record for the second controller; without a path nothing is written.
WriteInput(x, pad) == IF x.path THEN [x EXCEPT !.pad = pad] ELSE x

\* The files of a session: what the emulator is given and reads.
PrepareInputPath(x) ==
    [x EXCEPT !.path = TRUE, !.pad = "neutral", !.files = x.sess]

CleanupFiles(x) ==
    [x EXCEPT !.files = IF @ = x.sess THEN 0 ELSE @, !.path = FALSE, !.pad = "none"]

\* Mutant of StopHostProcess: the session it was launched for is still noted.
StopHostProcessNoted(x, k) == IF x.pid # "none" /\ k THEN [x EXCEPT !.pid = "none"] ELSE x

StopHostProcess(x, k) ==
    IF x.pid # "none" /\ k THEN [x EXCEPT !.pid = "none", !.launched = 0] ELSE x

Suspend(x, k) ==
    LET named == IF x.sess = 0 THEN x ELSE [x EXCEPT !.life = x.sess, !.lifeRoom = x.room]
        closed == [WriteInput(named, "neutral") EXCEPT !.conn = "none", !.term = TRUE]
    IN StopHostProcess(closed, k)

\* Mutant of Reset: the session is forgotten though its emulator runs on.
ResetAnyway(x, k) ==
    [CleanupFiles(Suspend(x, k)) EXCEPT !.sess = 0, !.life = 0, !.lifeRoom = 0, !.rec = FALSE,
                                        !.fin = FALSE, !.term = FALSE, !.pre = FALSE]

\* Nothing is forgotten or removed under a running emulator.
Reset(x, k) ==
    LET y == Suspend(x, k)
    IN IF y.pid # "none" THEN y
       ELSE [CleanupFiles(y) EXCEPT !.sess = 0, !.life = 0, !.lifeRoom = 0, !.rec = FALSE,
                                    !.fin = FALSE, !.term = FALSE, !.pre = FALSE]

\* Mutant of NewEpoch: a result that is being fetched stays valid.
NewEpochForgotten(x) == x

\* The poll epoch moves: a result the thread is fetching is of the past.
NewEpoch(x) == [x EXCEPT !.bump = TRUE]

FinishLocally(x, k) ==
    LET y == Reset(x, k)
    IN IF y.pid # "none" THEN y
       ELSE NewEpoch([y EXCEPT !.screen = "menu", !.room = 0, !.self = FALSE,
                               !.peer = FALSE, !.ready = FALSE, !.exit = FALSE])

\* The session a notice must name to concern this client.
MediaSession(x) == IF x.life # 0 /\ x.lifeRoom = x.room THEN x.life ELSE x.sess

\* Mutant of StaleNotice: a notice about an earlier session ends the game.
StaleNoticeAnySession(x, n) == n.kind = "media" /\ n.id = 0

StaleNotice(x, n) == n.kind = "media" /\ (n.id = 0 \/ n.id # MediaSession(x))

\* A media session that is RECOVERING goes on.
StopsEmulator(n) == n.st \in {"CLOSED", "ENDED"}

PreflightFailed(x, k) ==
    NewEpoch([Reset(x, k) EXCEPT !.self = FALSE, !.peer = FALSE, !.pre = TRUE,
                                 !.ready = FALSE])

HandleNotice(x, n, k) ==
    IF StaleNotice(x, n) \/ ~StopsEmulator(n) \/ x.screen # "n64" THEN x
    ELSE IF n.kind = "media" /\ n.why = "preflight_failed" THEN PreflightFailed(x, k)
    ELSE FinishLocally(x, k)

\* The third failure in a row, or being refused, gives the game up; how many
\* failed before is left out.
HeartbeatFailed(x, givenUp, k) == IF givenUp THEN Suspend(x, k) ELSE x

\* What a caller looks at after a notice may have ended the game.
Stopped(x) == x.screen # "n64" \/ x.pre

ReadyFlags(x, seen, self, peer) ==
    LET y == IF seen THEN [x EXCEPT !.self = self, !.peer = peer] ELSE x
    IN [y EXCEPT !.ready = y.self]

\* refresh_room_quiet: ok says whether the answer arrives.
RefreshRoom(x, t, ok) ==
    LET y == NewEpoch(x)
    IN IF ~ok THEN y
       ELSE IF t.room = 0 THEN [y EXCEPT !.screen = "menu", !.room = 0]
       ELSE ReadyFlags(y, TRUE, t.me, t.peer)

-----------------------------------------------------------------------------
\* Handlers that talk to the server.  They return the context and the server's
\* state; a choice f.x says how one of their requests or calls goes.  A request
\* fails before it reaches the server ("lost") or after ("unheard").

Reply == {"ok", "lost", "unheard"}
After(f, old, new) == IF f = "lost" THEN old ELSE new

Result(x, t) == [c |-> x, s |-> t]

LeaveCurrentRoom(x, t, f, k) ==
    IF x.screen = "n64" /\ (x.life # 0 \/ x.sess # 0)
    THEN LET y == Suspend(x, k)
         IN IF y.pid # "none" THEN Result(y, t)
            ELSE Result(IF f = "ok" THEN FinishLocally(y, k) ELSE y,
                        After(f, t, TerminateRoom(t, y.life)))
    ELSE LET y == Reset(x, k)
         IN Result(IF f # "ok" THEN y
                   ELSE NewEpoch([y EXCEPT !.room = 0, !.self = FALSE, !.peer = FALSE]),
                   After(f, t, LeaveRoomForUser(t)))

\* What follows leave_current_room where the player or the game asked for it.
ToMenuIfLeft(r) ==
    IF r.c.room = 0 THEN Result([r.c EXCEPT !.screen = "menu"], r.s) ELSE r

FinishHost(x, t, f, q, k) ==
    LET over2 == After(f, t, FinishRoom(t, x.sess))
    IN IF f = "ok" /\ x.sess \in over2.done
       THEN Result(HandleNotice(x, MediaNotice(over2, x.sess), k), over2)
       ELSE IF q THEN Result(HandleNotice(x, MediaNotice(over2, x.sess), k), over2)
       ELSE Result(x, over2)

\* Mutant of HostProcess: the end of the game is reported once and not retried.
HostProcessOnce(x, t, f, q, k) ==
    IF x.pid = "over"
    THEN FinishHost([x EXCEPT !.pid = "none", !.launched = 0], t, f, q, k)
    ELSE IF x.pid = "crashed"
         THEN ToMenuIfLeft(LeaveCurrentRoom([x EXCEPT !.pid = "none", !.launched = 0], t, f, k))
    ELSE Result(x, t)

HostProcess(x, t, f, q, k) ==
    IF x.fin THEN FinishHost(x, t, f, q, k)
    ELSE IF x.pid = "over"
         THEN FinishHost([x EXCEPT !.pid = "none", !.launched = 0, !.fin = TRUE], t, f, q, k)
    ELSE IF x.pid = "crashed"
         THEN ToMenuIfLeft(LeaveCurrentRoom([x EXCEPT !.pid = "none", !.launched = 0], t, f, k))
    ELSE Result(x, t)

\* Mutant of Reconnect: the buttons stay as they were when the relay was lost.
ReconnectHolding(x, t, q, k) ==
    LET t2 == IF q THEN Recover(t, x.sess) ELSE t
        y == IF q THEN HandleNotice(x, MediaNotice(t2, x.sess), k) ELSE x
    IN Result(IF Stopped(y) THEN y ELSE [y EXCEPT !.rec = TRUE, !.conn = "none"], t2)

Reconnect(x, t, q, k) ==
    LET t2 == IF q THEN Recover(t, x.sess) ELSE t
        y == IF q THEN HandleNotice(x, MediaNotice(t2, x.sess), k) ELSE x
    IN Result(IF Stopped(y) THEN y
              ELSE WriteInput([y EXCEPT !.rec = TRUE, !.conn = "none"], "neutral"), t2)

StartRefused(x, t, q, k) ==
    Result(IF q /\ x.sess # 0 THEN HandleNotice(x, MediaNotice(t, x.sess), k) ELSE x, t)

ConnectFailed(x) ==
    LET y == WriteInput(x, "neutral")
    IN IF x.rec THEN y ELSE [y EXCEPT !.path = FALSE, !.sess = 0]

\* The session is known; the input record is made and the relay joined.
Starts == {"lost", "unheard", "unprepared", "unjoined", "joined"}

JoinRelay(x, how) ==
    LET named == [x EXCEPT !.life = x.sess, !.lifeRoom = x.room]
        host == role = "host" /\ ~x.rec
        y == IF host THEN PrepareInputPath(named) ELSE named
    IN IF host /\ how = "unprepared" THEN named
       ELSE IF how # "joined" THEN ConnectFailed(y)
       ELSE [y EXCEPT !.conn = "auth"]

RequestSession(x, t, how, q, k) ==
    LET known == IF x.sess # 0 /\ q THEN HandleNotice(x, MediaNotice(t, x.sess), k) ELSE x
        started == StartRoom(t)
    IN IF x.fin \/ x.term \/ x.pre \/ x.conn # "none" THEN Result(x, t)
       ELSE IF x.sess # 0 /\ q /\ Stopped(known) THEN Result(known, t)
       ELSE IF how = "lost" \/ ~MayStart(t, IF x.rec THEN known.sess ELSE 0)
            THEN StartRefused(known, t, q, k)
       ELSE IF how = "unheard" THEN StartRefused(known, started, q, k)
       ELSE Result(JoinRelay([known EXCEPT !.sess = started.act], how), started)

-----------------------------------------------------------------------------
\* The emulator of the Host.

Launched(x) == [x EXCEPT !.pid = "running", !.launched = x.sess]

\* The SAVs failed the check: the server is told, and the session is kept for
\* an explicit leave when it cannot be.
RejectLaunch(x, t, f, k) ==
    LET y == NewEpoch([Suspend(x, k) EXCEPT !.term = FALSE, !.self = FALSE, !.peer = FALSE,
                                            !.ready = FALSE])
    IN Result([(IF f = "ok" THEN Reset(y, k) ELSE y) EXCEPT !.pre = TRUE],
              After(f, t, RejectPreflight(t, x.sess)))

\* A launch prepares one thing after another and the first that fails decides:
\* what is wrong with the SAVs is final, everything else is tried again later.
Preparations == {"prepared", "not_prepared"}   \* selection, runtime, paths, ROMs, keys
RetiredFiles == {"removed", "not_ours"}        \* Transfer Pak files of older versions
N64Saves == {"staged", "unavailable"}
TransferSaves == {"valid", "invalid", "unavailable"}
Spawns == {"started", "no_process", "no_sender"}

LaunchPlan(local, retired, n64, savs, spawn) ==
    IF local = "not_prepared" \/ retired = "not_ours" \/ n64 = "unavailable" \/ savs = "unavailable"
    THEN "failed"
    ELSE IF savs = "invalid" THEN "preflight"
    ELSE IF spawn = "no_process" THEN "failed" ELSE spawn

Plans == {LaunchPlan(local, retired, n64, savs, spawn) :
              local \in Preparations, retired \in RetiredFiles, n64 \in N64Saves,
              savs \in TransferSaves, spawn \in Spawns}

MayLaunch(x) ==
    /\ ~x.pre /\ x.conn = "paired" /\ role = "host"
    /\ x.launched # x.sess /\ x.pid = "none"

MaybeStartHost(x, t, plan, f, k) ==
    IF ~MayLaunch(x) \/ plan = "failed" THEN Result(x, t)
    ELSE CASE plan = "started" -> Result(Launched(x), t)
           [] plan = "no_sender" -> Result(StopHostProcess(Launched(x), k), t)
           [] plan = "preflight" -> RejectLaunch(x, t, f, k)

Inputs == {"none", "held", "neutral", "refused"}

\* Controller frames of the other player: passed on, released after half a
\* second of silence, given up when the record cannot be written.
PollController(x, input, k) ==
    CASE input = "none" -> x
      [] input \in {"held", "neutral"} -> WriteInput(x, input)
      [] input = "refused" -> Reset(x, k)

-----------------------------------------------------------------------------
\* Steps.  Set installs what a handler leaves.

Kill == IF c.pid = "none" THEN {TRUE} ELSE BOOLEAN

Set(r) ==
    /\ c' = [r.c EXCEPT !.bump = FALSE]
    /\ s' = r.s
    /\ w' = IF w.st # "idle" /\ r.c.bump THEN [Idle EXCEPT !.st = "stale"] ELSE w
    /\ UNCHANGED role

Syncs == Reply \cup {"unseen"}     \* accepted, but the ROOM cannot be read back

SyncState(x, t, ready, f, back) ==
    LET t2 == After(f, t, UpdateUserState(t, ready, ~x.synced, back))
        y == [x EXCEPT !.synced = TRUE]
    IN IF t.room = 0 \/ f = "lost" THEN [ok |-> FALSE, c |-> x, s |-> t]
       ELSE IF f = "unheard" THEN [ok |-> FALSE, c |-> y, s |-> t2]
       ELSE [ok |-> TRUE, c |-> RefreshRoom(y, t2, f = "ok"), s |-> t2]

\* create or join: the ROOM is entered on the server, then on the client.
EnterRoom ==
    /\ c.screen = "menu" /\ s.room = 0 /\ s.gen < MaxRooms
    /\ \E f \in Syncs, back, known \in BOOLEAN, k \in Kill :
         LET t == [s EXCEPT !.gen = @ + 1, !.room = s.gen + 1, !.two = (role = "remote"),
                            !.me = FALSE, !.peer = FALSE, !.notice = FALSE]
             x == [Reset([c EXCEPT !.room = t.room, !.ready = FALSE], k)
                      EXCEPT !.screen = "n64", !.synced = FALSE]
             y == RefreshRoom(x, t, known)
         IN Set(SyncState(y, t, FALSE, f, back))
    /\ UNCHANGED over

KeysOpen == c.screen = "n64" /\ ~c.fin /\ ~c.term /\ ~RuntimeActive(c) /\ ~c.exit

\* Another ROM is chosen for a slot.
KeySelect ==
    /\ KeysOpen
    /\ \E moved, back \in BOOLEAN, f \in Syncs, k \in Kill :
         LET x == Reset([c EXCEPT !.ready = FALSE, !.synced = @ /\ ~moved], k)
         IN Set(SyncState(x, s, FALSE, f, back))
    /\ UNCHANGED over

ReadyRefused(x, k) == Reset([x EXCEPT !.ready = FALSE], k)

\* READY is taken back.
KeyNotReady ==
    /\ KeysOpen /\ c.ready
    /\ \E f \in Syncs, back \in BOOLEAN, k \in Kill :
         LET r == SyncState(c, s, FALSE, f, back)
         IN Set(IF r.ok THEN Result(Reset([r.c EXCEPT !.ready = FALSE, !.pre = FALSE], k), r.s)
                ELSE Result(ReadyRefused(r.c, k), r.s))
    /\ UNCHANGED over

\* READY waits for the SAVs of an earlier game, is told to the server and starts
\* the game when it is the second.
KeyReady ==
    /\ KeysOpen /\ ~c.ready
    /\ \E k \in Kill :
         \/ Set(Result(ReadyRefused(c, k), s))
         \/ \E f \in Syncs, back, q \in BOOLEAN, how \in Starts :
              LET r == SyncState(c, s, TRUE, f, back)
                  y == [r.c EXCEPT !.ready = TRUE, !.pre = FALSE]
              IN Set(IF ~r.ok THEN Result(ReadyRefused(r.c, k), r.s)
                     ELSE IF y.self /\ y.peer THEN RequestSession(y, r.s, how, q, k)
                     ELSE Result(y, r.s))
    /\ UNCHANGED over

KeyEscape ==
    /\ KeysOpen
    /\ \E f \in Reply, k \in Kill : Set(ToMenuIfLeft(LeaveCurrentRoom(c, s, f, k)))
    /\ UNCHANGED over

\* Escape while the end of the session is still to be confirmed.
KeyEscapePending ==
    /\ c.screen = "n64" /\ (c.fin \/ c.term) /\ c.pid = "none" /\ ~RuntimeActive(c)
    /\ ~c.exit
    /\ \E f \in Reply :
         LET id == IF c.life # 0 THEN c.life ELSE c.sess
             t == IF id = 0 THEN s
                  ELSE After(f, s, IF c.fin THEN FinishRoom(s, id) ELSE TerminateRoom(s, id))
             confirmed == id # 0 /\ f = "ok" /\ (c.fin => id \in t.done)
         IN Set(Result(IF confirmed THEN FinishLocally(c, TRUE) ELSE c, t))
    /\ UNCHANGED over

\* Leaving a running game is asked about first.
AskExit ==
    /\ RuntimeActive(c) /\ ~c.exit
    /\ Set(Result([c EXCEPT !.exit = TRUE], s))
    /\ UNCHANGED over

AnswerExit ==
    /\ c.exit
    /\ \/ Set(Result([c EXCEPT !.exit = FALSE], s))
       \/ \E f \in Reply, k \in Kill :
            Set(ToMenuIfLeft(LeaveCurrentRoom([c EXCEPT !.exit = FALSE], s, f, k)))
    /\ UNCHANGED over

-----------------------------------------------------------------------------
\* The polls of the main loop.

Polling == c.screen = "n64" /\ ~c.pre
Settled == Polling /\ ~c.fin /\ ~c.term /\ c.pid \notin {"over", "crashed"}

PollHostProcess ==
    /\ Polling /\ (c.fin \/ c.pid \in {"over", "crashed"})
    /\ \E f \in Reply, q \in BOOLEAN, k \in Kill : Set(HostProcess(c, s, f, q, k))
    /\ UNCHANGED over

PollNotReady ==
    /\ Settled /\ c.conn # "none" /\ ~(c.self /\ c.peer)
    /\ \E k \in Kill : Set(Result(Suspend(c, k), s))
    /\ UNCHANGED over

PollRequest ==
    /\ Settled /\ c.conn = "none" /\ c.self /\ c.peer
    /\ \E how \in Starts, q \in BOOLEAN, k \in Kill : Set(RequestSession(c, s, how, q, k))
    /\ UNCHANGED over

Linked == Settled /\ c.self /\ c.peer /\ c.conn # "none"

\* The relay answers, at last with the other player.
PollPair ==
    /\ Linked /\ c.conn = "auth" /\ s.two /\ c.sess = s.act
    /\ \E plan \in Plans, f \in Reply, k \in Kill :
         Set(MaybeStartHost([c EXCEPT !.conn = "paired", !.rec = FALSE],
                            [s EXCEPT !.rec = FALSE], plan, f, k))
    /\ UNCHANGED over

PollLost ==
    /\ Linked
    /\ \E q \in BOOLEAN, k \in Kill : Set(Reconnect(c, s, q, k))
    /\ UNCHANGED over

PollHost ==
    /\ Linked /\ c.conn = "paired" /\ role = "host"
    /\ \E plan \in Plans, f \in Reply, input \in Inputs, k \in Kill :
         LET r == MaybeStartHost(c, s, plan, f, k)
         IN Set(IF r.c.pre THEN r ELSE Result(PollController(r.c, input, k), r.s))
    /\ UNCHANGED over

WorkerHeartbeat(t) ==
    {[Idle EXCEPT !.st = "heartbeat", !.n = SessionLifecycle(t)],
     [Idle EXCEPT !.st = "failed"], [Idle EXCEPT !.st = "given_up"]}

WorkerRoom(t) ==
    {[Idle EXCEPT !.st = IF t.room = 0 THEN "none" ELSE "room",
                  !.self = t.me, !.peer = t.peer]}

\* The polling thread asks the server.  A poll that asks for both is two polls,
\* and one that ends without an answer changes nothing.
PollStart ==
    /\ c.screen = "n64" /\ w.st = "idle"
    /\ w' \in WorkerHeartbeat(s) \cup WorkerRoom(s)
    /\ UNCHANGED <<role, c, s, over>>

\* Its result is taken some turns of the main loop later, if it is still about
\* the present.
PollTake ==
    /\ w.st # "idle"
    /\ \E k \in Kill :
         LET x == CASE w.st = "heartbeat" -> HandleNotice(c, w.n, k)
                    [] w.st \in {"failed", "given_up"} -> HeartbeatFailed(c, w.st = "given_up", k)
                    [] w.st \in {"none", "room"} -> ReadyFlags(c, w.st = "room", w.self, w.peer)
                    [] w.st = "stale" -> c
         IN c' = IF c.screen = "n64" THEN [x EXCEPT !.bump = FALSE] ELSE c
    /\ w' = Idle
    /\ UNCHANGED <<role, s, over>>

-----------------------------------------------------------------------------
\* The emulator, the other player and the server's own clocks.

EmulatorEnds ==
    /\ c.pid = "running"
    /\ \E how \in {"over", "crashed"} : c' = [c EXCEPT !.pid = how]
    /\ over' = over \cup {c.launched}
    /\ UNCHANGED <<role, s, w>>

Server(t) == s' = t /\ UNCHANGED <<role, c, w, over>>

PeerJoins ==
    /\ role = "host" /\ s.room # 0 /\ ~s.two /\ s.actRoom # s.room
    /\ Server([s EXCEPT !.two = TRUE, !.me = FALSE, !.peer = FALSE])

PeerReady == s.two /\ Server([s EXCEPT !.peer = ~@])

PeerSelects ==
    /\ s.two
    /\ \E back \in BOOLEAN :
         Server([s EXCEPT !.me = FALSE, !.peer = FALSE, !.same = back \/ s.act = 0])

PeerStarts == MayStart(s, 0) /\ Server(CreateOrGet(s))

PeerRecovers == s.act # 0 /\ ~s.rec /\ Server(Recover(s, s.act))

PeerEnds ==
    /\ s.act # 0
    /\ \E why \in {"participant_left", "expired"} \cup
                  (IF role = "remote" THEN {"host_finished", "preflight_failed"} ELSE {}) :
         Server(TerminateMedia(s, why))

PeerLeaves ==
    /\ s.two /\ s.act = 0
    /\ Server(IF role = "remote" THEN CloseRoom(s)
              ELSE [s EXCEPT !.two = FALSE, !.me = FALSE, !.peer = FALSE])

RoomPruned == s.room # 0 /\ Server(CloseRoom(s))

Next ==
    \/ EnterRoom \/ KeySelect \/ KeyNotReady \/ KeyReady \/ KeyEscape \/ KeyEscapePending
    \/ AskExit \/ AnswerExit
    \/ PollHostProcess \/ PollNotReady \/ PollRequest \/ PollPair \/ PollLost \/ PollHost
    \/ PollStart \/ PollTake
    \/ EmulatorEnds
    \/ PeerJoins \/ PeerReady \/ PeerSelects \/ PeerStarts \/ PeerRecovers
    \/ PeerEnds \/ PeerLeaves \/ RoomPruned

Spec == Init /\ [][Next]_vars

-----------------------------------------------------------------------------
\* Properties.

Screens == {"menu", "n64"}

\* Every variable holds a value of its type.
TypeOK ==
    /\ role \in Roles
    /\ c.screen \in Screens /\ c.conn \in {"none", "auth", "paired"}
    /\ c.pid \in {"none", "running", "over", "crashed"} /\ c.launched \in Ids
    /\ (c.pid = "none") = (c.launched = 0)
    /\ c.sess \in Ids /\ c.life \in Ids /\ c.files \in Ids
    /\ c.pad \in {"none", "neutral", "held"}
    /\ ~c.bump
    /\ s.act \in Ids /\ s.n \in Ids /\ s.last \in Ids /\ s.room \in 0 .. MaxRooms
    /\ w.st \in {"idle", "heartbeat", "failed", "given_up", "none", "room", "stale"}
    /\ over \subseteq Ids

\* The emulator never outlives what it plays for: while its process exists, also
\* when it could not be stopped, the client is on the ROOM's screen, still knows
\* the process's session, and the session's files are there.
ProcessOwnsSession ==
    c.pid # "none" =>
        /\ role = "host" /\ c.screen = "n64"
        /\ c.launched = c.sess /\ c.sess # 0 /\ c.sess = c.files

\* A game that has ended by itself is never started again, however its end is
\* reported, refused, retried or asked for anew.
EndedStaysEnded == c.pid = "running" => c.launched \notin over

\* A button of the other player is never held for the emulator once the
\* connection it came over is gone.
ReleasedUnlessPaired == c.pad = "held" => c.conn = "paired"

\* What the game's process is given, its session, files and the other player's buttons, is
\* there as long as it needs it and no longer.
ProcessIsServed == TypeOK /\ ProcessOwnsSession /\ ReleasedUnlessPaired

\* The client goes back to the menu only when the server has it in no ROOM: no
\* notice about an earlier session or ROOM, and no failed request, ends the game
\* the other player is still in.  The exception is a session that the check of
\* the SAVs ended: its ROOM stays open, and Escape, which asks for the end of the
\* session only, takes its being ended for having left.
LeavesOnlyWhenOut ==
    [][c.screen = "n64" /\ c'.screen = "menu" =>
           s'.room = 0 \/ {c.sess, c.life} \cap s'.pf # {}]_vars
=============================================================================
