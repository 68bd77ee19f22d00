------------------------------- MODULE Mobile -------------------------------
(* A mobile game: the client creates a session on the server and launches   *)
(* the runtime (c_client/client_launch_gb_mobile_prepare.c, api_mobile.c),  *)
(* the runtime plays it against the routes of the session's package         *)
(* (runtimes/gb/src/mobile/), and what it leaves decides whether the SAV    *)
(* may be uploaded (c_client/client_save_sync.c).                           *)
(*                                                                          *)
(* A create request is written to disk under the SAV, ROM and scenario      *)
(* before it is sent, and sent again under its id until it is answered: the *)
(* id of a session is derived from it, so a session is named by its request *)
(* here. What the upload itself does is the module ClientSave.              *)
EXTENDS MobileRoutes

CONSTANTS
    Scenarios,    \* scenarios the server lists for the SAV and ROM
    Packages,     \* packages a session may come with
    FirstFlags,   \* the flags every package starts with
    Requests,     \* requests a game may make
    Sockets,      \* connections of the adapter
    MaxRequests,  \* create requests: bounds the launches
    MaxRam,       \* states of the cartridge RAM a game reaches
    MaxFaults     \* lost calls, failed steps, deaths and lost logins

ASSUME MobileAssumption ==
    /\ {MaxRequests, MaxRam, MaxFaults} \subseteq Nat
    /\ FirstFlags \subseteq Flags
    /\ Packages \subseteq Seq(Routes)
    /\ Requests \subseteq [line : STRING, header : [HeaderNames -> Seq(Int)], body : Seq(Nat)]

VARIABLES
    menu,     \* the client: what it is doing, for which scenario and request
    kept,     \* runtime/gb-mobile-create: the request kept for each scenario
    server,   \* the create journal and the sessions
    dir,      \* runtime/gb-mobile: what each session's directory holds
    run,      \* the runtime process
    engine,   \* its route engine
    socket,   \* the engine's sockets
    faults,   \* faults so far
    hist      \* history: sessions nobody ends, bodies replay routes answered, refusals told

mobileVars == <<menu, kept, server, dir, run, engine, socket, faults, hist>>
runtime == <<engine, socket>>

Ids == 1..MaxRequests
Nothing == -1
NoScenario == CHOOSE s \in Scenarios : TRUE   \* dead while the menu is idle
NoEngine == Engine(<<>>, {})
NoResult == [clean |-> FALSE, flushed |-> FALSE, hash |-> Nothing]
NoDir == [made |-> FALSE, sav |-> Nothing, result |-> NoResult]
Closed == [pc |-> "closed", q |-> 0, part |-> 0, left |-> FALSE]
Off == [pc |-> "off", id |-> 0, running |-> FALSE, clean |-> FALSE, flushed |-> FALSE,
        hash |-> Nothing, ram |-> 0]

MobileInit ==
    /\ menu = [pc |-> "idle", scn |-> NoScenario, id |-> 0,
               own |-> FALSE, listed |-> FALSE, login |-> 1]
    /\ kept = [s \in Scenarios |-> 0]
    /\ server = [login |-> [i \in Ids |-> 0], status |-> [i \in Ids |-> "none"]]
    /\ dir = [i \in Ids |-> NoDir]
    /\ run = Off
    /\ engine = NoEngine
    /\ socket = [c \in Sockets |-> Closed]
    /\ faults = 0
    /\ hist = [left |-> {}, bodies |-> {}, told |-> {}]

Fault == faults < MaxFaults /\ faults' = faults + 1

-----------------------------------------------------------------------------
(* The server's sessions                                                    *)

Running == {i \in Ids : server.status[i] = "RUNNING"}

\* commit_mobile_create: one RUNNING session per user; a refused request stays PREPARED.
Created(i) ==
    [server EXCEPT !.login[i] = IF @ = 0 THEN menu.login ELSE @,
                   !.status[i] = IF Running = {} THEN "RUNNING" ELSE "PREPARED"]

\* create: another login is refused first, then the session of a request asked before.
ServerAnswer(i) ==
    CASE server.login[i] \notin {0, menu.login} -> "conflict"
      [] server.status[i] \in {"none", "PREPARED"} /\ Running # {} -> "refused"
      [] server.status[i] \in {"none", "PREPARED", "RUNNING"} -> "session"
      [] OTHER -> "terminal"

\* What the create leaves in the journal.
Recorded(i) ==
    IF ServerAnswer(i) \in {"refused", "session"} /\ server.status[i] # "RUNNING"
    THEN Created(i) ELSE server

\* _terminalize: COMPLETED, CANCELLED or EXPIRED, a session that is over stays so.
Terminal(i) == [server EXCEPT !.status[i] = IF @ = "RUNNING" THEN "over" ELSE @]

\* expire_due: the lease of a session without a monitor lapses.
ExpireDue ==
    /\ \E i \in Running \ {run.id} :
         /\ server' = Terminal(i)
         /\ hist' = [hist EXCEPT !.left = @ \ {i}]
    /\ UNCHANGED <<menu, kept, dir, run, runtime, faults>>

\* integral_api_cancel_mobile_session: it may be lost, and is not asked again.
Cancel(i) ==
    \/ /\ server' = Terminal(i)
       /\ UNCHANGED <<faults, hist>>
    \/ /\ Fault
       /\ hist' = [hist EXCEPT !.left = @ \cup (Running \cap {i})]
       /\ UNCHANGED server

-----------------------------------------------------------------------------
(* The client's launch                                                      *)

Idle == menu' = [menu EXCEPT !.pc = "idle", !.id = 0, !.scn = NoScenario]
Goto(pc) == menu' = [menu EXCEPT !.pc = pc]

\* integral_api_list_mobile_scenarios: an empty or unreadable list leaves none.
RefreshScenarios ==
    /\ menu.pc = "idle" /\ ~menu.listed
    /\ menu' = [menu EXCEPT !.listed = TRUE]
    /\ UNCHANGED <<kept, server, dir, run, runtime, faults, hist>>

\* start_local_gb_mobile: not over the game this client started before.
StartLocal ==
    /\ menu.pc = "idle" /\ menu.listed
    /\ ~(menu.own /\ run.pc # "off")
    /\ \E s \in Scenarios : menu' = [menu EXCEPT !.pc = "create", !.scn = s, !.own = FALSE]
    /\ UNCHANGED <<kept, server, dir, run, runtime, faults, hist>>

NewRequest == {i \in Ids : server.status[i] = "none" /\ i \notin Range(kept)}

\* The request kept for this scenario, or a new one that is on disk before it is sent.
CreateRequest ==
    /\ menu.pc = "create"
    /\ \/ /\ kept[menu.scn] # 0
          /\ menu' = [menu EXCEPT !.pc = "ask", !.id = kept[menu.scn]]
          /\ UNCHANGED <<kept, faults>>
       \/ /\ kept[menu.scn] = 0
          /\ \E i \in NewRequest :
               /\ \A j \in NewRequest : i <= j
               /\ kept' = [kept EXCEPT ![menu.scn] = i]
               /\ menu' = [menu EXCEPT !.pc = "ask", !.id = i]
          /\ UNCHANGED faults
       \/ /\ kept[menu.scn] = 0 /\ Idle
          /\ IF NewRequest = {} THEN UNCHANGED faults ELSE Fault
          /\ UNCHANGED kept
    /\ UNCHANGED <<server, dir, run, runtime, hist>>

\* integral_mobile_runtime_contract_parse: a session without a sound contract is no answer.
Parsed(answer) == IF answer = "session" THEN {"session", "failed"} ELSE {answer}

\* Mutant of KeepRequest: a request that failed is not kept.
KeepOnConflict(answer) == answer = "conflict"

\* The kept request goes when its session is over, and stays when the create failed.
KeepRequest(answer) == answer \in {"failed", "refused", "conflict"}

\* What the client does with the answer of a create.
Take(answer) ==
    /\ IF answer = "session" THEN Goto("ids") ELSE Idle
    /\ kept' = IF answer = "session" \/ KeepRequest(answer) THEN kept
               ELSE [kept EXCEPT ![menu.scn] = 0]
    /\ hist' = IF answer = "conflict"
               THEN [hist EXCEPT !.told = @ \cup {server.status[menu.id]}] ELSE hist

\* integral_api_start_mobile_session_contract: the call may be lost on its way or back.
StartSession ==
    /\ menu.pc = "ask"
    /\ \/ /\ server' = Recorded(menu.id)
          /\ \E answer \in Parsed(ServerAnswer(menu.id)) :
               /\ Take(answer)
               /\ IF answer = "failed" THEN Fault ELSE UNCHANGED faults
       \/ /\ Fault /\ Take("failed")
          /\ server' \in {server, Recorded(menu.id)}
    /\ UNCHANGED <<dir, run, runtime>>

\* Identifiers that are no file names end the launch; else the kept request is removed.
CheckIds ==
    /\ menu.pc = "ids"
    /\ \/ /\ Goto("directory")
          /\ kept' = [kept EXCEPT ![menu.scn] = 0]
          /\ UNCHANGED <<server, faults, hist>>
       \/ Idle /\ Cancel(menu.id) /\ UNCHANGED kept
    /\ UNCHANGED <<dir, run, runtime>>

\* A launch that fails cancels its session and removes its directory.
Abandon ==
    /\ Idle
    /\ Cancel(menu.id)
    /\ dir' = [dir EXCEPT ![menu.id] = NoDir]

\* The session's private directory.
MakeDirectory ==
    /\ menu.pc = "directory"
    /\ \/ /\ Goto("fetch")
          /\ dir' = [dir EXCEPT ![menu.id] = [NoDir EXCEPT !.made = TRUE]]
          /\ UNCHANGED <<server, faults, hist>>
       \/ Abandon
    /\ UNCHANGED <<kept, run, runtime>>

\* The SAV is downloaded and the manifest written; no result is there before the game.
Fetch ==
    /\ menu.pc = "fetch"
    /\ \/ /\ Goto("launch")
          /\ dir' = [dir EXCEPT ![menu.id].sav = 0, ![menu.id].result = NoResult]
          /\ UNCHANGED <<server, faults, hist>>
       \/ Abandon
    /\ UNCHANGED <<kept, run, runtime>>

\* Mutant of Launch: a launch that fails leaves its session to the lease.
LaunchOrLeave ==
    /\ menu.pc = "launch" /\ run.pc = "off"
    /\ \/ /\ run' = [Off EXCEPT !.pc = "manifest", !.id = menu.id, !.running = TRUE]
          /\ menu' = [menu EXCEPT !.pc = "idle", !.id = 0, !.scn = NoScenario, !.own = TRUE]
          /\ UNCHANGED <<server, dir, faults, hist>>
       \/ Idle /\ UNCHANGED <<server, dir, run, faults, hist>>
    /\ UNCHANGED <<kept, runtime>>

\* integral_gb_mobile_start: the monitor is forked, and forks the runtime; a monitor that
\* cannot cancels the session and leaves the directory. (One runtime at a time: a bound.)
Launch ==
    /\ menu.pc = "launch" /\ run.pc = "off"
    /\ \/ /\ run' = [Off EXCEPT !.pc = "manifest", !.id = menu.id, !.running = TRUE]
          /\ menu' = [menu EXCEPT !.pc = "idle", !.id = 0, !.scn = NoScenario, !.own = TRUE]
          /\ UNCHANGED <<server, dir, faults, hist>>
       \/ Abandon /\ UNCHANGED run
       \/ Idle /\ Cancel(menu.id) /\ UNCHANGED <<dir, run>>
    /\ UNCHANGED <<kept, runtime>>

\* The login is lost and the user logs in again; the server knows the new one by another id.
LogIn ==
    /\ Fault
    /\ menu.pc = "idle"
    /\ menu' = [menu EXCEPT !.login = @ + 1]
    /\ UNCHANGED <<kept, server, dir, run, runtime, hist>>

\* The client dies; a session whose request is off the disk is left to its lease.
ClientDies ==
    /\ Fault
    /\ menu.pc # "idle" \/ menu.own
    /\ menu' = [menu EXCEPT !.pc = "idle", !.id = 0, !.scn = NoScenario, !.own = FALSE]
    /\ hist' = [hist EXCEPT !.left = @ \cup ((Running \cap {menu.id}) \ Range(kept))]
    /\ UNCHANGED <<kept, server, dir, run, runtime>>

-----------------------------------------------------------------------------
(* The runtime                                                              *)

Step(pc) == run' = [run EXCEPT !.pc = pc]
Fail(pc) == run' = [run EXCEPT !.pc = pc, !.running = FALSE]

\* The process ends; its engine and sockets end with it.
Gone ==
    /\ Step("gone")
    /\ engine' = NoEngine
    /\ socket' = [c \in Sockets |-> Closed]
    /\ hist' = [hist EXCEPT !.bodies = {}]

\* integral_gb_runtime_mobile_session_manifest_load, load_exact of the EEPROM: every file
\* is the one the manifest names, or the process ends without a result.
LoadManifest ==
    /\ run.pc = "manifest"
    /\ \/ Step("routes") /\ UNCHANGED <<runtime, hist>>
       \/ Gone
    /\ UNCHANGED <<menu, kept, server, dir, faults>>

\* integral_gb_runtime_mobile_route_engine_new.
LoadRoutes ==
    /\ run.pc = "routes"
    /\ \E package \in Packages :
         IF Accepted(package, FirstFlags)
         THEN /\ Step("boot")
              /\ engine' = Engine(package, FirstFlags)
              /\ UNCHANGED <<socket, hist>>
         ELSE Gone
    /\ UNCHANGED <<menu, kept, server, dir, faults>>

\* The slot, the adapter's bridge, the window and the sound; what fails still reports.
Boot ==
    /\ run.pc = "boot"
    /\ \/ run' = [run EXCEPT !.pc = "play", !.ram = dir[run.id].sav]
       \/ Fail("flush")
    /\ UNCHANGED <<menu, kept, server, dir, runtime, faults, hist>>

Playing == run.pc = "play"
PlayerKeeps == UNCHANGED <<menu, kept, server, dir, faults>>

\* A frame: the game may write its RAM; it may also fail.
RunFrame ==
    /\ Playing
    /\ \/ \E m \in 0..MaxRam : run' = [run EXCEPT !.ram = m]
       \/ Fail("flush")
    /\ UNCHANGED <<runtime, hist>>
    /\ PlayerKeeps

\* The window is closed, or the player returns to the menu: only that is a clean end.
PollWindow ==
    /\ Playing
    /\ \E menuWanted \in BOOLEAN : run' = [run EXCEPT !.pc = "flush", !.clean = menuWanted]
    /\ UNCHANGED <<runtime, hist>>
    /\ PlayerKeeps

\* RESET: the adapter stops and closes its connections; the routes keep where they are.
ResetConsole ==
    /\ Playing
    /\ socket' = [c \in Sockets |-> Closed]
    /\ UNCHANGED <<run, engine, hist>>
    /\ PlayerKeeps

\* sock_open: the adapter opens a socket it has closed, for IPv4 only.
SockOpen(c) ==
    /\ Playing /\ socket[c].pc = "closed"
    /\ \E pc \in {"tcp", "udp"} : socket' = [socket EXCEPT ![c].pc = pc]
    /\ UNCHANGED <<run, engine, hist>>
    /\ PlayerKeeps

\* sock_connect: only the loopback's port 80.
SockConnect(c) ==
    /\ Playing /\ socket[c].pc = "tcp"
    /\ socket' = [socket EXCEPT ![c].pc = "connected"]
    /\ UNCHANGED <<run, engine, hist>>
    /\ PlayerKeeps

\* sock_close.
SockClose(c) ==
    /\ Playing /\ socket[c].pc # "closed"
    /\ socket' = [socket EXCEPT ![c] = Closed]
    /\ UNCHANGED <<run, engine, hist>>
    /\ PlayerKeeps

\* dns_response: a name of the package gets the loopback's address. After a first answer has
\* been received the cursor stays, and only what a longer one has more can be received.
DnsResponse(c) ==
    /\ Playing /\ socket[c].pc = "udp"
    /\ \E left \in BOOLEAN :
          /\ socket[c].part = 0 \/ socket[c].left => left
          /\ socket' = [socket EXCEPT ![c].part = 2, ![c].left = left]
    /\ UNCHANGED <<run, engine, hist>>
    /\ PlayerKeeps

\* prepare_http of a whole request: one answer, or an error and nothing else.
PrepareHttp(c, q) ==
    /\ socket' = [socket EXCEPT ![c].q = 0, ![c].part = 2, ![c].left = Answerable(engine, q)]
    /\ IF Answerable(engine, q)
       THEN /\ engine' = Answered(engine, q)
            /\ hist' = [hist EXCEPT !.bodies = @ \cup
                    {<<i, q.body>> : i \in {j \in Matches(engine, q) : engine.package[j].replay}}]
       ELSE UNCHANGED <<engine, hist>>
    /\ UNCHANGED run

\* sock_send: a request arrives whole, or its header first and its body after; what comes
\* after a whole request makes it one the engine refuses.
SockSend(c) ==
    /\ Playing /\ socket[c].pc = "connected"
    /\ \/ /\ socket[c].part = 0
          /\ \E q \in Requests : PrepareHttp(c, q)
       \/ /\ socket[c].part = 0
          /\ \E q \in {r \in Requests : r.body # <<>>} :
               socket' = [socket EXCEPT ![c].q = q, ![c].part = 1]
          /\ UNCHANGED <<run, engine, hist>>
       \/ socket[c].part = 1 /\ PrepareHttp(c, socket[c].q)
       \/ socket[c].part = 2 /\ UNCHANGED <<run, runtime, hist>>
    /\ PlayerKeeps

\* sock_recv: the answer once, then the end of the connection.
SockRecv(c) ==
    /\ Playing /\ socket[c].left
    /\ socket' = [socket EXCEPT ![c].left = FALSE]
    /\ UNCHANGED <<run, engine, hist>>
    /\ PlayerKeeps

\* The SAV is written and read again for its hash, after a clean end only.
SaveBattery ==
    /\ run.pc = "flush"
    /\ \/ /\ run.running /\ run.clean
          /\ dir' = [dir EXCEPT ![run.id].sav = run.ram]
          /\ \/ run' = [run EXCEPT !.pc = "config", !.flushed = TRUE, !.hash = run.ram]
             \/ Step("config")
       \/ Step("config") /\ UNCHANGED dir
    /\ UNCHANGED <<menu, kept, server, runtime, faults, hist>>

\* The adapter's configuration (the start has written it): a failure spoils the clean end.
SaveConfig ==
    /\ run.pc = "config"
    /\ \/ Step("result")
       \/ Fail("result")
    /\ UNCHANGED <<menu, kept, server, dir, runtime, faults, hist>>

\* write_result: put beside and renamed, so it is whole or not there.
WriteResult ==
    /\ run.pc = "result"
    /\ \/ dir' = [dir EXCEPT ![run.id].result =
                    [clean |-> run.running /\ run.clean, flushed |-> run.flushed,
                     hash |-> run.hash]]
       \/ UNCHANGED dir
    /\ Gone
    /\ UNCHANGED <<menu, kept, server, faults>>

\* The process is killed at any point.
Killed ==
    /\ Fault
    /\ run.pc \notin {"off", "gone"}
    /\ Gone
    /\ UNCHANGED <<menu, kept, server, dir>>

\* Mutant of Allows: the receipt is not compared with the file.
AllowsAnyFile(d) == d.sav # Nothing

\* mobile_runtime_result_allows_commit.
Allows(d) ==
    /\ d.result.clean /\ d.result.flushed
    /\ d.sav # Nothing /\ d.result.hash = d.sav

\* The monitor, when the runtime is gone: the lifecycle is completed, or cancelled. What it
\* uploads first, and which directories it keeps for that, is in ClientSave.
Settle ==
    /\ run.pc = "gone"
    /\ \/ /\ Allows(dir[run.id])
          /\ server' = Terminal(run.id)
          /\ UNCHANGED <<faults, hist>>
       \/ /\ Allows(dir[run.id]) /\ Fault
          /\ hist' = [hist EXCEPT !.left = @ \cup (Running \cap {run.id})]
          /\ UNCHANGED server
       \/ ~Allows(dir[run.id]) /\ Cancel(run.id)
    /\ run' = Off
    /\ menu' = [menu EXCEPT !.own = FALSE]
    /\ dir' = [dir EXCEPT ![run.id] = NoDir]
    /\ UNCHANGED <<kept, runtime>>

-----------------------------------------------------------------------------
Launching == CreateRequest \/ StartSession \/ CheckIds \/ MakeDirectory \/ Fetch \/ Launch

Adapter(c) ==
    \/ SockOpen(c)
    \/ SockConnect(c)
    \/ SockClose(c)
    \/ DnsResponse(c)
    \/ SockSend(c)
    \/ SockRecv(c)

MobileNext ==
    \/ ExpireDue
    \/ RefreshScenarios
    \/ StartLocal
    \/ Launching
    \/ LogIn
    \/ ClientDies
    \/ LoadManifest
    \/ LoadRoutes
    \/ Boot
    \/ RunFrame
    \/ PollWindow
    \/ ResetConsole
    \/ \E c \in Sockets : Adapter(c)
    \/ SaveBattery
    \/ SaveConfig
    \/ WriteResult
    \/ Killed
    \/ Settle

MobileSpec == MobileInit /\ [][MobileNext]_mobileVars

-----------------------------------------------------------------------------
(* Properties                                                               *)

\* Whatever a package that was accepted has been through, at most one of its routes
\* matches a request: the checks at loading (routes_overlap) foresee every state, use and
\* replay the engine can come to (mobile_route_engine.c, prepare_http).
OneAnswer == \A q \in Requests : Cardinality(Matches(engine, q)) <= 1

\* A route that answers the same body again answers that body only, on whatever sockets,
\* in whatever pieces and after whatever console resets its requests arrive.
ReplaysOneBody == \A a, b \in hist.bodies : a[1] = b[1] => a[2] = b[2]

\* A result that lets a SAV be uploaded speaks of the SAV that is there, and of a game the
\* player ended: wherever the process failed or was killed, nothing else is committed.
ReceiptIsTrue ==
    \A i \in Ids :
        Allows(dir[i]) /\ run.pc = "gone" /\ run.id = i =>
            run.clean /\ run.running /\ dir[i].sav = run.ram

\* A session that runs has somebody who will end it or ask for it again: the launch, the
\* monitor or the kept request, unless a cancel was lost or a process died holding it.
NoOrphan ==
    Running \subseteq Range(kept) \cup {menu.id, run.id} \cup hist.left

\* "Previous Mobile session belongs to a different login session; retry after it expires"
\* (mobile/session_service.py:152): the wait is for a session that still runs.
WaitIsForExpiry == hist.told \subseteq {"RUNNING"}

\* A package that was accepted answers every request it answers with one route, and a
\* repeated one as it did before.
RoutesAreSound == OneAnswer /\ ReplaysOneBody
=============================================================================
