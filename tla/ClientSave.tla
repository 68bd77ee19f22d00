----------------------------- MODULE ClientSave -----------------------------
(***************************************************************************)
(* How the C client carries one SAV from a local game to the server.  The  *)
(* client process recovers what an earlier game left unsent, takes the     *)
(* game lock, downloads the SAV and starts a runtime; a monitor per game   *)
(* uploads what the runtime writes, keeps the lock alive, and ends the     *)
(* game.  Both send through process_save_inflight, which persists a        *)
(* request before its PUT and resolves it before a newer one.  Requests,   *)
(* answers, processes and the power can be lost at every step between two  *)
(* file operations.  SAV contents are numbered in the order in which they  *)
(* are written, 0 stands for no file, and a game is known by its number.   *)
(* The server is used through what SaveCommit and the lock promise.        *)
(***************************************************************************)
EXTENDS Naturals, FiniteSets

CONSTANTS
    Kinds,        \* kinds of games played: a subset of {"gb", "n64", "mobile"}
    MaxSession,   \* bound: games that are started
    MaxSnapshot,  \* bound: SAV contents that are written
    MaxFaults,    \* bound: lost messages, failed writes, crashes
    Others,       \* bound: another device of the same account may play as well
    Overlaps      \* bound: START may be pressed while an earlier game still runs or uploads

ASSUME ClientSaveAssumption ==
    /\ Kinds \subseteq {"gb", "n64", "mobile"}
    /\ MaxSession \in Nat \ {0}
    /\ MaxSnapshot \in Nat \ {0}
    /\ MaxFaults \in Nat
    /\ Others \in BOOLEAN /\ Overlaps \in BOOLEAN

VARIABLES
    server,  \* revision, SAV and lock holder at the server, and the requests it applied
    disk,    \* working file per game, inflight envelope, recovery records, completion marks,
             \* and the game a mobile create request that was not answered stands for
    game,    \* runtime process per game: [kind, run, clean]
    proc,    \* the client process (0) and the monitor of each game
    clock,   \* newest SAV content written by anyone
    faults,  \* faults so far
    hist     \* history: newest content and base per game, contents the server had, games
             \* cut short, whether another device played

vars == <<server, disk, game, proc, clock, faults, hist>>

Client == 0
Sessions == 1..MaxSession
Procs == {Client} \cup Sessions
NoFile == 0
FailureLimit == 3
CompleteAttempts == 3

Revisions == 0..MaxSnapshot + MaxSession
Entries == [rev : Revisions, committed : Revisions, body : 0..MaxSnapshot,
            src : Procs]
NoEntry == [rev |-> 0, committed |-> 0, body |-> NoFile, src |-> 0]

\* pc of process_save_inflight, of a monitor, and of the client's launch.
Steps == {"begin", "snap", "put", "answer", "compare"}
            \cup {"off", "poll", "beat", "ended", "unstaged", "stop"}
            \cup {"idle", "replayed", "records", "record", "mark", "lock", "fetch", "spawn"}

Slot == [pc |-> "off", rev |-> 0, last |-> NoFile, src |-> 0, keep |-> FALSE, exists |-> FALSE,
         entry |-> NoEntry, tries |-> 0, answer |-> 0, alive |-> TRUE, fails |-> 0,
         lost |-> FALSE, final |-> FALSE, todo |-> {}, pending |-> FALSE, kind |-> "gb", own |-> TRUE]

Init ==
    /\ server = [rev |-> 1, body |-> 1, lock |-> 0, log |-> {}]
    /\ disk = [work |-> [s \in Sessions |-> NoFile], env |-> NoEntry, ptr |-> {}, mark |-> {},
               create |-> 0]
    /\ game = [s \in Sessions |-> [kind |-> "none", run |-> "off", clean |-> FALSE]]
    /\ proc = [p \in Procs |-> [Slot EXCEPT !.pc = IF p = Client THEN "idle" ELSE "off"]]
    /\ clock = 1
    /\ faults = 0
    /\ hist = [newest |-> [s \in Sessions |-> 0], base |-> [s \in Sessions |-> 0],
               had |-> {1}, cut |-> {}, foreign |-> FALSE]

Staged == disk.env # NoEntry
Fault == faults < MaxFaults /\ faults' = faults + 1
Set(p, r) == proc' = [proc EXCEPT ![p] = r]
Goto(p, step) == Set(p, [proc[p] EXCEPT !.pc = step])
Quit(p) == Set(p, [Slot EXCEPT !.pc = IF p = Client THEN "idle" ELSE "off"])

-----------------------------------------------------------------------------
\* The server: the lock is checked first, then the journal of requests, then the revision.

\* A request: who asks (the game of a fenced caller, or 0), its id, the revision expected, the SAV.
\* An inflight request is named by its revision and hash (id 0), a recovery record by itself.
Known(q) == {e \in server.log : e.id = q.id /\ (q.id = 0 => e = [id |-> 0, rev |-> q.rev, body |-> q.body])}

\* The revision the server answers with, 0 when it refuses.
Verdict(q) ==
    CASE server.lock # q.game -> 0
      [] server.lock = q.game /\ Known(q) # {} ->
            IF [id |-> q.id, rev |-> q.rev, body |-> q.body] \in Known(q) THEN q.rev + 1 ELSE 0
      [] OTHER -> IF q.rev = server.rev THEN q.rev + 1 ELSE 0

Apply(q) ==
    IF Verdict(q) # 0 /\ Known(q) = {}
    THEN /\ server' = [server EXCEPT !.rev = @ + 1, !.body = q.body,
                          !.log = @ \cup {[id |-> q.id, rev |-> q.rev, body |-> q.body]}]
         /\ hist' = [hist EXCEPT !.had = @ \cup {q.body}]
    ELSE UNCHANGED <<server, hist>>

\* upload_save_fenced: the PUT is answered, its answer is lost, or it never arrives.
Upload(p, q, step) ==
    \/ /\ Apply(q)
       /\ Set(p, [proc[p] EXCEPT !.answer = Verdict(q), !.pc = step])
       /\ UNCHANGED faults
    \/ /\ Fault
       /\ \/ Apply(q)
          \/ UNCHANGED <<server, hist>>
       /\ Set(p, [proc[p] EXCEPT !.answer = 0, !.pc = step])

\* The lease of a game whose heartbeats stopped runs out.
Expire(s) ==
    /\ server.lock = s
    /\ proc[s].pc = "off" \/ proc[s].fails > 0
    /\ ~(proc[Client].pc \in {"fetch", "spawn"} /\ proc[Client].src = s)
    /\ server' = [server EXCEPT !.lock = 0]
    /\ UNCHANGED <<disk, game, proc, clock, faults, hist>>

\* The account plays on another device, from lock to release.
OtherDevice ==
    /\ Others
    /\ server.lock = 0
    /\ clock < MaxSnapshot
    /\ Fault
    /\ clock' = clock + 1
    /\ server' = [server EXCEPT !.rev = @ + 1, !.body = clock']
    /\ hist' = [hist EXCEPT !.had = @ \cup {clock'}, !.foreign = TRUE]
    /\ UNCHANGED <<disk, game, proc>>

-----------------------------------------------------------------------------
\* process_save_inflight, run by the monitor of a game and by the client's replay.

\* Where the caller goes on: a final upload that failed falls back to a recovery record.
Return(p, r, ok) ==
    LET done == [r EXCEPT !.keep = @ \/ (~ok /\ r.exists), !.exists = FALSE,
                           !.entry = NoEntry, !.tries = 0, !.answer = 0]
    IN  Set(p, [done EXCEPT !.pc =
            IF p = Client THEN "replayed"
            ELSE IF ~r.final THEN "beat"
            ELSE IF ok THEN "stop" ELSE "unstaged"])

\* Mutant of Begin: the slot's own upload counts, not the envelope on disk.
BeginAnew(p) ==
    /\ proc[p].pc = "begin"
    /\ Set(p, [proc[p] EXCEPT !.entry = [rev |-> 0, committed |-> proc[p].rev,
                                         body |-> proc[p].last, src |-> 0],
                   !.exists = FALSE, !.tries = 0, !.pc = "snap"])
    /\ UNCHANGED <<server, disk, game, clock, faults, hist>>

\* The envelope on disk, or an empty one standing for the slot's last upload.
Begin(p) ==
    /\ proc[p].pc = "begin"
    /\ LET entry == IF Staged THEN disk.env
                    ELSE [rev |-> 0, committed |-> proc[p].rev, body |-> proc[p].last, src |-> 0]
       IN  Set(p, [proc[p] EXCEPT !.entry = entry, !.exists = Staged, !.tries = 0,
                       !.pc = IF Staged /\ entry.committed = 0 THEN "put" ELSE "snap"])
    /\ UNCHANGED <<server, disk, game, clock, faults, hist>>

Latest(p) == disk.work[proc[p].src]

\* The latest working file becomes the next request, unless the server has it.
Snap(p) ==
    /\ proc[p].pc = "snap"
    /\ LET r == [proc[p] EXCEPT !.rev = proc[p].entry.committed]
           staged == [rev |-> r.rev, committed |-> 0, body |-> Latest(p), src |-> r.src]
       IN  \/ /\ Latest(p) = NoFile
              /\ Return(p, proc[p], FALSE)
              /\ UNCHANGED <<disk, faults>>
           \/ /\ Latest(p) = r.entry.body /\ Latest(p) # NoFile
              /\ disk' = [disk EXCEPT !.env = IF r.exists THEN NoEntry ELSE @]
              /\ Return(p, [r EXCEPT !.last = Latest(p), !.keep = FALSE, !.exists = FALSE], TRUE)
              /\ UNCHANGED faults
           \/ /\ Latest(p) \notin {NoFile, r.entry.body}
              /\ \/ /\ disk' = [disk EXCEPT !.env = staged]
                    /\ Set(p, [r EXCEPT !.entry = staged, !.exists = TRUE, !.pc = "put"])
                    /\ UNCHANGED faults
                 \/ /\ Fault
                    /\ Return(p, r, FALSE)
                    /\ UNCHANGED disk
    /\ UNCHANGED <<server, game, clock, hist>>

\* A monitor uploads under its game's fence, recovery without one.
Put(p) ==
    /\ proc[p].pc = "put"
    /\ proc[p].entry.rev < MaxSnapshot + MaxSession
    /\ Upload(p, [game |-> p, id |-> 0, rev |-> proc[p].entry.rev, body |-> proc[p].entry.body],
              "answer")
    /\ UNCHANGED <<disk, game, clock>>

\* Only a fenced caller rewrites the envelope after a failure.
Answer(p) ==
    /\ proc[p].pc = "answer"
    /\ LET r == proc[p]
           committed == [r.entry EXCEPT !.committed = r.answer]
       IN  \/ /\ r.answer = 0
              /\ disk' = [disk EXCEPT !.env = IF p = Client THEN @ ELSE r.entry]
              /\ Return(p, [r EXCEPT !.keep = TRUE], r.final)
           \/ /\ r.answer # 0
              /\ disk' = [disk EXCEPT !.env = committed]
              /\ Set(p, [r EXCEPT !.entry = committed, !.rev = r.answer, !.last = r.entry.body,
                                  !.pc = "compare"])
    /\ UNCHANGED <<server, game, clock, faults, hist>>

\* Mutant of Compare: the answer ends the request without a look at the working file.
CompareNothing(p) ==
    /\ proc[p].pc = "compare"
    /\ disk' = [disk EXCEPT !.env = NoEntry]
    /\ Return(p, [proc[p] EXCEPT !.keep = FALSE, !.exists = FALSE], TRUE)
    /\ UNCHANGED <<server, game, clock, faults, hist>>

\* A working file that moved on is sent as well, once per call.
Compare(p) ==
    /\ proc[p].pc = "compare"
    /\ LET r == proc[p]
       IN  \/ /\ Latest(p) = r.entry.body
              /\ disk' = [disk EXCEPT !.env = NoEntry]
              /\ Return(p, [r EXCEPT !.keep = FALSE, !.exists = FALSE], TRUE)
           \/ /\ Latest(p) # r.entry.body
              /\ UNCHANGED disk
              /\ IF r.tries = 0 THEN Set(p, [r EXCEPT !.tries = 1, !.pc = "snap"])
                 ELSE Return(p, [r EXCEPT !.keep = TRUE], TRUE)
    /\ UNCHANGED <<server, game, clock, faults, hist>>

\* Mutant of Preserve: the working file is kept, but no record of it.
PreserveFileOnly(s, next) ==
    /\ IF next = "stop" THEN Set(s, [proc[s] EXCEPT !.keep = TRUE, !.pc = next]) ELSE Quit(s)
    /\ UNCHANGED <<disk, faults, hist>>

\* write_save_recovery_pointer: an envelope already owns the order of recovery.
Preserve(s, next) ==
    LET kept == disk.work[s] # NoFile
    IN  \/ /\ disk' = [disk EXCEPT !.ptr = IF Staged \/ ~kept THEN @
                            ELSE {e \in @ : e.src # s} \cup {[src |-> s, rev |-> proc[s].rev]}]
           /\ IF kept /\ next = "stop" THEN Set(s, [proc[s] EXCEPT !.keep = TRUE, !.pc = next])
              ELSE Quit(s)
           /\ UNCHANGED <<faults, hist>>
        \/ /\ ~Staged
           /\ Fault
           /\ Quit(s)
           /\ hist' = [hist EXCEPT !.cut = @ \cup {s}]
           /\ UNCHANGED disk

-----------------------------------------------------------------------------
\* The monitor of game s, once a second.

\* child_process_alive, then the uploads of every game but a mobile one; a monitor that is
\* a thread (Windows) does not upload between the exit and the last upload.
Poll(s) ==
    /\ proc[s].pc = "poll"
    /\ \E step \in IF proc[s].lost \/ proc[s].kind = "mobile" THEN {"beat"}
                  ELSE IF game[s].run = "off" THEN {"begin", "beat"} ELSE {"begin"} :
         Set(s, [proc[s] EXCEPT !.alive = game[s].run # "off", !.pc = step])
    /\ UNCHANGED <<server, disk, game, clock, faults, hist>>

\* The server says that the game is no longer this one.
Terminal(s) == server.lock # s

\* Heartbeat: a lapsed lease or the third failure stops the runtime.
Beat(s) ==
    /\ proc[s].pc = "beat"
    /\ proc[s].alive
    /\ \/ UNCHANGED <<game, faults>> /\ Goto(s, "poll")
       \/ /\ ~proc[s].lost
          /\ server.lock = s
          /\ UNCHANGED <<game, faults>>
          /\ Set(s, [proc[s] EXCEPT !.fails = 0, !.pc = "poll"])
       \/ /\ ~proc[s].lost
          /\ (Terminal(s) /\ UNCHANGED faults) \/ Fault
          /\ LET fails == proc[s].fails + 1
                 lost == Terminal(s) \/ fails >= FailureLimit
             IN  /\ Set(s, [proc[s] EXCEPT !.fails = fails, !.lost = lost, !.pc = "poll"])
                 /\ game' = [game EXCEPT ![s].run = IF lost /\ @ = "on" THEN "told" ELSE @]
    /\ UNCHANGED <<server, disk, clock, hist>>

\* The runtime is gone and the heartbeat was lost: its SAV is kept for recovery.
EndedLost(s) ==
    /\ proc[s].pc = "beat"
    /\ ~proc[s].alive /\ proc[s].lost
    /\ Preserve(s, "off")
    /\ UNCHANGED <<server, game, clock>>

\* The runtime is gone: its SAV is uploaded a last time, a mobile one after its receipt.
Ended(s) ==
    /\ proc[s].pc = "beat"
    /\ ~proc[s].alive /\ ~proc[s].lost
    /\ Set(s, [proc[s] EXCEPT !.final = TRUE,
                  !.pc = IF proc[s].kind = "mobile" THEN "ended" ELSE "begin"])
    /\ UNCHANGED <<server, disk, game, clock, faults, hist>>

\* mobile_runtime_result_allows_commit: the receipt of a clean exit matches the file.
MobileAccepted(s) ==
    /\ proc[s].pc = "ended"
    /\ game[s].clean /\ disk.work[s] # NoFile
    /\ Goto(s, "begin")
    /\ UNCHANGED <<server, disk, game, clock, faults, hist>>

\* reject_mobile_runtime_result: a recovery record, then the cancel, which may be lost.
MobileRejected(s) ==
    /\ proc[s].pc = "ended"
    /\ ~game[s].clean \/ disk.work[s] = NoFile
    /\ Preserve(s, "off")
    /\ \/ server' = [server EXCEPT !.lock = IF @ = s THEN 0 ELSE @]
       \/ UNCHANGED server
    /\ UNCHANGED <<game, clock>>

\* upload_changed_save after staging failed; without any record the game is not stopped.
Unstaged(s) ==
    /\ proc[s].pc = "unstaged"
    /\ Preserve(s, "stop")
    /\ UNCHANGED <<server, game, clock>>

\* The game is stopped and what is reflected is removed (remove_reflected_session_saves).
StopGame(s) ==
    /\ proc[s].pc = "stop"
    /\ \/ /\ server.lock = s
          /\ server' = [server EXCEPT !.lock = 0]
          /\ disk' = [disk EXCEPT !.work[s] = IF proc[s].keep THEN @ ELSE NoFile]
          /\ Quit(s)
          /\ UNCHANGED faults
       \/ /\ proc[s].kind # "mobile"
          /\ (server.lock # s /\ UNCHANGED faults) \/ Fault
          /\ Quit(s)
          /\ UNCHANGED <<server, disk>>
    /\ UNCHANGED <<game, clock, hist>>

\* complete_mobile_lifecycle asks three times.
RetryComplete(s) ==
    /\ proc[s].pc = "stop"
    /\ proc[s].kind = "mobile"
    /\ (server.lock # s /\ UNCHANGED faults) \/ Fault
    /\ IF proc[s].tries + 1 < CompleteAttempts
       THEN Set(s, [proc[s] EXCEPT !.tries = @ + 1])
       ELSE Quit(s)
    /\ UNCHANGED <<server, disk, game, clock, hist>>

-----------------------------------------------------------------------------
\* The runtime of game s: its battery file, and how it ends.

Play(s) ==
    /\ game[s].run # "off"
    /\ clock < MaxSnapshot
    /\ clock' = clock + 1
    /\ disk' = [disk EXCEPT !.work[s] = clock']
    /\ hist' = [hist EXCEPT !.newest[s] = clock']
    /\ UNCHANGED <<server, game, proc, faults>>

Exit(s) ==
    /\ game[s].run # "off"
    /\ \E clean \in BOOLEAN : game' = [game EXCEPT ![s].run = "off", ![s].clean = clean]
    /\ UNCHANGED <<server, disk, proc, clock, faults, hist>>

-----------------------------------------------------------------------------
\* The client: START recovers, locks, downloads and spawns.

Monitored == \E s \in Sessions : proc[s].pc # "off"
Own == \E s \in Sessions : proc[s].pc # "off" /\ proc[s].own

\* resolve_save_upload_outbox, first step of every launch.
Recover(kind) ==
    /\ proc[Client].pc = "idle"
    /\ Overlaps \/ ~(Monitored \/ \E s \in Sessions : game[s].run # "off")
    /\ Set(Client, [Slot EXCEPT !.kind = kind, !.todo = disk.ptr, !.src = disk.env.src,
                        !.pc = IF Staged THEN "begin" ELSE "records"])
    /\ UNCHANGED <<server, disk, game, clock, faults, hist>>

\* Only the N64 and mobile launches look at the monitor this client started before.
StartGb == "gb" \in Kinds /\ Recover("gb")
StartN64 == "n64" \in Kinds /\ ~Own /\ Recover("n64")
StartMobile == "mobile" \in Kinds /\ ~Own /\ Recover("mobile")

\* Mutant of Replayed: the working file is dropped whatever became of the envelope.
ReplayedDropsFile ==
    /\ proc[Client].pc = "replayed"
    /\ disk' = [disk EXCEPT !.work[proc[Client].src] = NoFile]
    /\ IF Staged THEN Quit(Client)
       ELSE Set(Client, [Slot EXCEPT !.pc = "records", !.todo = disk.ptr,
                                     !.kind = proc[Client].kind])
    /\ UNCHANGED <<server, game, clock, faults, hist>>

\* replay_save_upload_outbox: an envelope still there blocks; else its working file is dropped.
Replayed ==
    /\ proc[Client].pc = "replayed"
    /\ IF Staged THEN Quit(Client) /\ UNCHANGED disk
       ELSE /\ disk' = [disk EXCEPT !.work[proc[Client].src] = NoFile]
            /\ Set(Client, [Slot EXCEPT !.pc = "records", !.todo = disk.ptr, !.kind = proc[Client].kind])
    /\ UNCHANGED <<server, game, clock, faults, hist>>

\* The .pending records, in the order of the directory; one left behind blocks the launch.
Records ==
    /\ proc[Client].pc = "records"
    /\ LET r == proc[Client]
       IN  \/ /\ r.todo = {}
              /\ IF r.pending THEN Quit(Client) ELSE Goto(Client, "lock")
              /\ UNCHANGED disk
           \/ \E e \in r.todo :
                LET next == [r EXCEPT !.todo = @ \ {e}]
                IN  \/ /\ e.src \in disk.mark
                       /\ disk' = [disk EXCEPT !.work[e.src] = NoFile, !.ptr = @ \ {e}]
                       /\ Set(Client, next)
                    \/ /\ e.src \notin disk.mark /\ disk.work[e.src] = NoFile
                       /\ Set(Client, [next EXCEPT !.pending = TRUE])
                       /\ UNCHANGED disk
                    \/ /\ e.src \notin disk.mark /\ disk.work[e.src] # NoFile
                       /\ Set(Client, [next EXCEPT !.pc = "record", !.src = e.src,
                              !.entry = [NoEntry EXCEPT !.rev = e.rev, !.src = e.src,
                                                        !.body = disk.work[e.src]]])
                       /\ UNCHANGED disk
    /\ UNCHANGED <<server, game, clock, faults, hist>>

\* replay_save_upload_outbox_line: the record's own request id, and no fence.
Record ==
    /\ proc[Client].pc = "record"
    /\ Upload(Client, [game |-> 0, id |-> proc[Client].src, rev |-> proc[Client].entry.rev,
                       body |-> proc[Client].entry.body], "mark")
    /\ UNCHANGED <<disk, game, clock>>

\* complete_replayed_outbox_entry: the mark first, then both files.
Mark ==
    /\ proc[Client].pc = "mark"
    /\ LET r == proc[Client]
       IN  IF r.answer = 0
           THEN /\ Set(Client, [r EXCEPT !.pending = TRUE, !.pc = "records", !.src = 0,
                                          !.entry = NoEntry])
                /\ UNCHANGED disk
           ELSE \/ r.src \notin disk.mark
                   /\ disk' = [disk EXCEPT !.mark = @ \cup {r.src}]
                   /\ UNCHANGED proc
                \/ r.src \in disk.mark
                   /\ disk' = [disk EXCEPT !.work[r.src] = NoFile,
                                           !.ptr = {e \in @ : e.src # r.src}]
                   /\ Set(Client, [r EXCEPT !.pc = "records", !.src = 0, !.answer = 0,
                                             !.entry = NoEntry])
    /\ UNCHANGED <<server, game, clock, faults, hist>>

Started == {s \in Sessions : game[s].kind # "none"}

Busy == server.lock # 0 \/ Started = Sessions

\* The game lock; a mobile create persists its request before it asks.
Lock ==
    /\ proc[Client].pc = "lock"
    /\ proc[Client].kind = "mobile" => disk.create = 0
    /\ LET r == proc[Client]
           s == Cardinality(Started) + 1
       IN  \/ /\ Busy
              /\ Quit(Client)
              /\ UNCHANGED <<server, disk, game, faults>>
           \/ /\ ~Busy
              /\ server' = [server EXCEPT !.lock = s]
              /\ game' = [game EXCEPT ![s].kind = r.kind]
              /\ \/ /\ Set(Client, [r EXCEPT !.pc = "fetch", !.src = s])
                    /\ UNCHANGED <<disk, faults>>
                 \/ /\ Fault
                    /\ disk' = [disk EXCEPT !.create = IF r.kind = "mobile" THEN s ELSE @]
                    /\ Quit(Client)
    /\ UNCHANGED <<clock, hist>>

\* A create whose answer was lost is asked again under its id: the session, or ABORTED.
CreateAgain ==
    /\ proc[Client].pc = "lock"
    /\ proc[Client].kind = "mobile" /\ disk.create # 0
    /\ disk' = [disk EXCEPT !.create = 0]
    /\ IF server.lock = disk.create
       THEN Set(Client, [proc[Client] EXCEPT !.src = disk.create, !.pc = "fetch"])
       ELSE Quit(Client)
    /\ UNCHANGED <<server, game, clock, faults, hist>>

\* sync_slot_from_server looks at the outbox again; a launch that fails gives the lock back.
Fetch ==
    /\ proc[Client].pc = "fetch"
    /\ LET s == proc[Client].src
       IN  \/ /\ ~Staged /\ disk.ptr = {}
              /\ disk' = [disk EXCEPT !.work[s] = server.body]
              /\ hist' = [hist EXCEPT !.base[s] = server.body, !.newest[s] = server.body]
              /\ Set(Client, [proc[Client] EXCEPT !.rev = server.rev, !.last = server.body,
                                                  !.pc = "spawn"])
              /\ UNCHANGED <<server, faults>>
           \/ /\ \/ (Staged \/ disk.ptr # {}) /\ UNCHANGED faults
                 \/ Fault
              /\ server' = [server EXCEPT !.lock = IF @ = s THEN 0 ELSE @]
              /\ Quit(Client)
              /\ UNCHANGED <<disk, hist>>
    /\ UNCHANGED <<game, clock>>

\* Mutant of Spawn: the monitor does not inherit the revision of the download.
SpawnUnversioned ==
    /\ proc[Client].pc = "spawn"
    /\ LET r == proc[Client]
       IN  /\ proc' = [proc EXCEPT ![r.src] = [Slot EXCEPT !.pc = "poll", !.kind = r.kind,
                                                   !.last = r.last, !.src = r.src],
                                   ![Client] = [Slot EXCEPT !.pc = "idle"]]
           /\ game' = [game EXCEPT ![r.src].run = "on"]
    /\ UNCHANGED <<server, disk, clock, faults, hist>>

\* The monitor is forked with the slot, and forks the runtime.
Spawn ==
    /\ proc[Client].pc = "spawn"
    /\ LET r == proc[Client]
       IN  /\ proc' = [proc EXCEPT ![r.src] = [Slot EXCEPT !.pc = "poll", !.kind = r.kind,
                                                   !.rev = r.rev, !.last = r.last, !.src = r.src],
                                   ![Client] = [Slot EXCEPT !.pc = "idle"]]
           /\ game' = [game EXCEPT ![r.src].run = "on"]
    /\ UNCHANGED <<server, disk, clock, faults, hist>>

Launching(kind) == proc[Client].kind = kind
LaunchGb == Launching("gb") /\ (Lock \/ Fetch \/ Spawn)
LaunchN64 == Launching("n64") /\ (Lock \/ Fetch \/ Spawn)
LaunchMobile == Launching("mobile") /\ (Lock \/ CreateAgain \/ Fetch \/ Spawn)

\* The client process dies; as threads (Windows) its monitors die with it.
ClientDies ==
    /\ Fault
    /\ Monitored \/ proc[Client].pc # "idle"
    /\ \/ /\ proc' = [p \in Procs |-> IF p = Client THEN [Slot EXCEPT !.pc = "idle"]
                                       ELSE [proc[p] EXCEPT !.own = FALSE]]
          /\ UNCHANGED hist
       \/ /\ Monitored
          /\ proc' = [p \in Procs |-> [Slot EXCEPT !.pc = IF p = Client THEN "idle" ELSE "off"]]
          /\ hist' = [hist EXCEPT !.cut = @ \cup {s \in Sessions : proc[s].pc # "off"}]
    /\ UNCHANGED <<server, disk, game, clock>>

\* The machine goes down.
PowerLoss ==
    /\ Fault
    /\ Started # {}
    /\ proc' = [p \in Procs |-> [Slot EXCEPT !.pc = IF p = Client THEN "idle" ELSE "off"]]
    /\ game' = [s \in Sessions |-> [game[s] EXCEPT !.run = "off"]]
    /\ hist' = [hist EXCEPT !.cut = @ \cup {s \in Sessions : proc[s].pc # "off"}]
    /\ UNCHANGED <<server, disk, clock>>

Inflight(p) == Begin(p) \/ Snap(p) \/ Put(p) \/ Answer(p) \/ Compare(p)
Monitor(s) ==
    \/ Inflight(s) \/ Poll(s) \/ Beat(s) \/ EndedLost(s) \/ Ended(s) \/ Unstaged(s)
    \/ MobileAccepted(s) \/ MobileRejected(s) \/ StopGame(s) \/ RetryComplete(s)
Resolve == Inflight(Client) \/ Replayed \/ Records \/ Record \/ Mark
Launch == Resolve \/ LaunchGb \/ LaunchN64 \/ LaunchMobile
Start == StartGb \/ StartN64 \/ StartMobile

Next ==
    \/ \E s \in Sessions : Monitor(s) \/ Play(s) \/ Exit(s) \/ Expire(s)
    \/ Launch \/ Start
    \/ OtherDevice \/ ClientDies \/ PowerLoss

Spec == Init /\ [][Next]_vars

\* Processes keep running, games end, leases run out, and the player starts again.
Fairness ==
    /\ \A s \in Sessions : WF_vars(Monitor(s)) /\ WF_vars(Exit(s)) /\ WF_vars(Expire(s))
    /\ WF_vars(Launch)
    /\ WF_vars(Start)

FairSpec == Spec /\ Fairness

-----------------------------------------------------------------------------
TypeOK ==
    /\ server.rev \in Revisions /\ server.body \in 1..MaxSnapshot
    /\ server.lock \in {0} \cup Sessions
    /\ disk.work \in [Sessions -> 0..MaxSnapshot]
    /\ disk.env \in Entries /\ (Staged => disk.env.rev # 0)
    /\ \A e \in disk.ptr : e.src \in Sessions /\ e.rev \in Revisions
    /\ \A p \in Procs : proc[p].pc \in Steps /\ proc[p].entry \in Entries

\* A game that ended left its newest SAV with the server, or in its working file together
\* with a record that recovery will find (monitor_save_sync_process never removes the one
\* without the other).
Finished(s) == proc[s].pc = "off" /\ game[s].run = "off" /\ s \notin hist.cut
NewestIsKept ==
    \A s \in Sessions : Finished(s) /\ hist.newest[s] \notin hist.had /\ hist.base[s] # 0 =>
        /\ disk.work[s] = hist.newest[s]
        /\ disk.env.src = s \/ \E e \in disk.ptr : e.src = s

\* Whatever crash or lost answer came before, recovery can still send what it finds: the
\* server will take or has taken an open request, and the file to compare with is there.
\* Only another device can spoil that.
Acceptable(id, rev, body) ==
    rev = server.rev \/ [id |-> id, rev |-> rev, body |-> body] \in server.log
RecoveryCanSucceed ==
    hist.foreign \/
    /\ Staged =>
        /\ disk.work[disk.env.src] # NoFile
        /\ IF disk.env.committed = 0 THEN Acceptable(0, disk.env.rev, disk.env.body)
           ELSE disk.env.committed = server.rev
    /\ \A e \in disk.ptr : e.src \notin disk.mark =>
        disk.work[e.src] # NoFile /\ Acceptable(e.src, e.rev, disk.work[e.src])

\* A game is started from a SAV that holds everything played before on this device.
NextGameStartsFromTheLast ==
    [][\A s, t \in Sessions :
         hist.base[s] # hist'.base[s] /\ t # s /\ hist.base[t] # 0 /\ t \notin hist.cut
           => hist.newest[t] \in hist.had]_vars

\* What waits in the outbox is delivered: the player's next STARTs drain it.
OutboxDrains ==
    (Staged \/ disk.ptr # {}) ~>
        (~Staged /\ disk.ptr = {}) \/ hist.foreign

\* A recovery that read an envelope never puts that older snapshot, or an envelope the
\* monitor has already resolved, in the place of what the monitor wrote since
\* (client_save_outbox.c:177).
ReaderKeepsNewerEnvelope ==
    [][proc'[Client] # proc[Client] /\ disk'.env # disk.env /\ disk'.env # NoEntry
         => disk'.env.body >= hist.newest[disk'.env.src]]_vars

\* What was played is not lost by the monitor, the outbox and the recovery together: it is
\* with the server or recorded, and what is recorded can be sent.
NothingIsLost == TypeOK /\ NewestIsKept /\ RecoveryCanSucceed
=============================================================================
