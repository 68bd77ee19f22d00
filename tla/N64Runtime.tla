------------------------------ MODULE N64Runtime ------------------------------
(***************************************************************************)
(* One emulator process: how it starts step by step and takes everything   *)
(* down again, its three threads while the game runs, the screenshots and  *)
(* the stop the client asks for, and the Transfer Pak's SAVs.              *)
(*                                                                         *)
(* A local game plays on working copies of the SAVs and merges them back   *)
(* when it ends; a ROOM's Host gets both SAVs through a pipe, keeps them   *)
(* in memory and saves nothing.  The process may be killed at any step,    *)
(* and the same game started again over the files it left.                 *)
(***************************************************************************)
EXTENDS Integers, Sequences, FiniteSets

CONSTANTS
    Slots,      \* Transfer Pak slots in use, of 1 .. 4
    Carts,      \* what the slots hold: functions of the slots, see Staged
    MaxRuns     \* bound: starts of the process

ASSUME N64RuntimeAssumption ==
    /\ Slots \in SUBSET (1 .. 4)
    /\ Carts \subseteq [Slots -> {"none", "direct", "mbc3", "long"}]
    /\ MaxRuns \in Nat

VARIABLES
    opt,    \* the command line
    pc,     \* where run_frontend stands
    fe,     \* its Frontend: what cleanup has to undo
    emu,    \* the core while it executes
    thr,    \* the pause guard and the stop monitor
    req,    \* what others ask: a signal, the stop file, the screenshot word
    disk,   \* per slot the SAV and its working files
    run,    \* starts of the process
    out     \* the exit code; history: slots whose game was saved by the core

vars == <<opt, pc, fe, emu, thr, req, disk, run, out>>

\* What a file may hold beside a version: it is not there, or it is not valid.
Nothing == -1
Bad == -2

Frontend == [fd |-> FALSE, mem |-> <<>>, lib |-> FALSE, core |-> FALSE, media |-> FALSE,
             ready |-> {}, paks |-> {}, rom |-> FALSE,
             open |-> {}, started |-> {}, attached |-> {}, remote |-> FALSE,
             shot |-> FALSE, stop |-> FALSE]

Stopped == [state |-> "stopped", stop |-> FALSE, shot |-> FALSE, error |-> FALSE]

NoThreads == [guard |-> FALSE, monitor |-> FALSE, seen |-> FALSE, sent |-> FALSE, busy |-> FALSE]

Options == [fd : BOOLEAN, session : BOOLEAN, media : BOOLEAN, storage : BOOLEAN,
            interactive : BOOLEAN, stopFile : BOOLEAN]

Init ==
    /\ opt \in Options
    /\ pc = "main"
    /\ fe = Frontend
    /\ emu = Stopped
    /\ thr = NoThreads
    /\ req = [signal |-> FALSE, file |-> "none", shot |-> "idle"]
    /\ \E cart \in Carts, tail \in {Nothing, Bad, 0} :
           disk = [s \in Slots |-> [cart |-> cart[s], torn |-> FALSE, ram |-> 0,
                                   tail |-> IF cart[s] = "mbc3" THEN tail ELSE 0,
                                   work |-> Nothing, rtc |-> Nothing]]
    /\ run = 1
    /\ out = [code |-> 0, wrote |-> {}]

-----------------------------------------------------------------------------
\* The SAVs a ROOM's Host is given: a preamble with the session's hash, then
\* for each of the two ports a header and the SAV itself, then the end.

Pair == <<"sav1", "sav2">>

transfer_sav_send(session, pair) ==
    <<session, [port |-> 1, hash |-> pair[1]], pair[1], [port |-> 2, hash |-> pair[2]], pair[2]>>

\* What arrives: all of it, less when the client ended, more, another session's,
\* the ports in the wrong order, a SAV damaged.
Pipes ==
    LET sent == transfer_sav_send("mine", Pair) IN
    {SubSeq(sent, 1, n) : n \in 0 .. Len(sent)}
    \cup {Append(sent, "more"), transfer_sav_send("other", Pair),
          <<sent[1], sent[4], sent[5], sent[2], sent[3]>>, [sent EXCEPT ![3] = "damaged"]}

transfer_sav_receive(session, pipe) ==
    LET whole == /\ Len(pipe) = 5
                 /\ pipe[1] = session
                 /\ \A i \in 1 .. 2 : /\ pipe[2 * i].port = i
                                      /\ pipe[2 * i].hash = pipe[2 * i + 1]
    IN IF whole THEN <<pipe[3], pipe[5]>> ELSE <<>>

-----------------------------------------------------------------------------
\* A slot's SAV: the cartridge's RAM, and what follows it in the file.  The
\* version is the start whose game wrote it.

HasTail(f) == f.tail # Nothing

\* A SAV the core can use as it is needs no working copy; one that is longer
\* than the RAM does, and so does a clock's without its trailer.
Staged(f) == f.cart \in {"mbc3", "long"}

gb_has_mbc3_rtc(f) == f.cart = "mbc3"

rtc_trailer_valid(tail) == tail \notin {Nothing, Bad}

repair_mbc3_rtc_if_needed(tail, now) == IF rtc_trailer_valid(tail) THEN tail ELSE now

\* The trailer the core starts from: the file's, or a new one when the clock's
\* cartridge has none or an invalid one.
TrailerFor(f, now) ==
    CASE ~gb_has_mbc3_rtc(f) -> Nothing
      [] f.tail = Nothing -> now
      [] OTHER -> repair_mbc3_rtc_if_needed(f.tail, now)

transfer_pak_save_stage_prepare(f, now) ==
    IF Staged(f) THEN [f EXCEPT !.work = f.ram, !.rtc = TrailerFor(f, now)] ELSE f

transfer_pak_save_stage_discard(f) == [f EXCEPT !.work = Nothing, !.rtc = Nothing]

transfer_pak_media_session_discard(d, ready) ==
    [s \in Slots |-> IF s \in ready THEN transfer_pak_save_stage_discard(d[s]) ELSE d[s]]

\* The merge is refused when the working copy is missing or too short, or there
\* is no trailer to put behind it.
CanMerge(f) ==
    /\ f.work \notin {Nothing, Bad}
    /\ f.rtc # Nothing \/ HasTail(f)

\* Mutant of Merged: the SAV is written over in place.
MergedInPlace(f) == [f EXCEPT !.torn = TRUE]

\* The merge goes to a file of its own; the SAV is not touched.
Merged(f) == f

transfer_pak_storage_replace(f) ==
    [f EXCEPT !.ram = f.work, !.tail = IF f.rtc # Nothing THEN f.rtc ELSE f.tail,
              !.torn = FALSE]

-----------------------------------------------------------------------------
\* Starting.  Each step may fail with the exit code of its own, and whatever
\* was done until then is left to cleanup.

parse_options(o) ==
    \/ ~o.fd /\ ~o.session /\ ~o.media
    \/ o.fd /\ o.session /\ o.storage /\ o.media

Code == [memory |-> 5, sdl |-> 14, load_core |-> 2, startup |-> 3, core_settings |-> 4,
         hotkeys |-> 4, transfer |-> 5, read_rom |-> 5, rom_open |-> 6, plugins |-> 7,
         controllers |-> 8, paks |-> 8, attach |-> 8, callback |-> 9, loader |-> 10,
         remote |-> 15, guard |-> 16, monitor |-> 17]

After == [memory |-> "sdl", sdl |-> "load_core", load_core |-> "startup",
          startup |-> "core_settings", core_settings |-> "hotkeys", hotkeys |-> "transfer",
          transfer |-> "read_rom", read_rom |-> "rom_open", rom_open |-> "plugins",
          plugins |-> "controllers", controllers |-> "paks", paks |-> "attach", attach |-> "callback", callback |-> "loader",
          loader |-> "remote", remote |-> "guard", guard |-> "monitor",
          monitor |-> "execute"]

\* Steps that do nothing without their option.
Wanted(step) ==
    CASE step = "memory" -> opt.fd
      [] step \in {"transfer", "paks"} -> opt.storage
      [] step = "remote" -> opt.media
      [] step = "guard" -> fe.remote
      [] step = "monitor" -> opt.stopFile
      [] OTHER -> TRUE

Plugins == 0 .. 3

\* A plugin may be refused before its library is open, after that, or by its
\* own start; the audio plugin may be none at all.
load_plugin(f, p, how) ==
    CASE how = "missing" -> f
      [] how = "refused" -> [f EXCEPT !.open = @ \cup {p}]
      [] OTHER -> [f EXCEPT !.open = @ \cup {p}, !.started = @ \cup {p}]

Main ==
    /\ pc = "main"
    /\ IF parse_options(opt)
       THEN pc' = "memory" /\ fe' = [fe EXCEPT !.fd = opt.fd] /\ UNCHANGED out
       ELSE pc' = "exited" /\ out' = [out EXCEPT !.code = 1] /\ UNCHANGED fe
    /\ UNCHANGED <<opt, emu, thr, req, disk, run>>

Skip ==
    /\ pc \in DOMAIN Code
    /\ ~Wanted(pc)
    /\ pc' = After[pc]
    /\ UNCHANGED <<opt, fe, emu, thr, req, disk, run, out>>

Refuse == pc' = "cleanup" /\ out' = [out EXCEPT !.code = Code[pc]]

\* A step that may fail, and then leaves nothing behind.
Try(step) ==
    /\ pc = step
    /\ \/ pc' = After[pc] /\ UNCHANGED out
       \/ Refuse
    /\ UNCHANGED <<opt, fe, emu, thr, req, disk, run>>

SdlInit == Try("sdl")
configure_core == Try("core_settings")
configure_emulator_hotkeys == Try("hotkeys")
read_rom == Try("read_rom")
configure_controllers == Try("controllers")
SetFrameCallback == Try("callback")
SetMediaLoader == Try("loader")

transfer_pak_media_session_ready(s) == s \in fe.ready

\* A Transfer Pak is plugged into the ports whose SAV is ready.
configure_transfer_paks ==
    /\ pc = "paks" /\ Wanted(pc)
    /\ \/ pc' = After[pc] /\ fe' = [fe EXCEPT !.paks = {s \in Slots : transfer_pak_media_session_ready(s)}]
          /\ UNCHANGED out
       \/ Refuse /\ UNCHANGED fe
    /\ UNCHANGED <<opt, emu, thr, req, disk, run>>

transfer_pak_memory_prepare ==
    /\ pc = "memory" /\ Wanted(pc)
    /\ \E pipe \in Pipes :
           LET pair == transfer_sav_receive("mine", pipe) IN
           \/ /\ pair # <<>>
              /\ fe' = [fe EXCEPT !.fd = FALSE, !.mem = pair, !.ready = Slots \cap 1 .. 2]
              /\ pc' = After[pc]
              /\ UNCHANGED out
           \/ \* the pair, the storage or a ROM refused
              /\ fe' = [fe EXCEPT !.fd = FALSE]
              /\ Refuse
    /\ UNCHANGED <<opt, emu, thr, req, disk, run>>

load_core ==
    /\ pc = "load_core"
    /\ \/ pc' = After[pc] /\ fe' = [fe EXCEPT !.lib = TRUE] /\ UNCHANGED out
       \/ Refuse /\ \E open \in BOOLEAN : fe' = [fe EXCEPT !.lib = open]
    /\ UNCHANGED <<opt, emu, thr, req, disk, run>>

CoreStartup ==
    /\ pc = "startup"
    /\ \/ pc' = After[pc] /\ fe' = [fe EXCEPT !.core = TRUE] /\ UNCHANGED out
       \/ Refuse /\ UNCHANGED fe
    /\ UNCHANGED <<opt, emu, thr, req, disk, run>>

\* In memory the core only needs to know where the SAVs are.
InstallMemory ==
    /\ pc = "transfer" /\ opt.session
    /\ \/ pc' = After[pc] /\ UNCHANGED out
       \/ Refuse
    /\ UNCHANGED <<opt, fe, emu, thr, req, disk, run>>

\* Slot by slot, and one failure takes all of them back.  A slot without a ROM
\* or a SAV stays empty.
transfer_pak_media_session_prepare ==
    /\ pc = "transfer" /\ Wanted(pc) /\ ~opt.session
    /\ LET present == {s \in Slots : disk[s].cart # "none"} IN
       \/ /\ disk' = [s \in Slots |-> transfer_pak_save_stage_prepare(disk[s], run)]
          /\ fe' = [fe EXCEPT !.media = TRUE, !.ready = present]
          /\ pc' = After[pc]
          /\ UNCHANGED out
       \/ /\ \E s \in present :
                 disk' = transfer_pak_media_session_discard(disk, {r \in present : r =< s})
          /\ Refuse
          /\ UNCHANGED fe
    /\ UNCHANGED <<opt, emu, thr, req, run>>

RomOpen ==
    /\ pc = "rom_open"
    /\ \/ pc' = After[pc] /\ fe' = [fe EXCEPT !.rom = TRUE] /\ UNCHANGED out
       \/ Refuse /\ UNCHANGED fe
    /\ UNCHANGED <<opt, emu, thr, req, disk, run>>

LoadPlugins ==
    /\ pc = "plugins"
    /\ LET p == Cardinality(fe.started) IN
       \/ /\ fe' = load_plugin(fe, p, "started")
          /\ pc' = IF p = 3 THEN After[pc] ELSE pc
          /\ UNCHANGED out
       \/ /\ \E how \in {"missing", "refused"} : fe' = load_plugin(fe, p, how)
          /\ Refuse
    /\ UNCHANGED <<opt, emu, thr, req, disk, run>>

AttachPlugins ==
    /\ pc = "attach"
    /\ LET p == Cardinality(fe.attached) IN
       \/ /\ fe' = [fe EXCEPT !.attached = @ \cup {p}]
          /\ pc' = IF p = 3 THEN After[pc] ELSE pc
          /\ UNCHANGED out
       \/ Refuse /\ UNCHANGED fe
    /\ UNCHANGED <<opt, emu, thr, req, disk, run>>

\* The shared file is made anew, so no older request is in it.
integral_n64_runtime_remote_media_open_writer ==
    /\ pc = "remote" /\ Wanted(pc)
    /\ \/ /\ pc' = After[pc] /\ fe' = [fe EXCEPT !.remote = TRUE]
          /\ req' = [req EXCEPT !.shot = "idle"]
          /\ UNCHANGED out
       \/ Refuse /\ UNCHANGED <<fe, req>>
    /\ UNCHANGED <<opt, emu, thr, disk, run>>

StartGuard ==
    /\ pc = "guard" /\ Wanted(pc)
    /\ \/ pc' = After[pc] /\ thr' = [thr EXCEPT !.guard = TRUE] /\ UNCHANGED out
       \/ Refuse /\ UNCHANGED thr
    /\ UNCHANGED <<opt, fe, emu, req, disk, run>>

\* Mutant of NoMonitor: the guard is left running.
NoMonitorOnly(t) == t

\* Without its monitor the run is given up, and the guard is stopped first.
NoMonitor(t) == [t EXCEPT !.guard = FALSE]

StartMonitor ==
    /\ pc = "monitor" /\ Wanted(pc)
    /\ \/ pc' = After[pc] /\ thr' = [thr EXCEPT !.monitor = TRUE] /\ UNCHANGED out
       \/ Refuse /\ thr' = NoMonitor(thr)
    /\ UNCHANGED <<opt, fe, emu, req, disk, run>>

-----------------------------------------------------------------------------
\* The core while it executes.  Its commands answer at once; the states it
\* reports reach the frontend in its own thread.

Executing == pc = "execute"

CoreRuns ==
    /\ Executing /\ emu.state = "stopped" /\ ~emu.stop
    /\ emu' = [emu EXCEPT !.state = "running"]
    /\ UNCHANGED <<opt, pc, fe, thr, req, disk, run, out>>

\* The player pauses and resumes with a hotkey, or takes a picture.
Hotkey ==
    /\ Executing /\ ~emu.stop
    /\ \/ emu.state = "running" /\ emu' = [emu EXCEPT !.state = "paused"]
       \/ emu.state = "paused" /\ emu' = [emu EXCEPT !.state = "running"]
       \/ emu.state = "running" /\ emu' = [emu EXCEPT !.shot = TRUE]
    /\ UNCHANGED <<opt, pc, fe, thr, req, disk, run, out>>

\* The game saves; the core writes the file it was given, or cannot.
GameSaves(s) ==
    /\ Executing /\ emu.state = "running"
    /\ s \in fe.paks /\ fe.mem = <<>>
    /\ \/ /\ disk' = [disk EXCEPT ![s] = IF Staged(@) THEN [@ EXCEPT !.work = run]
                                         ELSE [@ EXCEPT !.ram = run]]
          /\ out' = [out EXCEPT !.wrote = @ \cup {s}]
       \/ /\ Staged(disk[s]) /\ disk' = [disk EXCEPT ![s].work = Bad]
          /\ out' = [out EXCEPT !.wrote = @ \cup {s}]
    /\ UNCHANGED <<opt, pc, fe, emu, thr, req, run>>

\* The game's clock goes on and its trailer is written again.
ClockSaves(s) ==
    /\ Executing /\ emu.state = "running"
    /\ s \in fe.paks /\ fe.mem = <<>> /\ disk[s].rtc # Nothing
    /\ disk' = [disk EXCEPT ![s].rtc = run]
    /\ UNCHANGED <<opt, pc, fe, emu, thr, req, run, out>>

finish_screenshot(r, saved) ==
    IF r.shot = "capturing" THEN [r EXCEPT !.shot = IF saved THEN "saved" ELSE "failed"] ELSE r

\* The picture is taken with the next frame; whoever asked for it, the answer
\* goes to the request that is being served.
state_callback ==
    /\ Executing /\ emu.state = "running" /\ emu.shot
    /\ emu' = [emu EXCEPT !.shot = FALSE]
    /\ \E saved \in BOOLEAN : req' = IF fe.remote THEN finish_screenshot(req, saved) ELSE req
    /\ UNCHANGED <<opt, pc, fe, thr, disk, run, out>>

\* Mutant of TakeRequest: a command the core refuses is not reported.
TakeRequestOnly(r, taken) == [r EXCEPT !.shot = "capturing"]

\* The client's request is taken and the core told; its refusal is an answer.
TakeRequest(r, taken) ==
    LET capturing == [r EXCEPT !.shot = "capturing"] IN
    IF taken THEN capturing ELSE finish_screenshot(capturing, FALSE)

\* With every frame: the client's request, the signal that stops the game, and
\* for a run that is not interactive the picture it was started for, then its
\* end.  `taken' and `stopped' are the core's answers to the two commands.
frame_callback ==
    /\ Executing /\ emu.state = "running"
    /\ \E taken, stopped \in BOOLEAN :
           LET asked == fe.remote /\ req.shot = "requested"
               signal == req.signal /\ ~fe.stop
               smoke == ~signal /\ ~opt.interactive
               picture == smoke /\ ~fe.shot
               last == smoke /\ fe.shot /\ ~fe.stop
           IN /\ req' = IF asked THEN TakeRequest(req, taken) ELSE req
              /\ emu' = [emu EXCEPT
                    !.shot = @ \/ ((asked \/ picture) /\ taken),
                    !.stop = @ \/ ((signal \/ last \/ (picture /\ ~taken)) /\ stopped)]
              /\ fe' = [fe EXCEPT
                    !.shot = @ \/ (picture /\ taken),
                    !.stop = @ \/ ((signal \/ last) /\ stopped) \/ (picture /\ ~taken)]
    /\ UNCHANGED <<opt, pc, thr, disk, run, out>>

\* The game ends because it was told to, by itself, or with an error.
CoreEnds(error) ==
    /\ Executing
    /\ pc' = "joinMonitor"
    /\ emu' = [Stopped EXCEPT !.error = error]
    /\ UNCHANGED <<opt, fe, thr, req, disk, run, out>>

-----------------------------------------------------------------------------
\* The threads beside it.

\* A ROOM's game must not stand still: the guard looks every 100 ms.
remote_media_guard_main ==
    /\ thr.guard /\ Executing /\ emu.state = "paused"
    /\ emu' = [emu EXCEPT !.state = "running"]
    /\ UNCHANGED <<opt, pc, fe, thr, req, disk, run, out>>

stop_request_file_is_valid == req.file = "valid"

MonitorSees ==
    /\ thr.monitor /\ Executing /\ ~thr.seen
    /\ stop_request_file_is_valid
    /\ thr' = [thr EXCEPT !.seen = TRUE]
    /\ UNCHANGED <<opt, pc, fe, emu, req, disk, run, out>>

\* Mutant of StopRefused: the stop counts as sent.
StopRefusedOnce(t) == [t EXCEPT !.busy = TRUE]

StopRefused(t) == [t EXCEPT !.busy = FALSE]

\* The request waits until there is a game to stop, and is sent again when the
\* core refuses it.
stop_request_monitor_main(stopped) ==
    /\ thr.monitor /\ Executing /\ thr.seen /\ ~thr.sent
    /\ emu.state \in {"running", "paused"} /\ ~thr.busy
    /\ thr' = IF stopped THEN [thr EXCEPT !.busy = TRUE, !.sent = TRUE] ELSE StopRefused(thr)
    /\ emu' = [emu EXCEPT !.stop = @ \/ stopped]
    /\ UNCHANGED <<opt, pc, fe, req, disk, run, out>>

-----------------------------------------------------------------------------
\* After the game.

JoinMonitor ==
    /\ pc = "joinMonitor"
    /\ thr' = [thr EXCEPT !.monitor = FALSE]
    /\ fe' = [fe EXCEPT !.stop = @ \/ thr.sent]
    /\ pc' = "joinGuard"
    /\ UNCHANGED <<opt, emu, req, disk, run, out>>

JoinGuard ==
    /\ pc = "joinGuard"
    /\ thr' = [thr EXCEPT !.guard = FALSE]
    /\ pc' = IF fe.media THEN "finalize" ELSE "report"
    /\ UNCHANGED <<opt, fe, emu, req, disk, run, out>>

Slot == CHOOSE s \in fe.ready : \A r \in fe.ready : s =< r

SlotDone(code) ==
    /\ pc' = "finalize"
    /\ fe' = [fe EXCEPT !.ready = @ \ {Slot}]
    /\ out' = [out EXCEPT !.code = code]

\* One slot's failure is the session's, and the other slots are merged all the same.
MergeFailed(code) == 13

\* Mutant of MergeDone: a slot that is merged clears the failure of another.
MergeDoneLast(code) == 0

MergeDone(code) == code

\* A slot that needs no merge is done; another's working copy is written to a
\* file beside the SAV, which then takes its place.
FinalizeSlot ==
    /\ pc = "finalize" /\ fe.ready # {}
    /\ LET f == disk[Slot] IN
       IF ~Staged(f) THEN SlotDone(MergeDone(out.code)) /\ UNCHANGED disk
       ELSE \/ /\ CanMerge(f)
               /\ disk' = [disk EXCEPT ![Slot] = Merged(f)]
               /\ pc' = "replace"
               /\ UNCHANGED <<fe, out>>
            \/ SlotDone(MergeFailed(out.code)) /\ UNCHANGED disk
    /\ UNCHANGED <<opt, emu, thr, req, run>>

ReplaceSlot ==
    /\ pc = "replace"
    /\ \/ /\ disk' = [disk EXCEPT ![Slot] = transfer_pak_storage_replace(@)]
          /\ pc' = "discard"
          /\ UNCHANGED <<fe, out>>
       \/ SlotDone(MergeFailed(out.code)) /\ UNCHANGED disk
    /\ UNCHANGED <<opt, emu, thr, req, run>>

DiscardSlot ==
    /\ pc = "discard"
    /\ disk' = [disk EXCEPT ![Slot] = transfer_pak_save_stage_discard(@)]
    /\ SlotDone(MergeDone(out.code))
    /\ UNCHANGED <<opt, emu, thr, req, run>>

transfer_pak_media_session_finalize ==
    /\ pc = "finalize" /\ fe.ready = {}
    /\ IF out.code = 13
       THEN pc' = "cleanup" /\ UNCHANGED fe
       ELSE pc' = "report" /\ fe' = [fe EXCEPT !.media = FALSE]
    /\ UNCHANGED <<opt, emu, thr, req, disk, run, out>>

Report ==
    /\ pc = "report"
    /\ pc' = "cleanup"
    /\ out' = [out EXCEPT !.code =
                  IF emu.error THEN 11
                  ELSE IF ~opt.interactive /\ (~fe.shot \/ ~fe.stop) THEN 12
                  ELSE 0]
    /\ UNCHANGED <<opt, fe, emu, thr, req, disk, run>>

\* Everything is taken down in the opposite order, the core after all that
\* uses it; working copies that were not merged are removed.
cleanup ==
    /\ pc = "cleanup"
    /\ \/ fe.attached # {} /\ fe' = [fe EXCEPT !.attached = {}] /\ UNCHANGED <<pc, disk>>
       \/ /\ fe.attached = {} /\ fe.open # {}
          /\ fe' = [fe EXCEPT !.started = {}, !.open = {}]
          /\ UNCHANGED <<pc, disk>>
       \/ /\ fe.open = {} /\ fe.rom
          /\ fe' = [fe EXCEPT !.rom = FALSE]
          /\ UNCHANGED <<pc, disk>>
       \/ /\ fe.open = {} /\ ~fe.rom /\ fe.media
          /\ disk' = transfer_pak_media_session_discard(disk, Slots)
          /\ fe' = [fe EXCEPT !.media = FALSE, !.ready = {}]
          /\ UNCHANGED pc
       \/ /\ fe.open = {} /\ ~fe.rom /\ ~fe.media
          /\ fe' = Frontend
          /\ pc' = "exited"
          /\ UNCHANGED disk
    /\ UNCHANGED <<opt, emu, thr, req, run, out>>

-----------------------------------------------------------------------------
\* Everybody else.

Alive == pc \notin {"exited", "killed"}

Signal ==
    /\ Alive /\ ~req.signal
    /\ req' = [req EXCEPT !.signal = TRUE]
    /\ UNCHANGED <<opt, pc, fe, emu, thr, disk, run, out>>

\* The client asks for the end in a file, which is there before it is whole.
AskToStop ==
    /\ Alive /\ opt.stopFile
    /\ \/ req.file = "none" /\ req' = [req EXCEPT !.file = "partial"]
       \/ req.file = "partial" /\ req' = [req EXCEPT !.file = "valid"]
    /\ UNCHANGED <<opt, pc, fe, emu, thr, disk, run, out>>

integral_n64_runtime_remote_media_request_screenshot ==
    /\ fe.remote /\ req.shot = "idle"
    /\ req' = [req EXCEPT !.shot = "requested"]
    /\ UNCHANGED <<opt, pc, fe, emu, thr, disk, run, out>>

integral_n64_runtime_remote_media_screenshot_result ==
    /\ fe.remote /\ req.shot \in {"saved", "failed"}
    /\ req' = [req EXCEPT !.shot = "idle"]
    /\ UNCHANGED <<opt, pc, fe, emu, thr, disk, run, out>>

Kill ==
    /\ Alive /\ pc # "main"
    /\ pc' = "killed"
    /\ fe' = Frontend
    /\ emu' = Stopped
    /\ thr' = NoThreads
    /\ UNCHANGED <<opt, req, disk, run, out>>

Restart ==
    /\ ~Alive /\ run < MaxRuns
    /\ pc' = "main"
    /\ run' = run + 1
    /\ thr' = NoThreads
    /\ emu' = Stopped
    /\ req' = [signal |-> FALSE, file |-> "none", shot |-> "idle"]
    /\ out' = [code |-> 0, wrote |-> {}]
    /\ UNCHANGED <<opt, fe, disk>>

Startup ==
    \/ Main \/ Skip \/ transfer_pak_memory_prepare \/ SdlInit \/ load_core \/ CoreStartup
    \/ configure_core \/ configure_emulator_hotkeys
    \/ InstallMemory \/ transfer_pak_media_session_prepare \/ read_rom \/ RomOpen
    \/ LoadPlugins \/ configure_controllers \/ configure_transfer_paks \/ AttachPlugins
    \/ SetFrameCallback \/ SetMediaLoader
    \/ integral_n64_runtime_remote_media_open_writer
    \/ StartGuard \/ StartMonitor

Ending ==
    \/ JoinMonitor \/ JoinGuard \/ FinalizeSlot \/ ReplaceSlot \/ DiscardSlot
    \/ transfer_pak_media_session_finalize \/ Report \/ cleanup

Next ==
    \/ Startup \/ Ending
    \/ CoreRuns \/ Hotkey \/ state_callback \/ frame_callback
    \/ \E s \in Slots : GameSaves(s) \/ ClockSaves(s)
    \/ \E b \in BOOLEAN : CoreEnds(b) \/ stop_request_monitor_main(b)
    \/ remote_media_guard_main \/ MonitorSees
    \/ Signal \/ AskToStop
    \/ integral_n64_runtime_remote_media_request_screenshot
    \/ integral_n64_runtime_remote_media_screenshot_result
    \/ Kill \/ Restart

\* The threads run, the core runs a game it was given, ends it when it took the
\* command, does not refuse to stop for ever, and shows frames whenever it is
\* not paused for ever.
Fairness ==
    /\ WF_vars(CoreRuns)
    /\ WF_vars(emu.stop /\ CoreEnds(FALSE))
    /\ WF_vars(MonitorSees)
    /\ WF_vars(stop_request_monitor_main(TRUE))
    /\ WF_vars(remote_media_guard_main)
    /\ SF_vars(frame_callback)
    /\ SF_vars(state_callback)

Spec == Init /\ [][Next]_vars /\ Fairness

-----------------------------------------------------------------------------
\* A SAV that is merged is always a whole one, the old or the new, wherever the
\* process is killed; and a ROOM's game has both SAVs it was sent or none.
\* save_stage.c merges into a file of its own and renames it;
\* transfer_sav_receive checks every part and the end.
SavIsWhole ==
    /\ \A s \in Slots : ~disk[s].torn
    /\ fe.mem \in {<<>>, Pair}

\* An exit code 0 means that what the game saved is in the SAVs: for the process
\* that started it, which reports the game as finished, there is nothing to
\* lose.  A failed merge of one slot is not hidden by the next slot's success.
ZeroMeansSaved ==
    pc = "exited" /\ out.code = 0 => \A s \in out.wrote : disk[s].ram = run

\* Nothing that uses the core outlives it: while a plugin is started or
\* attached, a ROM open or a thread beside it running, the core is up.  Every
\* way run_frontend gives up leaves cleanup a state it can take down.
CoreOutlivesItsUsers ==
    /\ fe.attached # {} \/ fe.started # {} \/ fe.rom => fe.core
    /\ thr.guard \/ thr.monitor => fe.core

\* A game the client asks to stop ends, also when the file was there before the
\* game ran, when the game is paused and when the core refused the first
\* command; a screenshot the client asks for is answered while the game runs.
StopIsObeyed == (Executing /\ thr.monitor /\ req.file = "valid") ~> ~Executing

ShotIsAnswered == (Executing /\ req.shot = "requested") ~>
                      (req.shot \in {"saved", "failed"} \/ ~Executing)

\* What the runtime leaves on the disk is what its exit code says, and never half of it.
ExitIsTrue == SavIsWhole /\ ZeroMeansSaved

\* What the client asks of a game that runs is done in the end: to stop, or a picture.
ClientIsObeyed == StopIsObeyed /\ ShotIsAnswered
=============================================================================
