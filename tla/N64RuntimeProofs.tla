-------------------------- MODULE N64RuntimeProofs --------------------------
(***************************************************************************)
(* Proofs about N64Runtime, for any slots, cartridges and number of        *)
(* starts: nothing that uses the core outlives it, whichever step of the   *)
(* start fails and wherever the process is killed; a SAV is never left     *)
(* half merged; and an exit code 0 means that what the game saved is in    *)
(* the SAVs.                                                               *)
(***************************************************************************)
EXTENDS N64Runtime, FiniteSetTheorems, TLAPS

\* The steps of a run, in the order it takes them.
Early == {"main", "memory", "sdl", "load_core", "startup"}
Starting == {"core_settings", "hotkeys", "transfer", "read_rom", "rom_open", "plugins",
             "controllers", "paks", "attach", "callback", "loader", "remote", "guard", "monitor"}
Playing == {"execute", "joinMonitor", "joinGuard"}
Merging == {"finalize", "replace", "discard"}
Over == {"exited", "killed"}
Unplugged == Early \cup {"core_settings", "hotkeys", "transfer"}
Stages == Early \cup Starting \cup Playing \cup Merging \cup {"report", "cleanup"} \cup Over

Carries == [cart : {"none", "direct", "mbc3", "long"}, torn : BOOLEAN, ram : Int, tail : Int,
            work : Int, rtc : Int]

Frontends == [fd : BOOLEAN, mem : {<<>>, Pair}, lib : BOOLEAN, core : BOOLEAN, media : BOOLEAN,
              ready : SUBSET Slots, paks : SUBSET Slots, rom : BOOLEAN,
              open : SUBSET Nat, started : SUBSET Nat, attached : SUBSET Nat, remote : BOOLEAN,
              shot : BOOLEAN, stop : BOOLEAN]

Requests == [signal : BOOLEAN, file : {"none", "partial", "valid"},
             shot : {"idle", "requested", "capturing", "saved", "failed"}]

Threads == [guard : BOOLEAN, monitor : BOOLEAN, seen : BOOLEAN, sent : BOOLEAN, busy : BOOLEAN]

Typed ==
    /\ opt \in Options
    /\ pc \in Stages
    /\ fe \in Frontends /\ IsFiniteSet(fe.started) /\ IsFiniteSet(fe.attached)
    /\ thr \in Threads
    /\ req \in Requests
    /\ disk \in [Slots -> Carries]
    /\ run \in Nat
    /\ out \in [code : Nat, wrote : SUBSET Slots]

\* Nothing of the frontend is there before it starts and after it is over.
Fresh == pc \in Over \cup {"main"} => fe = Frontend

Tidy == fe.attached = {} /\ fe.started = {} /\ ~fe.rom

\* The core is up from its start until cleanup, and before and after nothing uses it.
CoreHolds ==
    /\ fe.started \subseteq fe.open
    /\ pc \in Early => Tidy /\ ~fe.media /\ ~fe.core
    /\ pc \in Starting \cup Playing \cup Merging \cup {"report"} => fe.core
    /\ pc = "cleanup" /\ ~fe.core => Tidy

\* The guard and the monitor run beside the game only.
ThreadsEnd ==
    /\ pc \notin Playing => ~thr.monitor
    /\ pc \notin Playing \cup {"monitor"} => ~thr.guard
    /\ pc = "joinGuard" => ~thr.monitor

\* A slot that is ready has its SAV in memory or in a working copy, and Transfer Paks are
\* plugged into ports whose SAV is ready.
PaksReady ==
    /\ pc \in Unplugged => fe.paks = {}
    /\ pc \in Early \cup Starting \cup Playing => fe.paks \subseteq fe.ready
    /\ pc \in Early \cup Starting \cup Playing /\ fe.ready # {} => fe.media \/ fe.mem # <<>>

\* What the core was given to save is in the SAV or in the working copy until the merge.
Saved(s) == disk[s].ram = run
Kept(s) == IF Staged(disk[s]) THEN disk[s].work \in {run, Bad} ELSE Saved(s)

WroteIsKept ==
    /\ fe.mem # <<>> => out.wrote = {}
    /\ pc \in Early \cup Starting => out.wrote = {}
    /\ pc \in Early \cup Starting \cup Playing => out.code = 0
    /\ pc \in Playing /\ out.wrote # {} => fe.media
    /\ pc \in Playing => out.wrote \subseteq fe.ready /\ \A s \in out.wrote : Kept(s)

WroteIsMerged ==
    /\ pc \in Merging => out.code \in {0, 13} /\ \A s \in out.wrote \cap fe.ready : Kept(s)
    /\ pc \in Merging /\ out.code = 0 => \A s \in out.wrote \ fe.ready : Saved(s)
    /\ pc \in {"replace", "discard"} => fe.ready # {} /\ Staged(disk[Slot])
    /\ pc = "replace" => CanMerge(disk[Slot])
    /\ pc = "discard" /\ Slot \in out.wrote => Saved(Slot)
    /\ pc = "report" => \A s \in out.wrote : Saved(s)
    /\ pc \in {"cleanup", "exited"} /\ out.code = 0 => \A s \in out.wrote : Saved(s)

NothingTorn == \A s \in Slots : ~disk[s].torn

\* The inductive invariant.
Inv ==
    /\ Typed
    /\ Fresh
    /\ CoreHolds
    /\ ThreadsEnd
    /\ PaksReady
    /\ WroteIsKept
    /\ WroteIsMerged
    /\ NothingTorn
-----------------------------------------------------------------------------
(* Facts about the steps, the slots and the pipe. *)

\* The steps follow each other in the order of run_frontend, and each has an exit code.
LEMMA StepOrder ==
    /\ DOMAIN Code = (Early \ {"main"}) \cup Starting
    /\ \A step \in DOMAIN Code :
          /\ Code[step] \in Nat /\ Code[step] # 0
          /\ After[step] \in (Early \ {"main"}) \cup Starting \cup {"execute"}
    /\ \A step \in Early \ {"main", "startup"} : step \in DOMAIN Code /\ After[step] \in Early \ {"main"}
    /\ After["startup"] = "core_settings"
    /\ \A step \in Starting \ {"monitor"} : After[step] \in Starting
    /\ After["guard"] = "monitor"
    /\ \A step \in Starting \ {"guard", "monitor"} : After[step] # "monitor"
    /\ After["monitor"] = "execute"
    /\ \A step \in DOMAIN Code : After[step] \in Unplugged => step \in Unplugged
BY DEF Code, After, Early, Starting, Unplugged

\* The least slot that is ready is one of them.
LEMMA LeastSlot ==
    ASSUME fe.ready \subseteq Slots, fe.ready # {}
    PROVE  Slot \in fe.ready
<1>1. fe.ready \subseteq 1 .. 4
  BY N64RuntimeAssumption
<1>2. \E s \in fe.ready : \A r \in fe.ready : s =< r
  <2>1. CASE 1 \in fe.ready
    BY <1>1, <2>1
  <2>2. CASE 1 \notin fe.ready /\ 2 \in fe.ready
    BY <1>1, <2>2
  <2>3. CASE 1 \notin fe.ready /\ 2 \notin fe.ready /\ 3 \in fe.ready
    BY <1>1, <2>3
  <2>4. CASE 1 \notin fe.ready /\ 2 \notin fe.ready /\ 3 \notin fe.ready
    BY <1>1, <2>4
  <2>5. QED
    BY <2>1, <2>2, <2>3, <2>4
<1>3. QED
  BY <1>2 DEF Slot

\* What transfer_sav_receive accepts is the pair that was sent, both SAVs in their ports.
LEMMA PipeIsPair ==
    ASSUME NEW pipe \in Pipes
    PROVE  transfer_sav_receive("mine", pipe) \in {<<>>, Pair}
<1> DEFINE sent == transfer_sav_send("mine", Pair)
           h1 == [port |-> 1, hash |-> "sav1"]
           h2 == [port |-> 2, hash |-> "sav2"]
<1>1. sent = <<"mine", h1, "sav1", h2, "sav2">>
  BY DEF transfer_sav_send, Pair
<1>2. SUFFICES ASSUME Len(pipe) = 5, pipe[1] = "mine",
                      pipe[2].port = 1, pipe[2].hash = pipe[3], pipe[4].port = 2, pipe[4].hash = pipe[5]
               PROVE  pipe[3] = "sav1" /\ pipe[5] = "sav2"
  <2>1. CASE transfer_sav_receive("mine", pipe) = <<>>
    BY <2>1
  <2>2. CASE transfer_sav_receive("mine", pipe) # <<>>
    <3>1. /\ Len(pipe) = 5 /\ pipe[1] = "mine"
          /\ \A i \in 1 .. 2 : pipe[2 * i].port = i /\ pipe[2 * i].hash = pipe[2 * i + 1]
          /\ transfer_sav_receive("mine", pipe) = <<pipe[3], pipe[5]>>
      BY <2>2 DEF transfer_sav_receive
    <3>2. /\ pipe[2 * 1].port = 1 /\ pipe[2 * 1].hash = pipe[2 * 1 + 1]
          /\ pipe[2 * 2].port = 2 /\ pipe[2 * 2].hash = pipe[2 * 2 + 1]
      BY <3>1
    <3>3. pipe[2].port = 1 /\ pipe[2].hash = pipe[3] /\ pipe[4].port = 2 /\ pipe[4].hash = pipe[5]
      BY <3>2
    <3>4. QED
      BY <1>2, <3>1, <3>3 DEF Pair
  <2>3. QED
    BY <2>1, <2>2
<1>3. CASE pipe \in {SubSeq(sent, 1, n) : n \in 0 .. Len(sent)}
  <2>1. PICK n \in 0 .. Len(sent) : pipe = SubSeq(sent, 1, n)
    BY <1>3
  <2>2. n \in 0 .. 5 /\ Len(SubSeq(sent, 1, n)) = n
    BY <1>1, <2>1
  <2>3. n = 5
    BY <1>2, <2>1, <2>2
  <2>4. pipe[3] = sent[3] /\ pipe[5] = sent[5]
    BY <1>1, <2>1, <2>3
  <2>5. QED
    BY <1>1, <2>4
<1>4. CASE pipe = Append(sent, "more")
  BY <1>1, <1>2, <1>4
<1>5. CASE pipe = transfer_sav_send("other", Pair)
  BY <1>2, <1>5 DEF transfer_sav_send
<1>6. CASE pipe = <<sent[1], sent[4], sent[5], sent[2], sent[3]>>
  <2>1. pipe[2] = h2
    BY <1>1, <1>6
  <2>2. QED
    BY <1>2, <2>1
<1>7. CASE pipe = [sent EXCEPT ![3] = "damaged"]
  <2>1. pipe[2] = h1 /\ pipe[3] = "damaged"
    BY <1>1, <1>7
  <2>2. QED
    BY <1>2, <2>1
<1>8. QED
  BY <1>3, <1>4, <1>5, <1>6, <1>7 DEF Pipes

\* The frontend before it has done anything.
LEMMA FrontendTyped ==
    /\ Frontend \in Frontends
    /\ IsFiniteSet(Frontend.started) /\ IsFiniteSet(Frontend.attached)
    /\ Frontend.attached = {} /\ Frontend.started = {} /\ Frontend.open = {} /\ ~Frontend.rom
    /\ ~Frontend.media /\ ~Frontend.core /\ Frontend.ready = {} /\ Frontend.paks = {}
    /\ Frontend.mem = <<>>
BY FS_EmptySet DEF Frontend, Frontends

-----------------------------------------------------------------------------
(* Starting. *)

\* What is left to show for a step of the start that succeeds.
LEMMA Advances ==
    ASSUME Inv, pc \in DOMAIN Code, pc' = After[pc] \/ (pc' = pc /\ pc \in Starting),
           UNCHANGED <<opt, run, out>>, req' \in Requests,
           fe' \in Frontends, IsFiniteSet(fe'.started), IsFiniteSet(fe'.attached),
           fe'.started \subseteq fe'.open,
           pc \in Early \ {"startup"} => fe'.attached = {} /\ fe'.started = {} /\ ~fe'.rom /\ ~fe'.media /\ ~fe'.core,
           pc \in Unplugged => fe'.paks = {},
           pc \notin Early \ {"startup"} => fe'.core,
           fe'.paks \subseteq fe'.ready,
           fe'.ready # {} => fe'.media \/ fe'.mem # <<>>,
           thr' \in Threads,
           thr'.guard => pc \in {"guard", "monitor"}, thr'.monitor => pc = "monitor",
           thr'.monitor => pc' = "execute", thr'.guard => pc' \in {"monitor", "execute"},
           disk' \in [Slots -> Carries], \A s \in Slots : ~disk'[s].torn
    PROVE  Inv'
<1> USE DEF Inv
<1>1. /\ pc \in (Early \ {"main"}) \cup Starting
      /\ pc' \in (Early \ {"main"}) \cup Starting \cup {"execute"}
      /\ pc \in Early \ {"startup"} => pc' \in Early \ {"main"}
      /\ pc \notin Early \ {"startup"} => pc' \in Starting \cup {"execute"}
  <2>1. CASE pc \in Early \ {"main", "startup"}
    BY <2>1, StepOrder DEF Early, Starting
  <2>2. CASE pc = "startup"
    BY <2>2, StepOrder DEF Early, Starting
  <2>3. CASE pc \in Starting \ {"monitor"}
    BY <2>3, StepOrder DEF Early, Starting
  <2>4. CASE pc = "monitor"
    BY <2>4, StepOrder DEF Early, Starting
  <2>5. QED
    BY <2>1, <2>2, <2>3, <2>4, StepOrder
<1>2. Typed'
  BY <1>1 DEF Typed, Stages, Early, Starting, Playing
<1>3. Fresh' /\ CoreHolds'
  BY <1>1 DEF Fresh, CoreHolds, Tidy, Early, Starting, Playing, Merging, Over
<1>4. ThreadsEnd'
  BY <1>1 DEF ThreadsEnd, Early, Starting, Playing
<1>5. PaksReady'
  BY <1>1, StepOrder DEF PaksReady
<1>6. out.wrote = {} /\ out.code = 0
  BY <1>1 DEF WroteIsKept, Early, Starting
<1>7. WroteIsKept' /\ WroteIsMerged'
  BY <1>1, <1>6 DEF WroteIsKept, WroteIsMerged, Early, Starting, Playing, Merging
<1>8. QED
  BY <1>2, <1>3, <1>4, <1>5, <1>7 DEF NothingTorn

\* What is left to show for a step of the start that fails.
LEMMA Refuses ==
    ASSUME Inv, pc \in DOMAIN Code, Refuse,
           UNCHANGED <<opt, run, req>>,
           fe' \in Frontends, IsFiniteSet(fe'.started), IsFiniteSet(fe'.attached),
           fe'.started \subseteq fe'.open,
           ~fe'.core => fe'.attached = {} /\ fe'.started = {} /\ ~fe'.rom,
           thr' \in Threads,
           ~thr'.guard, ~thr'.monitor,
           disk' \in [Slots -> Carries], \A s \in Slots : ~disk'[s].torn
    PROVE  Inv'
<1> USE DEF Inv
<1>1. pc \in (Early \ {"main"}) \cup Starting /\ Code[pc] \in Nat /\ Code[pc] # 0
  BY StepOrder
<1>2. pc' = "cleanup" /\ out' = [out EXCEPT !.code = Code[pc]] /\ out.wrote = {}
  BY <1>1 DEF Refuse, WroteIsKept
<1>3. Typed'
  BY <1>1, <1>2 DEF Typed, Stages
<1>4. out'.wrote = {}
  BY <1>2 DEF Typed
<1>5. Fresh' /\ CoreHolds' /\ ThreadsEnd' /\ PaksReady'
  BY <1>2 DEF Fresh, CoreHolds, ThreadsEnd, PaksReady, Unplugged, Tidy, Early, Starting, Playing, Merging, Over
<1>6. WroteIsKept' /\ WroteIsMerged'
  BY <1>2, <1>4 DEF WroteIsKept, WroteIsMerged, Early, Starting, Playing, Merging
<1>7. QED
  BY <1>3, <1>5, <1>6 DEF NothingTorn

\* What a step of the start finds.
LEMMA AtStart ==
    ASSUME Inv, pc \in DOMAIN Code
    PROVE  /\ fe \in Frontends /\ IsFiniteSet(fe.started) /\ IsFiniteSet(fe.attached)
           /\ fe.started \subseteq fe.open
           /\ pc \in Early => fe.attached = {} /\ fe.started = {} /\ ~fe.rom /\ ~fe.media /\ ~fe.core
           /\ pc \in Unplugged => fe.paks = {}
           /\ pc \in Starting => fe.core
           /\ fe.paks \subseteq fe.ready
           /\ fe.ready # {} => fe.media \/ fe.mem # <<>>
           /\ thr \in Threads
           /\ thr.guard => pc = "monitor"
           /\ ~thr.monitor
           /\ disk \in [Slots -> Carries] /\ \A s \in Slots : ~disk[s].torn
           /\ req \in Requests
           /\ pc \in Early \cup Starting
           /\ pc # "main"
BY StepOrder DEF Inv, Typed, CoreHolds, Tidy, PaksReady, ThreadsEnd, NothingTorn, Early, Starting, Playing, Unplugged

\* A step that may fail and changes nothing else.
LEMMA TryKeeps ==
    ASSUME Inv, pc \in DOMAIN Code, pc \notin {"startup", "guard", "monitor"},
           (pc' = After[pc] /\ UNCHANGED out) \/ Refuse,
           UNCHANGED <<opt, fe, thr, req, disk, run>>
    PROVE  Inv'
<1>1. CASE pc' = After[pc] /\ UNCHANGED out
  BY <1>1, AtStart, Advances
<1>2. CASE Refuse
  BY <1>2, AtStart, Refuses DEF Early, Starting
<1>3. QED
  BY <1>1, <1>2

\* A step whose option was not given.
LEMMA SkipKeeps ==
    ASSUME Inv, Skip
    PROVE  Inv'
<1>1. pc \in DOMAIN Code /\ pc # "startup" /\ pc' = After[pc]
  BY DEF Skip, Wanted
<1>2. thr.guard => pc' = "execute"
  BY <1>1, AtStart, StepOrder
<1>3. UNCHANGED <<opt, fe, thr, req, disk, run, out>>
  BY DEF Skip
<1>4. QED
  BY <1>1, <1>2, <1>3, AtStart, Advances

\* The command line is read.
LEMMA MainKeeps ==
    ASSUME Inv, Main
    PROVE  Inv'
<1> USE DEF Inv
<1>1. pc = "main" /\ fe = Frontend /\ opt \in Options /\ out.wrote = {}
  BY DEF Main, Typed, Fresh, WroteIsKept, Early
<1>2. CASE pc' = "memory" /\ fe' = [fe EXCEPT !.fd = opt.fd] /\ UNCHANGED out
  <2>1. /\ fe' \in Frontends /\ fe'.started = fe.started /\ fe'.attached = fe.attached
        /\ fe'.open = fe.open /\ fe'.rom = fe.rom /\ fe'.media = fe.media /\ fe'.core = fe.core
        /\ fe'.ready = fe.ready /\ fe'.paks = fe.paks /\ fe'.mem = fe.mem
    BY <1>1, <1>2 DEF Typed, Frontends, Options
  <2>2. Typed'
    BY <1>2, <2>1 DEF Main, Typed, Stages, Early
  <2>3. Fresh' /\ CoreHolds' /\ ThreadsEnd' /\ PaksReady'
    BY <1>1, <1>2, <2>1, FrontendTyped DEF Main, Fresh, CoreHolds, Tidy, ThreadsEnd, PaksReady, Unplugged,
       Early, Starting, Playing, Merging, Over
  <2>4. WroteIsKept' /\ WroteIsMerged' /\ NothingTorn'
    BY <1>1, <1>2, <2>1 DEF Main, WroteIsKept, WroteIsMerged, NothingTorn,
       Early, Starting, Playing, Merging
  <2>5. QED
    BY <2>2, <2>3, <2>4
<1>3. CASE pc' = "exited" /\ out' = [out EXCEPT !.code = 1] /\ UNCHANGED fe
  <2>1. out'.wrote = {} /\ Typed'
    BY <1>1, <1>3 DEF Main, Typed, Stages, Over
  <2>2. Fresh' /\ CoreHolds' /\ ThreadsEnd' /\ PaksReady'
    BY <1>1, <1>3, FrontendTyped DEF Main, Fresh, CoreHolds, Tidy, ThreadsEnd, PaksReady, Unplugged,
       Early, Starting, Playing, Merging, Over
  <2>3. WroteIsKept' /\ WroteIsMerged' /\ NothingTorn'
    BY <1>1, <1>3, <2>1 DEF Main, WroteIsKept, WroteIsMerged, NothingTorn,
       Early, Starting, Playing, Merging
  <2>4. QED
    BY <2>1, <2>2, <2>3
<1>4. QED
  BY <1>2, <1>3 DEF Main

\* A step that changes one field of the frontend leaves the others.
LEMMA FrontendField ==
    ASSUME fe \in Frontends
    PROVE  /\ \A v \in BOOLEAN :
                 /\ [fe EXCEPT !.fd = v] \in Frontends /\ [fe EXCEPT !.lib = v] \in Frontends
                 /\ [fe EXCEPT !.core = v] \in Frontends /\ [fe EXCEPT !.rom = v] \in Frontends
                 /\ [fe EXCEPT !.media = v] \in Frontends /\ [fe EXCEPT !.remote = v] \in Frontends
                 /\ [fe EXCEPT !.stop = v] \in Frontends /\ [fe EXCEPT !.shot = v] \in Frontends
           /\ \A v \in SUBSET Slots : /\ [fe EXCEPT !.paks = v] \in Frontends
                                      /\ [fe EXCEPT !.ready = v] \in Frontends
           /\ \A v \in SUBSET Nat : /\ [fe EXCEPT !.attached = v] \in Frontends
                                    /\ [fe EXCEPT !.open = v] \in Frontends
BY DEF Frontends

\* The SAVs of a ROOM's Host are received before anything else is started.
LEMMA MemoryKeeps ==
    ASSUME Inv, transfer_pak_memory_prepare
    PROVE  Inv'
<1>1. pc = "memory" /\ pc \in DOMAIN Code
  BY StepOrder DEF transfer_pak_memory_prepare, Early
<1>2. PICK pipe \in Pipes :
         LET pair == transfer_sav_receive("mine", pipe) IN
         \/ /\ pair # <<>>
            /\ fe' = [fe EXCEPT !.fd = FALSE, !.mem = pair, !.ready = Slots \cap 1 .. 2]
            /\ pc' = After[pc]
            /\ UNCHANGED out
         \/ fe' = [fe EXCEPT !.fd = FALSE] /\ Refuse
  BY DEF transfer_pak_memory_prepare
<1>3. UNCHANGED <<opt, thr, req, disk, run>>
  BY DEF transfer_pak_memory_prepare
<1>4. CASE /\ transfer_sav_receive("mine", pipe) # <<>>
           /\ fe' = [fe EXCEPT !.fd = FALSE, !.mem = transfer_sav_receive("mine", pipe),
                               !.ready = Slots \cap 1 .. 2]
           /\ pc' = After[pc] /\ UNCHANGED out
  <2>1. transfer_sav_receive("mine", pipe) = Pair /\ Pair # <<>>
    BY <1>4, PipeIsPair DEF Pair
  <2>2. /\ fe' \in Frontends /\ fe'.mem = Pair /\ fe'.started = fe.started /\ fe'.open = fe.open
        /\ fe'.attached = fe.attached /\ fe'.rom = fe.rom /\ fe'.media = fe.media
        /\ fe'.core = fe.core /\ fe'.paks = fe.paks
    BY <1>1, <1>4, <2>1, AtStart DEF Frontends
  <2>3. fe.paks \subseteq fe'.ready
    BY <1>1, AtStart DEF Early, Unplugged
  <2>4. QED
    BY <1>1, <1>3, <1>4, <2>1, <2>2, <2>3, AtStart, Advances DEF Unplugged, Early, Starting
<1>5. CASE fe' = [fe EXCEPT !.fd = FALSE] /\ Refuse
  <2>1. /\ fe' \in Frontends /\ fe'.started = fe.started /\ fe'.open = fe.open
        /\ fe'.attached = fe.attached /\ fe'.rom = fe.rom /\ fe'.core = fe.core
    BY <1>1, <1>5, AtStart DEF Frontends
  <2>2. QED
    BY <1>1, <1>3, <1>5, <2>1, AtStart, Refuses DEF Early
<1>6. QED
  BY <1>2, <1>4, <1>5

\* The core library is loaded; a library without an entry that is needed stays loaded.
LEMMA LoadCoreKeeps ==
    ASSUME Inv, load_core
    PROVE  Inv'
<1>1. pc = "load_core" /\ pc \in DOMAIN Code /\ UNCHANGED <<opt, thr, req, disk, run>>
  BY StepOrder DEF load_core, Early
<1>2. PICK v \in BOOLEAN : fe' = [fe EXCEPT !.lib = v]
  BY DEF load_core
<1>3. /\ fe' \in Frontends /\ fe'.started = fe.started /\ fe'.open = fe.open /\ fe'.media = fe.media
      /\ fe'.attached = fe.attached /\ fe'.rom = fe.rom /\ fe'.core = fe.core /\ fe'.mem = fe.mem
      /\ fe'.ready = fe.ready /\ fe'.paks = fe.paks
  BY <1>1, <1>2, AtStart DEF Frontends
<1>4. CASE pc' = After[pc] /\ UNCHANGED out
  BY <1>1, <1>3, <1>4, AtStart, Advances DEF Unplugged, Early, Starting
<1>5. CASE Refuse
  BY <1>1, <1>3, <1>5, AtStart, Refuses DEF Early
<1>6. QED
  BY <1>4, <1>5 DEF load_core

\* The core starts up.
LEMMA CoreStartupKeeps ==
    ASSUME Inv, CoreStartup
    PROVE  Inv'
<1>1. pc = "startup" /\ pc \in DOMAIN Code /\ UNCHANGED <<opt, thr, req, disk, run>>
  BY StepOrder DEF CoreStartup, Early
<1>2. CASE pc' = After[pc] /\ fe' = [fe EXCEPT !.core = TRUE] /\ UNCHANGED out
  <2>1. /\ fe' \in Frontends /\ fe'.started = fe.started /\ fe'.open = fe.open /\ fe'.media = fe.media
        /\ fe'.attached = fe.attached /\ fe'.rom = fe.rom /\ fe'.core /\ fe'.mem = fe.mem
        /\ fe'.ready = fe.ready /\ fe'.paks = fe.paks
    BY <1>1, <1>2, AtStart DEF Frontends
  <2>2. QED
    BY <1>1, <1>2, <2>1, AtStart, Advances DEF Unplugged, Early, Starting
<1>3. CASE Refuse /\ UNCHANGED fe
  BY <1>1, <1>3, AtStart, Refuses DEF Early
<1>4. QED
  BY <1>2, <1>3 DEF CoreStartup

\* Taking a working copy, and taking it back, leaves every SAV as it is.
LEMMA StagingKeepsSav ==
    ASSUME disk \in [Slots -> Carries], run \in Nat, NEW s \in Slots
    PROVE  /\ transfer_pak_save_stage_prepare(disk[s], run) \in Carries
           /\ transfer_pak_save_stage_prepare(disk[s], run).torn = disk[s].torn
           /\ transfer_pak_save_stage_discard(disk[s]) \in Carries
           /\ transfer_pak_save_stage_discard(disk[s]).torn = disk[s].torn
           /\ transfer_pak_save_stage_discard(disk[s]).ram = disk[s].ram
           /\ transfer_pak_save_stage_discard(disk[s]).cart = disk[s].cart
<1>1. disk[s] \in Carries
  OBVIOUS
<1>2. TrailerFor(disk[s], run) \in Int
  BY <1>1 DEF Carries, TrailerFor, gb_has_mbc3_rtc, repair_mbc3_rtc_if_needed, rtc_trailer_valid,
     Nothing, Bad
<1>3. /\ [disk[s] EXCEPT !.work = disk[s].ram, !.rtc = TrailerFor(disk[s], run)] \in Carries
      /\ [disk[s] EXCEPT !.work = disk[s].ram, !.rtc = TrailerFor(disk[s], run)].torn = disk[s].torn
  BY <1>1, <1>2 DEF Carries
<1>4. /\ transfer_pak_save_stage_prepare(disk[s], run) \in Carries
      /\ transfer_pak_save_stage_prepare(disk[s], run).torn = disk[s].torn
  <2>1. CASE Staged(disk[s])
    BY <1>3, <2>1 DEF transfer_pak_save_stage_prepare
  <2>2. CASE ~Staged(disk[s])
    BY <1>1, <2>2 DEF transfer_pak_save_stage_prepare
  <2>3. QED
    BY <2>1, <2>2
<1>5. Nothing \in Int
  BY DEF Nothing
<1>6. QED
  BY <1>1, <1>4, <1>5 DEF Carries, transfer_pak_save_stage_discard

\* The same for all the slots of a session.
LEMMA DiscardKeepsSavs ==
    ASSUME disk \in [Slots -> Carries], run \in Nat, NEW ready
    PROVE  /\ transfer_pak_media_session_discard(disk, ready) \in [Slots -> Carries]
           /\ \A s \in Slots :
                 /\ transfer_pak_media_session_discard(disk, ready)[s].torn = disk[s].torn
                 /\ transfer_pak_media_session_discard(disk, ready)[s].ram = disk[s].ram
BY StagingKeepsSav DEF transfer_pak_media_session_discard

\* The working copies of a local game are made.
LEMMA SessionKeeps ==
    ASSUME Inv, transfer_pak_media_session_prepare
    PROVE  Inv'
<1> DEFINE present == {s \in Slots : disk[s].cart # "none"}
<1>1. /\ pc = "transfer" /\ pc \in DOMAIN Code /\ UNCHANGED <<opt, thr, req, run>>
      /\ run \in Nat
  BY StepOrder DEF transfer_pak_media_session_prepare, Starting, Inv, Typed
<1>2. CASE /\ disk' = [s \in Slots |-> transfer_pak_save_stage_prepare(disk[s], run)]
           /\ fe' = [fe EXCEPT !.media = TRUE, !.ready = present]
           /\ pc' = After[pc]
           /\ UNCHANGED out
  <2>1. /\ fe' \in Frontends /\ fe'.started = fe.started /\ fe'.open = fe.open /\ fe'.media
        /\ fe'.attached = fe.attached /\ fe'.rom = fe.rom /\ fe'.core = fe.core /\ fe'.mem = fe.mem
        /\ fe'.ready = present /\ fe'.paks = fe.paks
    BY <1>1, <1>2, AtStart DEF Frontends
  <2>2. disk' \in [Slots -> Carries] /\ \A s \in Slots : ~disk'[s].torn
    BY <1>1, <1>2, AtStart, StagingKeepsSav
  <2>3. fe.paks = {}
    BY <1>1, AtStart DEF Unplugged
  <2>4. QED
    BY <1>1, <1>2, <2>1, <2>2, <2>3, AtStart, Advances DEF Unplugged, Early, Starting
<1>3. CASE /\ \E s \in present :
                  disk' = transfer_pak_media_session_discard(disk, {r \in present : r =< s})
           /\ Refuse
           /\ UNCHANGED fe
  <2>1. disk' \in [Slots -> Carries] /\ \A s \in Slots : ~disk'[s].torn
    BY <1>1, <1>3, AtStart, DiscardKeepsSavs
  <2>2. QED
    BY <1>1, <1>3, <2>1, AtStart, Refuses DEF Early, Starting
<1>4. QED
  BY <1>2, <1>3 DEF transfer_pak_media_session_prepare

\* The ROM is opened.
LEMMA RomOpenKeeps ==
    ASSUME Inv, RomOpen
    PROVE  Inv'
<1>1. pc = "rom_open" /\ pc \in DOMAIN Code /\ UNCHANGED <<opt, thr, req, disk, run>>
  BY StepOrder DEF RomOpen, Starting
<1>2. CASE pc' = After[pc] /\ fe' = [fe EXCEPT !.rom = TRUE] /\ UNCHANGED out
  <2>1. /\ fe' \in Frontends /\ fe'.started = fe.started /\ fe'.open = fe.open /\ fe'.media = fe.media
        /\ fe'.attached = fe.attached /\ fe'.core = fe.core /\ fe'.mem = fe.mem
        /\ fe'.ready = fe.ready /\ fe'.paks = fe.paks
    BY <1>1, <1>2, AtStart DEF Frontends
  <2>2. QED
    BY <1>1, <1>2, <2>1, AtStart, Advances DEF Unplugged, Early, Starting
<1>3. CASE Refuse /\ UNCHANGED fe
  BY <1>1, <1>3, AtStart, Refuses DEF Early, Starting
<1>4. QED
  BY <1>2, <1>3 DEF RomOpen

\* A plugin is loaded: its library is open before it is started.
LEMMA PluginKeeps ==
    ASSUME Inv, LoadPlugins
    PROVE  Inv'
<1> DEFINE p == Cardinality(fe.started)
<1>1. pc = "plugins" /\ pc \in DOMAIN Code /\ UNCHANGED <<opt, thr, req, disk, run>>
  BY StepOrder DEF LoadPlugins, Starting
<1>2. p \in Nat /\ IsFiniteSet(fe.started \cup {p}) /\ fe.core
  BY <1>1, AtStart, FS_CardinalityType, FS_AddElement DEF Starting
<1>3. CASE /\ fe' = load_plugin(fe, p, "started")
           /\ pc' = IF p = 3 THEN After[pc] ELSE pc
           /\ UNCHANGED out
  <2>1. fe' = [fe EXCEPT !.open = fe.open \cup {p}, !.started = fe.started \cup {p}]
    BY <1>3 DEF load_plugin
  <2>2. /\ fe' \in Frontends /\ fe'.started = fe.started \cup {p} /\ fe'.open = fe.open \cup {p}
        /\ fe'.media = fe.media /\ fe'.attached = fe.attached /\ fe'.core = fe.core
        /\ fe'.mem = fe.mem /\ fe'.ready = fe.ready /\ fe'.paks = fe.paks
    <3> HIDE DEF p
    <3>1. fe.open \cup {p} \in SUBSET Nat /\ fe.started \cup {p} \in SUBSET Nat
      BY <1>1, <1>2, AtStart DEF Frontends
    <3>2. QED
      BY <1>1, <2>1, <3>1, AtStart DEF Frontends
  <2>3. pc' = After[pc] \/ (pc' = pc /\ pc \in Starting)
    BY <1>1, <1>3 DEF Starting
  <2>4. QED
    <3> HIDE DEF p
    <3>1. QED
      BY <1>1, <1>2, <1>3, <2>2, <2>3, AtStart, Advances DEF Unplugged, Early, Starting
<1>4. CASE (\E how \in {"missing", "refused"} : fe' = load_plugin(fe, p, how)) /\ Refuse
  <2>1. fe' = fe \/ fe' = [fe EXCEPT !.open = fe.open \cup {p}]
    BY <1>4 DEF load_plugin
  <2>2. /\ fe' \in Frontends /\ fe'.started = fe.started /\ fe.open \subseteq fe'.open
        /\ fe'.attached = fe.attached /\ fe'.core = fe.core
    <3> HIDE DEF p
    <3>1. fe.open \cup {p} \in SUBSET Nat
      BY <1>1, <1>2, AtStart DEF Frontends
    <3>2. QED
      BY <1>1, <2>1, <3>1, AtStart DEF Frontends
  <2>3. QED
    <3> HIDE DEF p
    <3>1. QED
      BY <1>1, <1>2, <1>4, <2>2, AtStart, Refuses DEF Early, Starting
<1>5. QED
  BY <1>3, <1>4 DEF LoadPlugins

\* A plugin is attached.
LEMMA AttachKeeps ==
    ASSUME Inv, AttachPlugins
    PROVE  Inv'
<1> DEFINE p == Cardinality(fe.attached)
<1>1. pc = "attach" /\ pc \in DOMAIN Code /\ UNCHANGED <<opt, thr, req, disk, run>>
  BY StepOrder DEF AttachPlugins, Starting
<1>2. p \in Nat /\ IsFiniteSet(fe.attached \cup {p}) /\ fe.core
  BY <1>1, AtStart, FS_CardinalityType, FS_AddElement DEF Starting
<1>3. CASE /\ fe' = [fe EXCEPT !.attached = @ \cup {p}]
           /\ pc' = IF p = 3 THEN After[pc] ELSE pc
           /\ UNCHANGED out
  <2>1. pc' = After[pc] \/ (pc' = pc /\ pc \in Starting)
    BY <1>1, <1>3 DEF Starting
  <2> HIDE DEF p
  <2>2. /\ fe' \in Frontends /\ fe'.attached = fe.attached \cup {p} /\ fe'.open = fe.open
        /\ fe'.media = fe.media /\ fe'.started = fe.started /\ fe'.core = fe.core
        /\ fe'.mem = fe.mem /\ fe'.ready = fe.ready /\ fe'.paks = fe.paks
    BY <1>1, <1>2, <1>3, AtStart DEF Frontends
  <2>3. QED
    BY <1>1, <1>2, <1>3, <2>1, <2>2, AtStart, Advances DEF Unplugged, Early, Starting
<1>4. CASE Refuse /\ UNCHANGED fe
  BY <1>1, <1>2, <1>4, AtStart, Refuses
<1>5. QED
  BY <1>3, <1>4 DEF AttachPlugins

\* Transfer Paks are plugged in.
LEMMA PaksKeep ==
    ASSUME Inv, configure_transfer_paks
    PROVE  Inv'
<1>1. pc = "paks" /\ pc \in DOMAIN Code /\ UNCHANGED <<opt, thr, req, disk, run>>
  BY StepOrder DEF configure_transfer_paks, Starting
<1>2. CASE /\ pc' = After[pc]
           /\ fe' = [fe EXCEPT !.paks = {s \in Slots : transfer_pak_media_session_ready(s)}]
           /\ UNCHANGED out
  <2>1. /\ fe' \in Frontends /\ fe'.started = fe.started /\ fe'.open = fe.open /\ fe'.media = fe.media
        /\ fe'.attached = fe.attached /\ fe'.rom = fe.rom /\ fe'.core = fe.core /\ fe'.mem = fe.mem
        /\ fe'.ready = fe.ready /\ fe'.paks \subseteq fe.ready
    BY <1>1, <1>2, AtStart DEF Frontends, transfer_pak_media_session_ready
  <2>2. QED
    BY <1>1, <1>2, <2>1, AtStart, Advances DEF Unplugged, Early, Starting
<1>3. CASE Refuse /\ UNCHANGED fe
  BY <1>1, <1>3, AtStart, Refuses DEF Early, Starting
<1>4. QED
  BY <1>2, <1>3 DEF configure_transfer_paks

\* The shared file for the pictures is made.
LEMMA WriterKeeps ==
    ASSUME Inv, integral_n64_runtime_remote_media_open_writer
    PROVE  Inv'
<1>1. pc = "remote" /\ pc \in DOMAIN Code /\ UNCHANGED <<opt, thr, disk, run>>
  BY StepOrder DEF integral_n64_runtime_remote_media_open_writer, Starting
<1>2. CASE /\ pc' = After[pc] /\ fe' = [fe EXCEPT !.remote = TRUE]
           /\ req' = [req EXCEPT !.shot = "idle"]
           /\ UNCHANGED out
  <2>1. /\ fe' \in Frontends /\ fe'.started = fe.started /\ fe'.open = fe.open /\ fe'.media = fe.media
        /\ fe'.attached = fe.attached /\ fe'.rom = fe.rom /\ fe'.core = fe.core /\ fe'.mem = fe.mem
        /\ fe'.ready = fe.ready /\ fe'.paks = fe.paks
    BY <1>1, <1>2, AtStart DEF Frontends
  <2>2. req' \in Requests
    BY <1>1, <1>2, AtStart DEF Requests
  <2>3. QED
    BY <1>1, <1>2, <2>1, <2>2, AtStart, Advances DEF Unplugged, Early, Starting
<1>3. CASE Refuse /\ UNCHANGED <<fe, req>>
  BY <1>1, <1>3, AtStart, Refuses DEF Early, Starting
<1>4. QED
  BY <1>2, <1>3 DEF integral_n64_runtime_remote_media_open_writer

\* The pause guard is started.
LEMMA GuardKeeps ==
    ASSUME Inv, StartGuard
    PROVE  Inv'
<1>1. pc = "guard" /\ pc \in DOMAIN Code /\ UNCHANGED <<opt, fe, req, disk, run>> /\ fe.core
  BY StepOrder, AtStart DEF StartGuard, Starting
<1>2. CASE pc' = After[pc] /\ thr' = [thr EXCEPT !.guard = TRUE] /\ UNCHANGED out
  <2>1. thr' \in Threads /\ thr'.monitor = thr.monitor
    BY <1>1, <1>2, AtStart DEF Threads
  <2>2. pc' = "monitor"
    BY <1>1, <1>2, StepOrder
  <2>3. QED
    BY <1>1, <1>2, <2>1, <2>2, AtStart, Advances DEF Unplugged, Early
<1>3. CASE Refuse /\ UNCHANGED thr
  BY <1>1, <1>3, AtStart, Refuses
<1>4. QED
  BY <1>2, <1>3 DEF StartGuard

\* The stop monitor is started, or the run is given up and the guard is stopped first.
LEMMA MonitorKeeps ==
    ASSUME Inv, StartMonitor
    PROVE  Inv'
<1>1. pc = "monitor" /\ pc \in DOMAIN Code /\ UNCHANGED <<opt, fe, req, disk, run>> /\ fe.core
  BY StepOrder, AtStart DEF StartMonitor, Starting
<1>2. CASE pc' = After[pc] /\ thr' = [thr EXCEPT !.monitor = TRUE] /\ UNCHANGED out
  <2>1. thr' \in Threads
    BY <1>1, <1>2, AtStart DEF Threads
  <2>2. pc' = "execute"
    BY <1>1, <1>2, StepOrder
  <2>3. QED
    BY <1>1, <1>2, <2>1, <2>2, AtStart, Advances DEF Unplugged, Early
<1>3. CASE Refuse /\ thr' = NoMonitor(thr)
  <2>1. thr' \in Threads /\ ~thr'.guard /\ ~thr'.monitor
    BY <1>1, <1>3, AtStart DEF Threads, NoMonitor
  <2>2. QED
    BY <1>1, <1>3, <2>1, AtStart, Refuses
<1>4. QED
  BY <1>2, <1>3 DEF StartMonitor

\* Every step of the start keeps the invariant.
LEMMA StartupKeeps ==
    ASSUME Inv, Startup
    PROVE  Inv'
<1>1. CASE \/ SdlInit \/ configure_core \/ configure_emulator_hotkeys \/ InstallMemory \/ read_rom
           \/ configure_controllers \/ SetFrameCallback \/ SetMediaLoader
  <2>1. /\ pc \in {"sdl", "core_settings", "hotkeys", "transfer", "read_rom", "controllers",
                   "callback", "loader"}
        /\ (pc' = After[pc] /\ UNCHANGED out) \/ Refuse
        /\ UNCHANGED <<opt, fe, thr, req, disk, run>>
    BY <1>1 DEF SdlInit, configure_core, configure_emulator_hotkeys, InstallMemory, read_rom,
       configure_controllers, SetFrameCallback, SetMediaLoader, Try
  <2>2. pc \in DOMAIN Code /\ pc \notin {"startup", "guard", "monitor"}
    BY <2>1, StepOrder DEF Early, Starting
  <2>3. QED
    BY <2>1, <2>2, TryKeeps
<1>2. QED
  BY <1>1, MainKeeps, SkipKeeps, MemoryKeeps, LoadCoreKeeps, CoreStartupKeeps, SessionKeeps,
     RomOpenKeeps, PluginKeeps, AttachKeeps, PaksKeep, WriterKeeps, GuardKeeps, MonitorKeeps
     DEF Startup

-----------------------------------------------------------------------------
(* Playing. *)

\* Steps beside the frontend: the core's, the threads' and everybody else's.
LEMMA BesideKeeps ==
    ASSUME Inv, UNCHANGED <<opt, pc, fe, disk, run, out>>,
           req' \in Requests, thr' \in Threads,
           thr'.guard = thr.guard, thr'.monitor = thr.monitor
    PROVE  Inv'
<1> USE DEF Inv
<1>1. Slot' = Slot
  BY DEF Slot
<1>2. Typed' /\ Fresh' /\ CoreHolds' /\ ThreadsEnd' /\ PaksReady'
  BY DEF Typed, Fresh, CoreHolds, Tidy, ThreadsEnd, PaksReady
<1>3. \A s \in Slots : Kept(s)' = Kept(s) /\ Saved(s)' = Saved(s)
  BY DEF Kept, Saved
<1>4. WroteIsKept' /\ WroteIsMerged' /\ NothingTorn'
  BY <1>1 DEF WroteIsKept, WroteIsMerged, NothingTorn, Kept, Saved
<1>5. QED
  BY <1>2, <1>4

\* The requests others make keep their form.
LEMMA RequestsTyped ==
    ASSUME req \in Requests
    PROVE  /\ \A v \in BOOLEAN : [req EXCEPT !.signal = v] \in Requests
           /\ \A v \in {"none", "partial", "valid"} : [req EXCEPT !.file = v] \in Requests
           /\ \A v \in {"idle", "requested", "capturing", "saved", "failed"} :
                 [req EXCEPT !.shot = v] \in Requests
           /\ \A saved \in BOOLEAN : finish_screenshot(req, saved) \in Requests
           /\ \A taken \in BOOLEAN : TakeRequest(req, taken) \in Requests
BY DEF Requests, finish_screenshot, TakeRequest

\* The steps that only the core, the threads and the requests see.
LEMMA OthersKeep ==
    ASSUME Inv,
           \/ CoreRuns \/ Hotkey \/ state_callback \/ remote_media_guard_main \/ MonitorSees
           \/ \E b \in BOOLEAN : stop_request_monitor_main(b)
           \/ Signal \/ AskToStop
           \/ integral_n64_runtime_remote_media_request_screenshot
           \/ integral_n64_runtime_remote_media_screenshot_result
    PROVE  Inv'
<1>1. req \in Requests /\ thr \in Threads
  BY DEF Inv, Typed
<1>2. CASE CoreRuns \/ Hotkey \/ remote_media_guard_main
  BY <1>1, <1>2, BesideKeeps DEF CoreRuns, Hotkey, remote_media_guard_main
<1>3. CASE state_callback
  <2>1. UNCHANGED <<opt, pc, fe, thr, disk, run, out>> /\ req' \in Requests
    BY <1>1, <1>3, RequestsTyped DEF state_callback
  <2>2. QED
    BY <1>1, <2>1, BesideKeeps
<1>4. CASE MonitorSees
  <2>1. thr' \in Threads /\ thr'.guard = thr.guard /\ thr'.monitor = thr.monitor
    BY <1>1, <1>4 DEF MonitorSees, Threads
  <2>2. QED
    BY <1>1, <1>4, <2>1, BesideKeeps DEF MonitorSees
<1>5. CASE \E b \in BOOLEAN : stop_request_monitor_main(b)
  <2>1. thr' \in Threads /\ thr'.guard = thr.guard /\ thr'.monitor = thr.monitor
    BY <1>1, <1>5 DEF stop_request_monitor_main, StopRefused, Threads
  <2>2. QED
    BY <1>1, <1>5, <2>1, BesideKeeps DEF stop_request_monitor_main
<1>6. CASE \/ Signal \/ AskToStop
           \/ integral_n64_runtime_remote_media_request_screenshot
           \/ integral_n64_runtime_remote_media_screenshot_result
  <2>1. UNCHANGED <<opt, pc, fe, thr, disk, run, out>> /\ req' \in Requests
    BY <1>1, <1>6, RequestsTyped DEF Signal, AskToStop,
       integral_n64_runtime_remote_media_request_screenshot,
       integral_n64_runtime_remote_media_screenshot_result
  <2>2. QED
    BY <1>1, <2>1, BesideKeeps
<1>7. QED
  BY <1>2, <1>3, <1>4, <1>5, <1>6

\* A frame may end the game or take its picture.
LEMMA FrameKeeps ==
    ASSUME Inv, frame_callback
    PROVE  Inv'
<1> USE DEF Inv
<1>1. /\ pc = "execute" /\ UNCHANGED <<opt, pc, thr, disk, run, out>>
      /\ fe \in Frontends /\ req \in Requests
  BY DEF frame_callback, Executing, Typed
<1>2. req' \in Requests
  BY <1>1, RequestsTyped DEF frame_callback
<1>3. PICK shot, stop \in BOOLEAN : fe' = [fe EXCEPT !.shot = shot, !.stop = stop]
  <2>1. PICK taken, stopped \in BOOLEAN :
           LET signal == req.signal /\ ~fe.stop
               smoke == ~signal /\ ~opt.interactive
               picture == smoke /\ ~fe.shot
               last == smoke /\ fe.shot /\ ~fe.stop
           IN fe' = [fe EXCEPT
                    !.shot = @ \/ (picture /\ taken),
                    !.stop = @ \/ ((signal \/ last) /\ stopped) \/ (picture /\ ~taken)]
    BY DEF frame_callback
  <2>2. \E a, b : fe' = [fe EXCEPT !.shot = fe.shot \/ a, !.stop = fe.stop \/ b]
    BY <2>1
  <2>3. \A a, b : (fe.shot \/ a) \in BOOLEAN /\ (fe.stop \/ b) \in BOOLEAN
    OBVIOUS
  <2>4. QED
    BY <2>2, <2>3
<1>4. /\ fe' \in Frontends /\ fe'.started = fe.started /\ fe'.open = fe.open /\ fe'.media = fe.media
      /\ fe'.attached = fe.attached /\ fe'.rom = fe.rom /\ fe'.core = fe.core /\ fe'.mem = fe.mem
      /\ fe'.ready = fe.ready /\ fe'.paks = fe.paks
  BY <1>1, <1>3 DEF Frontends
<1>5. Typed' /\ Fresh' /\ CoreHolds' /\ ThreadsEnd' /\ PaksReady'
  BY <1>1, <1>2, <1>4 DEF Typed, Fresh, CoreHolds, Tidy, ThreadsEnd, PaksReady, Unplugged,
     Early, Starting, Playing, Merging, Over
<1>6. WroteIsKept' /\ WroteIsMerged' /\ NothingTorn'
  BY <1>1, <1>4 DEF WroteIsKept, WroteIsMerged, NothingTorn, Kept, Saved, Early, Starting,
     Playing, Merging
<1>7. QED
  BY <1>5, <1>6

\* What the game saves is kept in the SAV or in its working copy.
LEMMA GameSavesKeeps ==
    ASSUME Inv, NEW s \in Slots, GameSaves(s)
    PROVE  Inv'
<1> USE DEF Inv
<1>1. /\ pc = "execute" /\ s \in fe.paks /\ fe.mem = <<>> /\ UNCHANGED <<opt, pc, fe, thr, req, run>>
      /\ disk[s] \in Carries /\ run \in Int /\ Bad \in Int /\ ~disk[s].torn /\ s \in fe.ready
      /\ disk \in [Slots -> Carries] /\ out' = [out EXCEPT !.wrote = @ \cup {s}]
      /\ fe.media
  BY DEF GameSaves, Executing, Typed, Bad, NothingTorn, PaksReady, Playing
<1>2. PICK f \in Carries :
         /\ disk' = [disk EXCEPT ![s] = f]
         /\ f.cart = disk[s].cart /\ f.torn = disk[s].torn
         /\ IF Staged(disk[s]) THEN f.work \in {run, Bad} ELSE f.ram = run
  <2>1. /\ [disk[s] EXCEPT !.work = run] \in Carries /\ [disk[s] EXCEPT !.ram = run] \in Carries
        /\ [disk[s] EXCEPT !.work = Bad] \in Carries
    BY <1>1 DEF Carries
  <2>2. CASE disk' = [disk EXCEPT ![s] = IF Staged(@) THEN [@ EXCEPT !.work = run]
                                         ELSE [@ EXCEPT !.ram = run]]
    <3>1. CASE Staged(disk[s])
      <4>1. disk' = [disk EXCEPT ![s] = [disk[s] EXCEPT !.work = run]]
        BY <1>1, <2>2, <3>1
      <4>2. QED
        BY <1>1, <2>1, <3>1, <4>1 DEF Carries
    <3>2. CASE ~Staged(disk[s])
      <4>1. disk' = [disk EXCEPT ![s] = [disk[s] EXCEPT !.ram = run]]
        BY <1>1, <2>2, <3>2
      <4>2. QED
        BY <1>1, <2>1, <3>2, <4>1 DEF Carries
    <3>3. QED
      BY <3>1, <3>2
  <2>3. CASE Staged(disk[s]) /\ disk' = [disk EXCEPT ![s].work = Bad]
    <3>1. disk' = [disk EXCEPT ![s] = [disk[s] EXCEPT !.work = Bad]]
      BY <1>1, <2>3
    <3>2. QED
      BY <1>1, <2>1, <2>3, <3>1 DEF Carries
  <2>4. QED
    BY <2>2, <2>3 DEF GameSaves
<1>3. /\ disk' \in [Slots -> Carries] /\ disk'[s] = f
      /\ \A r \in Slots \ {s} : disk'[r] = disk[r]
  BY <1>1, <1>2
<1>4. out' \in [code : Nat, wrote : SUBSET Slots] /\ out'.wrote = out.wrote \cup {s} /\ out'.code = out.code
  BY <1>1 DEF Typed
<1>5. Typed' /\ Fresh' /\ CoreHolds' /\ ThreadsEnd' /\ PaksReady'
  BY <1>1, <1>3, <1>4 DEF Typed, Fresh, CoreHolds, Tidy, ThreadsEnd, PaksReady, Over, Unplugged
<1>6. \A r \in out'.wrote : Kept(r)'
  <2>1. Kept(s)'
    BY <1>1, <1>2, <1>3 DEF Kept, Saved, Staged
  <2>2. \A r \in out.wrote \ {s} : Kept(r)'
    <3>1. \A r \in out.wrote \ {s} : r \in Slots /\ Kept(r)
      BY <1>1 DEF WroteIsKept, Typed, Playing
    <3>2. QED
      BY <1>1, <1>3, <3>1 DEF Kept, Saved
  <2>3. QED
    BY <1>4, <2>1, <2>2
<1>7. WroteIsKept'
  BY <1>1, <1>4, <1>6 DEF WroteIsKept, Early, Starting, Playing
<1>8. WroteIsMerged' /\ NothingTorn'
  BY <1>1, <1>2, <1>3 DEF WroteIsMerged, NothingTorn, Merging
<1>9. QED
  BY <1>5, <1>7, <1>8

\* The clock's trailer is not the game's SAV.
LEMMA ClockSavesKeeps ==
    ASSUME Inv, NEW s \in Slots, ClockSaves(s)
    PROVE  Inv'
<1> USE DEF Inv
<1>1. /\ pc = "execute" /\ UNCHANGED <<opt, pc, fe, thr, req, run, out>>
      /\ disk[s] \in Carries /\ run \in Int /\ disk \in [Slots -> Carries]
      /\ disk' = [disk EXCEPT ![s] = [disk[s] EXCEPT !.rtc = run]]
  BY DEF ClockSaves, Executing, Typed
<1>2. /\ [disk[s] EXCEPT !.rtc = run] \in Carries
      /\ [disk[s] EXCEPT !.rtc = run].cart = disk[s].cart
      /\ [disk[s] EXCEPT !.rtc = run].torn = disk[s].torn
      /\ [disk[s] EXCEPT !.rtc = run].ram = disk[s].ram
      /\ [disk[s] EXCEPT !.rtc = run].work = disk[s].work
  BY <1>1 DEF Carries
<1>3. /\ disk' \in [Slots -> Carries]
      /\ \A r \in Slots : /\ disk'[r].cart = disk[r].cart /\ disk'[r].torn = disk[r].torn
                          /\ disk'[r].ram = disk[r].ram /\ disk'[r].work = disk[r].work
  BY <1>1, <1>2
<1>4. Typed' /\ Fresh' /\ CoreHolds' /\ ThreadsEnd' /\ PaksReady'
  BY <1>1, <1>3 DEF Typed, Fresh, CoreHolds, Tidy, ThreadsEnd, PaksReady, Over
<1>5. \A r \in Slots : Kept(r)' = Kept(r)
  BY <1>1, <1>3 DEF Kept, Saved, Staged
<1>6. WroteIsKept'
  <2>1. out.wrote \subseteq Slots
    BY DEF Typed
  <2>2. QED
    BY <1>1, <1>5, <2>1 DEF WroteIsKept, Early, Starting, Playing
<1>7. WroteIsMerged' /\ NothingTorn'
  BY <1>1, <1>3 DEF WroteIsMerged, NothingTorn, Merging
<1>8. QED
  BY <1>4, <1>6, <1>7

\* The game is over.
LEMMA CoreEndsKeeps ==
    ASSUME Inv, NEW b \in BOOLEAN, CoreEnds(b)
    PROVE  Inv'
<1> USE DEF Inv
<1>1. pc = "execute" /\ pc' = "joinMonitor" /\ UNCHANGED <<opt, fe, thr, req, disk, run, out>>
  BY DEF CoreEnds, Executing
<1>2. Typed' /\ Fresh' /\ CoreHolds' /\ ThreadsEnd' /\ PaksReady'
  BY <1>1 DEF Typed, Stages, Fresh, CoreHolds, Tidy, ThreadsEnd, PaksReady, Over, Unplugged,
     Early, Starting, Playing, Merging
<1>3. WroteIsKept' /\ WroteIsMerged' /\ NothingTorn'
  BY <1>1 DEF WroteIsKept, WroteIsMerged, NothingTorn, Kept, Saved, Early, Starting, Playing, Merging
<1>4. QED
  BY <1>2, <1>3

-----------------------------------------------------------------------------
(* Ending. *)

\* The monitor is joined and what it sent is taken over.
LEMMA JoinMonitorKeeps ==
    ASSUME Inv, JoinMonitor
    PROVE  Inv'
<1> USE DEF Inv
<1>1. /\ pc = "joinMonitor" /\ pc' = "joinGuard" /\ UNCHANGED <<opt, req, disk, run, out>>
      /\ fe \in Frontends /\ thr \in Threads
  BY DEF JoinMonitor, Typed
<1>2. thr' \in Threads /\ ~thr'.monitor /\ thr'.guard = thr.guard
  BY <1>1 DEF JoinMonitor, Threads
<1>3. PICK stop \in BOOLEAN : fe' = [fe EXCEPT !.stop = stop]
  <2>1. fe' = [fe EXCEPT !.stop = fe.stop \/ thr.sent]
    BY DEF JoinMonitor
  <2>2. (fe.stop \/ thr.sent) \in BOOLEAN
    OBVIOUS
  <2>3. QED
    BY <2>1, <2>2
<1>4. /\ fe' \in Frontends /\ fe'.started = fe.started /\ fe'.open = fe.open /\ fe'.media = fe.media
      /\ fe'.attached = fe.attached /\ fe'.rom = fe.rom /\ fe'.core = fe.core /\ fe'.mem = fe.mem
      /\ fe'.ready = fe.ready /\ fe'.paks = fe.paks
  BY <1>1, <1>3 DEF Frontends
<1>5. Typed' /\ Fresh' /\ CoreHolds' /\ ThreadsEnd' /\ PaksReady'
  BY <1>1, <1>2, <1>4 DEF Typed, Stages, Fresh, CoreHolds, Tidy, ThreadsEnd, PaksReady, Over,
     Unplugged, Early, Starting, Playing, Merging
<1>6. WroteIsKept' /\ WroteIsMerged' /\ NothingTorn'
  BY <1>1, <1>4 DEF WroteIsKept, WroteIsMerged, NothingTorn, Kept, Saved, Early, Starting,
     Playing, Merging
<1>7. QED
  BY <1>5, <1>6

\* The guard is joined; a local game has its working copies merged next.
LEMMA JoinGuardKeeps ==
    ASSUME Inv, JoinGuard
    PROVE  Inv'
<1> USE DEF Inv
<1>1. /\ pc = "joinGuard" /\ pc' = (IF fe.media THEN "finalize" ELSE "report")
      /\ UNCHANGED <<opt, fe, req, disk, run, out>> /\ thr \in Threads /\ fe.core /\ ~thr.monitor
  BY DEF JoinGuard, Typed, CoreHolds, ThreadsEnd, Playing
<1>2. thr' \in Threads /\ ~thr'.monitor /\ ~thr'.guard
  BY <1>1 DEF JoinGuard, Threads
<1>3. Typed' /\ Fresh' /\ CoreHolds' /\ ThreadsEnd' /\ PaksReady'
  BY <1>1, <1>2 DEF Typed, Stages, Fresh, CoreHolds, Tidy, ThreadsEnd, PaksReady, Over,
     Unplugged, Early, Starting, Playing, Merging
<1>4. /\ out.code = 0 /\ out.wrote \subseteq fe.ready /\ \A s \in out.wrote : Kept(s)
      /\ out.wrote # {} => fe.media /\ fe.mem = <<>>
  BY <1>1 DEF WroteIsKept, Playing
<1>5. WroteIsKept'
  BY <1>1, <1>4 DEF WroteIsKept, Early, Starting, Playing
<1>6. WroteIsMerged' /\ NothingTorn'
  BY <1>1, <1>4 DEF WroteIsMerged, NothingTorn, Kept, Saved, Merging
<1>7. QED
  BY <1>3, <1>5, <1>6

\* What a step of the merge finds.
LEMMA AtMerge ==
    ASSUME Inv, pc \in Merging, fe.ready # {}
    PROVE  /\ Slot \in fe.ready /\ Slot \in Slots /\ fe.ready \subseteq Slots
           /\ disk \in [Slots -> Carries] /\ disk[Slot] \in Carries
           /\ fe \in Frontends /\ out \in [code : Nat, wrote : SUBSET Slots] /\ fe.core
           /\ out.code \in {0, 13}
           /\ \A s \in out.wrote \cap fe.ready : Kept(s)
           /\ out.code = 0 => \A s \in out.wrote \ fe.ready : Saved(s)
           /\ \A s \in Slots : ~disk[s].torn
<1>1. /\ fe.ready \subseteq Slots /\ disk \in [Slots -> Carries] /\ fe \in Frontends
      /\ out \in [code : Nat, wrote : SUBSET Slots]
  BY DEF Inv, Typed, Frontends
<1>2. Slot \in fe.ready
  BY <1>1, LeastSlot
<1>3. disk[Slot] \in Carries /\ Slot \in Slots
  BY <1>1, <1>2
<1>4. fe.core /\ \A s \in Slots : ~disk[s].torn
  BY DEF Inv, CoreHolds, NothingTorn
<1>5. QED
  BY <1>1, <1>2, <1>3, <1>4 DEF Inv, WroteIsMerged

\* What is left to show when a slot is done.
LEMMA SlotDoneKeeps ==
    ASSUME Inv, pc \in Merging, fe.ready # {}, NEW code \in {0, 13}, SlotDone(code),
           UNCHANGED <<opt, thr, req, run>>,
           disk' \in [Slots -> Carries], \A s \in Slots : ~disk'[s].torn,
           \A s \in Slots \ {Slot} : disk'[s] = disk[s],
           code = 0 => out.code = 0,
           code = 0 /\ Slot \in out.wrote => disk'[Slot].ram = run
    PROVE  Inv'
<1> USE DEF Inv
<1>1. /\ Slot \in fe.ready /\ fe.ready \subseteq Slots /\ fe \in Frontends /\ fe.core
      /\ out \in [code : Nat, wrote : SUBSET Slots]
      /\ \A s \in out.wrote \cap fe.ready : Kept(s)
      /\ out.code = 0 => \A s \in out.wrote \ fe.ready : Saved(s)
  BY AtMerge
<1> DEFINE slot == Slot
<1>2. /\ pc' = "finalize" /\ fe' = [fe EXCEPT !.ready = fe.ready \ {slot}]
      /\ out' = [out EXCEPT !.code = code]
  BY DEF SlotDone
<1>a. /\ slot \in fe.ready /\ \A s \in Slots \ {slot} : disk'[s] = disk[s]
      /\ code = 0 /\ slot \in out.wrote => disk'[slot].ram = run
  BY <1>1
<1> HIDE DEF slot
<1>3. fe.ready \ {slot} \in SUBSET Slots
  BY <1>1
<1>4. /\ fe' \in Frontends /\ fe'.started = fe.started /\ fe'.open = fe.open /\ fe'.media = fe.media
      /\ fe'.attached = fe.attached /\ fe'.rom = fe.rom /\ fe'.core = fe.core /\ fe'.mem = fe.mem
      /\ fe'.ready = fe.ready \ {slot} /\ fe'.paks = fe.paks
  BY <1>1, <1>2, <1>3 DEF Frontends
<1>5. out' \in [code : Nat, wrote : SUBSET Slots] /\ out'.code = code /\ out'.wrote = out.wrote
  BY <1>1, <1>2
<1>6. Typed' /\ Fresh' /\ CoreHolds' /\ ThreadsEnd' /\ PaksReady'
  BY <1>2, <1>4, <1>5 DEF Typed, Stages, Fresh, CoreHolds, Tidy, ThreadsEnd, PaksReady, Over,
     Unplugged, Early, Starting, Playing, Merging
<1>7. \A s \in out'.wrote \cap fe'.ready : Kept(s)'
  BY <1>1, <1>a, <1>4, <1>5 DEF Kept, Saved
<1>8. out'.code = 0 => \A s \in out'.wrote \ fe'.ready : Saved(s)'
  <2>1. SUFFICES ASSUME code = 0, NEW s \in out.wrote \ (fe.ready \ {slot})
                 PROVE  disk'[s].ram = run
    BY <1>4, <1>5 DEF Saved
  <2>2. CASE s = slot
    BY <1>a, <2>1, <2>2
  <2>3. CASE s # slot
    <3>1. s \in Slots \ {slot} /\ Saved(s)
      BY <1>1, <2>1, <2>3
    <3>2. QED
      BY <1>a, <3>1 DEF Saved
  <2>4. QED
    BY <2>2, <2>3
<1>9. WroteIsKept' /\ NothingTorn'
  BY <1>2, <1>4, <1>5 DEF WroteIsKept, NothingTorn, Early, Starting, Playing
<1>10. WroteIsMerged'
  BY <1>2, <1>5, <1>7, <1>8 DEF WroteIsMerged, Merging
<1>11. QED
  BY <1>6, <1>9, <1>10

\* A slot's working copy is merged into a file beside the SAV, which is left alone.
LEMMA FinalizeKeeps ==
    ASSUME Inv, FinalizeSlot
    PROVE  Inv'
<1>1. pc = "finalize" /\ pc \in Merging /\ fe.ready # {} /\ UNCHANGED <<opt, thr, req, run>>
  BY DEF FinalizeSlot, Merging
<1>2. /\ Slot \in fe.ready /\ Slot \in Slots /\ disk \in [Slots -> Carries] /\ disk[Slot] \in Carries
      /\ out.code \in {0, 13} /\ \A s \in Slots : ~disk[s].torn
      /\ \A s \in out.wrote \cap fe.ready : Kept(s)
  BY <1>1, AtMerge
<1>3. CASE ~Staged(disk[Slot]) /\ SlotDone(MergeDone(out.code)) /\ UNCHANGED disk
  <2>1. Slot \in out.wrote => disk[Slot].ram = run
    BY <1>2, <1>3 DEF Kept, Saved
  <2>2. QED
    BY <1>1, <1>2, <1>3, <2>1, SlotDoneKeeps DEF MergeDone
<1>4. CASE SlotDone(MergeFailed(out.code)) /\ UNCHANGED disk
  BY <1>1, <1>2, <1>4, SlotDoneKeeps DEF MergeFailed
<1>5. CASE /\ Staged(disk[Slot]) /\ CanMerge(disk[Slot])
           /\ disk' = [disk EXCEPT ![Slot] = Merged(disk[Slot])]
           /\ pc' = "replace"
           /\ UNCHANGED <<fe, out>>
  <2>1. disk' = disk
    BY <1>2, <1>5 DEF Merged
  <2>2. Slot' = Slot
    BY <1>5 DEF Slot
  <2>3. Staged(disk[Slot])' /\ CanMerge(disk[Slot])'
    BY <1>5, <2>1, <2>2
  <2>4. Typed' /\ Fresh' /\ CoreHolds' /\ ThreadsEnd' /\ PaksReady'
    BY <1>1, <1>5, <2>1 DEF Inv, Typed, Stages, Fresh, CoreHolds, Tidy, ThreadsEnd, PaksReady, Over,
       Unplugged, Early, Starting, Playing, Merging
  <2>5. WroteIsKept' /\ NothingTorn'
    BY <1>1, <1>5, <2>1 DEF Inv, WroteIsKept, NothingTorn, Kept, Saved, Early, Starting, Playing
  <2>6. WroteIsMerged'
    BY <1>1, <1>5, <2>1, <2>3 DEF Inv, WroteIsMerged, Kept, Saved, Merging
  <2>7. QED
    BY <2>4, <2>5, <2>6 DEF Inv
<1>6. QED
  BY <1>3, <1>4, <1>5 DEF FinalizeSlot

\* The merged file takes the SAV's place.
LEMMA ReplaceKeeps ==
    ASSUME Inv, ReplaceSlot
    PROVE  Inv'
<1>1. /\ pc = "replace" /\ pc \in Merging /\ UNCHANGED <<opt, thr, req, run>>
      /\ fe.ready # {} /\ Staged(disk[Slot]) /\ CanMerge(disk[Slot])
  BY DEF Inv, WroteIsMerged, ReplaceSlot, Merging
<1>2. /\ Slot \in fe.ready /\ Slot \in Slots /\ disk \in [Slots -> Carries] /\ disk[Slot] \in Carries
      /\ out.code \in {0, 13} /\ \A s \in Slots : ~disk[s].torn
      /\ out \in [code : Nat, wrote : SUBSET Slots] /\ fe.ready \subseteq Slots
      /\ \A s \in out.wrote \cap fe.ready : Kept(s)
      /\ out.code = 0 => \A s \in out.wrote \ fe.ready : Saved(s)
  BY <1>1, AtMerge
<1>3. CASE SlotDone(MergeFailed(out.code)) /\ UNCHANGED disk
  BY <1>1, <1>2, <1>3, SlotDoneKeeps DEF MergeFailed
<1>4. CASE /\ disk' = [disk EXCEPT ![Slot] = transfer_pak_storage_replace(@)]
           /\ pc' = "discard"
           /\ UNCHANGED <<fe, out>>
  <2> DEFINE slot == Slot
             f == transfer_pak_storage_replace(disk[slot])
  <2>1. Slot' = slot
    BY <1>4 DEF Slot
  <2>2. /\ f \in Carries /\ f.cart = disk[slot].cart /\ ~f.torn /\ f.ram = disk[slot].work
        /\ f.work = disk[slot].work
    <3> HIDE DEF slot
    <3>1. disk[slot] \in Carries
      BY <1>2 DEF slot
    <3>2. QED
      BY <3>1 DEF Carries, transfer_pak_storage_replace
  <2>3. disk' = [disk EXCEPT ![slot] = f]
    BY <1>4
  <2>4. Slot \in out.wrote => f.ram = run
    BY <1>1, <1>2, <2>2 DEF Kept, CanMerge
  <2>5. slot \in fe.ready /\ slot \in Slots /\ Staged(disk[slot]) /\ (slot \in out.wrote => f.ram = run)
    BY <1>1, <1>2, <2>4
  <2> HIDE DEF slot, f
  <2>6. /\ disk' \in [Slots -> Carries] /\ disk'[slot] = f
        /\ \A s \in Slots \ {slot} : disk'[s] = disk[s]
        /\ \A s \in Slots : ~disk'[s].torn
    BY <1>2, <2>2, <2>3, <2>5
  <2>7. Staged(disk[Slot])' /\ (Slot \in out.wrote => Saved(Slot))'
    BY <1>1, <1>4, <2>1, <2>2, <2>5, <2>6 DEF Staged, Saved
  <2>8. Typed' /\ Fresh' /\ CoreHolds' /\ ThreadsEnd' /\ PaksReady'
    BY <1>1, <1>4, <2>6 DEF Inv, Typed, Stages, Fresh, CoreHolds, Tidy, ThreadsEnd, PaksReady, Over,
       Unplugged, Early, Starting, Playing, Merging
  <2>9. WroteIsKept' /\ NothingTorn'
    BY <1>1, <1>4, <2>6 DEF Inv, WroteIsKept, NothingTorn, Early, Starting, Playing
  <2>10. \A s \in out'.wrote \cap fe'.ready : Kept(s)'
    <3>1. SUFFICES ASSUME NEW s \in out.wrote \cap fe.ready
                   PROVE  IF Staged(disk'[s]) THEN disk'[s].work \in {run, Bad} ELSE disk'[s].ram = run
      BY <1>1, <1>4 DEF Kept, Saved
    <3>2. Kept(s) /\ s \in Slots
      BY <1>2
    <3>3. CASE s = slot
      BY <1>2, <2>2, <2>5, <2>6, <3>2, <3>3 DEF Kept, Saved
    <3>4. CASE s # slot
      BY <2>6, <3>2, <3>4 DEF Kept, Saved
    <3>5. QED
      BY <3>3, <3>4
  <2>11. out'.code = 0 => \A s \in out'.wrote \ fe'.ready : Saved(s)'
    <3>1. SUFFICES ASSUME out.code = 0, NEW s \in out.wrote \ fe.ready
                   PROVE  disk'[s].ram = run
      BY <1>1, <1>4 DEF Saved
    <3>2. s \in Slots \ {slot} /\ Saved(s)
      BY <1>2, <2>5, <3>1
    <3>3. QED
      BY <2>6, <3>2 DEF Saved
  <2>12. WroteIsMerged'
    BY <1>1, <1>2, <1>4, <2>7, <2>10, <2>11 DEF WroteIsMerged, Merging
  <2>13. QED
    BY <2>8, <2>9, <2>12 DEF Inv
<1>5. QED
  BY <1>3, <1>4 DEF ReplaceSlot

\* The working copy is removed when its contents are in the SAV.
LEMMA DiscardKeeps ==
    ASSUME Inv, DiscardSlot
    PROVE  Inv'
<1>1. /\ pc = "discard" /\ pc \in Merging /\ UNCHANGED <<opt, thr, req, run>> /\ run \in Nat
      /\ fe.ready # {} /\ (Slot \in out.wrote => Saved(Slot))
      /\ disk' = [disk EXCEPT ![Slot] = transfer_pak_save_stage_discard(disk[Slot])]
      /\ SlotDone(out.code)
  BY DEF Inv, Typed, WroteIsMerged, DiscardSlot, Merging, MergeDone
<1>2. /\ Slot \in Slots /\ disk \in [Slots -> Carries] /\ disk[Slot] \in Carries
      /\ out.code \in {0, 13} /\ \A s \in Slots : ~disk[s].torn
  BY <1>1, AtMerge
<1>3. /\ transfer_pak_save_stage_discard(disk[Slot]) \in Carries
      /\ transfer_pak_save_stage_discard(disk[Slot]).torn = disk[Slot].torn
      /\ transfer_pak_save_stage_discard(disk[Slot]).ram = disk[Slot].ram
  BY <1>1, <1>2, StagingKeepsSav
<1>4. /\ disk' \in [Slots -> Carries] /\ \A s \in Slots : ~disk'[s].torn
      /\ \A s \in Slots \ {Slot} : disk'[s] = disk[s]
      /\ disk'[Slot].ram = disk[Slot].ram
  BY <1>1, <1>2, <1>3
<1>5. QED
  BY <1>1, <1>2, <1>4, SlotDoneKeeps DEF Saved

\* All slots are done; a failure of one of them is the exit code.
LEMMA SessionEndKeeps ==
    ASSUME Inv, transfer_pak_media_session_finalize
    PROVE  Inv'
<1> USE DEF Inv
<1>1. /\ pc = "finalize" /\ fe.ready = {} /\ UNCHANGED <<opt, thr, req, disk, run, out>>
      /\ fe \in Frontends /\ fe.core
  BY DEF transfer_pak_media_session_finalize, Typed, CoreHolds, Merging
<1>2. out.code \in {0, 13} /\ (out.code = 0 => \A s \in out.wrote : Saved(s))
  BY <1>1 DEF WroteIsMerged, Merging
<1>3. CASE out.code = 13 /\ pc' = "cleanup" /\ UNCHANGED fe
  <2>1. Typed' /\ Fresh' /\ CoreHolds' /\ ThreadsEnd' /\ PaksReady'
    BY <1>1, <1>3 DEF Typed, Stages, Fresh, CoreHolds, Tidy, ThreadsEnd, PaksReady, Over, Unplugged,
       Early, Starting, Playing, Merging
  <2>2. WroteIsKept' /\ WroteIsMerged' /\ NothingTorn'
    BY <1>1, <1>3 DEF WroteIsKept, WroteIsMerged, NothingTorn, Early, Starting, Playing, Merging
  <2>3. QED
    BY <2>1, <2>2
<1>4. CASE out.code # 13 /\ pc' = "report" /\ fe' = [fe EXCEPT !.media = FALSE]
  <2>1. /\ fe' \in Frontends /\ fe'.started = fe.started /\ fe'.open = fe.open
        /\ fe'.attached = fe.attached /\ fe'.rom = fe.rom /\ fe'.core = fe.core /\ fe'.mem = fe.mem
    BY <1>1, <1>4 DEF Frontends
  <2>2. Typed' /\ Fresh' /\ CoreHolds' /\ ThreadsEnd' /\ PaksReady'
    BY <1>1, <1>4, <2>1 DEF Typed, Stages, Fresh, CoreHolds, Tidy, ThreadsEnd, PaksReady, Over,
       Unplugged, Early, Starting, Playing, Merging
  <2>3. WroteIsKept' /\ WroteIsMerged' /\ NothingTorn'
    BY <1>1, <1>2, <1>4, <2>1 DEF WroteIsKept, WroteIsMerged, NothingTorn, Saved, Early, Starting,
       Playing, Merging
  <2>4. QED
    BY <2>2, <2>3
<1>5. QED
  BY <1>3, <1>4 DEF transfer_pak_media_session_finalize

\* The exit code of a run whose SAVs are merged.
LEMMA ReportKeeps ==
    ASSUME Inv, Report
    PROVE  Inv'
<1> USE DEF Inv
<1>1. /\ pc = "report" /\ pc' = "cleanup" /\ UNCHANGED <<opt, fe, thr, req, disk, run>>
      /\ out \in [code : Nat, wrote : SUBSET Slots] /\ fe.core
  BY DEF Report, Typed, CoreHolds
<1>2. PICK code \in Nat : out' = [out EXCEPT !.code = code]
  <2>1. \/ out' = [out EXCEPT !.code = 11] \/ out' = [out EXCEPT !.code = 12]
        \/ out' = [out EXCEPT !.code = 0]
    BY DEF Report
  <2>2. QED
    BY <2>1
<1>3. out' \in [code : Nat, wrote : SUBSET Slots] /\ out'.wrote = out.wrote
  BY <1>1, <1>2
<1>4. Typed' /\ Fresh' /\ CoreHolds' /\ ThreadsEnd' /\ PaksReady'
  BY <1>1, <1>3 DEF Typed, Stages, Fresh, CoreHolds, Tidy, ThreadsEnd, PaksReady, Over, Unplugged,
     Early, Starting, Playing, Merging
<1>5. WroteIsKept' /\ WroteIsMerged' /\ NothingTorn'
  BY <1>1, <1>3 DEF WroteIsKept, WroteIsMerged, NothingTorn, Saved, Early, Starting, Playing, Merging
<1>6. QED
  BY <1>4, <1>5

\* What is left to show for a step of cleanup.
LEMMA CleansUp ==
    ASSUME Inv, pc = "cleanup", pc' \in {"cleanup", "exited"}, UNCHANGED <<opt, thr, req, run, out>>,
           fe' \in Frontends, IsFiniteSet(fe'.started), IsFiniteSet(fe'.attached),
           fe'.started \subseteq fe'.open,
           pc' = "exited" => fe' = Frontend,
           fe'.mem = <<>> \/ fe'.mem = fe.mem,
           pc' = "cleanup" /\ ~fe'.core => fe'.attached = {} /\ fe'.started = {} /\ ~fe'.rom,
           disk' \in [Slots -> Carries],
           \A s \in Slots : ~disk'[s].torn /\ disk'[s].ram = disk[s].ram
    PROVE  Inv'
<1> USE DEF Inv
<1>1. Typed'
  BY DEF Typed, Stages, Over
<1>2. Fresh' /\ CoreHolds' /\ ThreadsEnd' /\ PaksReady'
  BY DEF Fresh, CoreHolds, Tidy, ThreadsEnd, PaksReady, Over, Unplugged, Early, Starting, Playing,
     Merging
<1>3. out.wrote \subseteq Slots
  BY DEF Typed
<1>4. WroteIsKept' /\ WroteIsMerged' /\ NothingTorn'
  BY <1>3 DEF WroteIsKept, WroteIsMerged, NothingTorn, Saved, Early, Starting, Playing, Merging
<1>5. QED
  BY <1>1, <1>2, <1>4

\* Everything is taken down in the opposite order.
LEMMA CleanupKeeps ==
    ASSUME Inv, cleanup
    PROVE  Inv'
<1>1. /\ pc = "cleanup" /\ UNCHANGED <<opt, thr, req, run, out>>
      /\ fe \in Frontends /\ IsFiniteSet(fe.started) /\ IsFiniteSet(fe.attached)
      /\ fe.started \subseteq fe.open
      /\ ~fe.core => fe.attached = {} /\ fe.started = {} /\ ~fe.rom
      /\ disk \in [Slots -> Carries] /\ run \in Nat
      /\ \A s \in Slots : ~disk[s].torn
  BY DEF Inv, Typed, CoreHolds, Tidy, NothingTorn, cleanup
<1>2. IsFiniteSet({})
  BY FS_EmptySet
<1>3. CASE fe' = [fe EXCEPT !.attached = {}] /\ UNCHANGED <<pc, disk>>
  <2>1. /\ fe' \in Frontends /\ fe'.started = fe.started /\ fe'.open = fe.open
        /\ fe'.attached = {} /\ fe'.rom = fe.rom /\ fe'.core = fe.core /\ fe'.mem = fe.mem
    BY <1>1, <1>3 DEF Frontends
  <2>2. QED
    BY <1>1, <1>2, <1>3, <2>1, CleansUp
<1>4. CASE fe' = [fe EXCEPT !.started = {}, !.open = {}] /\ fe.attached = {} /\ UNCHANGED <<pc, disk>>
  <2>1. /\ fe' \in Frontends /\ fe'.started = {} /\ fe'.open = {}
        /\ fe'.attached = fe.attached /\ fe'.rom = fe.rom /\ fe'.core = fe.core /\ fe'.mem = fe.mem
    BY <1>1, <1>4 DEF Frontends
  <2>2. QED
    BY <1>1, <1>2, <1>4, <2>1, CleansUp
<1>5. CASE fe' = [fe EXCEPT !.rom = FALSE] /\ UNCHANGED <<pc, disk>>
  <2>1. /\ fe' \in Frontends /\ fe'.started = fe.started /\ fe'.open = fe.open
        /\ fe'.attached = fe.attached /\ ~fe'.rom /\ fe'.core = fe.core /\ fe'.mem = fe.mem
    BY <1>1, <1>5 DEF Frontends
  <2>2. QED
    BY <1>1, <1>5, <2>1, CleansUp
<1>6. CASE /\ disk' = transfer_pak_media_session_discard(disk, Slots)
           /\ fe' = [fe EXCEPT !.media = FALSE, !.ready = {}]
           /\ UNCHANGED pc
  <2>1. /\ fe' \in Frontends /\ fe'.started = fe.started /\ fe'.open = fe.open
        /\ fe'.attached = fe.attached /\ fe'.rom = fe.rom /\ fe'.core = fe.core /\ fe'.mem = fe.mem
    BY <1>1, <1>6 DEF Frontends
  <2>2. /\ disk' \in [Slots -> Carries]
        /\ \A s \in Slots : ~disk'[s].torn /\ disk'[s].ram = disk[s].ram
    BY <1>1, <1>6, DiscardKeepsSavs
  <2>3. QED
    BY <1>1, <1>6, <2>1, <2>2, CleansUp
<1>7. CASE fe' = Frontend /\ pc' = "exited" /\ UNCHANGED disk
  BY <1>1, <1>7, FrontendTyped, CleansUp
<1>8. QED
  BY <1>3, <1>4, <1>5, <1>6, <1>7 DEF cleanup

-----------------------------------------------------------------------------
(* The process is killed or started again, and the theorems. *)

\* A killed process leaves only the files.
LEMMA KillKeeps ==
    ASSUME Inv, Kill
    PROVE  Inv'
<1> USE DEF Inv
<1>1. /\ pc' = "killed" /\ fe' = Frontend /\ thr' = NoThreads /\ UNCHANGED <<opt, req, disk, run, out>>
  BY DEF Kill
<1>2. Typed'
  BY <1>1, FrontendTyped DEF Typed, Stages, Over, NoThreads, Threads
<1>3. Fresh' /\ CoreHolds' /\ ThreadsEnd' /\ PaksReady'
  BY <1>1, FrontendTyped DEF Fresh, CoreHolds, Tidy, ThreadsEnd, PaksReady, NoThreads, Over,
     Unplugged, Early, Starting, Playing, Merging
<1>4. WroteIsKept' /\ WroteIsMerged' /\ NothingTorn'
  BY <1>1, FrontendTyped DEF WroteIsKept, WroteIsMerged, NothingTorn, Early, Starting, Playing, Merging
<1>5. QED
  BY <1>2, <1>3, <1>4

\* The next start finds the files, and nothing of the last process.
LEMMA RestartKeeps ==
    ASSUME Inv, Restart
    PROVE  Inv'
<1> USE DEF Inv
<1>1. /\ pc' = "main" /\ thr' = NoThreads /\ run' = run + 1 /\ UNCHANGED <<opt, fe, disk>>
      /\ req' = [signal |-> FALSE, file |-> "none", shot |-> "idle"]
      /\ out' = [code |-> 0, wrote |-> {}] /\ fe = Frontend
  BY DEF Restart, Alive, Fresh, Over
<1>2. Typed'
  BY <1>1 DEF Typed, Stages, Early, NoThreads, Threads, Requests
<1>3. Fresh' /\ CoreHolds' /\ ThreadsEnd' /\ PaksReady'
  BY <1>1, FrontendTyped DEF Fresh, CoreHolds, Tidy, ThreadsEnd, PaksReady, NoThreads, Over,
     Unplugged, Early, Starting, Playing, Merging
<1>4. WroteIsKept' /\ WroteIsMerged' /\ NothingTorn'
  BY <1>1, FrontendTyped DEF WroteIsKept, WroteIsMerged, NothingTorn, Early, Starting, Playing, Merging
<1>5. QED
  BY <1>2, <1>3, <1>4

\* The first start finds whole SAVs.
LEMMA InitHolds ==
    ASSUME Init
    PROVE  Inv
<1>1. /\ pc = "main" /\ fe = Frontend /\ thr = NoThreads /\ run = 1 /\ opt \in Options
      /\ req = [signal |-> FALSE, file |-> "none", shot |-> "idle"]
      /\ out = [code |-> 0, wrote |-> {}]
  BY DEF Init
<1>2. disk \in [Slots -> Carries] /\ \A s \in Slots : ~disk[s].torn
  <2>1. PICK cart \in Carts, tail \in {Nothing, Bad, 0} :
           disk = [s \in Slots |-> [cart |-> cart[s], torn |-> FALSE, ram |-> 0,
                                   tail |-> IF cart[s] = "mbc3" THEN tail ELSE 0,
                                   work |-> Nothing, rtc |-> Nothing]]
    BY DEF Init
  <2>2. \A s \in Slots : cart[s] \in {"none", "direct", "mbc3", "long"}
    BY <2>1, N64RuntimeAssumption
  <2>3. Nothing \in Int /\ Bad \in Int /\ tail \in Int
    BY <2>1 DEF Nothing, Bad
  <2>4. \A s \in Slots : disk[s] \in Carries /\ ~disk[s].torn
    <3>1. TAKE s \in Slots
    <3>2. disk[s] = [cart |-> cart[s], torn |-> FALSE, ram |-> 0,
                     tail |-> IF cart[s] = "mbc3" THEN tail ELSE 0,
                     work |-> Nothing, rtc |-> Nothing]
      BY <2>1
    <3>3. QED
      BY <2>2, <2>3, <3>2 DEF Carries
  <2>5. QED
    BY <2>1, <2>4
<1>3. Typed
  BY <1>1, <1>2, FrontendTyped DEF Typed, Stages, Early, NoThreads, Threads, Requests
<1>4. Fresh /\ CoreHolds /\ ThreadsEnd /\ PaksReady
  BY <1>1, FrontendTyped DEF Fresh, CoreHolds, Tidy, ThreadsEnd, PaksReady, NoThreads, Over,
     Unplugged, Early, Starting, Playing, Merging
<1>5. WroteIsKept /\ WroteIsMerged /\ NothingTorn
  BY <1>1, <1>2, FrontendTyped DEF WroteIsKept, WroteIsMerged, NothingTorn, Early, Starting,
     Playing, Merging
<1>6. QED
  BY <1>3, <1>4, <1>5 DEF Inv

\* No step loses the invariant.
LEMMA NextKeeps ==
    ASSUME Inv, [Next]_vars
    PROVE  Inv'
<1>1. CASE Next
  BY <1>1, StartupKeeps, JoinMonitorKeeps, JoinGuardKeeps, FinalizeKeeps, ReplaceKeeps, DiscardKeeps,
     SessionEndKeeps, ReportKeeps, CleanupKeeps, OthersKeep, FrameKeeps, GameSavesKeeps,
     ClockSavesKeeps, CoreEndsKeeps, KillKeeps, RestartKeeps DEF Next, Ending
<1>2. CASE UNCHANGED vars
  BY <1>2, BesideKeeps DEF vars, Inv, Typed
<1>3. QED
  BY <1>1, <1>2

\* The invariant holds in every state of every run.
THEOREM Invariance == Spec => []Inv
BY InitHolds, NextKeeps, PTL DEF Spec

\* Nothing that uses the core outlives it, whichever step of the start fails.
THEOREM CoreIsUpWhileUsed == Spec => []CoreOutlivesItsUsers
<1>1. Inv => CoreOutlivesItsUsers
  <2>1. SUFFICES ASSUME Inv PROVE CoreOutlivesItsUsers
    OBVIOUS
  <2>2. pc \in Over \cup {"main"} => fe.attached = {} /\ fe.started = {} /\ ~fe.rom
    BY <2>1, FrontendTyped DEF Inv, Fresh
  <2>3. QED
    BY <2>1, <2>2 DEF Inv, CoreOutlivesItsUsers, CoreHolds, Tidy, ThreadsEnd, Typed, Stages,
       Early, Starting, Playing, Merging, Over
<1>2. QED
  BY <1>1, Invariance, PTL

\* What the runtime leaves on the disk is what its exit code says, and never half of it.
THEOREM ExitCodeIsTrue == Spec => []ExitIsTrue
<1>1. Inv => ExitIsTrue
  BY DEF Inv, ExitIsTrue, SavIsWhole, ZeroMeansSaved, NothingTorn, WroteIsMerged, Saved, Typed, Frontends
<1>2. QED
  BY <1>1, Invariance, PTL
=============================================================================
