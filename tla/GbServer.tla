------------------------------ MODULE GbServer ------------------------------
(***************************************************************************)
(* The Game Boy runtime's server process: one loop that runs one or two    *)
(* emulated Game Boys ("slots"), takes input from the keyboard, a browser  *)
(* on the LAN and remote clients, and keeps the battery SAVs.  A remote    *)
(* client may bring the second slot's ROM and SAV with it and is sent the  *)
(* SAV back while it plays.  The loop is one thread; what is concurrent is *)
(* the outside: keys, connections that come and go between any two polls,  *)
(* output that is accepted only in part, disks that refuse a write, and a  *)
(* shutdown signal at any step.                                            *)
(***************************************************************************)
EXTENDS Integers, Sequences

CONSTANTS
    Buttons,    \* the joypad buttons told apart; "A" is one of them
    Requested,  \* command lines: what is asked for, before it is checked
    MaxWrites   \* bound: the times a game writes to its battery RAM

Slots == {1, 2}

\* What a command line can ask for (frames: where the run is cut, so at least one).
Options ==
    [mode : {"self", "lan", "pair", "dual", "server"}, remote : BOOLEAN, display : BOOLEAN,
     auth : BOOLEAN, autoA : Nat, macro : [Slots -> Seq(Buttons \cup {"."})],
     speed : 1..4, frames : Nat \ {0}]

ASSUME GbServerAssumption ==
    /\ "A" \in Buttons
    /\ MaxWrites \in Nat
    /\ Requested \subseteq Options

VARIABLES
    opt,     \* the options in force
    pc,      \* where the process is: setting up, a stage of the loop, or done
    frame,   \* frames run
    stop,    \* a shutdown signal has arrived
    slot,    \* per slot: the emulated machine, its keys and battery RAM
    file,    \* per slot: the SAV file
    router,  \* keyboard input as it is routed to the slots, and the speed
    window,  \* the confirmation asked before the game is left
    held,    \* per slot: game keys the player holds down
    stream,  \* per slot: the remote client's connection and its input
    far,     \* per slot: what the remote client has said and been sent
    lan      \* the browser remote

vars == <<opt, pc, frame, stop, slot, file, router, window, held, stream, far, lan>>

\* Options as parse_options accepts and adjusts them.
OptionsAccepted(o) ==
    /\ o.mode = "dual" => o.remote
    /\ o.mode = "server" => o.remote

Adjusted(o) == IF o.mode \in {"self", "lan"} THEN [o EXCEPT !.remote = FALSE] ELSE o

Self == opt.mode \in {"self", "lan"}
FromClient == opt.mode = "server"
Linked == ~Self

NoKeys == [s \in Slots |-> {}]
NoStream == [open |-> FALSE, conn |-> FALSE, authed |-> FALSE, buttons |-> {}, seq |-> 0,
             applied |-> {}, pending |-> FALSE, down |-> "free", returned |-> FALSE]
NoClient == [said |-> {}, seq |-> 0, sav |-> -1, lost |-> FALSE, torn |-> FALSE]
NoSlot == [on |-> FALSE, keys |-> {}, ram |-> 0, dirty |-> FALSE, stamped |-> FALSE,
           refused |-> FALSE]
IdleRouter == [normal |-> NoKeys, turbo |-> NoKeys, applied |-> NoKeys, active |-> FALSE,
               capture |-> FALSE, phase |-> TRUE, turboKey |-> FALSE, fastKey |-> FALSE,
               speed |-> 1]
NoLan == [open |-> FALSE, ws |-> FALSE, buttons |-> {}, fast |-> FALSE, paused |-> FALSE,
          said |-> {}]

Init ==
    /\ \E o \in Requested : OptionsAccepted(o) /\ opt = Adjusted(o)
    /\ pc = "slot1"
    /\ frame = 0 /\ stop = FALSE
    /\ slot = [s \in Slots |-> NoSlot]
    /\ file \in [Slots -> {[kind |-> k, ver |-> 0] : k \in {"absent", "bad", "ok"}}]
    /\ Self \/ FromClient => file[2] = [kind |-> "absent", ver |-> 0]
    /\ router = IdleRouter
    /\ window = [ask |-> FALSE, yes |-> FALSE]
    /\ held = NoKeys
    /\ stream = [s \in Slots |-> NoStream]
    /\ far = [s \in Slots |-> NoClient]
    /\ lan = NoLan

-----------------------------------------------------------------------------
\* Battery SAVs.  Effects on a slot sl and its file f.

\* A save goes to a temporary file that replaces the SAV: the SAV is old or new, never torn.
Stored(s, sl) ==
    /\ file' = [file EXCEPT ![s] = [kind |-> "ok", ver |-> sl.ram]]
    /\ slot' = [slot EXCEPT ![s] = [sl EXCEPT !.stamped = TRUE]]

\* The disk refuses a save; it is noted when that was the last one.
Refused(s) ==
    /\ slot' = [slot EXCEPT ![s].refused = pc = "leave"]
    /\ UNCHANGED file

Clean(sl) == [sl EXCEPT !.dirty = FALSE]

\* A save is due a second after the last one, and at once when there was none.
SaveMayBeDue(s) == slot[s].dirty
SaveMayWait(s) == ~slot[s].dirty \/ slot[s].stamped

-----------------------------------------------------------------------------
\* Joypad keys.  A slot that is not initialised has none.

Press(sl, keys) == [sl EXCEPT !.keys = IF sl.on THEN keys ELSE {}]

\* Only the buttons that changed are set or released.
MaskApplied(keys, previous, next) == (keys \ (previous \ next)) \cup (next \ previous)

Routed(r) ==
    [s \in Slots |-> r.normal[s] \cup (IF r.active /\ r.phase THEN r.turbo[s] ELSE {})]

RouterApplied(sl, r) ==
    [s \in Slots |-> [sl[s] EXCEPT !.keys =
        IF sl[s].on THEN MaskApplied(@, r.applied[s], Routed(r)[s]) ELSE {}]]

ApplyRouter(r) ==
    /\ router' = [r EXCEPT !.applied = Routed(r)]
    /\ slot' = RouterApplied(slot, r)

Released(r) ==
    [r EXCEPT !.normal = NoKeys, !.turbo = NoKeys, !.active = FALSE, !.capture = FALSE,
              !.phase = TRUE, !.turboKey = FALSE, !.fastKey = FALSE, !.speed = 1]

ReleaseAll == ApplyRouter(Released(router))

\* Automatic presses of A for the first frames, then A is given back to the keyboard.
AutoA(sl, s) ==
    LET down == (frame % 2) < 1 IN
    IF opt.autoA = 0 \/ frame > opt.autoA THEN sl.keys
    ELSE IF frame = opt.autoA
    THEN (sl.keys \ {"A"}) \cup (router.applied[s] \cap {"A"})
    ELSE IF down THEN sl.keys \cup {"A"} ELSE sl.keys \ {"A"}

\* A macro releases every key each frame and presses its own.
MacroKey(s) ==
    IF frame < Len(opt.macro[s]) /\ opt.macro[s][frame + 1] # "." THEN {opt.macro[s][frame + 1]}
    ELSE {}
Scripted(s, keys) == IF opt.macro[s] = <<>> THEN keys ELSE MacroKey(s)

-----------------------------------------------------------------------------
\* A stream server with its client.  What a poll does depends on what the network brings, so
\* each part gives the set of its outcomes; an outcome is a pair of the server's record (st)
\* and the client's (fa).

Then(S, Op(_)) == UNION {Op(x) : x \in S}
MustAuth(x) == opt.auth /\ ~x.st.authed

\* Mutant of CloseClient: buttons that were applied are forgotten.
CloseAndForget(x) ==
    IF ~x.st.conn THEN x
    ELSE [st |-> [x.st EXCEPT !.conn = FALSE, !.buttons = {}, !.down = "free"],
          fa |-> [x.fa EXCEPT !.lost = TRUE]]

CloseClient(x) ==
    IF ~x.st.conn THEN x
    ELSE [st |-> [x.st EXCEPT !.conn = FALSE, !.buttons = {}, !.down = "free",
                              !.pending = @ \/ x.st.applied # {}],
          fa |-> [x.fa EXCEPT !.lost = TRUE]]

AcceptClient(x) ==
    IF x.st.conn THEN {x}
    ELSE {x, [st |-> [x.st EXCEPT !.conn = TRUE, !.authed = ~opt.auth, !.buttons = {}, !.seq = 0],
              fa |-> [x.fa EXCEPT !.said = {}, !.seq = 0, !.torn = FALSE]]}

\* An input packet that is older than the last one taken is dropped.
HandlePacket(x, seq, buttons) ==
    [st |-> IF seq < x.st.seq THEN x.st ELSE [x.st EXCEPT !.seq = seq, !.buttons = buttons],
     fa |-> [x.fa EXCEPT !.seq = seq, !.said = buttons]]

\* The token of a client that has to show one: still on its way, lost, wrong, or right.
ReadAuthPacket(x) == {x, CloseClient(x), [x EXCEPT !.st.authed = TRUE]}

ReadPackets(x) ==
    IF MustAuth(x) \/ ~x.st.conn THEN {x}
    ELSE {x, CloseClient(x)}
         \cup {HandlePacket(x, seq, b) : seq \in x.fa.seq .. 1, b \in SUBSET Buttons}

ReadClient(x) ==
    IF ~x.st.conn THEN {x}
    ELSE Then(IF MustAuth(x) THEN ReadAuthPacket(x) ELSE {x}, ReadPackets)

\* A client that does not show its token in time is dropped.
AuthTimedOut(x) == IF x.st.conn /\ MustAuth(x) THEN {x, CloseClient(x)} ELSE {x}

\* The connection takes all, some or none of the packet being sent.
FlushDownlink(x) ==
    IF ~x.st.conn \/ MustAuth(x) \/ x.st.down = "free" THEN {x}
    ELSE {x, [x EXCEPT !.st.down = "free"], CloseClient(x)}

Poll(x) == Then(Then(Then(AcceptClient(x), ReadClient), AuthTimedOut), FlushDownlink)

\* A picture or a sound packet is queued when the one before is sent, and dropped otherwise.
MayQueue(x) == x.st.conn /\ ~MustAuth(x) /\ x.st.down = "free"
QueueFrame(x) == IF MayQueue(x) THEN [x EXCEPT !.st.down = "busy"] ELSE x
QueueAudio(x) == IF MayQueue(x) THEN {x, [x EXCEPT !.st.down = "busy"]} ELSE {x}

\* What a slot's keys are after the stream's input was applied, and what the server notes.
ReleaseRemoteButtons(keys, st) == IF st.pending THEN keys \ st.applied ELSE keys
InputApplied(keys, st) ==
    IF st.conn THEN st.buttons ELSE ReleaseRemoteButtons(keys, st)
InputNoted(st) ==
    LET r == IF st.pending THEN [st EXCEPT !.applied = {}, !.pending = FALSE] ELSE st IN
    IF st.conn THEN [r EXCEPT !.applied = st.buttons] ELSE r

\* A stream is polled and its input applied to its slot.
Outcome(s) == [st |-> stream[s], fa |-> far[s]]

PollAndApply(s) ==
    \E x \in Poll(Outcome(s)) :
        /\ stream' = [stream EXCEPT ![s] = InputNoted(x.st)]
        /\ far' = [far EXCEPT ![s] = x.fa]
        /\ slot' = [slot EXCEPT ![s].keys = InputApplied(@, x.st)]

\* Both streams, the second slot's first.
PollRemoteStreamInputs(stages, next) ==
    \/ /\ pc = stages[1]
       /\ IF stream[2].open THEN PollAndApply(2) ELSE UNCHANGED <<stream, far, slot>>
       /\ pc' = stages[2]
    \/ /\ pc = stages[2]
       /\ IF stream[1].open THEN PollAndApply(1) ELSE UNCHANGED <<stream, far, slot>>
       /\ pc' \in next

\* Mutant of FlushDownlinkBeforeSave: nothing is flushed.
SaveAtOnce(x) == {x}

\* The SAV is written to the connection whole, after what was being sent; a slow or broken
\* connection is closed.  ok: the caller may take the SAV as handled.
FlushDownlinkBeforeSave(x) == {[x EXCEPT !.st.down = "free"], CloseClient(x)}

SaveWritten(x, ver) ==
    IF ~x.st.conn THEN {[x |-> x, ok |-> FALSE]}
    ELSE {[x |-> CloseClient(x), ok |-> FALSE],
          [x |-> [st |-> [x.st EXCEPT !.returned = TRUE],
                  fa |-> [x.fa EXCEPT !.sav = ver, !.torn = @ \/ x.st.down = "busy"]],
           ok |-> TRUE]}

SendSaveFile(x, ver) ==
    IF ~x.st.conn \/ MustAuth(x) THEN {[x |-> x, ok |-> TRUE]}
    ELSE UNION {SaveWritten(y, ver) : y \in FlushDownlinkBeforeSave(x)}

-----------------------------------------------------------------------------
\* The browser remote: outcomes of its parts, as for the streams.

CloseWebsocket(l) ==
    IF l.ws THEN [l EXCEPT !.ws = FALSE, !.buttons = {}, !.fast = FALSE, !.paused = FALSE,
                           !.said = {}] ELSE l

LanInput(l, b, fast, paused) ==
    [l EXCEPT !.buttons = b, !.said = b, !.fast = fast, !.paused = paused]

\* A message may leave out the pause flag, and the speed flag with it.
ParseInput(l) ==
    {LanInput(l, b, l.fast, l.paused) : b \in SUBSET Buttons}
    \cup {LanInput(l, b, fast, l.paused) : b \in SUBSET Buttons, fast \in BOOLEAN}
    \cup {LanInput(l, b, fast, paused) : b \in SUBSET Buttons, fast, paused \in BOOLEAN}

WebsocketPoll(l) == IF l.ws THEN {l, CloseWebsocket(l)} \cup ParseInput(l) ELSE {l}

\* A new socket replaces the old one.
Handshake(l) == [CloseWebsocket(l) EXCEPT !.ws = TRUE]

HandleRequest(l) ==
    {l, Handshake(l)} \cup {LanInput(l, b, fast, paused) : b \in SUBSET Buttons,
                                                           fast, paused \in BOOLEAN}

LanPoll(l) == Then(WebsocketPoll(l), HandleRequest)

\* Pictures and sound go out on the socket; one that fails to take them is closed.
LanDownlink(l) == {l, CloseWebsocket(l)}

-----------------------------------------------------------------------------
\* Setting up.

\* slot_init: a ROM or a SAV that cannot be read ends the process before anything is saved.
LoadedSlot(s) == [NoSlot EXCEPT !.on = TRUE, !.ram = file[s].ver]
\* Mutant of LoadFailed: the slot counts as set up before its SAV is read.
LoadFailedLate(s) == [NoSlot EXCEPT !.on = TRUE]

LoadFailed(s) == slot[s]

InitSlot(s) ==
    \/ /\ file[s].kind # "bad"
       /\ slot' = [slot EXCEPT ![s] = LoadedSlot(s)]
       /\ pc' = IF s = 1 THEN "listen" ELSE "window open"
    \/ /\ slot' = [slot EXCEPT ![s] = LoadFailed(s)]
       /\ pc' = "failed"

InitSlot1 ==
    /\ pc = "slot1" /\ InitSlot(1)
    /\ UNCHANGED <<opt, frame, stop, file, router, window, held, stream, far, lan>>

\* The remote clients' listeners; only a pair of local slots has one for each.
Listen ==
    /\ pc = "listen"
    /\ \/ /\ stream' = [s \in Slots |-> [stream[s] EXCEPT
                           !.open = opt.remote /\ (s = 2 \/ opt.mode = "dual")]]
          /\ pc' = IF FromClient THEN "upload" ELSE IF Self THEN "window open" ELSE "slot2"
       \/ opt.remote /\ pc' = "failed" /\ UNCHANGED stream
    /\ UNCHANGED <<opt, frame, stop, slot, file, router, window, held, far, lan>>

\* While the upload is awaited the window can be left.
WaitWindow ==
    /\ pc = "upload" /\ opt.display
    /\ \/ window' = [ask |-> TRUE, yes |-> FALSE] /\ UNCHANGED pc
       \/ window.ask /\ window' = [window EXCEPT !.ask = FALSE] /\ UNCHANGED pc
       \/ window.ask /\ window' = [window EXCEPT !.yes = ~@] /\ UNCHANGED pc
       \/ /\ window.ask /\ window.yes
          /\ pc' = "failed" /\ UNCHANGED window
    /\ UNCHANGED <<opt, frame, stop, slot, file, router, held, stream, far, lan>>

\* The client connects, and its ROM and SAV arrive whole or the process ends.
WaitForUpload ==
    /\ pc = "upload" /\ ~stream[2].conn
    /\ \E x \in AcceptClient(Outcome(2)) :
        /\ stream' = [stream EXCEPT ![2] = x.st]
        /\ far' = [far EXCEPT ![2] = x.fa]
    /\ UNCHANGED <<opt, pc, frame, stop, slot, file, router, window, held, lan>>

UploadArrives ==
    /\ file' = [file EXCEPT ![2] = [kind |-> "ok", ver |-> 0]]
    /\ far' = [far EXCEPT ![2].sav = 0]
    /\ pc' = "slot2"
    /\ UNCHANGED stream

UploadFails ==
    /\ pc' = "failed"
    /\ stream' = [stream EXCEPT ![2] = CloseClient(Outcome(2)).st]
    /\ far' = [far EXCEPT ![2] = CloseClient(Outcome(2)).fa]
    /\ UNCHANGED file

ReceiveUpload ==
    /\ pc = "upload" /\ stream[2].conn
    /\ UploadArrives \/ UploadFails
    /\ UNCHANGED <<opt, frame, stop, slot, router, window, held, lan>>

InitSlot2 ==
    /\ pc = "slot2" /\ InitSlot(2)
    /\ UNCHANGED <<opt, frame, stop, file, router, window, held, stream, far, lan>>

\* The speed controls work in a lone local game.
StartSpeed == IF opt.mode = "self" THEN opt.speed ELSE 1

\* Window, sound and browser remote are opened.
OpenWindow ==
    /\ pc = "window open"
    /\ window' = [ask |-> FALSE, yes |-> FALSE]
    /\ router' = [router EXCEPT !.speed = StartSpeed]
    /\ \/ pc' = "begin" /\ lan' = [lan EXCEPT !.open = opt.mode = "lan"]
       \/ pc' = "failed" /\ UNCHANGED lan
    /\ UNCHANGED <<opt, frame, stop, slot, file, held, stream, far>>

-----------------------------------------------------------------------------
\* The window's events.

At(stage) == pc = stage
Event(b) ==
    /\ At("window")
    /\ held' = b
    /\ UNCHANGED <<opt, frame, stop, file, stream, far, lan>>

OpenReturnConfirmation ==
    /\ ~window.ask
    /\ window' = [ask |-> TRUE, yes |-> FALSE]
    /\ ReleaseAll /\ UNCHANGED pc

\* Whatever happens while the question is shown, the game's keys are released.
Answer(win, next) == window' = win /\ pc' = next /\ ReleaseAll

Confirmed ==
    IF window.yes THEN Answer(window, "leave") ELSE Answer([window EXCEPT !.ask = FALSE], pc)

\* Closing the window or Escape asks; Escape again withdraws the question.
LeaveKey ==
    /\ Event(held)
    /\ \/ OpenReturnConfirmation
       \/ window.ask /\ Answer([ask |-> FALSE, yes |-> FALSE], pc)
ChooseKey == Event(held) /\ window.ask /\ Answer([window EXCEPT !.yes = ~@], pc)
EnterKey == Event(held) /\ window.ask /\ Confirmed

\* A game key of slot s.  While the turbo key is held a press makes the button a turbo button.
Keyed(s, press, release) ==
    LET n == [router EXCEPT !.normal[s] = (@ \cup press) \ release] IN
    IF ~n.capture THEN n
    ELSE LET t == [n EXCEPT !.turbo[s] = @ \cup press,
                            !.active = @ \/ press # {}]
         IN [t EXCEPT !.normal = [q \in Slots |-> n.normal[q] \ t.turbo[q]]]

GameKey ==
    \E s \in Slots, b \in Buttons :
        /\ slot[s].on
        /\ LET press == IF b \in held[s] THEN {} ELSE {b} IN
           /\ Event([held EXCEPT ![s] = (@ \ {b}) \cup press])
           /\ IF ~window.ask THEN ApplyRouter(Keyed(s, press, {b} \ press)) /\ UNCHANGED <<window, pc>>
              ELSE IF s = 1 /\ press = {"A"} THEN Confirmed
              ELSE Answer(window, pc)

TurboPressed(r) ==
    IF r.active /\ ~r.capture THEN [r EXCEPT !.active = FALSE, !.turbo = NoKeys]
    ELSE [r EXCEPT !.capture = TRUE, !.phase = TRUE]
TurboReleased(r) ==
    [r EXCEPT !.capture = FALSE,
              !.active = @ /\ \E s \in Slots : r.turbo[s] # {}]

TurboKey ==
    /\ opt.mode = "self" /\ ~window.ask
    /\ Event(held)
    /\ LET r == [router EXCEPT !.turboKey = ~@]
           n == IF r.turboKey THEN TurboPressed(r) ELSE TurboReleased(r)
       IN ApplyRouter(IF n.active THEN n ELSE [n EXCEPT !.turbo = NoKeys])
    /\ UNCHANGED <<window, pc>>

FastKey ==
    /\ opt.mode = "self" /\ ~window.ask
    /\ Event(held)
    /\ router' = [router EXCEPT !.fastKey = ~@,
                                !.speed = IF router.fastKey THEN @ ELSE IF @ >= 4 THEN 1 ELSE @ + 1]
    /\ UNCHANGED <<window, pc, slot>>

\* The window loses the focus or a controller is taken away: key releases may never be seen.
FocusLost ==
    /\ Event(NoKeys) /\ ReleaseAll
    /\ UNCHANGED <<window, pc>>

EventsDone ==
    /\ At("window")
    /\ pc' = IF lan.open THEN "lan" ELSE "turbo"
    /\ UNCHANGED <<opt, frame, stop, slot, file, router, window, held, stream, far, lan>>

-----------------------------------------------------------------------------
\* The loop.

Goes == ~stop /\ frame < opt.frames

BeginFrame ==
    /\ At("begin")
    /\ pc' = IF ~Goes THEN "leave" ELSE IF opt.display THEN "window"
             ELSE IF lan.open THEN "lan" ELSE "turbo"
    /\ slot' = IF ~Goes THEN slot
               ELSE [s \in Slots |-> Press(slot[s], Scripted(s, AutoA(slot[s], s)))]
    /\ UNCHANGED <<opt, frame, stop, file, router, window, held, stream, far, lan>>

PollLan ==
    /\ At("lan")
    /\ lan' \in LanPoll(lan)
    /\ slot' = [slot EXCEPT ![1] = Press(@, lan'.buttons)]
    /\ pc' = "turbo"
    /\ UNCHANGED <<opt, frame, stop, file, router, window, held, stream, far>>

UpdateTurbo ==
    /\ At("turbo")
    /\ pc' = "remote"
    /\ \/ UNCHANGED <<router, slot>>
       \/ /\ router.active /\ \E s \in Slots : router.turbo[s] # {}
          /\ ApplyRouter([router EXCEPT !.phase = ~@])
    /\ UNCHANGED <<opt, frame, stop, file, window, held, stream, far, lan>>

RemoteInputs ==
    /\ PollRemoteStreamInputs(<<"remote", "remote1">>, {"run"})
    /\ UNCHANGED <<opt, frame, stop, file, router, window, held, lan>>

\* A game may write to its battery RAM whenever it runs.
Written(sl) == [sl EXCEPT !.ram = @ + 1, !.dirty = TRUE]
GamesRun ==
    \E w \in SUBSET {s \in Slots : slot[s].on /\ slot[s].ram < MaxWrites} :
        slot' = [s \in Slots |-> IF s \in w THEN Written(slot[s]) ELSE slot[s]]

RunLinked == Linked /\ GamesRun /\ frame' = frame + 1

FramesThisTick == IF lan.fast THEN 2 ELSE router.speed
\* Mutant of RunFrames: the last step is not cut to the frames asked for.
RunPastEnd ==
    /\ ~Linked /\ ~lan.paused
    /\ GamesRun
    /\ frame' = frame + FramesThisTick

RunFrames ==
    /\ ~Linked /\ ~lan.paused
    /\ GamesRun
    /\ frame' = IF frame + FramesThisTick > opt.frames THEN opt.frames ELSE frame + FramesThisTick

Run ==
    /\ At("run")
    /\ \/ (RunLinked \/ RunFrames) /\ pc' \in {"media"} \cup (IF opt.display THEN {"failed"} ELSE {})
       \/ lan.paused /\ pc' = "media" /\ UNCHANGED <<slot, frame>>
    /\ UNCHANGED <<opt, stop, file, router, window, held, stream, far, lan>>

\* Sound and picture are queued for each client, each followed by a poll.
Downlinked(x) ==
    Then(Then(Then(QueueAudio(x), Poll), LAMBDA y : {QueueFrame(y)}), Poll)

DownlinkOf(s) ==
    IF stream[s].open /\ slot[s].on
    THEN \E x \in Downlinked(Outcome(s)) :
            /\ stream' = [stream EXCEPT ![s] = x.st]
            /\ far' = [far EXCEPT ![s] = x.fa]
    ELSE UNCHANGED <<stream, far>>

Media ==
    /\ \/ At("media") /\ DownlinkOf(1) /\ lan' \in LanDownlink(lan) /\ pc' = "media2"
       \/ /\ At("media2") /\ DownlinkOf(2)
          /\ pc' = IF FromClient THEN "return" ELSE "save"
          /\ UNCHANGED lan
    /\ UNCHANGED <<opt, frame, stop, slot, file, router, window, held>>

\* The uploaded SAV is saved and sent; it counts as handled only when both went well.
SaveAndSend ==
    \/ Refused(2) /\ UNCHANGED <<stream, far>>
    \/ \E r \in SendSaveFile(Outcome(2), slot[2].ram) :
        /\ Stored(2, IF r.ok THEN Clean(slot[2]) ELSE slot[2])
        /\ stream' = [stream EXCEPT ![2] = r.x.st]
        /\ far' = [far EXCEPT ![2] = r.x.fa]

SendSlot2SaveIfDirty ==
    /\ At("return")
    /\ \/ SaveMayBeDue(2) /\ SaveAndSend
       \/ SaveMayWait(2) /\ UNCHANGED <<slot, file, stream, far>>
    /\ pc' = "save"
    /\ UNCHANGED <<opt, frame, stop, router, window, held, lan>>

\* Mutant of SaveOne: the slot is marked clean whether or not the save was made.
CleanAnyway(s) ==
    /\ SaveMayBeDue(s)
    /\ slot' = [slot EXCEPT ![s] = Clean([slot[s] EXCEPT !.stamped = TRUE])]
    /\ file' \in {file, [file EXCEPT ![s] = [kind |-> "ok", ver |-> slot[s].ram]]}

\* The local slots' SAVs.
SaveOne(s) == SaveMayBeDue(s) /\ (Stored(s, Clean(slot[s])) \/ Refused(s))

SaveLocalSlotIfDirty ==
    /\ At("save")
    /\ \/ SaveOne(1) /\ pc' = "save2"
       \/ SaveMayWait(1) /\ pc' = "save2" /\ UNCHANGED <<slot, file>>
    /\ UNCHANGED <<opt, frame, stop, router, window, held, stream, far, lan>>

AfterSaves == IF ~opt.display /\ opt.remote THEN "pace" ELSE "begin"

SaveLocalSlot2IfDirty ==
    /\ At("save2")
    /\ \/ ~FromClient /\ SaveOne(2)
       \/ (FromClient \/ SaveMayWait(2)) /\ UNCHANGED <<slot, file>>
    /\ pc' = AfterSaves
    /\ UNCHANGED <<opt, frame, stop, router, window, held, stream, far, lan>>

\* Without a window the loop waits for the next frame's time, polling the clients.
WaitUntilFrameDeadline ==
    /\ IF At("pace") /\ stop THEN pc' = "begin" /\ UNCHANGED <<slot, stream, far>>
       ELSE PollRemoteStreamInputs(<<"pace", "pace1">>, {"pace", "begin"})
    /\ UNCHANGED <<opt, frame, stop, file, router, window, held, lan>>

-----------------------------------------------------------------------------
\* Ending.

\* Mutant of SendSlot2SaveOnShutdown: nothing more is sent once the SAV was sent at all.
NoSaveOnShutdown ==
    IF FromClient /\ ~stream[2].returned THEN SaveAndSend
    ELSE UNCHANGED <<slot, file, stream, far>>

SendSlot2SaveOnShutdown ==
    IF FromClient /\ (slot[2].dirty \/ ~stream[2].returned) THEN SaveAndSend
    ELSE UNCHANGED <<slot, file, stream, far>>

LeaveLoop ==
    /\ At("leave")
    /\ SendSlot2SaveOnShutdown
    /\ pc' = "teardown"
    /\ UNCHANGED <<opt, frame, stop, router, window, held, lan>>

\* Every slot that was set up is saved once more, then the uploaded copies are removed.
Saved(s) == [kind |-> "ok", ver |-> slot[s].ram]
FreedFiles ==
    {[s \in Slots |-> IF s \in saved THEN Saved(s) ELSE file[s]] :
        saved \in SUBSET {s \in Slots : slot[s].on}}
UploadsRemoved(f) ==
    IF FromClient /\ pc = "teardown" THEN [f EXCEPT ![2] = [kind |-> "absent", ver |-> 0]] ELSE f

Teardown ==
    /\ pc \in {"teardown", "failed"}
    /\ \E f \in FreedFiles : file' = UploadsRemoved(f)
    /\ slot' = [s \in Slots |-> [slot[s] EXCEPT !.on = FALSE, !.keys = {}]]
    /\ stream' = [s \in Slots |-> [CloseClient(Outcome(s)).st EXCEPT !.open = FALSE]]
    /\ far' = [s \in Slots |-> CloseClient(Outcome(s)).fa]
    /\ lan' = NoLan
    /\ pc' = "done"
    /\ UNCHANGED <<opt, frame, stop, router, window, held>>

\* SIGINT and SIGTERM.
ShutdownSignal ==
    /\ ~stop /\ pc # "done"
    /\ stop' = TRUE
    /\ UNCHANGED <<opt, pc, frame, slot, file, router, window, held, stream, far, lan>>

-----------------------------------------------------------------------------
Setup ==
    InitSlot1 \/ Listen \/ WaitForUpload \/ ReceiveUpload \/ InitSlot2 \/ OpenWindow

Loop ==
    \/ EventsDone \/ BeginFrame \/ PollLan \/ UpdateTurbo \/ RemoteInputs \/ Run \/ Media
    \/ SendSlot2SaveIfDirty \/ SaveLocalSlotIfDirty \/ SaveLocalSlot2IfDirty
    \/ WaitUntilFrameDeadline \/ LeaveLoop \/ Teardown

Keyboard == LeaveKey \/ ChooseKey \/ EnterKey \/ GameKey \/ TurboKey \/ FastKey \/ FocusLost

Next == Setup \/ WaitWindow \/ Loop \/ Keyboard \/ ShutdownSignal

Spec == Init /\ [][Next]_vars

-----------------------------------------------------------------------------
Files == [kind : {"absent", "bad", "ok"}, ver : 0 .. MaxWrites]
TypeOK ==
    /\ pc \in {"slot1", "listen", "upload", "slot2", "window open", "begin", "window", "lan",
               "turbo", "remote", "remote1", "run", "media", "media2", "return", "save", "save2",
               "pace", "pace1", "leave", "teardown", "failed", "done"}
    /\ frame \in 0 .. opt.frames /\ stop \in BOOLEAN
    /\ slot \in [Slots -> [on : BOOLEAN, keys : SUBSET Buttons, ram : 0 .. MaxWrites,
                           dirty : BOOLEAN, stamped : BOOLEAN, refused : BOOLEAN]]
    /\ file \in [Slots -> Files]
    /\ \A f \in {"normal", "turbo", "applied"} : router[f] \in [Slots -> SUBSET Buttons]
    /\ router.speed \in 1 .. 4
    /\ window \in [ask : BOOLEAN, yes : BOOLEAN]
    /\ held \in [Slots -> SUBSET Buttons]
    /\ \A s \in Slots : stream[s].down \in {"free", "busy"}

\* When a frame runs, the keys a game sees are those somebody holds: of a connected remote
\* client exactly what it said last, of the browser likewise, and otherwise nothing but keys the
\* player holds, turbo buttons, and the automatic ones.  No key sticks when a client goes, the
\* window loses the focus, or the question about leaving is shown.
LocalKeys(s) ==
    held[s] \cup (IF router.active THEN router.turbo[s] ELSE {}) \cup MacroKey(s)
    \cup (IF frame < opt.autoA THEN {"A"} ELSE {})
KeysAreHeld ==
    At("run") => \A s \in Slots : slot[s].on =>
        IF stream[s].conn THEN slot[s].keys = far[s].said
        ELSE IF s = 1 /\ lan.open THEN slot[s].keys = lan.said
        ELSE slot[s].keys \subseteq LocalKeys(s)

\* A client that brought its SAV, showed its token and stayed connected has the newest one, whole,
\* when the game is left, unless the disk refused the last save.
SavIsReturned ==
    At("teardown") /\ FromClient /\ stream[2].conn /\ ~far[2].lost /\ ~MustAuth(Outcome(2))
        /\ ~slot[2].refused
    => far[2].sav = slot[2].ram /\ ~far[2].torn

\* A slot that is not marked dirty has its battery RAM on disk, however saves were refused,
\* connections lost and stages interleaved: so a save that is skipped loses nothing.
CleanMeansSaved ==
    \A s \in Slots : slot[s].on /\ ~slot[s].dirty => file[s].ver = slot[s].ram

\* A SAV that cannot be read is never replaced by the blank RAM of a slot that failed to start.
UnreadableSavIsKept ==
    [][\A s \in Slots : file[s].kind = "bad" => file'[s] = file[s]]_vars

\* What a slot has saved is on the disk and, of a client that stayed, back with the client.
SavesAreTrue == TypeOK /\ SavIsReturned /\ CleanMeansSaved
=============================================================================
