------------------------------- MODULE GbLink -------------------------------
(* Two Game Boys on one cable, as the fixed Host runs them                  *)
(* (runtimes/gb/src/server/gb_link_engine.c) and as the GB Runtime runs two *)
(* local slots (link_bridge.c, and the loop in server/main.c); and the      *)
(* mobile adapter on the cable of one (mobile/mobile_adapter_bridge.c).     *)
(*                                                                          *)
(* A run of a core is one step: SameBoy executes an instruction, in which   *)
(* the game arms its serial port or a bit of a transfer ends; after Length  *)
(* cycles the frame ends. The callbacks are the code's, the serial port is  *)
(* SameBoy's (external). A byte has Bits bits. A game lets a transfer that  *)
(* has begun end (a bound).                                                 *)
EXTENDS LinkClock

CONSTANTS
    Bits,        \* bits of a byte (8)
    Length,      \* cycles of a frame
    MaxCycles,   \* most cycles of one run of a core
    MaxCalls,    \* INTEGRAL_GB_RUNTIME_LINK_MAX_CORE_CALLS_PER_FRAME
    MaxAssists,  \* runs the bridge gives a peer that is not ready (64)
    MaxDelta,    \* cycles one core is ahead when a frame begins, and two frames more
                 \* inside one (a bound)
    Rams,        \* sizes of the cartridge RAM
    MaxTarget    \* seconds the server's clock may be at

ASSUME LinkAssumption ==
    /\ {Bits, Length, MaxCycles, MaxCalls, MaxAssists, MaxDelta} \subseteq Nat \ {0}
    /\ {Minute, Hour, Day, DayWrap, Week, WeekWrap} \subseteq Nat \ {0}
    /\ Rams \subseteq Nat /\ MaxTarget \in Nat

VARIABLES
    kind,    \* "engine", "bridge" or "mobile"
    pc,      \* where the program is
    clock,   \* the SAV of a slot and its clock, while the slots are prepared
    core,    \* the serial port of each core, and where its frame is
    frame,   \* the frame that is run: which cores have ended it, the delta, the calls
    assist,  \* the side whose callback runs its peer, and the runs left
    adapter, \* the mobile adapter's pipeline
    hist     \* history: the byte of each master, and what became of it

vars == <<kind, pc, clock, core, frame, assist, adapter, hist>>

Cores == {"a", "b"}
Peer(c) == CHOOSE d \in Cores : d # c
Bytes == 0..2^Bits - 1
IdleByte == 2^Bits - 1        \* MOBILE_SERIAL_IDLE_BYTE
Msb(x) == x \div 2^(Bits - 1)
Shifted(x, b) == ((2 * x) % 2^Bits) + b
BitOf(x, i) == (x \div 2^(Bits - 1 - i)) % 2

NoClock == [cart |-> "none"]
NoByte == [mine |-> 0, theirs |-> 0, whole |-> FALSE]
NoAssist == [by |-> "none", left |-> 0]
Pipeline == [next |-> IdleByte, incoming |-> IdleByte, index |-> 0, active |-> FALSE]
NoneEnded == [c \in Cores |-> FALSE]
Off(c) == core[c].sc = "off"

Init ==
    /\ kind \in {"engine", "bridge", "mobile"}
    /\ pc = IF kind = "engine" THEN "sav" ELSE "start"
    /\ clock = NoClock
    /\ core = [c \in Cores |-> [sc |-> "off", sb |-> 0, n |-> 0, bit |-> 1, at |-> 0]]
    /\ frame = [ended |-> NoneEnded, delta |-> 0, calls |-> 0]
    /\ assist = NoAssist
    /\ adapter = Pipeline
    /\ hist = [byte |-> [c \in Cores |-> NoByte], swapped |-> TRUE, lost |-> FALSE,
               due |-> IdleByte, inStep |-> TRUE]

-----------------------------------------------------------------------------
(* Preparing the slots                                                      *)

\* The client checks a SAV of any size before it starts the fixed Host.
PreflightSav ==
    /\ pc = "sav"
    /\ \E cart \in Carts, ram \in Rams :
         \E size \in {0, ram} \cup {ram + TailOf(c) : c \in Carts} \cup {ram + TailOf(c) - 1 : c \in Carts} :
            /\ size >= 0
            /\ clock' = [cart |-> cart, ram |-> ram, size |-> size]
            /\ pc' = IF save_preflight_for_loaded_rom(cart, ram, size) = "OK" THEN "init"
                     ELSE "refused"
    /\ UNCHANGED <<kind, core, frame, assist, adapter, hist>>

\* init_slot loads it, and its clock is brought to the server's time.
InitSlot ==
    /\ pc = "init"
    /\ IF ~Loads(clock.cart, clock.ram, clock.size)
       THEN pc' = "failed" /\ UNCHANGED clock
       ELSE /\ pc' = "start"
            /\ IF clock.cart = "none" THEN clock' = NoClock
               ELSE \E target \in 0..MaxTarget, last \in {0, 1}, r \in Registers(clock.cart) :
                      clock' = [cart |-> clock.cart, ram |-> clock.ram, size |-> clock.size,
                                r |-> r, last |-> last, target |-> target,
                                to |-> catch_up_rtc_deterministically(clock.cart, r, last, target)]
    /\ UNCHANGED <<kind, core, frame, assist, adapter, hist>>

\* link_engine_init, link_bridge_connect or mobile_adapter_bridge_connect: the callbacks are set.
Connect ==
    /\ pc = "start"
    /\ pc' = "poll"
    /\ clock' = NoClock
    /\ core' = [c \in Cores |-> [core[c] EXCEPT !.bit = 1]]
    /\ adapter' = Pipeline
    /\ UNCHANGED <<kind, frame, assist, hist>>

\* The player ends the game; the peripherals are detached.
Disconnect ==
    /\ pc = "poll"
    /\ pc' = "over"
    /\ adapter' = [adapter EXCEPT !.active = FALSE]
    /\ UNCHANGED <<kind, clock, core, frame, assist, hist>>

-----------------------------------------------------------------------------
(* The serial port of SameBoy (external)                                    *)

\* GB_serial_get_data_bit: a port that drives its own clock reads as 1.
DataBit(p) ==
    CASE p.sc = "off" -> 0
      [] p.sc = "drive" -> 1
      [] p.sc = "wait" -> Msb(p.sb)

\* GB_serial_set_data_bit: only a port that waits for the clock takes the bit.
SetDataBit(p, b) ==
    IF p.sc # "wait" THEN p
    ELSE IF p.n + 1 = Bits THEN [p EXCEPT !.sb = Shifted(@, b), !.n = 0, !.sc = "off"]
    ELSE [p EXCEPT !.sb = Shifted(@, b), !.n = @ + 1]

\* The master's own shift, with the bit its end callback returned.
EndOfBit(p, b) ==
    IF p.n + 1 = Bits THEN [p EXCEPT !.sb = Shifted(@, b), !.n = 0, !.sc = "off"]
    ELSE [p EXCEPT !.sb = Shifted(@, b), !.n = @ + 1]

-----------------------------------------------------------------------------
(* The callbacks                                                            *)

\* serial_a_start, slot1_serial_start: the bit the master gives to the cable.
serial_start(p) == [p EXCEPT !.bit = Msb(@.sb)]

\* Mutant of serial_end: the peer's byte is shifted before its bit is read.
SetThenRead(cores, c) ==
    LET d == Peer(c)
        given == SetDataBit(cores[d], cores[c].bit)
    IN  [incoming |-> DataBit(given), cores |-> [cores EXCEPT ![d] = given]]

\* serial_a_end, slot1_serial_end: the peer's bit is read, then the master's is given to it.
serial_end(cores, c) ==
    LET d == Peer(c)
    IN  [incoming |-> DataBit(cores[d]),
         cores |-> [cores EXCEPT ![d] = SetDataBit(@, cores[c].bit)]]

\* The end of a bit of master c: its callback, its shift, and the start of the next bit.
Exchange(cores, c) ==
    LET e == serial_end(cores, c)
        p == EndOfBit(e.cores[c], e.incoming)
    IN  [e.cores EXCEPT ![c] = IF p.sc = "drive" THEN [p EXCEPT !.bit = Msb(p.sb)] ELSE p]

\* What the exchange shows of the byte that is sent: at its first bit, whether a peer
\* waits for it; at its last, whether the two bytes have changed places.
Seen(before, after, c, refused) ==
    LET d == Peer(c)
        first == before[c].n = 0
        byte == IF first
                THEN [mine |-> before[c].sb, theirs |-> before[d].sb,
                      whole |-> before[d].sc = "wait" /\ before[d].n = 0]
                ELSE hist.byte[c]
    IN  [hist EXCEPT
           !.byte[c] = IF after[c].sc = "off" THEN NoByte ELSE byte,
           !.lost = @ \/ (first /\ before[d].sc = "off" /\ ~refused),
           !.swapped = @ /\ (byte.whole /\ after[c].sc = "off"
                             => after[c].sb = byte.theirs /\ after[d].sb = byte.mine)]

-----------------------------------------------------------------------------
(* A run of a core                                                          *)

\* k cycles of core c: the frame ends when Length of them are over.
Ran(cores, c, k) == [cores EXCEPT ![c].at = (@ + k) % Length]
Vblank(c, k) == core[c].at + k >= Length

\* What the game does to its serial port: nothing, or it arms it; a wait may be given up.
Armed(cores, c) ==
    {cores} \cup
    {[cores EXCEPT ![c] = IF sc = "drive" THEN [@ EXCEPT !.sc = sc, !.sb = sb, !.bit = Msb(sb)]
                          ELSE [@ EXCEPT !.sc = sc, !.sb = sb]] :
        sc \in IF cores[c].sc = "drive" \/ cores[c].n # 0 THEN {} ELSE {"wait", "drive"},
        sb \in Bytes}

\* The delta between the cores, and the frame of the one that ran.
Counted(c, k) ==
    [frame EXCEPT !.ended[c] = @ \/ Vblank(c, k),
                  !.delta = IF c = "a" THEN @ - k ELSE @ + k,
                  !.calls = IF kind = "engine" THEN @ + 1 ELSE @]

\* Mutant of Next_slot: the bridge's loop waits for a peer whose frame is over.
WaitForPeer(c) ==
    LET waits(m) == core[m].sc = "drive" /\ Off(Peer(m))
    IN  IF kind = "bridge" /\ \E m \in Cores : waits(m)
        THEN c = Peer(CHOOSE m \in Cores : waits(m) /\ (waits("a") => m = "a"))
        ELSE c = IF frame.delta >= 0 THEN "a" ELSE "b"

\* Which core runs next: in the bridge's loop the one a master waits for, otherwise the
\* one that is behind.
Next_slot(c) ==
    LET waits(m) == core[m].sc = "drive" /\ Off(Peer(m)) /\ ~frame.ended[Peer(m)]
    IN  IF kind = "bridge" /\ \E m \in Cores : waits(m)
        THEN c = Peer(CHOOSE m \in Cores : waits(m) /\ (waits("a") => m = "a"))
        ELSE c = IF frame.delta >= 0 THEN "a" ELSE "b"

\* The loop of the frame ends when both cores have ended theirs.
AfterRun(ended) == IF \A c \in Cores : ended[c] THEN "poll" ELSE "frame"

\* link_engine_run_frame and the bridge's loop begin; only the bridge's delta is kept.
BeginFrame ==
    /\ pc = "poll"
    /\ frame.delta \in -MaxDelta..MaxDelta
    /\ pc' = "frame"
    /\ frame' = [ended |-> [NoneEnded EXCEPT !["b"] = kind = "mobile"], calls |-> 0,
                 delta |-> IF kind = "bridge" THEN frame.delta ELSE 0]
    /\ UNCHANGED <<kind, clock, core, assist, adapter, hist>>

\* A run in which no bit ends.
QuietRun(c, k) ==
    /\ core' \in Armed(Ran(core, c, k), c)
    /\ frame' = Counted(c, k)
    /\ pc' = AfterRun(frame'.ended)
    /\ UNCHANGED <<assist, hist>>

\* Mutant of EndedBit: the bridge exchanges the bit at once.
EndedBitAtOnce(c, k) ==
    /\ core[c].sc = "drive"
    /\ frame' = Counted(c, k)
    /\ LET cores == Ran(core, c, k) IN
         /\ core' = Exchange(cores, c)
         /\ hist' = Seen(cores, core', c, FALSE)
    /\ pc' = AfterRun(frame'.ended)
    /\ UNCHANGED assist

\* A run in which a bit of master c ends: the callback. The bridge's runs the peer first
\* when its port is not armed.
EndedBit(c, k) ==
    /\ core[c].sc = "drive"
    /\ frame' = Counted(c, k)
    /\ LET cores == Ran(core, c, k) IN
       IF kind = "bridge" /\ Off(Peer(c))
       THEN /\ core' = cores
            /\ assist' = [by |-> c, left |-> MaxAssists]
            /\ pc' = "assist"
            /\ UNCHANGED hist
       ELSE /\ core' = Exchange(cores, c)
            /\ hist' = Seen(cores, core', c, FALSE)
            /\ pc' = AfterRun(frame'.ended)
            /\ UNCHANGED assist

\* One iteration of link_engine_run_frame, or of the bridge's loop.
RunSlot ==
    /\ pc = "frame"
    /\ kind # "mobile"
    /\ frame.delta \in -(MaxDelta + 2 * Length)..MaxDelta + 2 * Length
    /\ ~(kind = "engine" /\ frame.calls = MaxCalls)
    /\ \E c \in Cores, k \in 1..MaxCycles :
         /\ Next_slot(c)
         /\ QuietRun(c, k) \/ EndedBit(c, k)
    /\ UNCHANGED <<kind, clock, adapter>>

\* The engine's frame has used its calls: the game ends.
ExceedCalls ==
    /\ pc = "frame" /\ kind = "engine" /\ frame.calls = MaxCalls
    /\ pc' = "failed"
    /\ UNCHANGED <<kind, clock, core, frame, assist, adapter, hist>>

\* run_peer_until_serial_active: one run of the peer inside the callback; its cycles are
\* in no delta. Then the callback goes on.
RunPeer ==
    /\ pc = "assist"
    /\ \E k \in 1..MaxCycles : LET c == assist.by
                                   d == Peer(c) IN
         \E cores \in Armed(Ran(core, d, k), d) :
            /\ frame' = [frame EXCEPT !.ended[d] = @ \/ Vblank(d, k)]
            /\ IF cores[d].sc = "off" /\ assist.left > 1
               THEN /\ core' = cores
                    /\ assist' = [assist EXCEPT !.left = @ - 1]
                    /\ UNCHANGED <<pc, hist>>
               ELSE /\ core' = Exchange(cores, c)
                    /\ hist' = Seen(cores, core', c, assist.left = 1)
                    /\ assist' = NoAssist
                    /\ pc' = AfterRun(frame'.ended)
    /\ UNCHANGED <<kind, clock, adapter>>

-----------------------------------------------------------------------------
(* The mobile adapter                                                       *)

\* Mutant of adapter_start: the start of every bit is taken for that of a byte.
StartAlways(ad, answer) ==
    [next |-> answer, incoming |-> ad.next, index |-> 0, active |-> TRUE]

\* serial_start: at the first bit the game's byte goes to mobile_transfer, which answers
\* with the byte of the next transfer.
adapter_start(ad, answer) ==
    IF ad.active THEN ad
    ELSE [next |-> answer, incoming |-> ad.next, index |-> 0, active |-> TRUE]

\* serial_end: the next bit of the byte, or 1 when there is none.
adapter_end(ad) ==
    IF ~ad.active THEN [bit |-> 1, adapter |-> ad]
    ELSE [bit |-> BitOf(ad.incoming, ad.index),
          adapter |-> [ad EXCEPT !.index = (@ + 1) % Bits, !.active = ad.index + 1 < Bits]]

MobileFrame(k) ==
    /\ pc = "frame" /\ kind = "mobile"
    /\ frame' = [frame EXCEPT !.ended["a"] = Vblank("a", k)]
    /\ pc' = AfterRun(frame'.ended)
    /\ UNCHANGED <<kind, clock, assist>>

MobileIdle ==
    \E k \in 1..MaxCycles :
        /\ MobileFrame(k)
        /\ core' = Ran(core, "a", k)
        /\ UNCHANGED <<adapter, hist>>

\* The game sends a byte.
MobileSend ==
    /\ Off("a")
    /\ \E k \in 1..MaxCycles, sb, answer \in Bytes :
         /\ MobileFrame(k)
         /\ core' = [Ran(core, "a", k) EXCEPT !["a"].sc = "drive", !["a"].sb = sb]
         /\ adapter' = adapter_start(adapter, answer)
         /\ hist' = [hist EXCEPT !.due = answer, !.byte["a"].theirs = hist.due]

\* A bit of it ends, and the next one starts.
MobileBit ==
    /\ core["a"].sc = "drive"
    /\ \E k \in 1..MaxCycles, answer \in Bytes :
         LET e == adapter_end(adapter)
             p == EndOfBit(core["a"], e.bit) IN
         /\ MobileFrame(k)
         /\ core' = Ran([core EXCEPT !["a"] = p], "a", k)
         /\ adapter' = IF p.sc = "drive" THEN adapter_start(e.adapter, answer) ELSE e.adapter
         /\ hist' = [hist EXCEPT !.inStep = @ /\ adapter.active
                                               /\ (p.sc = "off" => p.sb = hist.byte["a"].theirs)]

\* Mutant of mobile_reset: only the core is reset.
ResetCoreOnly ==
    /\ pc = "poll" /\ kind = "mobile"
    /\ core' = [core EXCEPT !["a"].sc = "off", !["a"].n = 0]
    /\ hist' = [hist EXCEPT !.due = IdleByte]
    /\ UNCHANGED <<kind, pc, clock, frame, assist, adapter>>

\* The player resets the game, at any bit of a byte: the adapter is stopped and started,
\* the pipeline and the core are reset.
mobile_reset ==
    /\ pc = "poll" /\ kind = "mobile"
    /\ adapter' = Pipeline
    /\ core' = [core EXCEPT !["a"].sc = "off", !["a"].n = 0]
    /\ hist' = [hist EXCEPT !.due = IdleByte]
    /\ UNCHANGED <<kind, pc, clock, frame, assist>>

-----------------------------------------------------------------------------
\* What the program's one thread does inside a frame.
FrameStep == RunSlot \/ ExceedCalls \/ RunPeer \/ MobileIdle \/ MobileSend \/ MobileBit

Next ==
    \/ PreflightSav \/ InitSlot \/ Connect \/ Disconnect
    \/ BeginFrame \/ FrameStep \/ mobile_reset

\* The thread goes on with a frame it has begun.
Spec == Init /\ [][Next]_vars /\ WF_vars(FrameStep)

-----------------------------------------------------------------------------
\* A byte that a master sends to a waiting peer changes places with the peer's, bit by
\* bit, whatever the cores do between the bits; and in the bridge no byte is begun to a
\* peer that was not given MaxAssists runs to get ready (the two serial_end callbacks).
BytesSwap == hist.swapped /\ (kind = "bridge" => ~hist.lost)

\* Each byte the game receives from the mobile adapter is the answer to the byte it sent
\* before, also after resets in the middle of a byte; and no bit ends that no byte began
\* (serial_start, serial_end and reset_pipeline of the adapter's bridge).
AdapterInStep == hist.inStep

\* Whoever is at the other end of the cable, a byte that is sent arrives whole and the byte
\* that comes back is the one that was meant: of the peer's core, or of the mobile adapter.
CableIsTrue == BytesSwap /\ AdapterInStep

\* A SAV that passes the client's preflight loads in the engine; its clock is brought to
\* the server's time as if it had ticked second by second, every carry included; and the
\* time that is written into the SAV kept is where the next session reads it.
ClockIsTrue ==
    /\ ~(pc = "failed" /\ clock # NoClock)
    /\ pc = "start" /\ clock # NoClock =>
         LET elapsed == IF clock.target > clock.last THEN clock.target - clock.last ELSE 0 IN
         /\ clock.to = Ticked(clock.cart, clock.r, clock.last, elapsed)
         /\ StampAt(clock.cart, clock.ram, BatterySize(clock.cart, clock.ram)) = ReadAt(clock.cart, clock.ram)

\* A frame that begins ends, the engine's at the latest with its last call: neither core
\* keeps the other from its own frame's end, however long a master waits for a peer that
\* never arms its port (run_frame, and the loop of the GB Runtime's main).
FrameEnds == pc \in {"frame", "assist"} ~> pc \in {"poll", "failed"}
=============================================================================
