------------------------------ MODULE HostPads ------------------------------
(* The pads of a fixed-Host game: which button an event of a device means   *)
(* (runtimes/gb/src/common/key_config.c), what a player's window makes of   *)
(* it (poll_input in c_client/integral_gb_runtime_fixed_host.c), and how    *)
(* the buttons reach the game, from the Host's own window at once and from  *)
(* the Remote's as messages (run_host, run_remote).                         *)
(*                                                                          *)
(* A pad has one axis, pushed one way, the other or neither; the keyboard   *)
(* has one key. An entry of the device table is what is remembered of a pad *)
(* by its fingerprint: two pads of one make have the same.                  *)
EXTENDS Integers, Sequences, FiniteSets

CONSTANTS
    PadsOf,        \* the pads of the Host's player and of the Remote's
    Fingerprint,   \* of each pad, from its make and serial number
    MaxDevices,    \* INTEGRAL_GB_RUNTIME_MAX_OPEN_DEVICES (16)
    Bindings,      \* button -> the control it is bound to
    MaxOrdinal,    \* the largest ordinal a pad is given (a bound)
    MaxInFlight    \* INPUT messages on their way (a bound)

VARIABLES
    plugged, \* the pads that are plugged in, in the system's order
    table,   \* the device table: entries that are open, closed or free
    axis,    \* where each pad's axis is
    key,     \* whether the keyboard's key is down
    win,     \* IntegralGBRuntimeFixedHostProductRuntime
    sent,    \* last_sent_buttons of the Remote
    wire,    \* messages on their way to the Host
    away,    \* who has lost the connection: nobody, the Remote, both
    host,    \* the Host's remote_buttons, and whether its scheduler is paused
    was      \* history: the identity each pad had last

padVars == <<plugged, table, axis, key, win, sent, wire, away, host, was>>

Pads == PadsOf.host \cup PadsOf.remote
Buttons == DOMAIN Bindings
Slots == 1..MaxDevices
Prints == {Fingerprint[p] : p \in Pads}
NoPad == "nopad"
Free == [pad |-> NoPad, print |-> 0, ordinal |-> 0]      \* no stable_id
Nothing == {"unsent"}                                    \* 0xff: no buttons were sent yet
Ids == Prints \X (0..MaxOrdinal)
NoId == <<0, 0>>                                         \* prints are not 0
IdOf(e) == <<e.print, e.ordinal>>

\* A control is [by |-> "key"], or an axis of the pad of an identity, pushed one way.
IsKey(b) == Bindings[b].by = "key"

ASSUME PadAssumption ==
    /\ MaxDevices \in Nat \ {0} /\ MaxInFlight \in Nat \ {0} /\ MaxOrdinal \in Nat
    /\ NoPad \notin Pads /\ 0 \notin Prints
    /\ \A b \in Buttons : IsKey(b) \/ Bindings[b].push \in {-1, 1}

PadsInit ==
    /\ plugged = <<>>
    /\ table = [s \in Slots |-> Free]
    /\ axis = [p \in Pads |-> 0]
    /\ key = FALSE
    /\ win \in {[role |-> r, focused |-> TRUE, running |-> TRUE, asking |-> FALSE, yes |-> FALSE,
                 neutral |-> FALSE, buttons |-> {}] : r \in {"host", "remote"}}
    /\ sent = Nothing
    /\ wire = <<>>
    /\ away = "nobody"
    /\ host = [remote |-> {}, paused |-> FALSE]
    /\ was = [p \in Pads |-> NoId]

-----------------------------------------------------------------------------
(* The device table                                                         *)

\* open_device_for_instance: the pads whose entry is open.
OpenIn(T, p) == \E s \in Slots : T[s].pad = p
SlotOf(T, p) == CHOOSE s \in Slots : T[s].pad = p
ClosedIn(T) == {s \in Slots : T[s].pad = NoPad /\ T[s] # Free}
ClosedOf(T, print) == {s \in ClosedIn(T) : T[s].print = print}

\* disconnected_device_for_fingerprint: of the closed entries the one of the lowest ordinal.
Remembered(T, print) ==
    CHOOSE s \in ClosedOf(T, print) :
        \A t \in ClosedOf(T, print) : T[s].ordinal <= T[t].ordinal

\* unused_open_device: the first free entry, or the first closed one, which is forgotten.
Unused(T) ==
    LET free == {s \in Slots : T[s] = Free}
        unused == IF free # {} THEN free ELSE ClosedIn(T)
    IN  CHOOSE s \in unused : \A t \in unused : s <= t
Full(T) == \A s \in Slots : T[s].pad # NoPad

\* A new entry: its ordinal is above all of its fingerprint in the rest of the table.
NewEntry(T, s, p) ==
    LET print == Fingerprint[p]
        taken == {T[t].ordinal : t \in {u \in Slots \ {s} : T[u] # Free /\ T[u].print = print}}
    IN  [pad |-> p, print |-> print,
         ordinal |-> CHOOSE n \in 0..MaxOrdinal + 1 :
                        (\A m \in taken : m < n) /\ (n = 0 \/ n - 1 \in taken)]

\* Mutant of remember_device: a pad that comes back is a new one.
RememberNothing(T, p) ==
    IF Full(T) THEN T ELSE [T EXCEPT ![Unused(T)] = NewEntry(T, Unused(T), p)]

\* A pad known by its fingerprint takes its entry again, another one the next unused.
remember_device(T, p) ==
    IF ClosedOf(T, Fingerprint[p]) # {}
    THEN [T EXCEPT ![Remembered(T, Fingerprint[p])].pad = p]
    ELSE IF Full(T) THEN T
    ELSE [T EXCEPT ![Unused(T)] = NewEntry(T, Unused(T), p)]

\* open_game_controllers: every pad that is not open yet, in the order of the devices.
open_game_controllers(pads) ==
    LET opened[i \in 0..Len(pads)] ==
            IF i = 0 THEN table
            ELSE IF OpenIn(opened[i - 1], pads[i]) THEN opened[i - 1]
            ELSE remember_device(opened[i - 1], pads[i])
    IN  opened[Len(pads)]

-----------------------------------------------------------------------------
(* What an event means                                                      *)

\* Mutant of binding_matches_event: the device is not looked at.
MatchesAnyPad(b, p) == ~IsKey(b)

\* binding_matches_event, event_matches_scoped_device: the axis of the open pad whose
\* identity the button is bound to.
binding_matches_event(b, p) ==
    ~IsKey(b) /\ OpenIn(table, p) /\ IdOf(table[SlotOf(table, p)]) = Bindings[b].id

\* buttons_for_event, of an axis at v: what it presses, and what it releases.
press_mask(p, v) == {b \in Buttons : binding_matches_event(b, p) /\ Bindings[b].push = v}
release_mask(p, v) == {b \in Buttons : binding_matches_event(b, p) /\ Bindings[b].push # v}
KeyMask == {b \in Buttons : IsKey(b)}

\* The player holds the control that the button is bound to.
Held(b) ==
    IF IsKey(b) THEN key
    ELSE \E p \in Pads : /\ OpenIn(table, p) /\ axis[p] = Bindings[b].push
                        /\ IdOf(table[SlotOf(table, p)]) = Bindings[b].id

-----------------------------------------------------------------------------
(* The window: IntegralGBRuntimeFixedHostProductRuntime                     *)

set_button(w, press, release) ==
    IF ~w.running \/ ~w.focused THEN w
    ELSE [w EXCEPT !.buttons = (@ \cup press) \ release]

\* Mutant of focus_lost: what is held stays pressed.
FocusLostKeeps(w) == [w EXCEPT !.focused = FALSE, !.neutral = TRUE]

focus_lost(w) == [w EXCEPT !.focused = FALSE, !.buttons = {}, !.neutral = TRUE]

\* Mutant of request_exit: the question is asked with the buttons pressed.
RequestExitKeeps(w) == [w EXCEPT !.asking = TRUE, !.yes = FALSE, !.neutral = TRUE]

request_exit(w) ==
    [w EXCEPT !.asking = TRUE, !.yes = FALSE, !.buttons = {}, !.neutral = TRUE]

cancel_exit(w) == [w EXCEPT !.asking = FALSE, !.yes = FALSE]

toggle_exit_selection(w) == [w EXCEPT !.yes = ~@]

\* The game is left, or the question taken back.
select_exit(w) ==
    IF w.yes THEN [w EXCEPT !.buttons = {}, !.neutral = TRUE, !.running = FALSE]
    ELSE cancel_exit(w)

\* take_neutral: the Remote sends its buttons although they have not changed.
take_neutral(w) == [w EXCEPT !.neutral = FALSE]

\* poll_input of a press and a release: while the question is asked a direction changes the
\* answer, A gives it, and a release does nothing.
Polled(press, release) ==
    CASE ~win.asking -> set_button(win, press, release)
      [] win.asking /\ press \cap {"LEFT", "RIGHT"} # {} -> toggle_exit_selection(win)
      [] win.asking /\ press \cap {"LEFT", "RIGHT"} = {} ->
           IF "A" \in press THEN select_exit(win) ELSE win

-----------------------------------------------------------------------------
(* Events of the window, polled one after another                           *)

\* What the rest of the game is, whatever the event.
GameAside == UNCHANGED <<sent, wire, away, host>>

\* A pad is plugged in; a player has at most two in use (a bound).
DeviceAdded ==
    /\ win.running
    /\ Len(plugged) < 2
    /\ \E p \in PadsOf[win.role], v \in {-1, 0, 1} :
         /\ \A i \in 1..Len(plugged) : plugged[i] # p
         /\ plugged' = Append(plugged, p)
         /\ axis' = [axis EXCEPT ![p] = v]
    /\ table' = open_game_controllers(plugged')
    /\ \A s \in Slots : table'[s].ordinal <= MaxOrdinal
    /\ was' = [p \in Pads |-> IF OpenIn(table', p) THEN IdOf(table'[SlotOf(table', p)]) ELSE was[p]]
    /\ UNCHANGED <<key, win>>
    /\ GameAside

\* A pad is unplugged: its entry is closed and kept, the buttons are released.
DeviceRemoved ==
    /\ win.running
    /\ \E i \in 1..Len(plugged) : LET p == plugged[i] IN
         /\ plugged' = SubSeq(plugged, 1, i - 1) \o SubSeq(plugged, i + 1, Len(plugged))
         /\ axis' = [axis EXCEPT ![p] = 0]
         /\ table' = [s \in Slots |-> IF table[s].pad = p THEN [table[s] EXCEPT !.pad = NoPad]
                                      ELSE table[s]]
    /\ win' = [win EXCEPT !.buttons = {}, !.neutral = TRUE]
    /\ UNCHANGED <<key, was>>
    /\ GameAside

\* The axis of a pad is moved. A window without the focus need not be told.
AxisMoved ==
    /\ win.running
    /\ \E i \in 1..Len(plugged), v \in {-1, 0, 1} : LET p == plugged[i] IN
         /\ axis[p] # v
         /\ axis' = [axis EXCEPT ![p] = v]
         /\ \/ win' = Polled(press_mask(p, v), release_mask(p, v))
            \/ ~win.focused /\ UNCHANGED win
    /\ UNCHANGED <<plugged, table, key, was>>
    /\ GameAside

KeyMoved ==
    /\ win.running
    /\ key' = ~key
    /\ \/ win' = IF key THEN Polled({}, KeyMask) ELSE Polled(KeyMask, {})
       \/ ~win.focused /\ UNCHANGED win
    /\ UNCHANGED <<plugged, table, axis, was>>
    /\ GameAside

\* The focus comes and goes; Escape, or the window is closed.
WindowEvent ==
    /\ win.running
    /\ \/ win' = focus_lost(win)
       \/ win' = [win EXCEPT !.focused = TRUE]
       \/ win' = request_exit(win)
       \/ win.asking /\ win' = cancel_exit(win)
    /\ UNCHANGED <<plugged, table, axis, key, was>>
    /\ GameAside

Events == DeviceAdded \/ DeviceRemoved \/ AxisMoved \/ KeyMoved \/ WindowEvent

-----------------------------------------------------------------------------
(* From the window to the game                                              *)

DeviceAside == UNCHANGED <<plugged, table, axis, key, was>>
InputsIn(w) == Len(SelectSeq(w, LAMBDA m : m.type = "input"))

\* run_remote: the buttons are sent when they change, when a release is pending, and every
\* INPUT_HEARTBEAT_US: at any time.
SendInput ==
    /\ win.role = "remote" /\ win.running /\ away = "nobody"
    /\ InputsIn(wire) < MaxInFlight
    /\ wire' = Append(wire, [type |-> "input", buttons |-> win.buttons])
    /\ sent' = win.buttons
    /\ win' = take_neutral(win)
    /\ UNCHANGED <<away, host>>
    /\ DeviceAside

\* recover_transport of the window's own program: its buttons are released.
Recovering(w, role) == IF w.role = role THEN [w EXCEPT !.buttons = {}] ELSE w

\* The Remote's connection breaks, with what was not forwarded yet. The relay keeps the
\* Host's and tells it when the Remote is gone and when it is back.
Break ==
    /\ win.running /\ away = "nobody"
    /\ \A i \in 1..Len(wire) : wire[i].type = "input"      \* a bound
    /\ away' = "remote"
    /\ \E n \in 0..Len(wire) :
           wire' = Append(SubSeq(wire, 1, n), [type |-> "away", buttons |-> {}])
    /\ win' = Recovering(win, "remote")
    /\ UNCHANGED <<sent, host>>
    /\ DeviceAside

\* The Host's breaks: the relay closes both, and what neither has read is lost.
BreakBoth ==
    /\ win.running /\ away = "nobody"
    /\ away' = "both"
    /\ wire' = <<>>
    /\ host' = [host EXCEPT !.paused = TRUE]
    /\ win' = [win EXCEPT !.buttons = {}]
    /\ UNCHANGED sent
    /\ DeviceAside

\* Mutant of Return: what was sent before the connection broke counts as sent.
ReturnAsSent ==
    /\ win.running /\ away # "nobody"
    /\ away' = "nobody"
    /\ IF away = "both"
       THEN host' = [host EXCEPT !.remote = {}, !.paused = FALSE] /\ UNCHANGED wire
       ELSE wire' = Append(wire, [type |-> "back", buttons |-> {}]) /\ UNCHANGED host
    /\ win' = IF away = "both" THEN [win EXCEPT !.buttons = {}] ELSE Recovering(win, "remote")
    /\ UNCHANGED sent
    /\ DeviceAside

\* Whoever was gone is paired again (the ends of run_host's and run_remote's loops): both
\* begin with no buttons, and the Remote's are sent although they have not changed.
Return ==
    /\ win.running /\ away # "nobody"
    /\ away' = "nobody"
    /\ IF away = "both"
       THEN host' = [host EXCEPT !.remote = {}, !.paused = FALSE] /\ UNCHANGED wire
       ELSE wire' = Append(wire, [type |-> "back", buttons |-> {}]) /\ UNCHANGED host
    /\ win' = IF away = "both" THEN [win EXCEPT !.buttons = {}] ELSE Recovering(win, "remote")
    /\ sent' = IF win.role = "remote" THEN Nothing ELSE sent
    /\ DeviceAside

\* run_host takes a message: a state of the session pauses the scheduler or lets it go on
\* (scheduler_set_paused), and releases the buttons of both.
TakeMessage ==
    /\ wire # <<>>
    /\ wire' = Tail(wire)
    /\ LET m == Head(wire) IN
       IF m.type = "input"
       THEN host' = [host EXCEPT !.remote = m.buttons] /\ UNCHANGED win
       ELSE /\ host' = [host EXCEPT !.remote = {}, !.paused = m.type = "away"]
            /\ win' = IF win.role = "host" THEN [win EXCEPT !.buttons = {}] ELSE win
    /\ UNCHANGED <<sent, away>>
    /\ DeviceAside

\* scheduler_frame and run_frame: the two games are given the buttons as they are; while
\* the scheduler is paused no frame is run and the Remote's are released.
Frame ==
    /\ win.running
    /\ host' = IF host.paused THEN [host EXCEPT !.remote = {}] ELSE host
    /\ UNCHANGED <<win, sent, wire, away>>
    /\ DeviceAside

PadsNext == Events \/ SendInput \/ Break \/ BreakBoth \/ Return \/ TakeMessage \/ Frame

PadsSpec == PadsInit /\ [][PadsNext]_padVars

-----------------------------------------------------------------------------
\* A button is pressed only while the player holds the control it is bound to, on a pad
\* that is plugged in and has the identity of the binding: whatever the focus, the question
\* of leaving, another pad or a lost connection does in between (poll_input, set_button).
ButtonsAreHeld == win.running => \A b \in win.buttons : Held(b)

\* A pad that is plugged in again keeps its identity, and with it its buttons, when it is
\* the only one of its make that was missing; and no two pads ever have one identity
\* (remember_device).
PadsKeepTheirIdentity ==
    [][/\ \A p \in Pads :
            /\ {q \in Pads : OpenIn(table', q) /\ ~OpenIn(table, q)} = {p}
            /\ {IdOf(table[s]) : s \in ClosedOf(table, Fingerprint[p])} = {was[p]}
            => was'[p] = was[p]
       /\ \A s, t \in Slots : /\ s # t /\ table'[s] # Free /\ table'[t] # Free
                              => IdOf(table'[s]) # IdOf(table'[t])]_padVars

\* When every message has arrived the Host has for the Remote what the Remote sent last,
\* and the games run, whatever was lost with a connection and whenever the two learnt of
\* it (run_remote's last_sent_buttons, run_host, scheduler_set_paused).
HostHasWhatWasSent ==
    win.role = "remote" /\ away = "nobody" /\ wire = <<>> =>
        ~host.paused /\ (sent # Nothing => host.remote = sent)

\* From the player's hand to the game: what the window has pressed is held, and what the
\* Remote sent last is what the Host has.
InputIsTrue == ButtonsAreHeld /\ HostHasWhatWasSent
=============================================================================
