------------------------------ MODULE KeyConfig ------------------------------
(* The key editor of the client (c_client/client_key_config.c) on the codes *)
(* and names of the controls (runtimes/gb/src/common/key_config.c): a       *)
(* capture asks for one control after another, rewrites the layout and      *)
(* saves it to the config file.                                             *)
(*                                                                          *)
(* A code is SDL's of a key, or one of the negative ranges below. A name is *)
(* what the file has for a control: the identity of a pad, the kind and the *)
(* number of its control; a key's is a text, which has a number here, or    *)
(* the word SCANCODE and its number. No two keys have the same text. A pad  *)
(* has one axis. The rows and pages of the screen are a choice of the       *)
(* player.                                                                  *)
EXTENDS ClientConfig, SequencesExt

CONSTANTS
    GbLabels, GbLayout,    \* the buttons of a Game Boy: as they are asked for, as they are read
    N64Labels, N64Layout,  \* those of an N64 controller
    Utils,                 \* the utility keys, as they are asked for
    Aliases,               \* the operations of the client that have an alias
    Controllers,           \* number of N64 controllers (4)
    Keyboard,              \* its keys: [sym |-> the code that SDL gives, scan |-> the place]
    SDL_GetKeyName,        \* the text of a code, for those that have one
    SDL_GetScancodeName,   \* the text of a place, for those that have one
    TextsAtCommas,         \* for a text with a comma, what strtok_r makes of it
    SDLK_ESCAPE, SDLK_RETURN, SDLK_KP_ENTER,
    Reserved,              \* client_alias_reserved_key: keys that cannot be an alias
    PadNames,              \* identities of the pads
    AxisAt,                \* where an axis can be
    Threshold,             \* INTEGRAL_GB_RUNTIME_CONTROLLER_AXIS_THRESHOLD
    MaxBindingDevices,     \* INTEGRAL_GB_RUNTIME_MAX_BINDING_DEVICES (64)
    FirstKeys,             \* integral_keys_reset_editable_defaults
    MaxCaptures            \* captures begun; and defaults are reset only before the last (bounds)

VARIABLES
    keys,     \* IntegralConfigKeys in memory
    edit,     \* IntegralClientKeyEditor
    bound,    \* binding_devices: identities that have a slot
    axes,     \* the axis of each pad that is plugged in
    held,     \* client_alias_held
    asked,    \* history: what was pressed at each step, whether a comma was in a name of the
              \* layout, and how the capture ended
    push      \* history: the steps that the present push of each axis has filled in this capture

keyVars == <<keys, edit, bound, axes, held, asked, push>>

Unknown == 0
NoDevice == ""
Unplugged == 99                 \* no position of an axis
TextName(text) == [dev |-> NoDevice, kind |-> 0, control |-> text]
NoName == TextName(-1)          \* an empty string
UnknownName == TextName(0)      \* the text UNKNOWN, which is no key's

ASSUME KeyAssumption ==
    /\ \A k \in Keyboard : k.sym # Unknown /\ k.scan # Unknown
    /\ \A names \in {SDL_GetKeyName, SDL_GetScancodeName} : \A i, j \in DOMAIN names :
         names[i] \notin {-1, 0} /\ (names[i] = names[j] => i = j)
    /\ {SDLK_RETURN, SDLK_KP_ENTER} \subseteq DOMAIN SDL_GetKeyName
    /\ Len(GbLabels) = Len(GbLayout) /\ Len(N64Labels) = Len(N64Layout)
    /\ Cardinality(PadNames) <= MaxBindingDevices     \* 64 are never used up (a bound)

-----------------------------------------------------------------------------
(* Codes and names                                                          *)

\* Kinds of a control that has a device (1..7); bases and sizes of the codes without one.
Kinds == 1..7
Base == <<-100000, -101000, -102000, -103000, -104000, -105000, -106000>>
Size == <<21, 6, 6, 128, 32, 32, 64>>
AxisPos == 5
AxisNeg == 6

scoped_code(slot, kind, control) ==
    IF slot \in 0..MaxBindingDevices - 1 /\ kind \in Kinds /\ control \in 0..999
    THEN -2000000 - slot * 10000 - kind * 1000 - control
    ELSE Unknown

\* Mutant of scoped_decode: the kind is not taken off the number of the control.
DecodeKeepsKind(table, code) ==
    LET packed == -2000000 - code
        slot == packed \div 10000
    IN  IF packed < 0 \/ slot >= Len(table) THEN {}
        ELSE {[slot |-> slot, kind |-> (packed % 10000) \div 1000, control |-> packed % 10000]}

\* The control of a code that has a device, or none.
scoped_decode(table, code) ==
    LET packed == -2000000 - code
        slot == packed \div 10000
        kind == (packed % 10000) \div 1000
    IN  IF packed < 0 \/ slot >= Len(table) \/ kind \notin Kinds THEN {}
        ELSE {[slot |-> slot, kind |-> kind, control |-> packed % 1000]}

\* The kind of a code without a device (controller_code_to_, joystick_code_to_).
PlainKind(code) == {k \in Kinds : code <= Base[k] /\ code > Base[k] - Size[k]}

is_controller_code(code) == scoped_decode(bound, code) # {} \/ PlainKind(code) # {}

\* binding_device_slot: an identity keeps the slot it was given first.
DeviceSlot(table, dev) ==
    IF \E i \in 1..Len(table) : table[i] = dev
    THEN (CHOOSE i \in 1..Len(table) : table[i] = dev) - 1 ELSE Len(table)
WithDevice(table, dev) == IF DeviceSlot(table, dev) = Len(table) THEN Append(table, dev) ELSE table

\* integral_gb_runtime_key_config_key_name of a control of a pad.
key_name(table, code) ==
    IF scoped_decode(table, code) # {}
    THEN LET c == CHOOSE x \in scoped_decode(table, code) : TRUE
         IN  [dev |-> table[c.slot + 1], kind |-> c.kind, control |-> c.control]
    ELSE LET k == CHOOSE x \in PlainKind(code) : TRUE
         IN  [dev |-> NoDevice, kind |-> k, control |-> Base[k] - code]

\* A key is named as it is read, but for the Enter of the keypad, whose name is the other's.
key_name_from_sdl(sym) ==
    IF sym = SDLK_KP_ENTER THEN TextName(SDL_GetKeyName[SDLK_RETURN])
    ELSE IF sym \in DOMAIN SDL_GetKeyName THEN TextName(SDL_GetKeyName[sym])
    ELSE UnknownName

ScancodeKind == 8                   \* the kind of SCANCODE n
scancode_name_from_sdl(scan) ==
    IF scan \in DOMAIN SDL_GetScancodeName THEN TextName(SDL_GetScancodeName[scan])
    ELSE [dev |-> NoDevice, kind |-> ScancodeKind, control |-> scan]

\* The code, or the place, with a text; SDL_GetKeyFromName and SDL_GetScancodeFromName.
Named(names, text) ==
    IF \E i \in DOMAIN names : names[i] = text
    THEN CHOOSE i \in DOMAIN names : names[i] = text ELSE Unknown

n64_key_name_to_scancode(name) ==
    IF name.kind = ScancodeKind THEN name.control ELSE Named(SDL_GetScancodeName, name.control)

\* A name with a device, one of a controller or joystick without, and a key's.
scoped_key_from_name(table, name) ==
    scoped_code(DeviceSlot(table, name.dev), name.kind, name.control)
key_from_name(table, name) ==
    IF name.dev # NoDevice THEN scoped_key_from_name(table, name)
    ELSE IF name.kind \in Kinds THEN Base[name.kind] - name.control
    ELSE IF name.kind = ScancodeKind THEN Unknown
    ELSE Named(SDL_GetKeyName, name.control)

\* code_from_event of an axis at v: pushed up to the threshold.
AxisCode(table, p, v) ==
    IF v \in 1 - Threshold..Threshold - 1 THEN Unknown
    ELSE scoped_code(DeviceSlot(table, p), IF v > 0 THEN AxisPos ELSE AxisNeg, 0)

\* binding_matches_event of an axis: the code is one of this axis, and pushed over the
\* threshold it is pressed.
AxisControl(code, p) ==
    {k \in {AxisPos, AxisNeg} :
        \/ \E c \in scoped_decode(bound, code) : c.kind = k /\ c.control = 0 /\ bound[c.slot + 1] = p
        \/ k \in PlainKind(code) /\ code = Base[k]}
Pressed(kind, v) == IF kind = AxisPos THEN v > Threshold ELSE v < -Threshold

-----------------------------------------------------------------------------
(* Layouts                                                                  *)

\* key_spec_to_names_count: the names between the commas, and then none.
key_spec_to_names(spec, count) == [i \in 1..count |-> IF i <= Len(spec) THEN spec[i] ELSE NoName]

\* What a layout has of a name: strtok_r cuts at every comma, and a comma alone is no name.
HasComma(name) == name.kind = 0 /\ name.control \in DOMAIN TextsAtCommas
AtCommas(name) ==
    IF ~HasComma(name) THEN <<name>>
    ELSE [i \in DOMAIN TextsAtCommas[name.control] |-> TextName(TextsAtCommas[name.control][i])]

\* key_names_to_spec: joined by commas.
key_names_to_spec(names) ==
    FlattenSeq([i \in DOMAIN names |->
                  AtCommas(IF names[i] = NoName THEN UnknownName ELSE names[i])])

\* Mutant of key_spec_index_for_capture_step: the buttons are stored as they are asked for.
IndexInOrder(step) == step

\* The two orders are each other's halves swapped.
key_spec_index_for_capture_step(step) ==
    ((step - 1 + Len(GbLabels) \div 2) % Len(GbLabels)) + 1

\* An N64 controller's are those of the layout but for A and B.
n64_key_spec_index_for_capture_step(step) ==
    CASE N64Labels[step] = "A BUTTON" -> step + 1
      [] N64Labels[step] = "B BUTTON" -> step - 1
      [] OTHER -> step

key_spec_contains_binding(table, spec, code) ==
    \E i \in 1..Len(spec) : spec[i] # NoName /\ key_from_name(table, spec[i]) = code

Targets == {"slot1", "slot2", "n64", "utils", "aliases"}
StepsOf(target) ==
    CASE target \in {"slot1", "slot2"} -> Len(GbLabels)
      [] target = "n64" -> Len(N64Labels)
      [] target = "utils" -> Len(Utils)
      [] target = "aliases" -> Len(Aliases)

\* integral_keys_apply_defaults_for_missing.
WithDefaults(k) ==
    [k EXCEPT !.slot1 = IF @ = <<>> THEN FirstKeys.slot1 ELSE @,
              !.slot2 = IF @ = <<>> THEN FirstKeys.slot2 ELSE @,
              !.n64[1] = IF @ = <<>> THEN FirstKeys.n64[1] ELSE @,
              !.utils = [u \in DOMAIN @ |-> IF @[u] = NoName THEN FirstKeys.utils[u] ELSE @[u]]]

NoPush == [p \in PadNames |-> {}]

KeysInit ==
    /\ \E k \in {User.keys, NoKeys} : keys = WithDefaults(k)      \* or no file could be read
    /\ edit = [target |-> "none", step |-> 1, wait |-> Unknown, n64 |-> 1, names |-> <<>>]
    /\ bound = <<>>
    /\ axes = [p \in PadNames |-> 0]
    /\ held = [a \in DOMAIN Aliases |-> FALSE]
    /\ asked = [codes |-> <<>>, comma |-> FALSE, of |-> "none", n64 |-> 1, begun |-> 0]
    /\ push = NoPush

-----------------------------------------------------------------------------
(* The capture                                                              *)

NoCapture(e) == [e EXCEPT !.target = "none", !.step = 1, !.wait = Unknown, !.names = <<>>]

\* The keys in memory, or nothing if the file cannot be written.
save_key_config(k, bad) ==
    /\ Spend(bad)
    /\ cfg' = IF "config" \in bad THEN cfg
              ELSE [cfg EXCEPT !["user"] = integral_config_save_keys(@, k, bad)]
NotSaved == UNCHANGED <<cfg, spent>>
ConfigAside == UNCHANGED <<store, accounts, form, accepted>>

begin_key_capture(target, n64) ==
    /\ asked.begun < MaxCaptures
    /\ edit' = [target |-> target, step |-> 1, wait |-> Unknown, n64 |-> n64,
                names |-> IF target = "n64" THEN key_spec_to_names(keys.n64[n64], Len(N64Layout))
                          ELSE <<>>]
    /\ asked' = [codes |-> <<>>, comma |-> FALSE, of |-> "none", n64 |-> n64,
                 begun |-> asked.begun + 1]
    /\ UNCHANGED keys
    /\ NotSaved

\* What a captured control may not be: a utility key that is in a layout it is used with,
\* or that is another's; an alias that is no key, reserved or another's.
Taken(table, name) ==
    LET code == key_from_name(table, name) IN
    CASE edit.target = "utils" -> code # Unknown /\
           \/ key_spec_contains_binding(table, keys.slot1, code)
           \/ /\ Utils[edit.step] \notin {"FAST", "TURBO HOLD"}
              /\ \/ key_spec_contains_binding(table, keys.slot2, code)
                 \/ \E c \in 1..Controllers : key_spec_contains_binding(table, keys.n64[c], code)
           \/ \E u \in DOMAIN Utils \ {edit.step} : key_from_name(table, keys.utils[u]) = code
      [] edit.target = "aliases" ->
           \/ code = Unknown
           \/ code \in Reserved
           \/ \E a \in DOMAIN Aliases \ {edit.step} :
                keys.aliases[a] # NoName /\ key_from_name(table, keys.aliases[a]) = code
      [] OTHER -> FALSE

\* The keys and the names set aside once the control has been stored at its step.
KeysWith(name) ==
    CASE edit.target \in {"slot1", "slot2"} ->
           [keys EXCEPT ![edit.target] = key_names_to_spec(
               [key_spec_to_names(@, Len(GbLayout))
                  EXCEPT ![key_spec_index_for_capture_step(edit.step)] = name])]
      [] edit.target = "utils" -> [keys EXCEPT !.utils[edit.step] = name]
      [] edit.target = "aliases" -> [keys EXCEPT !.aliases[edit.step] = name]
      [] edit.target = "n64" ->
           IF edit.step < StepsOf("n64") THEN keys
           ELSE [keys EXCEPT !.n64[edit.n64] = key_names_to_spec(
                    [edit.names EXCEPT ![n64_key_spec_index_for_capture_step(edit.step)] = name])]
NamesWith(name) ==
    IF edit.target # "n64" THEN <<>>
    ELSE [edit.names EXCEPT ![n64_key_spec_index_for_capture_step(edit.step)] = name]

\* The name of a control, for a key by its code or, in a layout of the N64, its place.
captured_name(table, code) ==
    IF scoped_decode(table, code) # {} THEN key_name(table, code)
    ELSE IF edit.target = "n64" THEN scancode_name_from_sdl(code)
    ELSE key_name_from_sdl(code)

\* apply_captured_binding and finish_key_capture: the control fills the step, or is refused;
\* after the last step the keys are saved. wait is what a pad must release first.
apply_captured_binding(table, code, wait) ==
    LET name == captured_name(table, code)
        told == [asked EXCEPT !.codes = Append(@, code), !.comma = @ \/ HasComma(name)]
    IN  IF name = UnknownName \/ Taken(table, name)
        THEN edit' = [edit EXCEPT !.wait = wait] /\ UNCHANGED <<keys, asked>> /\ NotSaved
        ELSE /\ keys' = KeysWith(name)
             /\ IF edit.step < StepsOf(edit.target)
                THEN /\ edit' = [edit EXCEPT !.step = @ + 1, !.wait = wait, !.names = NamesWith(name)]
                     /\ asked' = told
                     /\ NotSaved
                ELSE /\ edit' = NoCapture(edit)
                     /\ \E bad \in SUBSET SaveFails :
                          /\ save_key_config(keys', bad)
                          /\ asked' = [told EXCEPT !.of = IF "config" \in bad THEN "none"
                                                         ELSE edit.target]

\* Escape takes a capture back, but for the step that asks for it; what slots, utilities
\* and aliases were given so far stays in memory.
CancelCapture ==
    /\ edit' = NoCapture(edit)
    /\ asked' = [asked EXCEPT !.codes = <<>>, !.of = "none"]
    /\ UNCHANGED keys
    /\ NotSaved

-----------------------------------------------------------------------------
(* Events                                                                   *)

\* integral_client_alias_keyboard_event: the operations that a key stands for.
AliasOfKey(k) ==
    {a \in DOMAIN Aliases : /\ keys.aliases[a] # NoName /\ key_from_name(bound, keys.aliases[a]) = k
                            /\ ~is_controller_code(k) /\ k \notin Reserved}

\* What a push has filled is counted anew in another capture.
PushAtBegin(pushed) == IF asked'.begun > asked.begun THEN NoPush ELSE pushed

\* An operation of the client on the key screen: Enter begins a capture.
Operation(op) ==
    IF op = "ENTER"
    THEN \E t \in Targets, c \in 1..Controllers :
           (t # "n64" => c = edit.n64) /\ begin_key_capture(t, c)
    ELSE UNCHANGED <<keys, edit, asked>> /\ NotSaved

\* handle_key_config_key_context: a key is pressed while a capture is on, or stands for
\* Enter.
PressKey ==
    /\ \E k \in Keyboard :
         IF edit.target = "none"
         THEN \E a \in AliasOfKey(k.sym) :
                (\A b \in AliasOfKey(k.sym) : a <= b) /\ Operation(Aliases[a])
         ELSE IF k.sym = SDLK_ESCAPE /\ (edit.target # "utils" \/ Utils[edit.step] # "ESCAPE")
         THEN CancelCapture
         ELSE apply_captured_binding(bound, IF edit.target = "n64" THEN k.scan ELSE k.sym, edit.wait)
    /\ push' = PushAtBegin(push)
    /\ UNCHANGED <<bound, axes, held>>
    /\ ConfigAside

\* Enter itself.
PressEnter ==
    /\ edit.target = "none"
    /\ Operation("ENTER")
    /\ push' = PushAtBegin(push)
    /\ UNCHANGED <<bound, axes, held>>
    /\ ConfigAside


\* handle_key_config_controller_context: until the control that was captured last is
\* released nothing is, and the event that releases it is not looked at further.
EditorAxis(p, v) ==
    /\ held' = held
    /\ IF edit.wait # Unknown
       THEN /\ edit' = IF \E k \in AxisControl(edit.wait, p) : ~Pressed(k, v)
                       THEN [edit EXCEPT !.wait = Unknown] ELSE edit
            /\ UNCHANGED <<keys, asked, bound>> /\ NotSaved
       ELSE LET table == WithDevice(bound, p)
                code == AxisCode(table, p, v)
            IN  IF code = Unknown THEN UNCHANGED <<keys, edit, asked, bound>> /\ NotSaved
                ELSE bound' = table /\ apply_captured_binding(table, code, code)

\* integral_client_alias_controller_event: the first alias whose control begins to be
\* pressed is the operation.
AliasAxis(p, v) ==
    LET code(a) == key_from_name(bound, keys.aliases[a])
        matched == {a \in DOMAIN Aliases : keys.aliases[a] # NoName /\ AxisControl(code(a), p) # {}}
        down(a) == \E k \in AxisControl(code(a), p) : Pressed(k, v)
        rising == {a \in matched : down(a) /\ ~held[a]}
    IN  /\ held' = [a \in DOMAIN Aliases |-> IF a \in matched THEN down(a) ELSE held[a]]
        /\ UNCHANGED bound
        /\ IF rising = {} THEN Operation("NONE")
           ELSE \E a \in rising : (\A b \in rising : a <= b) /\ Operation(Aliases[a])

\* The axis of a pad moves. A push lasts until the axis is back at the threshold, or on the
\* other side.
MoveAxis ==
    /\ \E p \in PadNames, v \in AxisAt :
         /\ axes[p] \notin {Unplugged, v}
         /\ axes' = [axes EXCEPT ![p] = v]
         /\ IF edit.target = "none" THEN AliasAxis(p, v) ELSE EditorAxis(p, v)
         /\ LET goes == v * axes[p] > 0 /\ v \notin -Threshold..Threshold
                fills == IF Len(asked'.codes) > Len(asked.codes) THEN {Len(asked'.codes)} ELSE {}
            IN  push' = PushAtBegin([push EXCEPT ![p] = IF goes THEN @ \cup fills ELSE fills])
    /\ ConfigAside

\* A pad is unplugged, after SDL has told that its axis is back, or plugged in again: no
\* release is waited for, and no alias is held, any more.
PlugPad ==
    /\ \E p \in PadNames :
         \/ /\ axes[p] = 0
            /\ axes' = [axes EXCEPT ![p] = Unplugged]
            /\ edit' = [edit EXCEPT !.wait = Unknown]
            /\ held' = [a \in DOMAIN Aliases |-> FALSE]
            /\ push' = NoPush
         \/ /\ axes[p] = Unplugged
            /\ axes' = [axes EXCEPT ![p] = 0]
            /\ UNCHANGED <<edit, held, push>>
    /\ UNCHANGED <<keys, bound, asked>>
    /\ NotSaved
    /\ ConfigAside

\* reset_key_defaults of a page.
reset_key_defaults ==
    /\ edit.target = "none"
    /\ asked.begun < MaxCaptures
    /\ \E page \in {"gb", "n64", "util"}, c \in 1..Controllers :
         /\ page # "n64" => c = edit.n64
         /\ keys' = CASE page = "gb" -> [keys EXCEPT !.slot1 = FirstKeys.slot1, !.slot2 = FirstKeys.slot2]
                      [] page = "n64" -> [keys EXCEPT !.n64[c] = FirstKeys.n64[c]]
                      [] page = "util" -> [keys EXCEPT !.utils = FirstKeys.utils,
                                                       !.aliases = FirstKeys.aliases]
    /\ \E bad \in SUBSET SaveFails : save_key_config(keys', bad)
    /\ asked' = [asked EXCEPT !.codes = <<>>, !.of = "none"]
    /\ UNCHANGED <<edit, bound, axes, held, push>>
    /\ ConfigAside

KeysNext == PressKey \/ PressEnter \/ MoveAxis \/ PlugPad \/ reset_key_defaults

KeysSpec == ConfigInit /\ KeysInit /\ [][KeysNext]_<<configVars, keyVars>>

-----------------------------------------------------------------------------
(* What the game reads of the file                                          *)

\* integral_gb_runtime_key_config_parse: the button a code is for, by its place; a layout
\* with another number of names, or with one that is no key's, is not taken.
ButtonAt(spec, label) ==
    IF \/ Len(spec) # Len(GbLayout)
       \/ \E i \in DOMAIN spec : key_from_name(bound, spec[i]) = Unknown
    THEN Unknown
    ELSE key_from_name(bound, spec[CHOOSE j \in DOMAIN GbLayout : GbLayout[j] = label])

\* make_n64_runtime_keymap_spec: a control of a pad that is plugged in, or the place of a key;
\* a layout with a name that is neither, or with controls of two pads, is not taken.
N64ButtonAt(spec, label) ==
    LET names == key_spec_to_names(spec, Len(N64Layout))
        pad(i) == names[i].dev # NoDevice \/ names[i].kind \in Kinds
        code(i) == IF pad(i) THEN key_from_name(bound, names[i])
                   ELSE n64_key_name_to_scancode(names[i])
    IN  IF \/ \E i \in DOMAIN names : code(i) = Unknown
           \/ Cardinality({names[i].dev : i \in {j \in DOMAIN names : pad(j)}}) > 1
        THEN Unknown
        ELSE code(CHOOSE j \in DOMAIN N64Layout : N64Layout[j] = label)

\* What a control stands for once it has a name: itself, but for the Enter of the keypad,
\* which is the other Enter where keys have the name of their code.
Meant(code) == IF code = SDLK_KP_ENTER /\ asked.of # "n64" THEN SDLK_RETURN ELSE code

\* The pads of which something was captured, by their slots.
PadsAsked ==
    {c.slot : c \in UNION {scoped_decode(bound, asked.codes[i]) : i \in DOMAIN asked.codes}}

=============================================================================
