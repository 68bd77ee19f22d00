--------------------------- MODULE GbRuntimeProofs ---------------------------
(* Proofs about GbServer: a slot that is not dirty is on the disk, a client *)
(* that stayed has its SAV back, and a SAV that could not be read is never  *)
(* replaced; and a game sees no key that nobody holds.                      *)
(*                                                                          *)
(* And about Mobile: a package that was accepted answers a request with one *)
(* of its routes at most, and a repeated one as it did before; a result     *)
(* that lets a SAV be uploaded speaks of the SAV that is there; and a       *)
(* session that runs has somebody who ends it or asks for it again.         *)
EXTENDS GbServer, Mobile, FiniteSetTheorems, SequenceTheorems, TLAPS

-----------------------------------------------------------------------------
(* The invariant of the server                                              *)

SlotTypes == [on : BOOLEAN, keys : SUBSET Buttons, ram : 0..MaxWrites,
              dirty : BOOLEAN, stamped : BOOLEAN, refused : BOOLEAN]
StreamTypes == [open : BOOLEAN, conn : BOOLEAN, authed : BOOLEAN, buttons : SUBSET Buttons,
                seq : 0..1, applied : SUBSET Buttons, pending : BOOLEAN,
                down : {"free", "busy"}, returned : BOOLEAN]
ClientTypes == [said : SUBSET Buttons, seq : 0..1, sav : Int, lost : BOOLEAN, torn : BOOLEAN]
Routers == [normal : [Slots -> SUBSET Buttons], turbo : [Slots -> SUBSET Buttons],
            applied : [Slots -> SUBSET Buttons], active : BOOLEAN, capture : BOOLEAN,
            phase : BOOLEAN, turboKey : BOOLEAN, fastKey : BOOLEAN, speed : 1..4]
Lans == [open : BOOLEAN, ws : BOOLEAN, buttons : SUBSET Buttons, fast : BOOLEAN,
         paused : BOOLEAN, said : SUBSET Buttons]
Windows == [ask : BOOLEAN, yes : BOOLEAN]
Stages == {"slot1", "listen", "upload", "slot2", "window open", "begin", "window", "lan",
           "turbo", "remote", "remote1", "run", "media", "media2", "return", "save", "save2",
           "pace", "pace1", "leave", "teardown", "failed", "done"}
InFrame == {"window", "lan", "turbo", "remote", "remote1", "run"}
Starting == {"slot1", "listen", "upload", "slot2"}

Settings ==
    /\ opt \in Options
    /\ FromClient => opt.remote
    /\ Self => ~opt.remote

SlotsTyped == slot \in [Slots -> SlotTypes] /\ file \in [Slots -> Files]
NetTyped == stream \in [Slots -> StreamTypes] /\ far \in [Slots -> ClientTypes]
PlayerTyped == router \in Routers /\ held \in [Slots -> SUBSET Buttons]
               /\ window \in Windows /\ lan \in Lans

\* Where the process is, and what is set up there.
Staged ==
    /\ pc \in Stages /\ stop \in BOOLEAN /\ frame \in 0..opt.frames
    /\ pc \in InFrame => frame < opt.frames
    /\ pc = "upload" => FromClient /\ stream[2].open
    /\ pc = "return" => FromClient
    /\ Self => pc # "slot2"
    /\ Self \/ pc \in Starting => ~slot[2].on
    /\ pc \in {"slot1", "listen"} => \A s \in Slots : ~stream[s].open
    /\ pc = "lan" => lan.open
    /\ opt.mode = "lan" => lan.open \/ pc \in Starting \cup {"window open", "failed", "done"}

\* The router applies what it holds, and what it holds the player holds.
KeysRouted ==
    /\ router.applied = Routed(router)
    /\ \A s \in Slots : router.normal[s] \subseteq held[s]
    /\ router.active \/ router.capture => opt.mode = "self"
    /\ lan.open => opt.mode = "lan"
    /\ lan.buttons = lan.said

\* A stream knows what its client said, and what it has pressed for one that has gone.
Heard(x) ==
    /\ x \in [st : StreamTypes, fa : ClientTypes]
    /\ x.st.conn => x.st.buttons = x.fa.said /\ x.st.seq = x.fa.seq
    /\ x.st.applied # {} => x.st.conn \/ x.st.pending
    /\ ~x.fa.torn

Streamed ==
    \A s \in Slots :
        /\ Heard(Outcome(s))
        /\ ~stream[s].open /\ pc # "done" => ~stream[s].conn /\ stream[s].applied = {}
        /\ stream[s].open => opt.remote

\* The keys of a slot: the router's, the stream's, and in a frame its macro's and the
\* automatic ones.
Automatic == IF opt.autoA > 0 /\ frame <= opt.autoA THEN {"A"} ELSE {}
Extra(s) ==
    IF pc \in InFrame THEN MacroKey(s) \cup (IF frame < opt.autoA THEN {"A"} ELSE {})
    ELSE IF opt.macro[s] = <<>> THEN Automatic ELSE Buttons
Pressed ==
    \A s \in Slots : slot[s].on /\ ~(s = 1 /\ lan.open) =>
        slot[s].keys \subseteq router.applied[s] \cup stream[s].applied \cup Extra(s)

\* From the poll of a stream or of the browser to the frame its input is in force.
Applied(s) ==
    IF stream[s].conn THEN slot[s].keys = far[s].said ELSE stream[s].applied = {}
Followed ==
    /\ pc \in {"remote1", "run"} => Applied(2)
    /\ pc = "run" => Applied(1)
    /\ pc \in {"turbo", "remote", "remote1", "run"} /\ lan.open /\ slot[1].on =>
          slot[1].keys = lan.said

\* What is on the disk.
Kept ==
    /\ CleanMeansSaved
    /\ \A s \in Slots : slot[s].on \/ slot[s].dirty => file[s].kind # "bad"
    /\ FromClient \/ Self => file[2].kind # "bad"

\* What is back with the client of an uploaded SAV.
Back ==
    /\ FromClient /\ pc \notin {"slot1", "listen", "upload", "failed", "done"} =>
          far[2].lost \/ stream[2].conn
    /\ pc \in Starting => ~stream[2].returned
    /\ FromClient /\ stream[2].returned /\ ~far[2].lost =>
          /\ stream[2].conn /\ (opt.auth => stream[2].authed)
          /\ slot[2].dirty \/ far[2].sav = slot[2].ram
    /\ SavIsReturned

\* Everything but the keys a game sees.
Safe == Settings /\ SlotsTyped /\ NetTyped /\ PlayerTyped /\ Staged /\ KeysRouted /\ Streamed
        /\ Kept /\ Back

\* Automatic presses are asked for only where every frame is counted: with a speed above one
\* the frame at which they end can be stepped over, and A stays down.
AutoAIsCounted == \A o \in Requested : o.autoA > 0 => o.mode # "self"

Counted == opt.autoA > 0 => opt.mode # "self"
Keys == Counted /\ Pressed /\ Followed

-----------------------------------------------------------------------------
(* What a step that leaves something alone keeps                            *)

\* Only keys change in the slots.
KeysOnly ==
    /\ slot' \in [Slots -> SlotTypes]
    /\ \A s \in Slots : /\ slot'[s].on = slot[s].on /\ slot'[s].ram = slot[s].ram
                        /\ slot'[s].dirty = slot[s].dirty
                        /\ slot'[s].refused = slot[s].refused

\* What is on the disk depends on no key.
LEMMA KeptStays ==
    ASSUME Kept, KeysOnly, UNCHANGED <<opt, file>>
    PROVE  Kept'
BY DEF Kept, KeysOnly, CleanMeansSaved, FromClient, Self

\* What the client has depends on no key, and is asked about at the end.
LEMMA BackStays ==
    ASSUME Back, KeysOnly, UNCHANGED <<opt, stream, far>>,
           pc' \in Starting => pc \in Starting,
           pc' \in {"slot1", "listen", "upload", "failed", "done"} \/
               pc \notin {"slot1", "listen", "upload", "failed", "done"},
           pc' = "teardown" => pc = "teardown"
    PROVE  Back'
<1>1. /\ slot'[2].dirty = slot[2].dirty /\ slot'[2].ram = slot[2].ram
      /\ slot'[2].refused = slot[2].refused
  BY DEF KeysOnly, Slots
<1>2. SavIsReturned'
  BY <1>1 DEF Back, SavIsReturned, At, FromClient, MustAuth, Outcome
<1> QED BY <1>1, <1>2 DEF Back, FromClient, SavIsReturned

\* The streams stay as they are.
LEMMA StreamedStays ==
    ASSUME Streamed, UNCHANGED <<opt, stream, far>>, pc # "done"
    PROVE  Streamed'
BY DEF Streamed, Heard, Outcome

\* A step of the player or of the loop that only presses and releases keys.
LEMMA SafeStays ==
    ASSUME Safe, KeysOnly, UNCHANGED <<opt, file, stream, far>>, pc # "done",
           PlayerTyped', Staged', KeysRouted',
           pc' \in Starting => pc \in Starting,
           pc' \in {"slot1", "listen", "upload", "failed", "done"} \/
               pc \notin {"slot1", "listen", "upload", "failed", "done"},
           pc' = "teardown" => pc = "teardown"
    PROVE  Safe'
<1>1. Settings'
  BY DEF Safe, Settings, FromClient, Self
<1>2. SlotsTyped' /\ NetTyped'
  BY DEF Safe, SlotsTyped, NetTyped, KeysOnly
<1>3. Kept' /\ Back' /\ Streamed'
  BY KeptStays, BackStays, StreamedStays DEF Safe
<1> QED BY <1>1, <1>2, <1>3 DEF Safe

\* The command line is fixed.
LEMMA SettingsStay == ASSUME Settings, UNCHANGED opt PROVE Settings'
BY DEF Settings, FromClient, Self

\* A slot's keys, set to what somebody presses.
LEMMA KeysAreSet ==
    ASSUME SlotsTyped, NEW k \in [Slots -> SUBSET Buttons],
           slot' = [s \in Slots |-> [slot[s] EXCEPT !.keys = k[s]]]
    PROVE  KeysOnly /\ \A s \in Slots : slot'[s].keys = k[s]
<1>1. ASSUME NEW s \in Slots
      PROVE  /\ slot'[s] \in SlotTypes /\ slot'[s].keys = k[s]
             /\ slot'[s].on = slot[s].on /\ slot'[s].ram = slot[s].ram
             /\ slot'[s].dirty = slot[s].dirty /\ slot'[s].refused = slot[s].refused
  <2>1. slot[s] \in SlotTypes /\ k[s] \in SUBSET Buttons /\ slot'[s] = [slot[s] EXCEPT !.keys = k[s]]
    BY <1>1 DEF SlotsTyped
  <2> QED BY <2>1 DEF SlotTypes
<1>2. slot' \in [Slots -> SlotTypes]
  BY <1>1
<1> QED BY <1>1, <1>2 DEF KeysOnly

\* Slots that stay as they are.
LEMMA NoKeyChanges == ASSUME SlotsTyped, UNCHANGED slot PROVE KeysOnly
BY DEF KeysOnly, SlotsTyped

-----------------------------------------------------------------------------
(* The router                                                               *)

\* The keys a slot gets when the router is applied: those it was given before are taken
\* back, those of others stay.
LEMMA RouterIs ==
    ASSUME SlotsTyped, NEW r \in Routers, ApplyRouter(r)
    PROVE  /\ KeysOnly
           /\ router' = [r EXCEPT !.applied = Routed(r)] /\ router' \in Routers
           /\ router'.applied = Routed(router') /\ router'.normal = r.normal
           /\ router'.active = r.active /\ router'.capture = r.capture
           /\ \A s \in Slots, X \in SUBSET Buttons :
                 slot[s].on /\ slot[s].keys \subseteq r.applied[s] \cup X =>
                     slot'[s].keys \subseteq router'.applied[s] \cup X
<1>1. /\ r.normal \in [Slots -> SUBSET Buttons] /\ r.turbo \in [Slots -> SUBSET Buttons]
      /\ r.applied \in [Slots -> SUBSET Buttons]
  BY DEF Routers
<1>2. Routed(r) \in [Slots -> SUBSET Buttons]
  BY <1>1 DEF Routed
<1>3. router' = [r EXCEPT !.applied = Routed(r)]
  BY DEF ApplyRouter
<1>4. /\ router' \in Routers /\ router'.applied = Routed(r) /\ router'.normal = r.normal
      /\ router'.turbo = r.turbo /\ router'.active = r.active /\ router'.capture = r.capture
      /\ router'.phase = r.phase
  BY <1>2, <1>3 DEF Routers
<1>5. router'.applied = Routed(router')
  BY <1>4 DEF Routed
<1> DEFINE k == [s \in Slots |->
        IF slot[s].on THEN MaskApplied(slot[s].keys, r.applied[s], Routed(r)[s]) ELSE {}]
<1>6. k \in [Slots -> SUBSET Buttons]
  <2>1. \A s \in Slots : slot[s].keys \subseteq Buttons
    BY DEF SlotsTyped, SlotTypes
  <2> QED BY <1>1, <1>2, <2>1 DEF MaskApplied
<1>7. slot' = [s \in Slots |-> [slot[s] EXCEPT !.keys = k[s]]]
  BY DEF ApplyRouter, RouterApplied
<1>8. \A s \in Slots : slot[s].on =>
        k[s] = (slot[s].keys \ (r.applied[s] \ Routed(r)[s])) \cup (Routed(r)[s] \ r.applied[s])
  BY DEF MaskApplied
<1> HIDE DEF k
<1>9. KeysOnly /\ \A s \in Slots : slot'[s].keys = k[s]
  BY <1>6, <1>7, KeysAreSet
<1>10. ASSUME NEW s \in Slots, NEW X \in SUBSET Buttons,
              slot[s].on, slot[s].keys \subseteq r.applied[s] \cup X
       PROVE  slot'[s].keys \subseteq router'.applied[s] \cup X
  BY <1>4, <1>8, <1>9, <1>10
<1> QED BY <1>3, <1>4, <1>5, <1>9, <1>10

\* Frames are counted by numbers.
LEMMA FrameIsNat ==
    ASSUME Settings, Staged
    PROVE  opt.autoA \in Nat /\ opt.frames \in Nat /\ frame \in Nat
<1>1. opt.autoA \in Nat /\ opt.frames \in Nat
  BY DEF Settings, Options
<1>2. frame \in 0..opt.frames
  BY DEF Staged
<1> QED BY <1>1, <1>2

\* What a frame's keys leave for the time after it: no macro's, and the automatic ones when
\* the next frame is one further at most.
LEMMA ExtraStays ==
    ASSUME Settings, Staged, NEW s \in Slots, pc \in InFrame, pc' \notin InFrame,
           UNCHANGED opt, frame' \in Nat, opt.autoA > 0 => frame' <= frame + 1
    PROVE  Extra(s) \cap Buttons \subseteq Extra(s)'
<1>1. opt.autoA \in Nat
  BY FrameIsNat
<1>2. frame \in Nat
  BY FrameIsNat
<1>3. CASE opt.macro[s] # <<>>
  BY <1>3 DEF Extra
<1>4. CASE opt.macro[s] = <<>>
  <2>1. MacroKey(s) = {}
    <3>1. ~(frame < Len(<<>>))
      BY <1>2
    <3> QED BY <1>4, <3>1 DEF MacroKey
  <2>2. ASSUME frame < opt.autoA PROVE opt.autoA > 0 /\ frame' <= opt.autoA
    BY <1>1, <1>2, <2>2
  <2>3. Extra(s) = IF frame < opt.autoA THEN {"A"} ELSE {}
    BY <2>1 DEF Extra
  <2>4. Extra(s)' = Automatic'
    BY <1>4 DEF Extra
  <2> QED BY <2>2, <2>3, <2>4 DEF Automatic
<1> QED BY <1>3, <1>4

\* A stage in which only the player's keys and questions change.
LEMMA PlayerActs ==
    ASSUME Safe, NEW r \in Routers, ApplyRouter(r), pc = "window",
           r.applied = router.applied, r.active \/ r.capture => opt.mode = "self",
           held' \in [Slots -> SUBSET Buttons], \A s \in Slots : r.normal[s] \subseteq held'[s],
           window' \in Windows, pc' \in {"window", "leave"},
           UNCHANGED <<opt, frame, stop, file, stream, far, lan>>
    PROVE  Safe' /\ (Keys => Keys')
<1>1. /\ KeysOnly
      /\ router' \in Routers /\ router'.applied = Routed(router') /\ router'.normal = r.normal
      /\ router'.active = r.active /\ router'.capture = r.capture
      /\ \A s \in Slots, X \in SUBSET Buttons :
            slot[s].on /\ slot[s].keys \subseteq r.applied[s] \cup X =>
                slot'[s].keys \subseteq router'.applied[s] \cup X
  BY RouterIs DEF Safe
<1>2. PlayerTyped'
  BY <1>1 DEF Safe, PlayerTyped
<1>3. KeysRouted'
  BY <1>1 DEF Safe, KeysRouted
<1>4. slot'[2].on = slot[2].on
  BY <1>1 DEF KeysOnly, Slots
<1>5. Staged'
  BY <1>4 DEF Safe, Staged, Stages, InFrame, Starting, FromClient, Self
<1>6. Safe'
  BY <1>1, <1>2, <1>3, <1>5, SafeStays DEF Starting
<1>7. ASSUME Keys PROVE Keys'
  <2>1. ASSUME NEW s \in Slots, slot'[s].on, ~(s = 1 /\ lan'.open)
        PROVE  slot'[s].keys \subseteq router'.applied[s] \cup stream'[s].applied \cup Extra(s)'
    <3> DEFINE X == stream[s].applied \cup Extra(s)
    <3>1. slot[s].on /\ slot[s].keys \subseteq router.applied[s] \cup X
      BY <1>1, <1>7, <2>1 DEF Keys, Pressed, KeysOnly
    <3>2. X \cap Buttons \in SUBSET Buttons /\ slot[s].keys \subseteq Buttons
      BY DEF Safe, SlotsTyped, SlotTypes
    <3>3. slot[s].keys \subseteq r.applied[s] \cup (X \cap Buttons)
      BY <3>1, <3>2
    <3>4. slot'[s].keys \subseteq router'.applied[s] \cup X
      <4> DEFINE Y == X \cap Buttons
      <4>1. Y \in SUBSET Buttons /\ slot[s].on /\ slot[s].keys \subseteq r.applied[s] \cup Y
        BY <3>1, <3>2, <3>3
      <4>2. Y \subseteq X
        OBVIOUS
      <4> HIDE DEF Y
      <4>3. slot'[s].keys \subseteq router'.applied[s] \cup Y
        BY Zenon, <1>1, <4>1
      <4> QED BY <4>2, <4>3
    <3>5. Extra(s) \cap Buttons \subseteq Extra(s)'
      <4>1. CASE pc' = "window"
        BY <4>1 DEF Extra, MacroKey, InFrame
      <4>2. CASE pc' = "leave"
        <5>1. frame' \in Nat /\ frame' <= frame + 1
          BY FrameIsNat DEF Safe
        <5>2. pc \in InFrame /\ pc' \notin InFrame
          BY <4>2 DEF InFrame
        <5> QED BY <5>1, <5>2, ExtraStays DEF Safe
      <4> QED BY <4>1, <4>2
    <3>6. slot'[s].keys \subseteq Buttons
      BY <1>1 DEF KeysOnly, SlotTypes
    <3> QED BY <3>4, <3>5, <3>6
  <2> QED BY <1>7, <2>1 DEF Keys, Counted, Pressed, Followed
<1> QED BY <1>6, <1>7

\* A press or a release puts the key where the player has it.
LEMMA KeyedIs ==
    ASSUME PlayerTyped, KeysRouted, NEW s \in Slots, NEW press, NEW release,
           press \subseteq Buttons, release \subseteq Buttons
    PROVE  /\ Keyed(s, press, release) \in Routers
           /\ Keyed(s, press, release).applied = router.applied
           /\ Keyed(s, press, release).active \/ Keyed(s, press, release).capture =>
                  opt.mode = "self"
           /\ Keyed(s, press, release).normal[s] \subseteq
                  (router.normal[s] \cup press) \ release
           /\ \A q \in Slots \ {s} :
                  Keyed(s, press, release).normal[q] \subseteq router.normal[q]
<1> DEFINE n == [router EXCEPT !.normal[s] = (@ \cup press) \ release]
           t == [n EXCEPT !.turbo[s] = @ \cup press, !.active = @ \/ press # {}]
           u == [t EXCEPT !.normal = [q \in Slots |-> n.normal[q] \ t.turbo[q]]]
<1>1. router \in Routers
  BY DEF PlayerTyped
<1>2. /\ n \in Routers /\ n.applied = router.applied /\ n.active = router.active
      /\ n.capture = router.capture /\ n.turbo = router.turbo
      /\ \A q \in Slots : n.normal[q] =
            IF q = s THEN (router.normal[s] \cup press) \ release ELSE router.normal[q]
  BY <1>1 DEF Routers
<1>3. Keyed(s, press, release) = IF ~n.capture THEN n ELSE u
  BY DEF Keyed
<1> HIDE DEF n
<1>4. t \in Routers /\ t.applied = n.applied /\ t.capture = n.capture
      /\ t.turbo \in [Slots -> SUBSET Buttons]
  BY <1>2 DEF Routers
<1>5. n.normal \in [Slots -> SUBSET Buttons]
  BY <1>2 DEF Routers
<1> HIDE DEF t
<1>6. /\ u \in Routers /\ u.applied = t.applied /\ u.capture = t.capture
      /\ \A q \in Slots : u.normal[q] = n.normal[q] \ t.turbo[q]
  BY <1>4, <1>5 DEF Routers
<1> HIDE DEF u
<1>7. CASE ~n.capture
  BY <1>2, <1>3, <1>7 DEF KeysRouted
<1>8. CASE n.capture
  BY <1>2, <1>3, <1>4, <1>6, <1>8 DEF KeysRouted
<1> QED BY <1>7, <1>8

\* Released of all.
LEMMA ReleasedIs ==
    ASSUME PlayerTyped
    PROVE  /\ Released(router) \in Routers /\ Released(router).applied = router.applied
           /\ ~Released(router).active /\ ~Released(router).capture
           /\ Released(router).normal = NoKeys
<1>1. router \in Routers /\ NoKeys \in [Slots -> SUBSET Buttons] /\ 1 \in 1..4
  BY DEF PlayerTyped, NoKeys
<1> QED BY <1>1 DEF Released, Routers

\* Everything is released, whatever is held.
LEMMA ReleaseActs ==
    ASSUME Safe, ReleaseAll, pc = "window", held' \in [Slots -> SUBSET Buttons],
           window' \in Windows, pc' \in {"window", "leave"},
           UNCHANGED <<opt, frame, stop, file, stream, far, lan>>
    PROVE  Safe' /\ (Keys => Keys')
<1>1. /\ Released(router) \in Routers /\ Released(router).applied = router.applied
      /\ ~Released(router).active /\ ~Released(router).capture
      /\ Released(router).normal = NoKeys
  BY ReleasedIs DEF Safe
<1>2. \A s \in Slots : Released(router).normal[s] \subseteq held'[s]
  BY <1>1 DEF NoKeys
<1>3. ApplyRouter(Released(router))
  BY DEF ReleaseAll
<1> QED BY <1>1, <1>2, <1>3, PlayerActs

\* A game key, or the answer to the question with one.
LEMMA GameKeyKeeps == ASSUME Safe, GameKey PROVE Safe' /\ (Keys => Keys')
<1>1. PICK s \in Slots, b \in Buttons :
        LET press == IF b \in held[s] THEN {} ELSE {b} IN
           /\ Event([held EXCEPT ![s] = (@ \ {b}) \cup press])
           /\ IF ~window.ask THEN ApplyRouter(Keyed(s, press, {b} \ press)) /\ UNCHANGED <<window, pc>>
              ELSE IF s = 1 /\ press = {"A"} THEN Confirmed
              ELSE Answer(window, pc)
  BY DEF GameKey
<1> DEFINE press == IF b \in held[s] THEN {} ELSE {b}
<1>2. /\ pc = "window" /\ held' = [held EXCEPT ![s] = (@ \ {b}) \cup press]
      /\ UNCHANGED <<opt, frame, stop, file, stream, far, lan>>
  BY <1>1 DEF Event, At
<1>3. held \in [Slots -> SUBSET Buttons] /\ window \in Windows /\ press \in SUBSET Buttons
      /\ {b} \ press \in SUBSET Buttons
  BY DEF Safe, PlayerTyped
<1>4. held' \in [Slots -> SUBSET Buttons]
      /\ \A q \in Slots : held'[q] = IF q = s THEN (held[s] \ {b}) \cup press ELSE held[q]
  BY <1>2, <1>3
<1>5. IF ~window.ask THEN ApplyRouter(Keyed(s, press, {b} \ press)) /\ UNCHANGED <<window, pc>>
      ELSE IF s = 1 /\ press = {"A"} THEN Confirmed
      ELSE Answer(window, pc)
  BY <1>1
<1> HIDE DEF press
<1>6. CASE ~window.ask
  <2>1. ApplyRouter(Keyed(s, press, {b} \ press)) /\ UNCHANGED <<window, pc>>
    BY <1>5, <1>6
  <2>2. /\ Keyed(s, press, {b} \ press) \in Routers
        /\ Keyed(s, press, {b} \ press).applied = router.applied
        /\ Keyed(s, press, {b} \ press).active \/ Keyed(s, press, {b} \ press).capture =>
               opt.mode = "self"
        /\ Keyed(s, press, {b} \ press).normal[s] \subseteq
               (router.normal[s] \cup press) \ ({b} \ press)
        /\ \A q \in Slots \ {s} :
               Keyed(s, press, {b} \ press).normal[q] \subseteq router.normal[q]
    <3>1. PlayerTyped /\ KeysRouted
      BY DEF Safe
    <3>2. press \subseteq Buttons /\ {b} \ press \subseteq Buttons
      BY <1>3
    <3> QED BY <3>1, <3>2, KeyedIs
  <2>3. \A q \in Slots : Keyed(s, press, {b} \ press).normal[q] \subseteq held'[q]
    BY <2>2, <1>4 DEF Safe, KeysRouted
  <2> QED BY <1>2, <1>3, <1>4, <2>1, <2>2, <2>3, PlayerActs
<1>7. CASE window.ask
  <2>1. /\ ReleaseAll /\ window' \in Windows /\ pc' \in {"window", "leave"}
    BY <1>2, <1>3, <1>5, <1>7 DEF Confirmed, Answer, Windows
  <2> QED BY <1>2, <1>4, <2>1, ReleaseActs
<1> QED BY <1>6, <1>7

\* Leaving, choosing, answering, and the focus that is lost: everything is released.
LEMMA QuestionKeeps ==
    ASSUME Safe, LeaveKey \/ ChooseKey \/ EnterKey \/ FocusLost
    PROVE  Safe' /\ (Keys => Keys')
<1>1. pc = "window" /\ UNCHANGED <<opt, frame, stop, file, stream, far, lan>> /\ ReleaseAll
  BY DEF LeaveKey, ChooseKey, EnterKey, FocusLost, Event, At, OpenReturnConfirmation, Answer,
     Confirmed
<1>2. held' \in [Slots -> SUBSET Buttons]
  BY DEF Safe, PlayerTyped, LeaveKey, ChooseKey, EnterKey, FocusLost, Event, NoKeys
<1>3. window' \in Windows /\ pc' \in {"window", "leave"}
  <2>1. /\ window \in Windows
        /\ \A a, y \in BOOLEAN : [ask |-> a, yes |-> y] \in Windows
        /\ [window EXCEPT !.yes = ~@] \in Windows /\ [window EXCEPT !.ask = FALSE] \in Windows
    BY DEF Safe, PlayerTyped, Windows
  <2>2. CASE LeaveKey
    BY <1>1, <2>1, <2>2 DEF LeaveKey, OpenReturnConfirmation, Answer
  <2>3. CASE ChooseKey
    BY <1>1, <2>1, <2>3 DEF ChooseKey, Answer
  <2>4. CASE EnterKey
    BY <1>1, <2>1, <2>4 DEF EnterKey, Confirmed, Answer
  <2>5. CASE FocusLost
    BY <1>1, <2>1, <2>5 DEF FocusLost
  <2> QED BY <2>2, <2>3, <2>4, <2>5
<1> QED BY <1>1, <1>2, <1>3, ReleaseActs

\* The turbo key.
LEMMA TurboKeyKeeps == ASSUME Safe, TurboKey PROVE Safe' /\ (Keys => Keys')
<1> DEFINE r == [router EXCEPT !.turboKey = ~@]
           n == IF r.turboKey THEN TurboPressed(r) ELSE TurboReleased(r)
           m == IF n.active THEN n ELSE [n EXCEPT !.turbo = NoKeys]
<1>1. /\ pc = "window" /\ opt.mode = "self" /\ held' = held /\ ApplyRouter(m)
      /\ UNCHANGED <<opt, frame, stop, file, stream, far, lan, window, pc>>
  BY DEF TurboKey, Event, At
<1>2. router \in Routers /\ NoKeys \in [Slots -> SUBSET Buttons]
  BY DEF Safe, PlayerTyped, NoKeys
<1>3. r \in Routers /\ r.applied = router.applied /\ r.normal = router.normal
  BY <1>2 DEF Routers
<1> HIDE DEF r
<1>4. n \in Routers /\ n.applied = router.applied /\ n.normal = router.normal
  <2>1. TurboPressed(r) \in Routers /\ TurboPressed(r).applied = r.applied
        /\ TurboPressed(r).normal = r.normal
    BY <1>2, <1>3 DEF TurboPressed, Routers
  <2>2. TurboReleased(r) \in Routers /\ TurboReleased(r).applied = r.applied
        /\ TurboReleased(r).normal = r.normal
    <3> DEFINE some == \E s \in Slots : r.turbo[s] # {}
    <3>1. some \in BOOLEAN
      OBVIOUS
    <3>2. TurboReleased(r) = [r EXCEPT !.capture = FALSE, !.active = @ /\ some]
      BY DEF TurboReleased
    <3> HIDE DEF some
    <3> QED BY <1>3, <3>1, <3>2 DEF Routers
  <2> QED BY <1>3, <2>1, <2>2
<1> HIDE DEF n
<1>5. m \in Routers /\ m.applied = router.applied /\ m.normal = router.normal
  BY <1>2, <1>4 DEF Routers
<1> HIDE DEF m
<1>6. /\ held' \in [Slots -> SUBSET Buttons] /\ window' \in Windows
      /\ \A s \in Slots : m.normal[s] \subseteq held'[s]
  BY <1>1, <1>5 DEF Safe, PlayerTyped, KeysRouted
<1> QED BY <1>1, <1>5, <1>6, PlayerActs

\* The speed key: no key of the game.
LEMMA FastKeyKeeps == ASSUME Safe, FastKey PROVE Safe' /\ (Keys => Keys')
<1>1. /\ pc = "window" /\ held' = held
      /\ UNCHANGED <<opt, frame, stop, file, stream, far, lan, window, pc, slot>>
      /\ router' = [router EXCEPT !.fastKey = ~@,
                        !.speed = IF router.fastKey THEN @ ELSE IF @ >= 4 THEN 1 ELSE @ + 1]
  BY DEF FastKey, Event, At
<1>2. router \in Routers /\ router.speed \in 1..4
  BY DEF Safe, PlayerTyped, Routers
<1>3. (IF router.speed >= 4 THEN 1 ELSE router.speed + 1) \in 1..4
  BY <1>2
<1>4. /\ router' \in Routers /\ router'.applied = router.applied
      /\ router'.normal = router.normal /\ router'.active = router.active
      /\ router'.capture = router.capture /\ router'.turbo = router.turbo
      /\ router'.phase = router.phase
  BY <1>1, <1>2, <1>3 DEF Routers
<1>5. PlayerTyped' /\ KeysRouted'
  BY <1>1, <1>4 DEF Safe, PlayerTyped, KeysRouted, Routed
<1>6. Staged'
  BY <1>1 DEF Safe, Staged, FromClient, Self
<1>7. KeysOnly
  BY <1>1, NoKeyChanges DEF Safe
<1>8. Safe'
  BY <1>1, <1>5, <1>6, <1>7, SafeStays DEF Starting
<1>9. Keys => Keys'
  BY <1>1, <1>4 DEF Keys, Counted, Pressed, Extra, MacroKey, Automatic, Followed, Applied
<1> QED BY <1>8, <1>9

\* The keyboard and the window.
LEMMA KeyboardKeeps == ASSUME Safe, Keyboard PROVE Safe' /\ (Keys => Keys')
BY GameKeyKeeps, QuestionKeeps, TurboKeyKeeps, FastKeyKeeps DEF Keyboard

-----------------------------------------------------------------------------
(* The streams                                                              *)

\* What a poll leaves of a stream: its input is still to be applied, and a client that is not
\* lost is still there.
Onward(x, y) ==
    /\ Heard(y) /\ y.st.open = x.st.open /\ y.st.applied = x.st.applied
    /\ x.fa.lost => y.fa.lost
    /\ x.st.conn /\ ~y.fa.lost => y.st.conn /\ (x.st.authed => y.st.authed)

\* And no SAV is sent.
Quiet(x, y) == Onward(x, y) /\ y.st.returned = x.st.returned /\ y.fa.sav = x.fa.sav

\* One step after the other.
LEMMA QuietOn ==
    ASSUME NEW x, NEW y, NEW z, Quiet(x, y), Quiet(y, z) PROVE Quiet(x, z)
BY DEF Quiet, Onward

\* Nothing happens.
LEMMA QuietSame == ASSUME NEW x, Heard(x) PROVE Quiet(x, x)
BY DEF Quiet, Onward

\* The records, taken apart.
LEMMA PairIs ==
    ASSUME NEW st \in StreamTypes, NEW fa \in ClientTypes
    PROVE  /\ [st |-> st, fa |-> fa] \in [st : StreamTypes, fa : ClientTypes]
           /\ [st |-> st, fa |-> fa].st = st /\ [st |-> st, fa |-> fa].fa = fa
OBVIOUS

\* A client is dropped: what was pressed for it is to be released.
LEMMA Closing ==
    ASSUME NEW x, Heard(x)
    PROVE  /\ Quiet(x, CloseClient(x)) /\ ~CloseClient(x).st.conn
           /\ x.st.conn => CloseClient(x).fa.lost
<1>1. CASE ~x.st.conn
  BY <1>1, QuietSame DEF CloseClient
<1>2. CASE x.st.conn
  <2> DEFINE pend == x.st.pending \/ x.st.applied # {}
             st == [x.st EXCEPT !.conn = FALSE, !.buttons = {}, !.down = "free", !.pending = pend]
             fa == [x.fa EXCEPT !.lost = TRUE]
  <2>1. CloseClient(x) = [st |-> st, fa |-> fa]
    BY <1>2 DEF CloseClient
  <2>2. x.st \in StreamTypes /\ x.fa \in ClientTypes
    BY DEF Heard
  <2>3. pend \in BOOLEAN /\ (x.st.applied # {} => pend)
    BY <2>2 DEF StreamTypes
  <2> HIDE DEF pend
  <2>4. /\ st \in StreamTypes /\ ~st.conn /\ st.pending = pend /\ st.applied = x.st.applied
        /\ st.open = x.st.open /\ st.returned = x.st.returned
    BY <2>2, <2>3 DEF StreamTypes
  <2>5. fa \in ClientTypes /\ fa.lost /\ fa.sav = x.fa.sav /\ fa.torn = x.fa.torn
    BY <2>2 DEF ClientTypes
  <2> HIDE DEF st, fa
  <2>6. CloseClient(x).st = st /\ CloseClient(x).fa = fa
        /\ CloseClient(x) \in [st : StreamTypes, fa : ClientTypes]
    BY <2>1, <2>4, <2>5
  <2>7. Heard(CloseClient(x))
    BY <2>3, <2>4, <2>5, <2>6 DEF Heard
  <2> QED BY <2>4, <2>5, <2>6, <2>7 DEF Quiet, Onward
<1> QED BY <1>1, <1>2

\* A client connects.
LEMMA Accepting ==
    ASSUME NEW x, Heard(x), NEW y \in AcceptClient(x)
    PROVE  Quiet(x, y)
<1> DEFINE st == [x.st EXCEPT !.conn = TRUE, !.authed = ~opt.auth, !.buttons = {}, !.seq = 0]
           fa == [x.fa EXCEPT !.said = {}, !.seq = 0, !.torn = FALSE]
<1>1. y = x \/ (~x.st.conn /\ y = [st |-> st, fa |-> fa])
  BY DEF AcceptClient
<1>2. CASE ~x.st.conn /\ y = [st |-> st, fa |-> fa]
  <2> DEFINE open == ~opt.auth
             sa == [x.st EXCEPT !.conn = TRUE, !.authed = open, !.buttons = {}, !.seq = 0]
  <2>0. open \in BOOLEAN
    OBVIOUS
  <2>1. x.st \in StreamTypes /\ x.fa \in ClientTypes /\ 0 \in 0..1 /\ st = sa
    BY DEF Heard
  <2> HIDE DEF open, st
  <2>2. /\ st \in StreamTypes /\ st.conn /\ st.applied = x.st.applied /\ st.buttons = {}
        /\ st.seq = 0 /\ st.open = x.st.open /\ st.returned = x.st.returned
    BY <2>0, <2>1 DEF StreamTypes
  <2>3. /\ fa \in ClientTypes /\ fa.lost = x.fa.lost /\ fa.sav = x.fa.sav /\ ~fa.torn
        /\ fa.said = {} /\ fa.seq = 0
    BY <2>1 DEF ClientTypes
  <2> HIDE DEF st, fa
  <2>4. y.st = st /\ y.fa = fa /\ y \in [st : StreamTypes, fa : ClientTypes]
    BY <1>2, <2>2, <2>3
  <2> QED BY <1>2, <2>2, <2>3, <2>4 DEF Heard, Quiet, Onward
<1> QED BY <1>1, <1>2, QuietSame

\* An input packet is taken, as packets of one connection come in order.
LEMMA Handling ==
    ASSUME NEW x, Heard(x), x.st.conn, NEW seq \in x.fa.seq .. 1, NEW b \in SUBSET Buttons
    PROVE  Quiet(x, HandlePacket(x, seq, b))
<1> DEFINE st == [x.st EXCEPT !.seq = seq, !.buttons = b]
           fa == [x.fa EXCEPT !.seq = seq, !.said = b]
<1>1. x.st \in StreamTypes /\ x.fa \in ClientTypes /\ x.st.seq = x.fa.seq
  BY DEF Heard
<1>2. x.fa.seq \in 0..1
  BY <1>1 DEF ClientTypes
<1>3. seq \in 0..1 /\ ~(seq < x.st.seq)
  BY <1>1, <1>2
<1>4. HandlePacket(x, seq, b) = [st |-> st, fa |-> fa]
  BY <1>3 DEF HandlePacket
<1>5. /\ st \in StreamTypes /\ st.conn = x.st.conn /\ st.applied = x.st.applied
      /\ st.buttons = b /\ st.authed = x.st.authed
      /\ st.seq = seq /\ st.open = x.st.open /\ st.returned = x.st.returned
  BY <1>1, <1>3 DEF StreamTypes
<1>6. /\ fa \in ClientTypes /\ fa.lost = x.fa.lost /\ fa.sav = x.fa.sav /\ fa.torn = x.fa.torn
      /\ fa.said = b /\ fa.seq = seq
  BY <1>1, <1>3 DEF ClientTypes
<1> HIDE DEF st, fa
<1>7. /\ HandlePacket(x, seq, b).st = st /\ HandlePacket(x, seq, b).fa = fa
      /\ HandlePacket(x, seq, b) \in [st : StreamTypes, fa : ClientTypes]
  BY <1>4, <1>5, <1>6
<1> QED BY <1>5, <1>6, <1>7 DEF Heard, Quiet, Onward

\* Of a client that stays only the token's state and the packet being sent change.
Marked(x, st) ==
    /\ st \in StreamTypes /\ st.conn = x.st.conn /\ st.applied = x.st.applied
    /\ st.buttons = x.st.buttons /\ st.pending = x.st.pending /\ st.seq = x.st.seq
    /\ st.open = x.st.open /\ st.returned = x.st.returned /\ (x.st.authed => st.authed)

\* So nothing else does.
LEMMA Marking ==
    ASSUME NEW x, Heard(x), NEW st, Marked(x, st), NEW y, y = [x EXCEPT !.st = st]
    PROVE  Quiet(x, y) /\ y.st = st /\ y.fa = x.fa
<1>1. x \in [st : StreamTypes, fa : ClientTypes]
  BY DEF Heard
<1>2. y \in [st : StreamTypes, fa : ClientTypes] /\ y.st = st /\ y.fa = x.fa
  BY <1>1 DEF Marked
<1>3. Heard(y)
  BY <1>2 DEF Heard, Marked
<1> QED BY <1>2, <1>3 DEF Quiet, Onward, Marked

\* What a poll does between two calls: a client that has gone is passed over.
LEMMA Reading ==
    ASSUME NEW x, Heard(x), NEW y \in ReadClient(x)
    PROVE  Quiet(x, y)
<1>1. ASSUME NEW z, Heard(z), NEW w \in ReadPackets(z) PROVE Quiet(z, w)
  <2>1. \/ w = z \/ w = CloseClient(z)
        \/ z.st.conn /\ \E seq \in z.fa.seq .. 1, b \in SUBSET Buttons : w = HandlePacket(z, seq, b)
    BY <1>1 DEF ReadPackets
  <2> QED BY <1>1, <2>1, QuietSame, Closing, Handling
<1>2. ASSUME x.st.conn, NEW z \in ReadAuthPacket(x) PROVE Quiet(x, z)
  <2>1. CASE z = [x EXCEPT !.st.authed = TRUE]
    <3> DEFINE st == [x.st EXCEPT !.authed = TRUE]
    <3>1. x.st \in StreamTypes /\ x \in [st : StreamTypes, fa : ClientTypes]
      BY DEF Heard
    <3>2. Marked(x, st)
      BY <3>1 DEF Marked, StreamTypes
    <3>3. z = [x EXCEPT !.st = st]
      BY <2>1, <3>1
    <3> HIDE DEF st
    <3> QED BY <3>2, <3>3, Marking
  <2>2. z = x \/ z = CloseClient(x) \/ z = [x EXCEPT !.st.authed = TRUE]
    BY <1>2 DEF ReadAuthPacket
  <2> QED BY <2>1, <2>2, QuietSame, Closing
<1>3. CASE ~x.st.conn
  BY <1>3, QuietSame DEF ReadClient
<1>4. CASE x.st.conn
  <2>1. PICK z \in (IF MustAuth(x) THEN ReadAuthPacket(x) ELSE {x}) : y \in ReadPackets(z)
    BY <1>4 DEF ReadClient, Then
  <2>2. Quiet(x, z)
    BY <1>2, <1>4, <2>1, QuietSame
  <2>3. Quiet(z, y)
    BY <1>1, <2>1, <2>2 DEF Quiet, Onward
  <2> QED BY <2>2, <2>3, QuietOn
<1> QED BY <1>3, <1>4

\* What was being sent is sent, or not, or the connection breaks.
LEMMA Sending ==
    ASSUME NEW x, Heard(x), NEW y, y = [x EXCEPT !.st.down = "free"] \/ y = [x EXCEPT !.st.down = "busy"]
    PROVE  Quiet(x, y) /\ y.fa = x.fa /\ y.st.conn = x.st.conn /\ y.st.authed = x.st.authed
           /\ (y = [x EXCEPT !.st.down = "free"] => y.st.down = "free")
<1>1. x.st \in StreamTypes /\ x \in [st : StreamTypes, fa : ClientTypes]
  BY DEF Heard
<1>3. ASSUME NEW d \in {"free", "busy"}, y = [x EXCEPT !.st.down = d]
      PROVE  Quiet(x, y) /\ y.fa = x.fa /\ y.st = [x.st EXCEPT !.down = d]
  <2> DEFINE st == [x.st EXCEPT !.down = d]
  <2>1. Marked(x, st)
    BY <1>1 DEF Marked, StreamTypes
  <2>2. y = [x EXCEPT !.st = st]
    BY <1>1, <1>3
  <2> HIDE DEF st
  <2>3. Quiet(x, y) /\ y.fa = x.fa /\ y.st = st
    BY <2>1, <2>2, Marking
  <2> QED BY <2>3 DEF st
<1>4. \A d : [x.st EXCEPT !.down = d].conn = x.st.conn /\ [x.st EXCEPT !.down = d].authed = x.st.authed
             /\ [x.st EXCEPT !.down = d].down = d
  BY <1>1 DEF StreamTypes
<1>5. CASE y = [x EXCEPT !.st.down = "free"]
  <2>1. Quiet(x, y) /\ y.fa = x.fa /\ y.st = [x.st EXCEPT !.down = "free"]
    BY <1>3, <1>5
  <2> QED BY <1>4, <2>1
<1>6. CASE y = [x EXCEPT !.st.down = "busy"] /\ y # [x EXCEPT !.st.down = "free"]
  <2>1. Quiet(x, y) /\ y.fa = x.fa /\ y.st = [x.st EXCEPT !.down = "busy"]
    BY <1>3, <1>6
  <2> QED BY <1>4, <1>6, <2>1
<1> QED BY <1>5, <1>6

\* The same after a poll's other parts.
LEMMA Flushing ==
    ASSUME NEW x, Heard(x), NEW y \in FlushDownlink(x) PROVE Quiet(x, y)
<1>1. y = x \/ y = CloseClient(x) \/ y = [x EXCEPT !.st.down = "free"]
  BY DEF FlushDownlink
<1> QED BY <1>1, QuietSame, Closing, Sending

\* A poll.
LEMMA Polled == ASSUME NEW x, Heard(x), NEW y \in Poll(x) PROVE Quiet(x, y)
<1>1. PICK c \in Then(Then(AcceptClient(x), ReadClient), AuthTimedOut) : y \in FlushDownlink(c)
  BY DEF Poll, Then
<1>2. PICK b \in Then(AcceptClient(x), ReadClient) : c \in AuthTimedOut(b)
  BY <1>1 DEF Then
<1>3. PICK a \in AcceptClient(x) : b \in ReadClient(a)
  BY <1>2 DEF Then
<1>4. Quiet(x, a)
  BY Accepting
<1>5. Quiet(a, b)
  BY <1>3, <1>4, Reading DEF Quiet, Onward
<1>6. Quiet(b, c)
  <2>1. Heard(b) /\ (c = b \/ c = CloseClient(b))
    BY <1>2, <1>5 DEF AuthTimedOut, Quiet, Onward
  <2> QED BY <2>1, QuietSame, Closing
<1>7. Quiet(c, y)
  BY <1>1, <1>6, Flushing DEF Quiet, Onward
<1> QED BY <1>4, <1>5, <1>6, <1>7, QuietOn

\* Sound, a poll, a picture, a poll.
LEMMA Downlinking == ASSUME NEW x, Heard(x), NEW y \in Downlinked(x) PROVE Quiet(x, y)
<1>1. PICK c \in Then(Then(QueueAudio(x), Poll), LAMBDA v : {QueueFrame(v)}) : y \in Poll(c)
  BY DEF Downlinked, Then
<1>2. PICK b \in Then(QueueAudio(x), Poll) : c = QueueFrame(b)
  BY <1>1 DEF Then
<1>3. PICK a \in QueueAudio(x) : b \in Poll(a)
  BY <1>2 DEF Then
<1>4. Quiet(x, a)
  BY QuietSame, Sending DEF QueueAudio
<1>5. Quiet(a, b)
  BY <1>3, <1>4, Polled DEF Quiet, Onward
<1>6. Quiet(b, c)
  BY <1>2, <1>5, QuietSame, Sending DEF QueueFrame, Quiet, Onward
<1>7. Quiet(c, y)
  BY <1>1, <1>6, Polled DEF Quiet, Onward
<1> QED BY <1>4, <1>5, <1>6, <1>7, QuietOn

\* A SAV is sent after what was being sent, so it arrives whole; or the client is lost; or there
\* is nobody to send it to.
LEMMA SavSending ==
    ASSUME NEW x, Heard(x), NEW ver \in 0..MaxWrites, NEW r \in SendSaveFile(x, ver)
    PROVE  /\ Onward(x, r.x)
           /\ ~r.ok => r.x.fa.lost
           /\ x.st.conn /\ ~MustAuth(x) =>
                 r.x.fa.lost \/ (r.x.fa.sav = ver /\ r.x.st.conn /\ ~MustAuth(r.x))
           /\ ~(x.st.conn /\ ~MustAuth(x)) => r.x = x
<1>1. CASE ~x.st.conn \/ MustAuth(x)
  <2>1. r = [x |-> x, ok |-> TRUE]
    BY <1>1 DEF SendSaveFile
  <2> QED BY <1>1, <2>1, QuietSame DEF Quiet
<1>2. CASE x.st.conn /\ ~MustAuth(x)
  <2>1. PICK y \in FlushDownlinkBeforeSave(x) : r \in SaveWritten(y, ver)
    BY <1>2 DEF SendSaveFile
  <2>2. CASE y = CloseClient(x)
    <3>1. r = [x |-> y, ok |-> FALSE]
      BY <2>1, <2>2, Closing DEF SaveWritten
    <3>2. r.x = y /\ y.fa.lost /\ Onward(x, y)
      BY <1>2, <2>2, <3>1, Closing DEF Quiet
    <3> QED BY <1>2, <3>2
  <2>3. CASE y = [x EXCEPT !.st.down = "free"]
    <3>1. /\ Quiet(x, y) /\ y.fa = x.fa /\ y.st.conn = x.st.conn /\ y.st.authed = x.st.authed
          /\ y.st.down = "free" /\ Heard(y)
      BY <2>3, Sending DEF Quiet, Onward
    <3>2. CASE r = [x |-> CloseClient(y), ok |-> FALSE]
      <4>1. r.x = CloseClient(y) /\ r.x.fa.lost /\ Quiet(y, r.x)
        BY <1>2, <3>1, <3>2, Closing
      <4> QED BY <1>2, <3>1, <4>1, QuietOn DEF Quiet
    <3> DEFINE st == [y.st EXCEPT !.returned = TRUE]
               fa == [y.fa EXCEPT !.sav = ver, !.torn = @ \/ y.st.down = "busy"]
    <3>3. CASE r = [x |-> [st |-> st, fa |-> fa], ok |-> TRUE]
      <4>1. y.st \in StreamTypes /\ y.fa \in ClientTypes /\ ~y.fa.torn
        BY <3>1 DEF Heard
      <4>2. /\ st \in StreamTypes /\ st.conn = y.st.conn /\ st.applied = y.st.applied
            /\ st.buttons = y.st.buttons /\ st.pending = y.st.pending /\ st.seq = y.st.seq
            /\ st.authed = y.st.authed /\ st.open = y.st.open
        BY <4>1 DEF StreamTypes
      <4>3. fa = [y.fa EXCEPT !.sav = ver, !.torn = FALSE]
        BY <3>1, <4>1 DEF ClientTypes
      <4>4. ver \in Int
        OBVIOUS
      <4> HIDE DEF st, fa
      <4>5. /\ fa \in ClientTypes /\ fa.sav = ver /\ ~fa.torn /\ fa.lost = y.fa.lost
            /\ fa.said = y.fa.said /\ fa.seq = y.fa.seq
        BY <4>1, <4>3, <4>4 DEF ClientTypes
      <4>6. r.x.st = st /\ r.x.fa = fa /\ r.ok
            /\ r.x \in [st : StreamTypes, fa : ClientTypes]
        BY <3>3, <4>2, <4>5
      <4>7. Heard(r.x)
        BY <3>1, <4>2, <4>5, <4>6 DEF Heard
      <4>8. ~MustAuth(r.x)
        BY <1>2, <3>1, <4>2, <4>6 DEF MustAuth
      <4> QED BY <1>2, <3>1, <4>2, <4>5, <4>6, <4>7, <4>8 DEF Quiet, Onward
    <3> QED BY <1>2, <2>1, <3>1, <3>2, <3>3 DEF SaveWritten
  <2> QED BY <2>1, <2>2, <2>3 DEF FlushDownlinkBeforeSave
<1> QED BY <1>1, <1>2

-----------------------------------------------------------------------------
(* Steps in which a stream moves on                                         *)

\* A stream and its client move on; the others stay.
LEMMA StreamMoves ==
    ASSUME NetTyped, Streamed, NEW s \in Slots, NEW y, Heard(y), stream[s].open,
           y.st.open = stream[s].open,
           stream' = [stream EXCEPT ![s] = y.st], far' = [far EXCEPT ![s] = y.fa],
           UNCHANGED opt, pc # "done"
    PROVE  /\ NetTyped' /\ Streamed'
           /\ stream'[s] = y.st /\ far'[s] = y.fa
           /\ \A q \in Slots \ {s} : stream'[q] = stream[q] /\ far'[q] = far[q]
<1>1. y \in [st : StreamTypes, fa : ClientTypes]
  BY DEF Heard
<1>2. NetTyped'
  BY <1>1 DEF NetTyped
<1>3. /\ stream'[s] = y.st /\ far'[s] = y.fa
      /\ \A q \in Slots \ {s} : stream'[q] = stream[q] /\ far'[q] = far[q]
  BY <1>1 DEF NetTyped
<1>4. ASSUME NEW q \in Slots
      PROVE  /\ Heard([st |-> stream'[q], fa |-> far'[q]])
             /\ ~stream'[q].open /\ pc # "done" => ~stream'[q].conn /\ stream'[q].applied = {}
             /\ stream'[q].open => opt.remote
  <2>1. CASE q = s
    <3>1. [st |-> stream'[q], fa |-> far'[q]] = y
      BY <1>1, <1>3, <2>1
    <3> QED BY <1>3, <2>1, <3>1 DEF Streamed
  <2>2. CASE q # s
    BY <1>3, <2>2 DEF Streamed, Outcome
  <2> QED BY <2>1, <2>2
<1>5. Streamed'
  BY <1>4 DEF Streamed, Outcome
<1> QED BY <1>2, <1>3, <1>5

\* What a client that stays has been sent, it has.
Attended ==
    /\ far[2].lost => far'[2].lost
    /\ stream[2].conn /\ ~far'[2].lost => stream'[2].conn /\ (stream[2].authed => stream'[2].authed)
    /\ stream'[2].returned = stream[2].returned /\ far'[2].sav = far[2].sav

\* While the game runs.
LEMMA BackMoves ==
    ASSUME Back, Attended, UNCHANGED opt,
           slot'[2].dirty = slot[2].dirty, slot'[2].ram = slot[2].ram,
           pc \notin Starting \cup {"failed", "done"},
           pc' \notin Starting \cup {"failed", "done", "teardown"}
    PROVE  Back'
<1>1. SavIsReturned'
  BY DEF SavIsReturned, At
<1> QED BY <1>1 DEF Back, Attended, FromClient, Starting

\* A stream that moves on attends to its client, whichever it is.
LEMMA Attending ==
    ASSUME NEW s \in Slots, NEW y, Quiet(Outcome(s), y),
           stream'[s].returned = y.st.returned, stream'[s].conn = y.st.conn,
           stream'[s].authed = y.st.authed, far'[s] = y.fa,
           \A q \in Slots \ {s} : stream'[q] = stream[q] /\ far'[q] = far[q]
    PROVE  Attended
<1>1. Outcome(s).st = stream[s] /\ Outcome(s).fa = far[s]
  BY DEF Outcome
<1>2. CASE s = 2
  BY <1>1, <1>2 DEF Attended, Quiet, Onward
<1>3. CASE s # 2
  BY <1>3 DEF Attended, Slots
<1> QED BY <1>2, <1>3

\* What a stream notes when its input is applied.
LEMMA Noting ==
    ASSUME NEW x, Heard(x), NEW y, y = [st |-> InputNoted(x.st), fa |-> x.fa]
    PROVE  /\ Heard(y) /\ y.fa = x.fa /\ y.st = InputNoted(x.st)
           /\ y.st.open = x.st.open /\ y.st.conn = x.st.conn /\ y.st.authed = x.st.authed
           /\ y.st.returned = x.st.returned
           /\ y.st.applied = IF x.st.conn THEN x.st.buttons ELSE {}
<1> DEFINE r == IF x.st.pending THEN [x.st EXCEPT !.applied = {}, !.pending = FALSE] ELSE x.st
           n == IF x.st.conn THEN [r EXCEPT !.applied = x.st.buttons] ELSE r
<1>1. x.st \in StreamTypes /\ x.fa \in ClientTypes
  BY DEF Heard
<1>2. /\ r \in StreamTypes /\ r.conn = x.st.conn /\ r.buttons = x.st.buttons
      /\ r.seq = x.st.seq /\ r.open = x.st.open /\ r.returned = x.st.returned
      /\ r.authed = x.st.authed
      /\ (~x.st.conn => r.applied = {})
  BY <1>1 DEF StreamTypes, Heard
<1> HIDE DEF r
<1>3. x.st.buttons \in SUBSET Buttons
  BY <1>1 DEF StreamTypes
<1>4. /\ n \in StreamTypes /\ n.conn = x.st.conn /\ n.buttons = x.st.buttons
      /\ n.seq = x.st.seq /\ n.open = x.st.open /\ n.returned = x.st.returned
      /\ n.authed = x.st.authed
      /\ n.applied = IF x.st.conn THEN x.st.buttons ELSE {}
  BY <1>2, <1>3 DEF StreamTypes
<1>5. y = [st |-> n, fa |-> x.fa]
  BY DEF InputNoted, r
<1> HIDE DEF n
<1>6. y.st = n /\ y.fa = x.fa /\ y \in [st : StreamTypes, fa : ClientTypes]
  BY <1>1, <1>4, <1>5
<1>7. n = InputNoted(x.st)
  BY <1>5, <1>6
<1>8. Heard(y)
  BY <1>4, <1>6 DEF Heard
<1> QED BY <1>4, <1>6, <1>7, <1>8

-----------------------------------------------------------------------------
(* The clients' input                                                       *)

\* The input of a stream that is polled is in force: what its client said last, or none of it.
LEMMA PollActs ==
    ASSUME Safe, NEW s \in Slots, stream[s].open, PollAndApply(s),
           pc \notin Starting \cup {"failed", "done"},
           pc' \notin Starting \cup {"failed", "done", "teardown"},
           Staged', UNCHANGED <<opt, frame, file, router, window, held, lan>>
    PROVE  /\ Safe' /\ Applied(s)'
           /\ \A q \in Slots \ {s} : slot'[q] = slot[q] /\ stream'[q] = stream[q]
                                     /\ far'[q] = far[q]
           /\ slot'[s].on = slot[s].on
           /\ \A X : slot[s].keys \subseteq X \cup stream[s].applied =>
                        slot'[s].keys \subseteq X \cup stream'[s].applied
<1>1. PICK x \in Poll(Outcome(s)) :
        /\ stream' = [stream EXCEPT ![s] = InputNoted(x.st)]
        /\ far' = [far EXCEPT ![s] = x.fa]
        /\ slot' = [slot EXCEPT ![s].keys = InputApplied(@, x.st)]
  BY DEF PollAndApply
<1>2. Heard(Outcome(s)) /\ Quiet(Outcome(s), x) /\ Heard(x)
  BY Polled DEF Safe, Streamed, Quiet, Onward
<1>3. x.st \in StreamTypes /\ x.fa \in ClientTypes
  BY <1>2 DEF Heard
<1>4. Outcome(s).st = stream[s] /\ Outcome(s).fa = far[s]
  BY DEF Outcome
<1>5. x.st.open = stream[s].open /\ x.st.applied = stream[s].applied
  BY <1>2, <1>4 DEF Quiet, Onward
<1> DEFINE y == [st |-> InputNoted(x.st), fa |-> x.fa]
<1>6. /\ Heard(y) /\ y.fa = x.fa /\ y.st = InputNoted(x.st)
      /\ y.st.open = x.st.open /\ y.st.conn = x.st.conn /\ y.st.authed = x.st.authed
      /\ y.st.returned = x.st.returned
      /\ y.st.applied = IF x.st.conn THEN x.st.buttons ELSE {}
  BY <1>2, Noting
<1> HIDE DEF y
<1>7. /\ NetTyped' /\ Streamed'
      /\ stream'[s] = y.st /\ far'[s] = y.fa
      /\ \A q \in Slots \ {s} : stream'[q] = stream[q] /\ far'[q] = far[q]
  <2>1. NetTyped /\ Streamed /\ pc # "done"
    BY DEF Safe
  <2>2. stream' = [stream EXCEPT ![s] = y.st] /\ far' = [far EXCEPT ![s] = y.fa]
        /\ y.st.open = stream[s].open
    BY <1>1, <1>5, <1>6
  <2> QED BY <1>6, <2>1, <2>2, StreamMoves
<1> DEFINE k == InputApplied(slot[s].keys, x.st)
<1>8. slot[s].keys \in SUBSET Buttons /\ slot[s] \in SlotTypes
  BY DEF Safe, SlotsTyped, SlotTypes
<1>9. /\ k = IF x.st.conn THEN x.st.buttons
             ELSE IF x.st.pending THEN slot[s].keys \ x.st.applied ELSE slot[s].keys
      /\ k \in SUBSET Buttons
  BY <1>3, <1>8 DEF InputApplied, ReleaseRemoteButtons, StreamTypes
<1> HIDE DEF k
<1>10. /\ slot' = [slot EXCEPT ![s] = [slot[s] EXCEPT !.keys = k]]
       /\ slot'[s] = [slot[s] EXCEPT !.keys = k]
       /\ \A q \in Slots \ {s} : slot'[q] = slot[q]
  BY <1>1 DEF Safe, SlotsTyped, k
<1>11. /\ slot'[s] \in SlotTypes /\ slot'[s].keys = k
       /\ slot'[s].on = slot[s].on /\ slot'[s].ram = slot[s].ram
       /\ slot'[s].dirty = slot[s].dirty /\ slot'[s].refused = slot[s].refused
  BY SMTT(20), <1>8, <1>9, <1>10 DEF SlotTypes
<1>12. KeysOnly
  BY <1>10, <1>11 DEF KeysOnly, Safe, SlotsTyped
<1>13. Kept'
  BY <1>12, KeptStays DEF Safe
<1>14. Back'
  <2>1. Attended
    <3>1. /\ stream'[s].returned = x.st.returned /\ stream'[s].conn = x.st.conn
          /\ stream'[s].authed = x.st.authed /\ far'[s] = x.fa
      BY <1>6, <1>7
    <3> QED BY <1>2, <1>7, <3>1, Attending
  <2>2. slot'[2].dirty = slot[2].dirty /\ slot'[2].ram = slot[2].ram
    BY <1>12 DEF KeysOnly, Slots
  <2> QED BY <2>1, <2>2, BackMoves DEF Safe
<1>15. PlayerTyped' /\ KeysRouted' /\ Settings' /\ SlotsTyped'
  BY <1>12, SettingsStay DEF Safe, PlayerTyped, KeysRouted, Routed, KeysOnly, SlotsTyped
<1>16. Safe'
  BY <1>7, <1>13, <1>14, <1>15 DEF Safe
<1>17. Applied(s)'
  BY <1>2, <1>6, <1>7, <1>9, <1>11 DEF Applied, Heard
<1>18. ASSUME NEW X, slot[s].keys \subseteq X \cup stream[s].applied
       PROVE  slot'[s].keys \subseteq X \cup stream'[s].applied
  BY <1>2, <1>5, <1>6, <1>7, <1>9, <1>11, <1>18 DEF Heard
<1> QED BY <1>7, <1>10, <1>11, <1>16, <1>17, <1>18

\* One part of the polls of both streams.
LEMMA PartActs ==
    ASSUME Safe, NEW s \in Slots,
           IF stream[s].open THEN PollAndApply(s) ELSE UNCHANGED <<stream, far, slot>>,
           pc \notin Starting \cup {"window open", "failed", "done"},
           pc' \notin Starting \cup {"failed", "done", "teardown"},
           pc \in InFrame <=> pc' \in InFrame,
           UNCHANGED <<opt, frame, stop, file, router, window, held, lan>>,
           pc' \in Stages, pc' \notin {"upload", "return", "lan"}
    PROVE  /\ Safe' /\ Applied(s)'
           /\ \A q \in Slots \ {s} : slot'[q] = slot[q] /\ stream'[q] = stream[q]
                                     /\ far'[q] = far[q]
           /\ ~stream[s].open => UNCHANGED <<slot, stream, far>>
           /\ Pressed => Pressed'
<1>1. ASSUME slot'[2].on = slot[2].on PROVE Staged'
  BY <1>1 DEF Safe, Staged, FromClient, Self, Starting
<1>2. ASSUME slot'[s].on = slot[s].on,
             \A X : slot[s].keys \subseteq X \cup stream[s].applied =>
                        slot'[s].keys \subseteq X \cup stream'[s].applied,
             \A q \in Slots \ {s} : slot'[q] = slot[q] /\ stream'[q] = stream[q]
      PROVE  Pressed => Pressed'
  <2>1. \A q \in Slots : Extra(q)' = Extra(q)
    BY DEF Extra, MacroKey, Automatic
  <2>2. ASSUME Pressed, NEW q \in Slots, slot'[q].on, ~(q = 1 /\ lan'.open)
        PROVE  slot'[q].keys \subseteq router'.applied[q] \cup stream'[q].applied \cup Extra(q)'
    <3>1. slot[q].on /\ slot[q].keys \subseteq router.applied[q] \cup stream[q].applied \cup Extra(q)
      BY <1>2, <2>2 DEF Pressed
    <3>2. CASE q = s
      <4>1. slot[q].keys \subseteq (router.applied[q] \cup Extra(q)) \cup stream[q].applied
        BY <3>1
      <4>2. slot'[q].keys \subseteq (router.applied[q] \cup Extra(q)) \cup stream'[q].applied
        BY <1>2, <3>2, <4>1
      <4> QED BY <2>1, <4>2
    <3>3. CASE q # s
      BY <1>2, <2>1, <3>1, <3>3
    <3> QED BY <3>2, <3>3
  <2> QED BY <2>2 DEF Pressed
<1>3. CASE stream[s].open
  <2>1. PollAndApply(s)
    BY <1>3
  <2>2. slot'[2].on = slot[2].on
    <3>1. PICK x \in Poll(Outcome(s)) : slot' = [slot EXCEPT ![s].keys = InputApplied(@, x.st)]
      BY <2>1 DEF PollAndApply
    <3>2. slot \in [Slots -> SlotTypes] /\ 2 \in Slots
      BY DEF Safe, SlotsTyped, Slots
    <3> QED BY <3>1, <3>2 DEF SlotTypes
  <2>3. Staged'
    BY <1>1, <2>2
  <2>4. /\ Safe' /\ Applied(s)'
        /\ \A q \in Slots \ {s} : slot'[q] = slot[q] /\ stream'[q] = stream[q]
                                     /\ far'[q] = far[q]
        /\ slot'[s].on = slot[s].on
        /\ \A X : slot[s].keys \subseteq X \cup stream[s].applied =>
                     slot'[s].keys \subseteq X \cup stream'[s].applied
    BY <1>3, <2>1, <2>3, PollActs
  <2> QED BY <1>2, <1>3, <2>4
<1>4. CASE ~stream[s].open
  <2>1. UNCHANGED <<slot, stream, far>>
    BY <1>4
  <2>2. Staged'
    BY <1>1, <2>1
  <2>3. PlayerTyped' /\ KeysRouted'
    BY DEF Safe, PlayerTyped, KeysRouted, Routed
  <2>4. KeysOnly
    BY <2>1, NoKeyChanges DEF Safe
  <2>5. Safe'
    BY <2>1, <2>2, <2>3, <2>4, SafeStays DEF Starting
  <2>6. Applied(s)'
    <3>1. pc # "done" /\ ~stream[s].conn /\ stream[s].applied = {}
      BY <1>4 DEF Safe, Streamed
    <3> QED BY <2>1, <3>1 DEF Applied
  <2>7. Pressed => Pressed'
    BY <1>2, <2>1
  <2> QED BY <1>4, <2>1, <2>5, <2>6, <2>7
<1> QED BY <1>3, <1>4

\* Where the loop is, in the steps below.
LEMMA StagesAre ==
    /\ \A p \in {"begin", "window", "lan", "turbo", "remote", "remote1", "run", "media", "media2",
                 "return", "save", "save2", "pace", "pace1", "leave"} :
           p \in Stages /\ p \notin Starting \cup {"window open", "failed", "done", "teardown"}
    /\ \A p \in {"window", "lan", "turbo", "remote", "remote1", "run"} : p \in InFrame
    /\ \A p \in {"begin", "media", "media2", "return", "save", "save2", "pace", "pace1", "leave"} :
           p \notin InFrame
BY DEF Stages, Starting, InFrame

\* The clients' input in a frame.
LEMMA RemoteInputsKeep == ASSUME Safe, RemoteInputs PROVE Safe' /\ (Keys => Keys')
<1>1. UNCHANGED <<opt, frame, stop, file, router, window, held, lan>>
  BY DEF RemoteInputs
<1>2. CASE pc = "remote" /\ pc' = "remote1"
           /\ IF stream[2].open THEN PollAndApply(2) ELSE UNCHANGED <<stream, far, slot>>
  <2>1. /\ pc \notin Starting \cup {"window open", "failed", "done"}
        /\ pc' \notin Starting \cup {"failed", "done", "teardown"}
        /\ pc \in InFrame /\ pc' \in InFrame /\ pc' \in Stages
        /\ pc' \notin {"upload", "return", "lan"}
    BY <1>2, StagesAre
  <2>2. 2 \in Slots /\ 1 \in Slots \ {2}
    BY DEF Slots
  <2>3. /\ Safe' /\ Applied(2)' /\ (Pressed => Pressed')
        /\ slot'[1] = slot[1]
    BY <1>1, <1>2, <2>1, <2>2, PartActs
  <2> QED BY <1>1, <1>2, <2>3 DEF Keys, Counted, Followed
<1>3. CASE pc = "remote1" /\ pc' = "run"
           /\ IF stream[1].open THEN PollAndApply(1) ELSE UNCHANGED <<stream, far, slot>>
  <2>1. /\ pc \notin Starting \cup {"window open", "failed", "done"}
        /\ pc' \notin Starting \cup {"failed", "done", "teardown"}
        /\ pc \in InFrame /\ pc' \in InFrame /\ pc' \in Stages
        /\ pc' \notin {"upload", "return", "lan"}
    BY <1>3, StagesAre
  <2>2. 1 \in Slots /\ 2 \in Slots \ {1}
    BY DEF Slots
  <2>3. /\ Safe' /\ Applied(1)' /\ (Pressed => Pressed')
        /\ slot'[2] = slot[2] /\ stream'[2] = stream[2] /\ far'[2] = far[2]
        /\ ~stream[1].open => UNCHANGED <<slot, stream, far>>
    BY <1>1, <1>3, <2>1, <2>2, PartActs
  <2>4. Applied(2) => Applied(2)'
    BY <2>3 DEF Applied
  <2>5. lan.open => ~stream[1].open
    BY <2>2 DEF Safe, KeysRouted, Streamed, Settings, Self
  <2> QED BY <1>1, <1>3, <2>3, <2>4, <2>5 DEF Keys, Counted, Followed
<1> QED BY <1>2, <1>3 DEF RemoteInputs, PollRemoteStreamInputs

\* The clients' input while the loop waits for the next frame's time.
LEMMA PacingKeeps == ASSUME Safe, WaitUntilFrameDeadline PROVE Safe' /\ (Keys => Keys')
<1>1. UNCHANGED <<opt, frame, stop, file, router, window, held, lan>>
  BY DEF WaitUntilFrameDeadline
<1>2. ASSUME NEW s \in Slots, pc \in {"pace", "pace1"}, pc' \in {"pace", "pace1", "begin"},
             IF stream[s].open THEN PollAndApply(s) ELSE UNCHANGED <<stream, far, slot>>
      PROVE  Safe' /\ (Keys => Keys')
  <2>1. /\ pc \notin Starting \cup {"window open", "failed", "done"}
        /\ pc' \notin Starting \cup {"failed", "done", "teardown"}
        /\ pc \notin InFrame /\ pc' \notin InFrame /\ pc' \in Stages
        /\ pc' \notin {"upload", "return", "lan"}
    BY <1>2, StagesAre
  <2>2. Safe' /\ (Pressed => Pressed')
    BY <1>1, <1>2, <2>1, PartActs
  <2> QED BY <1>1, <1>2, <2>2 DEF Keys, Counted, Followed
<1>3. CASE pc = "pace" /\ pc' = "begin" /\ UNCHANGED <<slot, stream, far>>
  <2>1. KeysOnly /\ PlayerTyped' /\ KeysRouted'
    BY <1>1, <1>3, NoKeyChanges DEF Safe, PlayerTyped, KeysRouted, Routed
  <2>2. Staged'
    BY <1>1, <1>3 DEF Safe, Staged, Stages, InFrame, Starting, FromClient, Self
  <2>3. Safe'
    BY <1>1, <1>3, <2>1, <2>2, SafeStays DEF Starting
  <2>4. Keys => Keys'
    BY <1>1, <1>3 DEF Keys, Counted, Followed, Pressed, Extra, Automatic, InFrame
  <2> QED BY <2>3, <2>4
<1> QED
  <2>1. 1 \in Slots /\ 2 \in Slots
    BY DEF Slots
  <2> QED BY <1>2, <1>3, <2>1 DEF WaitUntilFrameDeadline, PollRemoteStreamInputs, At

-----------------------------------------------------------------------------
(* The frame                                                                *)

\* A step of the loop that changes nothing but its stage.
LEMMA StageMoves ==
    ASSUME Safe, pc \notin Starting \cup {"failed", "done"},
           pc' \notin Starting \cup {"failed", "done", "teardown"},
           UNCHANGED <<opt, frame, slot, file, router, window, held, stream, far, lan>>,
           Staged'
    PROVE  Safe'
<1>1. KeysOnly /\ PlayerTyped' /\ KeysRouted'
  BY NoKeyChanges DEF Safe, PlayerTyped, KeysRouted, Routed
<1> QED BY <1>1, SafeStays DEF Starting

\* The events of a frame are handled.
LEMMA EventsDoneKeeps == ASSUME Safe, EventsDone PROVE Safe' /\ (Keys => Keys')
<1>1. /\ pc = "window" /\ pc' = IF lan.open THEN "lan" ELSE "turbo"
      /\ UNCHANGED <<opt, frame, stop, slot, file, router, window, held, stream, far, lan>>
  BY DEF EventsDone, At
<1>2. Staged'
  BY <1>1 DEF Safe, Staged, Stages, InFrame, Starting, FromClient, Self
<1>3. Safe'
  BY <1>1, <1>2, StagesAre, StageMoves
<1>4. Keys => Keys'
  BY <1>1 DEF Keys, Counted, Pressed, Extra, MacroKey, InFrame, Followed
<1> QED BY <1>3, <1>4

\* A signal.
LEMMA ShutdownKeeps == ASSUME Safe, ShutdownSignal PROVE Safe' /\ (Keys => Keys')
<1>1. /\ stop' = TRUE /\ pc # "done"
      /\ UNCHANGED <<opt, pc, frame, slot, file, router, window, held, stream, far, lan>>
  BY DEF ShutdownSignal
<1>2. Staged'
  BY <1>1 DEF Safe, Staged, FromClient, Self
<1>3. KeysOnly /\ PlayerTyped' /\ KeysRouted'
  BY <1>1, NoKeyChanges DEF Safe, PlayerTyped, KeysRouted, Routed
<1>4. Safe'
  BY <1>1, <1>2, <1>3, SafeStays
<1>5. Keys => Keys'
  BY <1>1 DEF Keys, Counted, Pressed, Extra, MacroKey, Automatic, Followed, Applied
<1> QED BY <1>4, <1>5

\* A macro presses buttons.
LEMMA MacroIs == ASSUME Settings, Staged, NEW s \in Slots PROVE MacroKey(s) \subseteq Buttons
<1>1. opt.macro \in [Slots -> Seq(Buttons \cup {"."})] /\ frame \in Nat
  BY FrameIsNat DEF Settings, Options
<1> DEFINE m == opt.macro[s]
<1>2. m \in Seq(Buttons \cup {"."})
  BY <1>1
<1> HIDE DEF m
<1>3. Len(m) \in Nat
  BY <1>2
<1>4. ASSUME frame < Len(m), m[frame + 1] # "." PROVE m[frame + 1] \in Buttons
  <2>1. frame + 1 \in 1..Len(m)
    BY <1>1, <1>3, <1>4
  <2>2. m[frame + 1] \in Buttons \cup {"."}
    BY <1>2, <2>1
  <2> QED BY <1>4, <2>2
<1> QED BY <1>4 DEF MacroKey, m

\* The keys a slot is given for a frame: nothing is left of what the frames before pressed.
LEMMA ScriptedIs ==
    ASSUME Safe, pc = "begin", NEW s \in Slots
    PROVE  /\ Scripted(s, AutoA(slot[s], s)) \subseteq Buttons
           /\ \A X : slot[s].keys \subseteq X \cup Extra(s) /\ router.applied[s] \subseteq X =>
                Scripted(s, AutoA(slot[s], s)) \subseteq
                    X \cup MacroKey(s) \cup (IF frame < opt.autoA THEN {"A"} ELSE {})
<1> DEFINE auto == AutoA(slot[s], s)
<1>1. /\ slot[s].keys \subseteq Buttons /\ MacroKey(s) \subseteq Buttons /\ "A" \in Buttons
      /\ opt.autoA \in Nat /\ frame \in Nat
  BY MacroIs, FrameIsNat, GbServerAssumption DEF Safe, SlotsTyped, SlotTypes
<1>2. \/ auto = slot[s].keys /\ (opt.autoA = 0 \/ frame > opt.autoA)
      \/ auto = (slot[s].keys \ {"A"}) \cup (router.applied[s] \cap {"A"}) /\ frame = opt.autoA
      \/ (auto = slot[s].keys \cup {"A"} \/ auto = slot[s].keys \ {"A"}) /\ frame < opt.autoA
  BY <1>1 DEF AutoA
<1> HIDE DEF auto
<1>3. auto \subseteq Buttons
  BY <1>1, <1>2
<1>4. CASE opt.macro[s] = <<>>
  <2>1. Extra(s) = Automatic
    BY <1>4 DEF Extra, InFrame
  <2>2. Scripted(s, auto) = auto
    BY <1>4 DEF Scripted
  <2>3. frame > opt.autoA \/ opt.autoA = 0 => Automatic = {}
    BY <1>1 DEF Automatic
  <2>4. Automatic \subseteq {"A"}
    BY DEF Automatic
  <2>5. ASSUME NEW X, slot[s].keys \subseteq X \cup Extra(s), router.applied[s] \subseteq X
        PROVE  auto \subseteq X \cup MacroKey(s) \cup (IF frame < opt.autoA THEN {"A"} ELSE {})
    BY <1>2, <2>1, <2>3, <2>4, <2>5
  <2> QED BY <1>3, <2>2, <2>5 DEF auto
<1>5. CASE opt.macro[s] # <<>>
  BY <1>1, <1>5 DEF Scripted
<1> QED BY <1>4, <1>5

\* A frame begins, or the loop is left.
LEMMA BeginFrameKeeps == ASSUME Safe, BeginFrame PROVE Safe' /\ (Keys => Keys')
<1>1. /\ pc = "begin"
      /\ pc' = IF ~Goes THEN "leave" ELSE IF opt.display THEN "window"
               ELSE IF lan.open THEN "lan" ELSE "turbo"
      /\ slot' = IF ~Goes THEN slot
                 ELSE [s \in Slots |-> Press(slot[s], Scripted(s, AutoA(slot[s], s)))]
      /\ UNCHANGED <<opt, frame, stop, file, router, window, held, stream, far, lan>>
  BY DEF BeginFrame, At
<1>2. CASE ~Goes
  <2>1. Staged'
    BY <1>1, <1>2 DEF Safe, Staged, Stages, InFrame, Starting, FromClient, Self
  <2>2. Safe'
    BY <1>1, <1>2, <2>1, StagesAre, StageMoves
  <2>3. Keys => Keys'
    BY <1>1, <1>2 DEF Keys, Counted, Pressed, Extra, Automatic, InFrame, Followed
  <2> QED BY <2>2, <2>3
<1>3. CASE Goes
  <2> DEFINE k == [s \in Slots |-> IF slot[s].on THEN Scripted(s, AutoA(slot[s], s)) ELSE {}]
  <2>1. k \in [Slots -> SUBSET Buttons]
    BY <1>1, ScriptedIs
  <2>2. slot' = [s \in Slots |-> [slot[s] EXCEPT !.keys = k[s]]]
    BY <1>1, <1>3 DEF Press
  <2>3. \A s \in Slots : slot[s].on => k[s] = Scripted(s, AutoA(slot[s], s))
    OBVIOUS
  <2> HIDE DEF k
  <2>4. KeysOnly /\ \A s \in Slots : slot'[s].keys = k[s]
    BY <2>1, <2>2, KeysAreSet DEF Safe
  <2>5. pc' \in {"window", "lan", "turbo"} /\ (pc' = "lan" => lan.open)
        /\ (pc' = "turbo" => ~lan.open)
    BY <1>1, <1>3
  <2>6. slot'[2].on = slot[2].on
    BY <2>4 DEF KeysOnly, Slots
  <2>7. Staged'
    <3>1. frame < opt.frames
      BY <1>3 DEF Goes
    <3> QED BY <1>1, <2>5, <2>6, <3>1
            DEF Safe, Staged, Stages, InFrame, Starting, FromClient, Self
  <2>8. PlayerTyped' /\ KeysRouted'
    BY <1>1 DEF Safe, PlayerTyped, KeysRouted, Routed
  <2>9. Safe'
    BY <1>1, <2>4, <2>5, <2>7, <2>8, SafeStays DEF Starting
  <2>10. ASSUME Keys PROVE Keys'
    <3>1. ASSUME NEW s \in Slots, slot'[s].on, ~(s = 1 /\ lan'.open)
          PROVE  slot'[s].keys \subseteq router'.applied[s] \cup stream'[s].applied \cup Extra(s)'
      <4> DEFINE X == router.applied[s] \cup stream[s].applied
      <4>1. slot[s].on /\ slot[s].keys \subseteq X \cup Extra(s)
        BY <1>1, <2>4, <2>10, <3>1 DEF Keys, Pressed, KeysOnly
      <4>2. router.applied[s] \subseteq X
        OBVIOUS
      <4>3. slot'[s].keys = Scripted(s, AutoA(slot[s], s))
        BY <2>3, <2>4, <4>1
      <4>4. Extra(s)' = MacroKey(s) \cup (IF frame < opt.autoA THEN {"A"} ELSE {})
        BY <1>1, <2>5 DEF Extra, MacroKey, InFrame
      <4>5. X = router'.applied[s] \cup stream'[s].applied
        BY <1>1
      <4> HIDE DEF X
      <4>6. Scripted(s, AutoA(slot[s], s)) \subseteq
                X \cup MacroKey(s) \cup (IF frame < opt.autoA THEN {"A"} ELSE {})
        BY <1>1, <4>1, <4>2, ScriptedIs
      <4> QED BY <4>3, <4>4, <4>5, <4>6
    <3> QED BY <1>1, <2>5, <2>10, <3>1 DEF Keys, Counted, Pressed, Followed
  <2> QED BY <2>9, <2>10
<1> QED BY <1>2, <1>3

\* What a message or a request leaves of the browser remote.
Browsed(l, m) == m \in Lans /\ m.open = l.open /\ m.buttons = m.said

\* The browser remote, read.
LEMMA LanPolled ==
    ASSUME lan \in Lans, lan.buttons = lan.said, NEW m \in LanPoll(lan)
    PROVE  Browsed(lan, m)
<1>1. ASSUME NEW l, l \in Lans, l.buttons = l.said
      PROVE  /\ Browsed(l, l) /\ Browsed(l, CloseWebsocket(l)) /\ Browsed(l, Handshake(l))
             /\ \A b \in SUBSET Buttons, fast \in BOOLEAN, paused \in BOOLEAN :
                   Browsed(l, LanInput(l, b, fast, paused))
  BY <1>1 DEF Browsed, Lans, CloseWebsocket, Handshake, LanInput
<1>2. PICK l \in WebsocketPoll(lan) : m \in HandleRequest(l)
  BY DEF LanPoll, Then
<1>3. lan.fast \in BOOLEAN /\ lan.paused \in BOOLEAN
  BY DEF Lans
<1>4. \A l2 \in ParseInput(lan) : \E b \in SUBSET Buttons, fast \in BOOLEAN, paused \in BOOLEAN :
          l2 = LanInput(lan, b, fast, paused)
  BY <1>3 DEF ParseInput
<1>5. Browsed(lan, l)
  BY <1>1, <1>2, <1>4 DEF WebsocketPoll
<1>6. l \in Lans /\ l.buttons = l.said
  BY <1>5 DEF Browsed
<1>7. Browsed(l, m)
  BY <1>1, <1>2, <1>6 DEF HandleRequest
<1> QED BY <1>5, <1>7 DEF Browsed

\* The browser's keys are in force.
LEMMA PollLanKeeps == ASSUME Safe, PollLan PROVE Safe' /\ (Keys => Keys')
<1>1. /\ pc = "lan" /\ pc' = "turbo" /\ lan' \in LanPoll(lan)
      /\ slot' = [slot EXCEPT ![1] = Press(@, lan'.buttons)]
      /\ UNCHANGED <<opt, frame, stop, file, router, window, held, stream, far>>
  BY DEF PollLan, At
<1>2. lan' \in Lans /\ lan'.open = lan.open /\ lan'.buttons = lan'.said
  BY <1>1, LanPolled DEF Safe, PlayerTyped, KeysRouted, Browsed
<1>3. lan'.buttons \in SUBSET Buttons /\ lan.open
  BY <1>1, <1>2 DEF Lans, Safe, Staged
<1> DEFINE k == [s \in Slots |-> IF s # 1 THEN slot[s].keys ELSE IF slot[1].on THEN lan'.buttons ELSE {}]
<1>4. k \in [Slots -> SUBSET Buttons]
  <2>1. \A s \in Slots : slot[s].keys \in SUBSET Buttons
    BY DEF Safe, SlotsTyped, SlotTypes
  <2> QED BY <1>3, <2>1
<1>5. slot' = [s \in Slots |-> [slot[s] EXCEPT !.keys = k[s]]]
  <2>1. slot \in [Slots -> SlotTypes]
    BY DEF Safe, SlotsTyped
  <2>2. \A s \in Slots : slot[s] = [slot[s] EXCEPT !.keys = slot[s].keys]
    BY <2>1 DEF SlotTypes
  <2> QED BY <1>1, <2>1, <2>2 DEF Press, Slots
<1>6. (slot[1].on => k[1] = lan'.buttons) /\ \A s \in Slots : s # 1 => k[s] = slot[s].keys
  BY DEF Slots
<1> HIDE DEF k
<1>7. KeysOnly /\ \A s \in Slots : slot'[s].keys = k[s]
  BY <1>4, <1>5, KeysAreSet DEF Safe
<1>8. slot'[2].on = slot[2].on /\ slot'[1].on = slot[1].on
  BY <1>7 DEF KeysOnly, Slots
<1>9. Staged'
  BY <1>1, <1>2, <1>8 DEF Safe, Staged, Stages, InFrame, Starting, FromClient, Self
<1>10. PlayerTyped' /\ KeysRouted'
  BY <1>1, <1>2 DEF Safe, PlayerTyped, KeysRouted, Routed
<1>11. Safe'
  BY <1>1, <1>7, <1>9, <1>10, SafeStays DEF Starting
<1>12. ASSUME Keys PROVE Keys'
  <2>1. ASSUME NEW s \in Slots, slot'[s].on, ~(s = 1 /\ lan'.open)
        PROVE  slot'[s].keys \subseteq router'.applied[s] \cup stream'[s].applied \cup Extra(s)'
    <3>1. s # 1 /\ slot'[s].keys = slot[s].keys /\ slot[s].on
      BY <1>2, <1>3, <1>6, <1>7, <2>1 DEF KeysOnly
    <3>2. Extra(s)' = Extra(s)
      BY <1>1 DEF Extra, MacroKey, InFrame
    <3> QED BY <1>1, <1>12, <3>1, <3>2 DEF Keys, Pressed
  <2>2. slot'[1].on => slot'[1].keys = lan'.said
    BY <1>2, <1>6, <1>7, <1>8 DEF Slots
  <2> QED BY <1>1, <1>12, <2>1, <2>2 DEF Keys, Counted, Pressed, Followed
<1> QED BY <1>11, <1>12

\* Turbo buttons go up and down.
LEMMA UpdateTurboKeeps == ASSUME Safe, UpdateTurbo PROVE Safe' /\ (Keys => Keys')
<1>1. /\ pc = "turbo" /\ pc' = "remote"
      /\ UNCHANGED <<opt, frame, stop, file, window, held, stream, far, lan>>
      /\ \/ UNCHANGED <<router, slot>>
         \/ router.active /\ ApplyRouter([router EXCEPT !.phase = ~@])
  BY DEF UpdateTurbo, At
<1>2. ASSUME slot'[2].on = slot[2].on PROVE Staged'
  BY <1>1, <1>2 DEF Safe, Staged, Stages, InFrame, Starting, FromClient, Self
<1>3. \A s \in Slots : Extra(s)' = Extra(s)
  BY <1>1 DEF Extra, MacroKey, InFrame
<1>4. CASE UNCHANGED <<router, slot>>
  <2>1. Safe'
    BY <1>1, <1>2, <1>4, StagesAre, StageMoves
  <2>2. Keys => Keys'
    BY <1>1, <1>3, <1>4 DEF Keys, Counted, Pressed, Followed
  <2> QED BY <2>1, <2>2
<1>5. CASE router.active /\ ApplyRouter([router EXCEPT !.phase = ~@])
  <2> DEFINE r == [router EXCEPT !.phase = ~@]
  <2>1. /\ r \in Routers /\ r.applied = router.applied /\ r.normal = router.normal
        /\ r.active = router.active /\ r.capture = router.capture
    BY DEF Safe, PlayerTyped, Routers
  <2>2. ApplyRouter(r)
    BY <1>5
  <2> HIDE DEF r
  <2>3. /\ KeysOnly
        /\ router' \in Routers /\ router'.applied = Routed(router') /\ router'.normal = r.normal
        /\ router'.active = r.active /\ router'.capture = r.capture
        /\ \A s \in Slots, X \in SUBSET Buttons :
              slot[s].on /\ slot[s].keys \subseteq r.applied[s] \cup X =>
                  slot'[s].keys \subseteq router'.applied[s] \cup X
    BY <2>1, <2>2, RouterIs DEF Safe
  <2>4. PlayerTyped' /\ KeysRouted'
    BY <1>1, <2>1, <2>3 DEF Safe, PlayerTyped, KeysRouted
  <2>5. Staged'
    BY <1>2, <2>3 DEF KeysOnly, Slots
  <2>6. Safe'
    BY <1>1, <2>3, <2>4, <2>5, SafeStays DEF Starting
  <2>7. ~lan.open
    BY <1>5 DEF Safe, KeysRouted
  <2>8. ASSUME Keys PROVE Pressed'
    <3>1. ASSUME NEW s \in Slots, slot'[s].on
          PROVE  slot'[s].keys \subseteq router'.applied[s] \cup stream'[s].applied \cup Extra(s)'
      <4> DEFINE X == stream[s].applied \cup Extra(s)
      <4>1. slot[s].on /\ slot[s].keys \subseteq router.applied[s] \cup X
        BY <2>3, <2>7, <2>8, <3>1 DEF Keys, Pressed, KeysOnly
      <4>2. X \cap Buttons \in SUBSET Buttons /\ slot[s].keys \subseteq Buttons
        BY DEF Safe, SlotsTyped, SlotTypes
      <4>3. slot[s].keys \subseteq r.applied[s] \cup (X \cap Buttons)
        BY <2>1, <4>1, <4>2
      <4>4. slot'[s].keys \subseteq router'.applied[s] \cup X
        BY <2>3, <4>1, <4>2, <4>3
      <4> QED BY <1>1, <1>3, <4>4
    <3> QED BY <3>1 DEF Pressed
  <2>9. Keys => Keys'
    BY <1>1, <2>7, <2>8 DEF Keys, Counted, Followed
  <2> QED BY <2>6, <2>9
<1> QED BY <1>1, <1>4, <1>5

\* The games run: battery RAM that is written to is dirty.
LEMMA GamesRunIs ==
    ASSUME SlotsTyped, GamesRun
    PROVE  /\ slot' \in [Slots -> SlotTypes]
           /\ \A s \in Slots : /\ slot'[s].on = slot[s].on /\ slot'[s].keys = slot[s].keys
                               /\ slot'[s].refused = slot[s].refused
                               /\ \/ slot'[s].ram = slot[s].ram /\ slot'[s].dirty = slot[s].dirty
                                  \/ slot[s].on /\ slot'[s].dirty
<1>1. PICK w \in SUBSET {s \in Slots : slot[s].on /\ slot[s].ram < MaxWrites} :
        slot' = [s \in Slots |-> IF s \in w THEN Written(slot[s]) ELSE slot[s]]
  BY DEF GamesRun
<1>2. ASSUME NEW s \in Slots
      PROVE  /\ slot'[s] \in SlotTypes
             /\ slot'[s].on = slot[s].on /\ slot'[s].keys = slot[s].keys
             /\ slot'[s].refused = slot[s].refused
             /\ \/ slot'[s].ram = slot[s].ram /\ slot'[s].dirty = slot[s].dirty
                \/ slot[s].on /\ slot'[s].dirty
  <2>1. slot[s] \in SlotTypes
    BY DEF SlotsTyped
  <2>2. CASE s \in w
    <3>1. slot[s].ram \in 0..MaxWrites /\ slot[s].ram < MaxWrites /\ slot[s].on
      BY <2>1, <2>2 DEF SlotTypes
    <3> DEFINE n == slot[s].ram + 1
    <3>2. n \in 0..MaxWrites
      BY <3>1, GbServerAssumption
    <3>3. slot'[s] = [slot[s] EXCEPT !.ram = n, !.dirty = TRUE]
      BY <1>1, <2>2 DEF Written
    <3> HIDE DEF n
    <3> QED BY <2>1, <3>1, <3>2, <3>3 DEF SlotTypes
  <2>3. CASE s \notin w
    BY <1>1, <2>1, <2>3
  <2> QED BY <2>2, <2>3
<1>3. slot' \in [Slots -> SlotTypes]
  BY <1>1, <1>2
<1> QED BY <1>2, <1>3

\* Frames run. An automatic A is let go of before the frames end at which it is counted.
LEMMA RunKeeps == ASSUME Safe, Run PROVE Safe' /\ (Keys => Keys')
<1>1. /\ pc = "run" /\ pc' \in {"media", "failed"}
      /\ UNCHANGED <<opt, stop, file, router, window, held, stream, far, lan>>
  BY DEF Run, At
<1>2. pc \in InFrame /\ pc' \notin InFrame
  BY <1>1 DEF InFrame
<1>3. frame \in Nat /\ opt.frames \in Nat /\ frame < opt.frames /\ opt.autoA \in Nat
  BY <1>2, FrameIsNat DEF Safe, Staged
<1>4. /\ slot' \in [Slots -> SlotTypes]
      /\ \A s \in Slots : /\ slot'[s].on = slot[s].on /\ slot'[s].keys = slot[s].keys
                          /\ slot'[s].refused = slot[s].refused
                          /\ \/ slot'[s].ram = slot[s].ram /\ slot'[s].dirty = slot[s].dirty
                             \/ slot[s].on /\ slot'[s].dirty
  <2>1. CASE GamesRun
    BY <2>1, GamesRunIs DEF Safe
  <2>2. CASE UNCHANGED slot
    BY <2>2 DEF Safe, SlotsTyped
  <2> QED BY <2>1, <2>2 DEF Run, RunLinked, RunFrames
<1>5. frame' \in 0..opt.frames /\ (frame' <= frame + 1 \/ (Self /\ frame' \in Nat))
  <2>1. CASE RunLinked
    BY <1>3, <2>1 DEF RunLinked
  <2>2. CASE RunFrames
    <3>1. FramesThisTick \in 1..4
      BY DEF FramesThisTick, Safe, PlayerTyped, Routers
    <3>2. frame + FramesThisTick \in Nat
      BY <1>3, <3>1
    <3>3. frame' \in 0..opt.frames
      BY <1>3, <2>2, <3>2 DEF RunFrames
    <3> QED BY <2>2, <3>3 DEF RunFrames, Linked
  <2>3. CASE frame' = frame
    BY <1>3, <2>3
  <2> QED BY <2>1, <2>2, <2>3 DEF Run
<1>6. slot'[2].on = slot[2].on /\ slot'[1].on = slot[1].on
  BY <1>4 DEF Slots
<1>7. Staged'
  BY <1>1, <1>5, <1>6 DEF Safe, Staged, Stages, InFrame, Starting, FromClient, Self
<1>8. Kept'
  <2>1. \A s \in Slots : slot[s].on \/ slot[s].dirty => file[s].kind # "bad"
    BY DEF Safe, Kept
  <2>2. \A s \in Slots : slot[s].on /\ ~slot[s].dirty => file[s].ver = slot[s].ram
    BY DEF Safe, Kept, CleanMeansSaved
  <2>3. \A s \in Slots : slot'[s].on \/ slot'[s].dirty => file[s].kind # "bad"
    BY <1>4, <2>1
  <2>4. \A s \in Slots : slot'[s].on /\ ~slot'[s].dirty => file[s].ver = slot'[s].ram
    BY <1>4, <2>2
  <2> QED BY <1>1, <2>3, <2>4 DEF Safe, Kept, CleanMeansSaved, FromClient, Self
<1>9. Back'
  <2>1. slot'[2].dirty \/ (slot'[2].ram = slot[2].ram /\ slot'[2].dirty = slot[2].dirty)
    BY <1>4 DEF Slots
  <2>2. SavIsReturned'
    BY <1>1 DEF SavIsReturned, At
  <2> QED BY <1>1, <2>1, <2>2 DEF Safe, Back, FromClient, Starting
<1>10. Settings' /\ Streamed' /\ SlotsTyped' /\ NetTyped' /\ PlayerTyped' /\ KeysRouted'
  <2>1. Streamed' /\ Settings'
    BY <1>1, StreamedStays, SettingsStay DEF Safe
  <2> QED BY <1>1, <1>4, <2>1 DEF Safe, SlotsTyped, NetTyped, PlayerTyped, KeysRouted, Routed
<1>11. Safe'
  BY <1>7, <1>8, <1>9, <1>10 DEF Safe
<1>12. ASSUME Keys PROVE Keys'
  <2>1. ASSUME NEW s \in Slots, slot'[s].on, ~(s = 1 /\ lan'.open)
        PROVE  slot'[s].keys \subseteq router'.applied[s] \cup stream'[s].applied \cup Extra(s)'
    <3>1. opt.autoA > 0 => frame' <= frame + 1
      <4>1. ASSUME opt.autoA > 0, Self PROVE FALSE
        <5>1. opt.mode = "lan"
          BY <1>12, <4>1 DEF Keys, Counted, Self
        <5>2. lan.open
          BY <1>1, <5>1 DEF Safe, Staged, Starting
        <5>3. s = 2
          BY <1>1, <2>1, <5>2 DEF Slots
        <5> QED BY <1>6, <2>1, <4>1, <5>3 DEF Safe, Staged
      <4> QED BY <1>5, <4>1
    <3>2. frame' \in Nat
      BY <1>5, <1>3
    <3>3. Extra(s) \cap Buttons \subseteq Extra(s)'
      BY <1>1, <1>2, <3>1, <3>2, ExtraStays DEF Safe
    <3>4. slot[s].keys \subseteq router.applied[s] \cup stream[s].applied \cup Extra(s)
      BY <1>1, <1>4, <1>12, <2>1 DEF Keys, Pressed
    <3>5. slot'[s].keys = slot[s].keys /\ slot[s].keys \subseteq Buttons
      BY <1>4 DEF Safe, SlotsTyped, SlotTypes
    <3> QED BY <1>1, <3>3, <3>4, <3>5
  <2> QED BY <1>1, <1>12, <2>1 DEF Keys, Counted, Pressed, Followed
<1> QED BY <1>11, <1>12

\* Sound and pictures go out: nobody's input is applied, and no client is forgotten.
LEMMA MediaKeeps == ASSUME Safe, Media PROVE Safe' /\ (Keys => Keys')
<1>1. UNCHANGED <<opt, frame, stop, slot, file, router, window, held>>
  BY DEF Media
<1>2. PICK s \in Slots :
        /\ pc \in {"media", "media2"} /\ pc' \in {"media2", "return", "save"}
        /\ pc' = "return" => FromClient
        /\ DownlinkOf(s) /\ (lan' = lan \/ lan' \in LanDownlink(lan))
  BY DEF Media, At, Slots
<1>3. lan' \in Lans /\ lan'.open = lan.open /\ lan'.buttons = lan'.said
  <2>1. lan \in Lans /\ lan.buttons = lan.said
    BY DEF Safe, PlayerTyped, KeysRouted
  <2>2. lan' = lan \/ lan' = CloseWebsocket(lan)
    BY <1>2 DEF LanDownlink
  <2> QED BY <2>1, <2>2 DEF CloseWebsocket, Lans
<1>4. Staged'
  BY <1>1, <1>2, <1>3 DEF Safe, Staged, Stages, InFrame, Starting, FromClient, Self
<1>5. NetTyped' /\ Streamed' /\ Attended /\ \A q \in Slots : stream'[q].applied = stream[q].applied
  <2>1. CASE UNCHANGED <<stream, far>>
    BY <1>1, <1>2, <2>1, StreamedStays DEF Safe, NetTyped, Attended
  <2>2. CASE stream[s].open /\ \E x \in Downlinked(Outcome(s)) :
                /\ stream' = [stream EXCEPT ![s] = x.st]
                /\ far' = [far EXCEPT ![s] = x.fa]
    <3>1. PICK x \in Downlinked(Outcome(s)) :
                /\ stream' = [stream EXCEPT ![s] = x.st]
                /\ far' = [far EXCEPT ![s] = x.fa]
      BY <2>2
    <3>2. Heard(Outcome(s)) /\ Quiet(Outcome(s), x) /\ Heard(x)
      BY Downlinking DEF Safe, Streamed, Quiet, Onward
    <3>3. x.st.open = stream[s].open /\ x.st.applied = stream[s].applied
      BY <3>2 DEF Quiet, Onward, Outcome
    <3>4. /\ NetTyped' /\ Streamed'
          /\ stream'[s] = x.st /\ far'[s] = x.fa
          /\ \A q \in Slots \ {s} : stream'[q] = stream[q] /\ far'[q] = far[q]
      <4>1. NetTyped /\ Streamed /\ pc # "done" /\ stream[s].open
        BY <1>2, <2>2 DEF Safe
      <4> QED BY <1>1, <3>1, <3>2, <3>3, <4>1, StreamMoves
    <3>5. Attended
      BY <3>2, <3>4, Attending
    <3> QED BY <3>3, <3>4, <3>5
  <2> QED BY <1>2, <2>1, <2>2 DEF DownlinkOf
<1>6. Back'
  BY <1>1, <1>2, <1>5, StagesAre, BackMoves DEF Safe
<1>7. KeysOnly
  BY <1>1, NoKeyChanges DEF Safe
<1>8. Kept' /\ Settings' /\ SlotsTyped'
  BY <1>1, <1>7, KeptStays, SettingsStay DEF Safe, SlotsTyped
<1>9. PlayerTyped' /\ KeysRouted'
  BY <1>1, <1>3 DEF Safe, PlayerTyped, KeysRouted, Routed
<1>10. Safe'
  BY <1>4, <1>5, <1>6, <1>8, <1>9 DEF Safe
<1>11. Keys => Keys'
  BY <1>1, <1>2, <1>3, <1>5 DEF Keys, Counted, Pressed, Extra, Automatic, InFrame, Followed
<1> QED BY <1>10, <1>11

-----------------------------------------------------------------------------
(* Saves                                                                    *)

\* Slot s is saved, or not: then it stays dirty if it was.
Filed(s) ==
    /\ SlotsTyped'
    /\ \A q \in Slots : slot'[q].on = slot[q].on /\ slot'[q].keys = slot[q].keys
                        /\ slot'[q].ram = slot[q].ram
    /\ \A q \in Slots \ {s} : slot'[q] = slot[q] /\ file'[q] = file[q]
    /\ \/ file'[s] = file[s] /\ slot'[s].dirty = slot[s].dirty
       \/ file'[s] = [kind |-> "ok", ver |-> slot[s].ram]

\* A SAV that could not be read is left alone by a step.
Unread == \A s \in Slots : file[s].kind = "bad" => file'[s] = file[s]

\* A save of a slot that was set up, or of one the client brought, is where it should be.
LEMMA Filing ==
    ASSUME Kept, NEW s \in Slots, Filed(s), file[s].kind # "bad", UNCHANGED opt
    PROVE  Kept' /\ Unread
<1>1. ASSUME NEW q \in Slots, slot'[q].on, ~slot'[q].dirty PROVE file'[q].ver = slot'[q].ram
  BY <1>1 DEF Filed, Kept, CleanMeansSaved
<1>2. ASSUME NEW q \in Slots PROVE file'[q].kind = "bad" => q # s /\ file[q].kind = "bad" /\ file'[q] = file[q]
  BY <1>2 DEF Filed
<1>3. \A q \in Slots : slot'[q].on \/ slot'[q].dirty => file'[q].kind # "bad"
  BY <1>2 DEF Filed, Kept
<1>4. FromClient' \/ Self' => file'[2].kind # "bad"
  BY <1>2 DEF Kept, FromClient, Self, Slots
<1>5. Unread
  BY DEF Filed, Unread
<1> QED BY <1>1, <1>3, <1>4, <1>5 DEF Kept, CleanMeansSaved

\* The SAV is written.
LEMMA StoredIs ==
    ASSUME SlotsTyped, NEW s \in Slots, NEW sl, sl = slot[s] \/ sl = Clean(slot[s]), Stored(s, sl)
    PROVE  /\ Filed(s) /\ slot'[s].dirty = sl.dirty /\ slot'[s].refused = slot[s].refused
           /\ file'[s] = [kind |-> "ok", ver |-> slot[s].ram]
<1>1. slot[s] \in SlotTypes /\ slot \in [Slots -> SlotTypes] /\ file \in [Slots -> Files]
  BY DEF SlotsTyped
<1>2. /\ sl \in SlotTypes /\ sl.on = slot[s].on /\ sl.keys = slot[s].keys
      /\ sl.ram = slot[s].ram /\ sl.refused = slot[s].refused
  BY <1>1 DEF Clean, SlotTypes
<1> DEFINE n == [sl EXCEPT !.stamped = TRUE]
<1>3. /\ n \in SlotTypes /\ n.on = slot[s].on /\ n.keys = slot[s].keys
      /\ n.ram = slot[s].ram /\ n.refused = slot[s].refused /\ n.dirty = sl.dirty
  BY <1>2 DEF SlotTypes
<1> DEFINE f == [kind |-> "ok", ver |-> slot[s].ram]
<1>4. f \in Files
  BY <1>1 DEF Files, SlotTypes
<1>5. slot' = [slot EXCEPT ![s] = n] /\ file' = [file EXCEPT ![s] = f]
  BY <1>2 DEF Stored
<1> HIDE DEF n, f
<1>6. SlotsTyped' /\ slot'[s] = n /\ file'[s] = f
      /\ \A q \in Slots \ {s} : slot'[q] = slot[q] /\ file'[q] = file[q]
  BY <1>1, <1>3, <1>4, <1>5 DEF SlotsTyped
<1> QED BY <1>3, <1>6 DEF Filed, f

\* The disk refuses it.
LEMMA RefusedIs ==
    ASSUME SlotsTyped, NEW s \in Slots, Refused(s)
    PROVE  Filed(s) /\ slot'[s].dirty = slot[s].dirty /\ (pc = "leave" => slot'[s].refused)
<1>1. slot[s] \in SlotTypes /\ slot \in [Slots -> SlotTypes] /\ file' = file
  BY DEF SlotsTyped, Refused
<1> DEFINE last == pc = "leave"
           n == [slot[s] EXCEPT !.refused = last]
<1>2. last \in BOOLEAN
  OBVIOUS
<1>3. slot' = [slot EXCEPT ![s] = n]
  BY <1>1 DEF Refused
<1>4. pc = "leave" => last
  OBVIOUS
<1> HIDE DEF last
<1>5. /\ n \in SlotTypes /\ n.on = slot[s].on /\ n.keys = slot[s].keys
      /\ n.ram = slot[s].ram /\ n.refused = last /\ n.dirty = slot[s].dirty
  BY <1>1, <1>2 DEF SlotTypes
<1> HIDE DEF n
<1>6. SlotsTyped' /\ slot'[s] = n /\ \A q \in Slots \ {s} : slot'[q] = slot[q]
  BY <1>1, <1>3, <1>5 DEF SlotsTyped
<1> QED BY <1>1, <1>4, <1>5, <1>6 DEF Filed

\* Saves change neither the player's side nor a key, and end outside of a frame.
LEMMA SavedSide ==
    ASSUME Safe, NEW s \in Slots, Filed(s),
           pc \in {"return", "save", "save2", "leave"},
           pc' \in {"save", "save2", "begin", "pace", "teardown"},
           UNCHANGED <<opt, frame, stop, router, window, held, lan>>
    PROVE  /\ Settings' /\ PlayerTyped' /\ KeysRouted' /\ Staged' /\ SlotsTyped'
           /\ (\A q \in Slots : stream'[q].applied = stream[q].applied) => (Keys => Keys')
<1>1. \A q \in Slots : slot'[q].on = slot[q].on /\ slot'[q].keys = slot[q].keys
  BY DEF Filed
<1>2. slot'[2].on = slot[2].on
  BY <1>1 DEF Slots
<1>3. Settings' /\ PlayerTyped' /\ KeysRouted' /\ SlotsTyped'
  BY SettingsStay DEF Safe, PlayerTyped, KeysRouted, Routed, Filed
<1>4. Staged'
  BY <1>2 DEF Safe, Staged, Stages, InFrame, Starting, FromClient, Self
<1>5. ASSUME \A q \in Slots : stream'[q].applied = stream[q].applied PROVE Keys => Keys'
  BY <1>1, <1>5 DEF Keys, Counted, Pressed, Extra, Automatic, InFrame, Followed
<1> QED BY <1>3, <1>4, <1>5

\* The local slots' saves.
LEMMA LocalSavesKeep ==
    ASSUME Safe, SaveLocalSlotIfDirty \/ SaveLocalSlot2IfDirty
    PROVE  Safe' /\ (Keys => Keys') /\ Unread
<1>1. /\ pc \in {"save", "save2"} /\ pc' \in {"save2", "begin", "pace"}
      /\ UNCHANGED <<opt, frame, stop, router, window, held, stream, far, lan>>
  BY DEF SaveLocalSlotIfDirty, SaveLocalSlot2IfDirty, At, AfterSaves
<1>2. CASE UNCHANGED <<slot, file>>
  <2>1. Staged'
    BY <1>1, <1>2 DEF Safe, Staged, Stages, InFrame, Starting, FromClient, Self
  <2>2. Safe'
    BY <1>1, <1>2, <2>1, StagesAre, StageMoves
  <2>3. Keys => Keys'
    BY <1>1, <1>2 DEF Keys, Counted, Pressed, Extra, Automatic, InFrame, Followed
  <2> QED BY <1>2, <2>2, <2>3 DEF Unread
<1>3. ASSUME NEW s \in Slots, SaveOne(s), s = 1 \/ ~FromClient
      PROVE  Safe' /\ (Keys => Keys') /\ Unread
  <2>1. Filed(s) /\ slot[s].dirty
    BY <1>3, StoredIs, RefusedIs DEF Safe, SaveOne, SaveMayBeDue
  <2>2. file[s].kind # "bad"
    BY <2>1 DEF Safe, Kept
  <2>3. Kept' /\ Unread
    BY <1>1, <2>1, <2>2, Filing DEF Safe
  <2>4. /\ Settings' /\ PlayerTyped' /\ KeysRouted' /\ Staged' /\ SlotsTyped'
        /\ (Keys => Keys')
    BY <1>1, <2>1, SavedSide
  <2>5. Streamed' /\ NetTyped'
    BY <1>1, StreamedStays DEF Safe, NetTyped
  <2>6. Back'
    <3>1. SavIsReturned'
      BY <1>1 DEF SavIsReturned, At
    <3>2. FromClient => slot'[2] = slot[2]
      BY <1>3, <2>1 DEF Filed, Slots
    <3> QED BY <1>1, <3>1, <3>2 DEF Safe, Back, FromClient, Starting
  <2> QED BY <2>3, <2>4, <2>5, <2>6 DEF Safe
<1> QED
  <2>1. 1 \in Slots /\ 2 \in Slots
    BY DEF Slots
  <2> QED BY <1>2, <1>3, <2>1 DEF SaveLocalSlotIfDirty, SaveLocalSlot2IfDirty

\* The uploaded SAV is saved, and sent to its client: the client has it, or is lost, or the slot
\* is dirty still; when it was sent for the last time, unless the disk refused it.
LEMMA SaveAndSendActs ==
    ASSUME Safe, SaveAndSend, FromClient, pc \in {"return", "leave"},
           pc' = (IF pc = "leave" THEN "teardown" ELSE "save"),
           UNCHANGED <<opt, frame, stop, router, window, held, lan>>
    PROVE  Safe' /\ (Keys => Keys') /\ Unread
<1>0. 2 \in Slots /\ MaxWrites \in Nat /\ file[2].kind # "bad"
  BY GbServerAssumption DEF Slots, Safe, Kept
<1>1. ASSUME Filed(2), NetTyped', Streamed', Back',
             \A q \in Slots : stream'[q].applied = stream[q].applied
      PROVE  Safe' /\ (Keys => Keys') /\ Unread
  <2>1. Kept' /\ Unread
    BY <1>0, <1>1, Filing DEF Safe
  <2>2. /\ Settings' /\ PlayerTyped' /\ KeysRouted' /\ Staged' /\ SlotsTyped'
        /\ (Keys => Keys')
    BY <1>0, <1>1, SavedSide
  <2> QED BY <1>1, <2>1, <2>2 DEF Safe
<1>2. slot[2] \in SlotTypes
  BY <1>0 DEF Safe, SlotsTyped
<1>3. CASE Refused(2) /\ UNCHANGED <<stream, far>>
  <2>1. Filed(2) /\ slot'[2].dirty = slot[2].dirty /\ (pc = "leave" => slot'[2].refused)
    BY <1>0, <1>3, RefusedIs DEF Safe
  <2>2. NetTyped' /\ Streamed'
    BY <1>3, StreamedStays DEF Safe, NetTyped
  <2>3. slot'[2].ram = slot[2].ram
    BY <1>0, <2>1 DEF Filed
  <2>4. SavIsReturned'
    BY <2>1 DEF SavIsReturned, At
  <2>5. Back'
    BY <1>3, <2>1, <2>3, <2>4 DEF Safe, Back, FromClient, Starting
  <2> QED BY <1>1, <1>3, <2>1, <2>2, <2>5
<1>4. CASE \E r \in SendSaveFile(Outcome(2), slot[2].ram) :
        /\ Stored(2, IF r.ok THEN Clean(slot[2]) ELSE slot[2])
        /\ stream' = [stream EXCEPT ![2] = r.x.st]
        /\ far' = [far EXCEPT ![2] = r.x.fa]
  <2>1. PICK r \in SendSaveFile(Outcome(2), slot[2].ram) :
        /\ Stored(2, IF r.ok THEN Clean(slot[2]) ELSE slot[2])
        /\ stream' = [stream EXCEPT ![2] = r.x.st]
        /\ far' = [far EXCEPT ![2] = r.x.fa]
    BY <1>4
  <2> DEFINE x == Outcome(2)
             sl == IF r.ok THEN Clean(slot[2]) ELSE slot[2]
  <2>2. Heard(x) /\ slot[2].ram \in 0..MaxWrites
    BY <1>0, <1>2 DEF Safe, Streamed, SlotTypes
  <2>3. x.st = stream[2] /\ x.fa = far[2]
    BY DEF Outcome
  <2>4. Filed(2) /\ slot'[2].dirty = sl.dirty
    BY <1>0, <2>1, StoredIs DEF Safe
  <2>5. /\ Onward(x, r.x)
        /\ ~r.ok => r.x.fa.lost
        /\ x.st.conn /\ ~MustAuth(x) =>
              r.x.fa.lost \/ (r.x.fa.sav = slot[2].ram /\ r.x.st.conn /\ ~MustAuth(r.x))
        /\ ~(x.st.conn /\ ~MustAuth(x)) => r.x = x
    BY <2>2, SavSending
  <2>6. r.ok => ~sl.dirty
    BY <1>2 DEF Clean, SlotTypes
  <2> HIDE DEF sl
  <2>7. CASE stream[2].open
    <3>1. /\ NetTyped' /\ Streamed'
          /\ stream'[2] = r.x.st /\ far'[2] = r.x.fa
          /\ \A q \in Slots \ {2} : stream'[q] = stream[q] /\ far'[q] = far[q]
      <4>1. Heard(r.x) /\ r.x.st.open = stream[2].open
        BY <2>3, <2>5 DEF Onward
      <4>2. NetTyped /\ Streamed /\ pc # "done"
        BY DEF Safe
      <4> QED BY <1>0, <2>1, <2>7, <4>1, <4>2, StreamMoves
    <3>2. \A q \in Slots : stream'[q].applied = stream[q].applied
      BY <2>3, <2>5, <3>1 DEF Onward
    <3>3. slot'[2].ram = slot[2].ram
      BY <1>0, <2>4 DEF Filed
    <3>4. ~far'[2].torn
      BY <2>5, <3>1 DEF Onward, Heard
    <3>5. SavIsReturned'
      <4>1. CASE x.st.conn /\ ~MustAuth(x)
        BY <2>5, <3>1, <3>3, <3>4, <4>1 DEF SavIsReturned
      <4>2. CASE ~(x.st.conn /\ ~MustAuth(x))
        BY <2>3, <2>5, <3>1, <4>2 DEF SavIsReturned, MustAuth, Outcome
      <4> QED BY <4>1, <4>2
    <3>6. far'[2].lost \/ stream'[2].conn
      BY <2>3, <2>5, <3>1 DEF Safe, Back, Onward
    <3>7. ASSUME stream'[2].returned, ~far'[2].lost
          PROVE  /\ stream'[2].conn /\ (opt.auth => stream'[2].authed)
                 /\ far'[2].sav = slot[2].ram
      <4>1. CASE x.st.conn /\ ~MustAuth(x)
        BY <2>5, <3>1, <3>7, <4>1 DEF MustAuth
      <4>2. CASE ~(x.st.conn /\ ~MustAuth(x))
        <5>1. r.x = x
          BY <2>5, <4>2
        <5>2. stream[2].returned /\ ~far[2].lost
          BY <2>3, <3>1, <3>7, <5>1
        <5>3. stream[2].conn /\ (opt.auth => stream[2].authed)
          BY <5>2 DEF Safe, Back
        <5> QED BY <2>3, <4>2, <5>3 DEF MustAuth
      <4> QED BY <4>1, <4>2
    <3>8. Back'
      BY <3>3, <3>5, <3>6, <3>7 DEF Back, FromClient, Starting
    <3> QED BY <1>1, <2>4, <3>1, <3>2, <3>8
  <2>8. CASE ~stream[2].open
    <3>1. ~x.st.conn /\ r.x = x
      BY <1>0, <2>3, <2>5, <2>8 DEF Safe, Streamed
    <3>2. UNCHANGED <<stream, far>>
      BY <1>0, <2>1, <2>3, <3>1 DEF Safe, NetTyped
    <3>3. NetTyped' /\ Streamed'
      BY <3>2, StreamedStays DEF Safe, NetTyped
    <3>4. ~stream[2].conn
      BY <2>3, <3>1
    <3>5. far[2].lost
      BY <3>4 DEF Safe, Back
    <3>6. Back'
      BY <3>2, <3>4, <3>5 DEF Safe, Back, SavIsReturned, FromClient, Starting
    <3> QED BY <1>1, <2>4, <3>2, <3>3, <3>6
  <2> QED BY <2>7, <2>8
<1> QED BY <1>3, <1>4 DEF SaveAndSend

\* The uploaded SAV, every frame.
LEMMA SendingKeeps ==
    ASSUME Safe, SendSlot2SaveIfDirty PROVE Safe' /\ (Keys => Keys') /\ Unread
<1>1. /\ pc = "return" /\ pc' = "save" /\ FromClient
      /\ UNCHANGED <<opt, frame, stop, router, window, held, lan>>
  BY DEF SendSlot2SaveIfDirty, At, Safe, Staged
<1>2. CASE SaveAndSend
  BY <1>1, <1>2, SaveAndSendActs
<1>3. CASE UNCHANGED <<slot, file, stream, far>>
  <2>1. Staged'
    BY <1>1, <1>3 DEF Safe, Staged, Stages, InFrame, Starting, FromClient, Self
  <2>2. Safe'
    BY <1>1, <1>3, <2>1, StagesAre, StageMoves
  <2>3. Keys => Keys'
    BY <1>1, <1>3 DEF Keys, Counted, Pressed, Extra, Automatic, InFrame, Followed
  <2> QED BY <1>3, <2>2, <2>3 DEF Unread
<1> QED BY <1>2, <1>3 DEF SendSlot2SaveIfDirty

\* And for the last time: a SAV that is not sent again is with the client as it is.
LEMMA LeaveLoopKeeps == ASSUME Safe, LeaveLoop PROVE Safe' /\ (Keys => Keys') /\ Unread
<1>1. /\ pc = "leave" /\ pc' = "teardown"
      /\ UNCHANGED <<opt, frame, stop, router, window, held, lan>>
  BY DEF LeaveLoop, At
<1>2. CASE SaveAndSend /\ FromClient
  BY <1>1, <1>2, SaveAndSendActs
<1>3. CASE UNCHANGED <<slot, file, stream, far>> /\ ~(FromClient /\ (slot[2].dirty \/ ~stream[2].returned))
  <2>1. Staged'
    BY <1>1, <1>3 DEF Safe, Staged, Stages, InFrame, Starting, FromClient, Self
  <2>2. KeysOnly /\ PlayerTyped' /\ KeysRouted' /\ Settings' /\ SlotsTyped' /\ NetTyped'
    BY <1>1, <1>3, NoKeyChanges, SettingsStay
       DEF Safe, PlayerTyped, KeysRouted, Routed, SlotsTyped, NetTyped
  <2>3. Kept' /\ Streamed'
    BY <1>1, <1>3, <2>2, KeptStays, StreamedStays DEF Safe
  <2>4. ~far[2].torn
    BY DEF Safe, Streamed, Heard, Outcome, Slots
  <2>5. SavIsReturned'
    BY <1>1, <1>3, <2>4 DEF Safe, Back, SavIsReturned, FromClient
  <2>6. Back'
    BY <1>1, <1>3, <2>5 DEF Safe, Back, FromClient, Starting
  <2>7. Keys => Keys'
    BY <1>1, <1>3 DEF Keys, Counted, Pressed, Extra, Automatic, InFrame, Followed
  <2> QED BY <1>3, <2>1, <2>2, <2>3, <2>6, <2>7 DEF Safe, Unread
<1> QED BY <1>2, <1>3 DEF LeaveLoop, SendSlot2SaveOnShutdown

\* A listener is closed with its client.
LEMMA ClosedIs ==
    ASSUME NEW x, Heard(x)
    PROVE  LET y == [st |-> [CloseClient(x).st EXCEPT !.open = FALSE], fa |-> CloseClient(x).fa] IN
           /\ Heard(y) /\ y.st \in StreamTypes /\ y.fa \in ClientTypes
           /\ ~y.st.conn /\ ~y.st.open /\ y.st.returned = x.st.returned
           /\ (x.st.conn \/ x.fa.lost => y.fa.lost)
<1> DEFINE z == CloseClient(x)
           fa == z.fa
           st == [z.st EXCEPT !.open = FALSE]
           y == [st |-> st, fa |-> fa]
<1>1. Quiet(x, z) /\ ~z.st.conn /\ (x.st.conn => fa.lost)
  BY Closing
<1>2. Heard(z) /\ z.st \in StreamTypes /\ fa \in ClientTypes
  BY <1>1 DEF Quiet, Onward, Heard
<1> HIDE DEF z
<1>3. /\ st \in StreamTypes /\ ~st.conn /\ ~st.open /\ st.returned = z.st.returned
      /\ st.applied = z.st.applied /\ st.pending = z.st.pending
  BY <1>1, <1>2 DEF StreamTypes
<1>4. ~fa.torn /\ (st.applied # {} => st.pending)
  BY <1>1, <1>2, <1>3 DEF Heard
<1>5. (x.fa.lost => fa.lost) /\ z.st.returned = x.st.returned
  BY <1>1 DEF Quiet, Onward
<1> HIDE DEF st, fa
<1>6. y.st = st /\ y.fa = fa /\ y \in [st : StreamTypes, fa : ClientTypes]
  BY <1>2, <1>3
<1> HIDE DEF y
<1>7. Heard(y)
  BY <1>3, <1>4, <1>6 DEF Heard
<1>8. /\ Heard(y) /\ y.st \in StreamTypes /\ y.fa \in ClientTypes
      /\ ~y.st.conn /\ ~y.st.open /\ y.st.returned = x.st.returned
      /\ (x.st.conn \/ x.fa.lost => y.fa.lost)
  BY <1>1, <1>2, <1>3, <1>5, <1>6, <1>7
<1> QED BY <1>8 DEF y, st, fa, z

\* The process ends: what was set up is saved once more, or is not; uploads are removed.
LEMMA TeardownKeeps == ASSUME Safe, Teardown PROVE Safe' /\ (Keys => Keys') /\ Unread
<1>1. /\ pc' = "done" /\ lan' = NoLan
      /\ slot' = [s \in Slots |-> [slot[s] EXCEPT !.on = FALSE, !.keys = {}]]
      /\ stream' = [s \in Slots |-> [CloseClient(Outcome(s)).st EXCEPT !.open = FALSE]]
      /\ far' = [s \in Slots |-> CloseClient(Outcome(s)).fa]
      /\ UNCHANGED <<opt, frame, stop, router, window, held>>
  BY DEF Teardown
<1>2. PICK saved \in SUBSET {s \in Slots : slot[s].on} :
        file' = UploadsRemoved([s \in Slots |-> IF s \in saved THEN Saved(s) ELSE file[s]])
  BY DEF Teardown, FreedFiles
<1> DEFINE f == [s \in Slots |-> IF s \in saved THEN Saved(s) ELSE file[s]]
           gone == [kind |-> "absent", ver |-> 0]
<1>3. slot \in [Slots -> SlotTypes] /\ file \in [Slots -> Files] /\ 2 \in Slots /\ MaxWrites \in Nat
  BY GbServerAssumption DEF Safe, SlotsTyped, Slots
<1>4. gone \in Files
  BY <1>3 DEF Files
<1>5. \A s \in Slots : Saved(s) \in Files /\ Saved(s).kind # "bad"
  BY <1>3 DEF Saved, Files, SlotTypes
<1>6. f \in [Slots -> Files] /\ \A s \in Slots : f[s] = IF s \in saved THEN Saved(s) ELSE file[s]
  BY <1>3, <1>5
<1>7. file' = f \/ (FromClient /\ file' = [f EXCEPT ![2] = gone])
  BY <1>2 DEF UploadsRemoved
<1> HIDE DEF f
<1>8. file' \in [Slots -> Files]
      /\ \A s \in Slots : file'[s] = f[s] \/ (s = 2 /\ FromClient /\ file'[s].kind = "absent")
  BY <1>3, <1>4, <1>6, <1>7
<1>9. \A s \in Slots : file[s].kind = "bad" => ~slot[s].on /\ ~slot[s].dirty /\ ~(s = 2 /\ (FromClient \/ Self))
  BY DEF Safe, Kept
<1>10. Unread
  BY <1>6, <1>8, <1>9 DEF Unread
<1>11. \A s \in Slots : file'[s].kind = "bad" => file[s].kind = "bad"
  BY <1>5, <1>6, <1>8
<1>12. \A s \in Slots : slot'[s] \in SlotTypes /\ ~slot'[s].on /\ slot'[s].dirty = slot[s].dirty
  BY ZenonT(40), <1>1, <1>3 DEF SlotTypes
<1>13. SlotsTyped'
  BY <1>1, <1>8, <1>12 DEF SlotsTyped
<1>14. Kept'
  BY <1>1, <1>3, <1>9, <1>11, <1>12 DEF Kept, CleanMeansSaved, FromClient, Self
<1>15. ASSUME NEW s \in Slots
       PROVE  /\ Heard([st |-> stream'[s], fa |-> far'[s]])
              /\ stream'[s] \in StreamTypes /\ far'[s] \in ClientTypes
              /\ ~stream'[s].conn /\ ~stream'[s].open /\ stream'[s].returned = stream[s].returned
              /\ (stream[s].conn \/ far[s].lost => far'[s].lost)
  <2> DEFINE x == Outcome(s)
             y == [st |-> [CloseClient(x).st EXCEPT !.open = FALSE], fa |-> CloseClient(x).fa]
  <2>1. Heard(x) /\ x.st = stream[s] /\ x.fa = far[s]
    BY DEF Safe, Streamed, Outcome
  <2>2. /\ Heard(y) /\ y.st \in StreamTypes /\ y.fa \in ClientTypes
        /\ ~y.st.conn /\ ~y.st.open /\ y.st.returned = x.st.returned
        /\ (x.st.conn \/ x.fa.lost => y.fa.lost)
    BY <2>1, ClosedIs
  <2>3. y = [st |-> stream'[s], fa |-> far'[s]] /\ y.st = stream'[s] /\ y.fa = far'[s]
    BY <1>1
  <2> HIDE DEF x, y
  <2> QED BY <2>1, <2>2, <2>3
<1>16. NetTyped' /\ Streamed'
  BY <1>1, <1>15 DEF NetTyped, Streamed, Outcome
<1>17. Back'
  <2>1. SavIsReturned'
    BY <1>1 DEF SavIsReturned, At
  <2> QED BY <1>1, <1>3, <1>15, <2>1 DEF Safe, Back, FromClient, Starting
<1>18. lan' \in Lans /\ ~lan'.open /\ lan'.buttons = lan'.said
  BY <1>1 DEF NoLan, Lans
<1>19. PlayerTyped' /\ KeysRouted' /\ Settings'
  BY <1>1, <1>18, SettingsStay DEF Safe, PlayerTyped, KeysRouted, Routed
<1>20. Staged'
  BY <1>1, <1>3, <1>12 DEF Safe, Staged, Stages, InFrame, Starting, FromClient, Self
<1>21. Keys => Keys'
  BY <1>1, <1>12 DEF Keys, Counted, Pressed, Followed
<1> QED BY <1>10, <1>13, <1>14, <1>16, <1>17, <1>19, <1>20, <1>21 DEF Safe

-----------------------------------------------------------------------------
(* Setting up                                                               *)

\* Setting up touches no key.
LEMMA SetupSide ==
    ASSUME Safe, UNCHANGED <<opt, frame, stop, held>>, router'.applied = router.applied,
           pc \in Starting \cup {"window open"},
           pc' \in Starting \cup {"window open", "begin", "failed"},
           \A s \in Slots : slot'[s].keys = {} \/ (slot'[s].on = slot[s].on /\ slot'[s].keys = slot[s].keys),
           \A s \in Slots : stream'[s].applied = stream[s].applied,
           lan.open => lan'.open
    PROVE  Keys => Keys'
<1>1. pc \notin InFrame /\ pc' \notin InFrame
      /\ pc' \notin {"turbo", "remote", "remote1", "run"}
  BY DEF Starting, InFrame
<1>2. \A s \in Slots : Extra(s)' = Extra(s)
  BY <1>1 DEF Extra, Automatic
<1> QED BY <1>1, <1>2 DEF Keys, Counted, Pressed, Followed

\* A slot is set up from its SAV, or the process ends.
LEMMA InitSlotKeeps ==
    ASSUME Safe, NEW s \in Slots, InitSlot(s), pc = (IF s = 1 THEN "slot1" ELSE "slot2"),
           UNCHANGED <<opt, frame, stop, file, router, window, held, stream, far, lan>>
    PROVE  Safe' /\ (Keys => Keys')
<1>1. slot \in [Slots -> SlotTypes] /\ file \in [Slots -> Files] /\ 2 \in Slots
  BY DEF Safe, SlotsTyped, Slots
<1>2. pc \in Starting
  BY DEF Starting
<1>3. /\ pc' \in {IF s = 1 THEN "listen" ELSE "window open", "failed"}
      /\ \/ file[s].kind # "bad" /\ slot' = [slot EXCEPT ![s] = LoadedSlot(s)]
         \/ slot' = slot /\ pc' = "failed"
  BY <1>1 DEF InitSlot, LoadFailed
<1>4. /\ LoadedSlot(s) \in SlotTypes /\ LoadedSlot(s).on /\ LoadedSlot(s).keys = {}
      /\ ~LoadedSlot(s).dirty /\ LoadedSlot(s).ram = file[s].ver
  <2>1. 0 \in 0..MaxWrites /\ file[s].ver \in 0..MaxWrites
    BY <1>1, GbServerAssumption DEF Files
  <2> QED BY <2>1 DEF LoadedSlot, NoSlot, SlotTypes
<1>5. slot' \in [Slots -> SlotTypes]
      /\ \A q \in Slots : \/ slot'[q] = slot[q]
                          \/ /\ q = s /\ slot'[q].on /\ slot'[q].keys = {} /\ ~slot'[q].dirty
                             /\ slot'[q].ram = file[q].ver /\ file[q].kind # "bad"
  BY <1>1, <1>3, <1>4
<1>6. Kept'
  BY <1>5 DEF Safe, Kept, CleanMeansSaved, FromClient, Self
<1>7. Back'
  BY <1>2, <1>3 DEF Safe, Back, SavIsReturned, At, FromClient, Starting
<1>8. Staged'
  <2>1. s # 1 => s = 2
    BY DEF Slots
  <2>2. s = 1 => slot'[2] = slot[2]
    BY <1>1, <1>5
  <2> QED BY <1>3, <2>1, <2>2 DEF Safe, Staged, Stages, InFrame, Starting, FromClient, Self
<1>9. /\ Settings' /\ PlayerTyped' /\ KeysRouted' /\ Streamed' /\ SlotsTyped' /\ NetTyped'
  BY <1>1, <1>2, <1>5, SettingsStay, StreamedStays
     DEF Safe, PlayerTyped, KeysRouted, Routed, SlotsTyped, NetTyped, Starting
<1>10. Keys => Keys'
  <2>1. pc' \in Starting \cup {"window open", "failed"}
    BY <1>3 DEF Starting
  <2> QED BY <1>2, <1>5, <2>1, SetupSide
<1> QED BY <1>6, <1>7, <1>8, <1>9, <1>10 DEF Safe

\* The listeners.
LEMMA ListenKeeps == ASSUME Safe, Listen PROVE Safe' /\ (Keys => Keys')
<1>1. /\ pc = "listen"
      /\ pc' \in {IF FromClient THEN "upload" ELSE IF Self THEN "window open" ELSE "slot2", "failed"}
      /\ UNCHANGED <<opt, frame, stop, slot, file, router, window, held, far, lan>>
  BY DEF Listen
<1>2. \A s \in Slots : ~stream[s].open /\ ~stream[s].conn /\ stream[s].applied = {}
  BY <1>1 DEF Safe, Staged, Streamed
<1>3. \/ UNCHANGED stream /\ pc' = "failed"
      \/ stream' = [s \in Slots |-> [stream[s] EXCEPT
                           !.open = opt.remote /\ (s = 2 \/ opt.mode = "dual")]]
  BY DEF Listen
<1>4. ASSUME NEW s \in Slots
      PROVE  /\ stream'[s] \in StreamTypes /\ ~stream'[s].conn /\ stream'[s].applied = {}
             /\ stream'[s].returned = stream[s].returned
             /\ Heard([st |-> stream'[s], fa |-> far'[s]])
             /\ (stream'[s].open => opt.remote)
             /\ (FromClient /\ s = 2 /\ pc' # "failed" => stream'[s].open)
  <2>1. /\ stream[s] \in StreamTypes /\ far[s] \in ClientTypes
        /\ Heard([st |-> stream[s], fa |-> far[s]])
    BY DEF Safe, NetTyped, Streamed, Outcome
  <2>2. CASE UNCHANGED stream /\ pc' = "failed"
    BY <1>1, <1>2, <2>1, <2>2
  <2>3. CASE stream' = [q \in Slots |-> [stream[q] EXCEPT
                           !.open = opt.remote /\ (q = 2 \/ opt.mode = "dual")]]
    <3> DEFINE open == opt.remote /\ (s = 2 \/ opt.mode = "dual")
    <3>1. stream'[s] = [stream[s] EXCEPT !.open = open]
      BY <2>3
    <3>2. open \in BOOLEAN /\ (open => opt.remote) /\ (FromClient /\ s = 2 => open)
      BY DEF Safe, Settings
    <3> HIDE DEF open
    <3>3. /\ stream'[s] \in StreamTypes /\ stream'[s].open = open
          /\ stream'[s].conn = stream[s].conn /\ stream'[s].applied = stream[s].applied
          /\ stream'[s].returned = stream[s].returned
      BY <2>1, <3>1, <3>2 DEF StreamTypes
    <3>4. Heard([st |-> stream'[s], fa |-> far'[s]])
      <4>1. far'[s] = far[s] /\ ~far[s].torn
        BY <1>1, <2>1 DEF Heard
      <4> QED BY <1>2, <2>1, <3>3, <4>1 DEF Heard
    <3> QED BY <1>2, <3>2, <3>3, <3>4
  <2> QED BY <1>3, <2>2, <2>3
<1>5. stream' \in [Slots -> StreamTypes]
  BY <1>3, <1>4 DEF Safe, NetTyped
<1>6. Streamed' /\ NetTyped'
  BY <1>1, <1>4, <1>5 DEF Safe, Streamed, NetTyped, Outcome
<1>7. Staged'
  <2>1. FromClient => ~Self
    BY DEF FromClient, Self
  <2>2. pc' = "upload" => FromClient /\ stream'[2].open
    BY <1>1, <1>4 DEF Slots
  <2> QED BY <1>1, <2>1, <2>2 DEF Safe, Staged, Stages, InFrame, Starting, FromClient, Self
<1>8. Back'
  <2>1. ~stream'[2].returned
    BY <1>1, <1>4 DEF Safe, Back, Starting, Slots
  <2> QED BY <1>1, <2>1 DEF Back, SavIsReturned, At, FromClient, Starting
<1>9. KeysOnly
  BY <1>1, NoKeyChanges DEF Safe
<1>10. /\ Settings' /\ PlayerTyped' /\ KeysRouted' /\ SlotsTyped' /\ Kept'
  BY <1>1, <1>9, SettingsStay, KeptStays DEF Safe, PlayerTyped, KeysRouted, Routed, SlotsTyped
<1>11. Keys => Keys'
  <2>1. pc \in Starting /\ pc' \in Starting \cup {"window open", "failed"}
    BY <1>1 DEF Starting
  <2> QED BY <1>1, <1>2, <1>4, <2>1, SetupSide
<1> QED BY <1>6, <1>7, <1>8, <1>10, <1>11 DEF Safe

\* The window, while the upload is awaited.
LEMMA WaitWindowKeeps == ASSUME Safe, WaitWindow PROVE Safe' /\ (Keys => Keys')
<1>1. /\ pc = "upload" /\ pc' \in {"upload", "failed"}
      /\ UNCHANGED <<opt, frame, stop, slot, file, router, held, stream, far, lan>>
  BY DEF WaitWindow
<1>2. window' \in Windows
  <2>1. /\ window \in Windows /\ [ask |-> TRUE, yes |-> FALSE] \in Windows
        /\ [window EXCEPT !.yes = ~@] \in Windows /\ [window EXCEPT !.ask = FALSE] \in Windows
    BY DEF Safe, PlayerTyped, Windows
  <2> QED BY <2>1 DEF WaitWindow
<1>3. KeysOnly /\ PlayerTyped' /\ KeysRouted'
  BY <1>1, <1>2, NoKeyChanges DEF Safe, PlayerTyped, KeysRouted, Routed
<1>4. Staged'
  BY <1>1 DEF Safe, Staged, Stages, InFrame, Starting, FromClient, Self
<1>5. Safe'
  BY <1>1, <1>3, <1>4, SafeStays DEF Starting
<1>6. Keys => Keys'
  <2>1. pc \in Starting /\ pc' \in Starting \cup {"failed"}
    BY <1>1 DEF Starting
  <2> QED BY <1>1, <2>1, SetupSide
<1> QED BY <1>5, <1>6

\* The client that brings the ROM and the SAV connects.
LEMMA WaitForUploadKeeps == ASSUME Safe, WaitForUpload PROVE Safe' /\ (Keys => Keys')
<1>1. PICK x \in AcceptClient(Outcome(2)) :
        /\ stream' = [stream EXCEPT ![2] = x.st]
        /\ far' = [far EXCEPT ![2] = x.fa]
  BY DEF WaitForUpload
<1>2. /\ pc = "upload"
      /\ UNCHANGED <<opt, pc, frame, stop, slot, file, router, window, held, lan>>
  BY DEF WaitForUpload
<1>3. 2 \in Slots /\ stream[2].open /\ Heard(Outcome(2))
  BY <1>2 DEF Slots, Safe, Staged, Streamed
<1>4. Quiet(Outcome(2), x) /\ Heard(x)
  BY <1>3, Accepting DEF Quiet, Onward
<1>5. x.st.open = stream[2].open /\ x.st.applied = stream[2].applied
      /\ x.st.returned = stream[2].returned
  BY <1>4 DEF Quiet, Onward, Outcome
<1>6. /\ NetTyped' /\ Streamed'
      /\ stream'[2] = x.st /\ far'[2] = x.fa
      /\ \A q \in Slots \ {2} : stream'[q] = stream[q] /\ far'[q] = far[q]
  <2>1. NetTyped /\ Streamed /\ pc # "done"
    BY <1>2 DEF Safe
  <2> QED BY <1>1, <1>2, <1>3, <1>4, <1>5, <2>1, StreamMoves
<1>7. Staged'
  BY <1>2, <1>3, <1>5, <1>6 DEF Safe, Staged, FromClient, Self
<1>8. KeysOnly
  BY <1>2, NoKeyChanges DEF Safe
<1>9. /\ Settings' /\ PlayerTyped' /\ KeysRouted' /\ SlotsTyped' /\ Kept'
  BY <1>2, <1>8, SettingsStay, KeptStays DEF Safe, PlayerTyped, KeysRouted, Routed, SlotsTyped
<1>10. Back'
  <2>1. ~stream'[2].returned
    BY <1>2, <1>5, <1>6 DEF Safe, Back, Starting
  <2> QED BY <1>2, <2>1 DEF Back, SavIsReturned, At, FromClient, Starting
<1>11. Keys => Keys'
  <2>1. pc \in Starting /\ pc' \in Starting
    BY <1>2 DEF Starting
  <2>2. \A s \in Slots : stream'[s].applied = stream[s].applied
    BY <1>5, <1>6
  <2> QED BY <1>2, <2>1, <2>2, SetupSide
<1> QED BY <1>6, <1>7, <1>9, <1>10, <1>11 DEF Safe

\* The upload arrives whole, or the process ends.
LEMMA ReceiveUploadKeeps == ASSUME Safe, ReceiveUpload PROVE Safe' /\ (Keys => Keys') /\ Unread
<1>1. /\ pc = "upload" /\ stream[2].conn
      /\ UNCHANGED <<opt, frame, stop, slot, router, window, held, lan>>
  BY DEF ReceiveUpload
<1>2. 2 \in Slots /\ stream[2].open /\ Heard(Outcome(2)) /\ FromClient /\ ~slot[2].on
      /\ file[2].kind # "bad" /\ ~stream[2].returned
  BY <1>1 DEF Slots, Safe, Staged, Streamed, Kept, Back, Starting
<1>3. KeysOnly
  BY <1>1, NoKeyChanges DEF Safe
<1>4. Settings' /\ PlayerTyped' /\ KeysRouted'
  BY <1>1, SettingsStay DEF Safe, PlayerTyped, KeysRouted, Routed
<1>5. pc' \in {"slot2", "failed"}
  BY DEF ReceiveUpload, UploadArrives, UploadFails
<1>6. ASSUME UNCHANGED stream \/ \A q \in Slots : stream'[q].applied = stream[q].applied
      PROVE  Keys => Keys'
  <2>1. pc \in Starting /\ pc' \in Starting \cup {"failed"}
    BY <1>1, <1>5 DEF Starting
  <2> QED BY <1>1, <1>6, <2>1, SetupSide
<1>7. Staged'
  BY <1>1, <1>2, <1>5 DEF Safe, Staged, Stages, InFrame, Starting, FromClient, Self
<1>8. CASE UploadArrives
  <2> DEFINE f == [kind |-> "ok", ver |-> 0]
             fa == [far[2] EXCEPT !.sav = 0]
             y == [st |-> stream[2], fa |-> fa]
  <2>1. file' = [file EXCEPT ![2] = f] /\ far' = [far EXCEPT ![2] = fa] /\ pc' = "slot2"
        /\ stream' = stream
    BY <1>8 DEF UploadArrives
  <2>2. f \in Files /\ f.kind # "bad"
    BY GbServerAssumption DEF Files
  <2>3. 0 \in Int
    OBVIOUS
  <2>4. stream[2] \in StreamTypes /\ far[2] \in ClientTypes /\ far \in [Slots -> ClientTypes]
        /\ stream \in [Slots -> StreamTypes]
    BY <1>2 DEF Safe, NetTyped
  <2>5. /\ fa \in ClientTypes /\ fa.said = far[2].said /\ fa.seq = far[2].seq
        /\ fa.lost = far[2].lost /\ fa.torn = far[2].torn
    BY <2>3, <2>4 DEF ClientTypes
  <2> HIDE DEF f, fa
  <2>6. y.st = stream[2] /\ y.fa = fa /\ y \in [st : StreamTypes, fa : ClientTypes]
    BY <2>4, <2>5
  <2>7. Heard(y)
    BY <1>2, <2>5, <2>6 DEF Heard, Outcome
  <2>8. stream' = [stream EXCEPT ![2] = y.st] /\ far' = [far EXCEPT ![2] = y.fa]
    BY <2>1, <2>4, <2>6
  <2>9. y.st.open = stream[2].open
    BY <2>6
  <2> HIDE DEF y
  <2>10. NetTyped' /\ Streamed'
    <3>1. NetTyped /\ Streamed /\ pc # "done"
      BY <1>1 DEF Safe
    <3> QED BY <1>1, <1>2, <2>7, <2>8, <2>9, <3>1, StreamMoves
  <2>11. SlotsTyped' /\ \A q \in Slots : file'[q] = IF q = 2 THEN f ELSE file[q]
    BY <1>1, <2>1, <2>2 DEF Safe, SlotsTyped
  <2>12. Kept' /\ Unread
    BY <1>1, <1>2, <2>2, <2>11 DEF Safe, Kept, CleanMeansSaved, Unread, FromClient, Self
  <2>13. Back'
    BY <1>1, <1>2, <2>1 DEF Back, SavIsReturned, At, FromClient, Starting
  <2> QED BY <1>4, <1>6, <1>7, <2>1, <2>10, <2>11, <2>12, <2>13 DEF Safe
<1>9. CASE UploadFails
  <2> DEFINE y == CloseClient(Outcome(2))
  <2>1. /\ pc' = "failed" /\ file' = file
        /\ stream' = [stream EXCEPT ![2] = y.st] /\ far' = [far EXCEPT ![2] = y.fa]
    BY <1>9 DEF UploadFails
  <2>2. Quiet(Outcome(2), y) /\ Heard(y)
    BY <1>2, Closing DEF Quiet, Onward
  <2> HIDE DEF y
  <2>3. y.st.open = stream[2].open /\ y.st.applied = stream[2].applied
        /\ y.st.returned = stream[2].returned
    BY <2>2 DEF Quiet, Onward, Outcome
  <2>4. /\ NetTyped' /\ Streamed'
        /\ stream'[2] = y.st /\ far'[2] = y.fa
        /\ \A q \in Slots \ {2} : stream'[q] = stream[q] /\ far'[q] = far[q]
    <3>1. NetTyped /\ Streamed /\ pc # "done"
      BY <1>1 DEF Safe
    <3> QED BY <1>1, <1>2, <2>1, <2>2, <2>3, <3>1, StreamMoves
  <2>5. SlotsTyped' /\ Kept' /\ Unread
    BY <1>1, <1>3, <2>1, KeptStays DEF Safe, SlotsTyped, Unread
  <2>6. Back'
    BY <1>2, <2>1, <2>3, <2>4 DEF Back, SavIsReturned, At, FromClient, Starting
  <2>7. \A q \in Slots : stream'[q].applied = stream[q].applied
    BY <2>3, <2>4
  <2> QED BY <1>4, <1>6, <1>7, <2>4, <2>5, <2>6, <2>7 DEF Safe
<1> QED BY <1>8, <1>9 DEF ReceiveUpload

\* Window, sound and the browser remote.
LEMMA OpenWindowKeeps == ASSUME Safe, OpenWindow PROVE Safe' /\ (Keys => Keys')
<1> DEFINE open == opt.mode = "lan"
<1>1. /\ pc = "window open" /\ pc' \in {"begin", "failed"}
      /\ window' = [ask |-> FALSE, yes |-> FALSE]
      /\ router' = [router EXCEPT !.speed = StartSpeed]
      /\ \/ pc' = "begin" /\ lan' = [lan EXCEPT !.open = open]
         \/ pc' = "failed" /\ lan' = lan
      /\ UNCHANGED <<opt, frame, stop, slot, file, held, stream, far>>
  BY DEF OpenWindow
<1>2. StartSpeed \in 1..4
  <2>1. opt.speed \in 1..4 /\ 1 \in 1..4
    BY DEF Safe, Settings, Options
  <2> QED BY <2>1 DEF StartSpeed
<1>3. /\ router' \in Routers /\ router'.applied = router.applied
      /\ router'.normal = router.normal /\ router'.active = router.active
      /\ router'.capture = router.capture /\ router'.turbo = router.turbo
      /\ router'.phase = router.phase
  BY <1>1, <1>2 DEF Safe, PlayerTyped, Routers
<1>4. lan \in Lans /\ lan.buttons = lan.said /\ (lan.open => open) /\ open \in BOOLEAN
  BY DEF Safe, PlayerTyped, KeysRouted
<1>5. open <=> opt.mode = "lan"
  OBVIOUS
<1> HIDE DEF open
<1>6. /\ lan' \in Lans /\ lan'.buttons = lan'.said /\ (lan'.open => open)
      /\ (pc' = "begin" /\ open => lan'.open) /\ (lan.open => lan'.open)
  BY <1>1, <1>4 DEF Lans
<1>7. PlayerTyped' /\ KeysRouted'
  <2>1. window' \in Windows
    BY <1>1 DEF Windows
  <2> QED BY <1>1, <1>3, <1>5, <1>6, <2>1 DEF Safe, PlayerTyped, KeysRouted, Routed
<1>8. Staged'
  BY <1>1, <1>5, <1>6 DEF Safe, Staged, Stages, InFrame, Starting, FromClient, Self
<1>9. KeysOnly
  BY <1>1, NoKeyChanges DEF Safe
<1>10. Safe'
  BY <1>1, <1>7, <1>8, <1>9, SafeStays DEF Starting
<1>11. Keys => Keys'
  BY <1>1, <1>3, <1>6, SetupSide
<1> QED BY <1>10, <1>11

-----------------------------------------------------------------------------
(* The theorems                                                             *)

\* A command line as it is adjusted.
LEMMA AdjustedIs ==
    ASSUME NEW o \in Options, OptionsAccepted(o)
    PROVE  /\ Adjusted(o) \in Options /\ Adjusted(o).mode = o.mode /\ Adjusted(o).autoA = o.autoA
           /\ o.mode = "server" => Adjusted(o).remote
           /\ o.mode \in {"self", "lan"} => ~Adjusted(o).remote
BY DEF Options, OptionsAccepted, Adjusted

\* A slot, its stream and its client at the start.
LEMMA NothingIs ==
    /\ NoSlot \in SlotTypes /\ ~NoSlot.on /\ ~NoSlot.dirty
    /\ NoStream \in StreamTypes /\ ~NoStream.open /\ ~NoStream.conn /\ NoStream.applied = {}
    /\ ~NoStream.returned
    /\ NoClient \in ClientTypes /\ ~NoClient.torn
    /\ NoLan \in Lans /\ ~NoLan.open /\ NoLan.buttons = NoLan.said
<1>1. 0 \in 0..1 /\ 0 \in 0..MaxWrites
  BY GbServerAssumption
<1>2. -1 \in Int
  OBVIOUS
<1>3. NoSlot \in SlotTypes /\ ~NoSlot.on /\ ~NoSlot.dirty
  BY <1>1 DEF NoSlot, SlotTypes
<1>4. /\ NoStream \in StreamTypes /\ ~NoStream.open /\ ~NoStream.conn /\ NoStream.applied = {}
      /\ ~NoStream.returned
  BY <1>1 DEF NoStream, StreamTypes
<1>5. NoClient \in ClientTypes /\ ~NoClient.torn
  BY <1>1, <1>2 DEF NoClient, ClientTypes
<1>6. NoLan \in Lans /\ ~NoLan.open /\ NoLan.buttons = NoLan.said
  BY DEF NoLan, Lans
<1> QED BY <1>3, <1>4, <1>5, <1>6

\* The start: nothing is set up.
LEMMA InvInit == ASSUME Init PROVE Safe /\ (AutoAIsCounted => Keys)
<1>1. PICK o \in Requested : OptionsAccepted(o) /\ opt = Adjusted(o)
  BY DEF Init
<1>2. o \in Options
  BY GbServerAssumption
<1>3. /\ opt \in Options /\ opt.mode = o.mode /\ opt.autoA = o.autoA
      /\ o.mode = "server" => opt.remote
      /\ o.mode \in {"self", "lan"} => ~opt.remote
  BY <1>1, <1>2, AdjustedIs
<1>4. Settings
  BY <1>3 DEF Settings, FromClient, Self
<1>5. /\ pc = "slot1" /\ frame = 0 /\ stop = FALSE /\ slot = [s \in Slots |-> NoSlot]
      /\ file \in [Slots -> {[kind |-> k, ver |-> 0] : k \in {"absent", "bad", "ok"}}]
      /\ Self \/ FromClient => file[2] = [kind |-> "absent", ver |-> 0]
      /\ router = IdleRouter /\ window = [ask |-> FALSE, yes |-> FALSE] /\ held = NoKeys
      /\ stream = [s \in Slots |-> NoStream] /\ far = [s \in Slots |-> NoClient] /\ lan = NoLan
  BY DEF Init
<1>6. file \in [Slots -> Files]
  <2>1. \A k \in {"absent", "bad", "ok"} : [kind |-> k, ver |-> 0] \in Files
    BY GbServerAssumption DEF Files
  <2> QED BY <1>5, <2>1
<1>7. SlotsTyped /\ NetTyped
  BY <1>5, <1>6, NothingIs DEF SlotsTyped, NetTyped
<1>8. /\ router \in Routers /\ ~router.active /\ ~router.capture /\ router.normal = NoKeys
      /\ router.applied = NoKeys /\ held = NoKeys /\ NoKeys \in [Slots -> SUBSET Buttons]
  <2>1. 1 \in 1..4 /\ NoKeys \in [Slots -> SUBSET Buttons]
    BY DEF NoKeys
  <2> QED BY <1>5, <2>1 DEF IdleRouter, Routers
<1>9. PlayerTyped
  <2>1. window \in Windows
    BY <1>5 DEF Windows
  <2> QED BY <1>5, <1>8, <2>1, NothingIs DEF PlayerTyped
<1>10. KeysRouted
  <2>1. router.applied = Routed(router)
    BY <1>8 DEF Routed, NoKeys
  <2> QED BY <1>5, <1>8, <2>1, NothingIs DEF KeysRouted
<1>11. Staged
  <2>1. opt.frames \in Nat \ {0}
    BY <1>3 DEF Options
  <2>2. frame \in 0..opt.frames
    BY <1>5, <2>1
  <2> QED BY <1>5, <2>2, NothingIs DEF Staged, Stages, InFrame, Starting, Slots
<1>12. Streamed
  <2>1. ASSUME NEW s \in Slots PROVE Heard(Outcome(s))
    <3>1. Outcome(s) = [st |-> NoStream, fa |-> NoClient]
      BY <1>5 DEF Outcome
    <3>2. Outcome(s).st = NoStream /\ Outcome(s).fa = NoClient
          /\ Outcome(s) \in [st : StreamTypes, fa : ClientTypes]
      BY <3>1, NothingIs
    <3> QED BY <3>2, NothingIs DEF Heard
  <2> QED BY <1>5, <2>1, NothingIs DEF Streamed
<1>13. Kept
  <2>1. \A s \in Slots : ~slot[s].on /\ ~slot[s].dirty
    BY <1>5, NothingIs
  <2> QED BY <1>5, <2>1 DEF Kept, CleanMeansSaved
<1>14. Back
  <2>1. ~stream[2].returned
    BY <1>5, NothingIs DEF Slots
  <2> QED BY <1>5, <2>1 DEF Back, SavIsReturned, At
<1>15. ASSUME AutoAIsCounted PROVE Keys
  <2>1. Counted
    BY <1>3, <1>15 DEF AutoAIsCounted, Counted
  <2>2. Pressed
    BY <1>5, NothingIs DEF Pressed
  <2>3. Followed
    BY <1>5 DEF Followed
  <2> QED BY <2>1, <2>2, <2>3 DEF Keys
<1> QED BY <1>4, <1>7, <1>9, <1>10, <1>11, <1>12, <1>13, <1>14, <1>15 DEF Safe

\* Every step.
LEMMA InvNext == ASSUME Safe, [Next]_vars PROVE Safe' /\ (Keys => Keys') /\ Unread
<1>1. CASE UNCHANGED vars
  <2>1. /\ UNCHANGED <<opt, pc, frame, stop, slot, file, router, window, held, stream, far, lan>>
    BY <1>1 DEF vars
  <2>2. Settings' /\ SlotsTyped' /\ NetTyped' /\ PlayerTyped' /\ KeysRouted'
    BY <2>1, SettingsStay DEF Safe, SlotsTyped, NetTyped, PlayerTyped, KeysRouted, Routed
  <2>3. Staged' /\ Streamed'
    BY <2>1 DEF Safe, Staged, Streamed, Outcome, Heard, FromClient, Self
  <2>4. Kept' /\ Back'
    BY <2>1 DEF Safe, Kept, CleanMeansSaved, Back, SavIsReturned, At, MustAuth, Outcome,
                FromClient, Self
  <2>5. Keys => Keys'
    BY <2>1 DEF Keys, Counted, Pressed, Extra, MacroKey, Automatic, Followed, Applied
  <2> QED BY <2>1, <2>2, <2>3, <2>4, <2>5 DEF Safe, Unread
<1>2. ASSUME UNCHANGED file PROVE Unread
  BY <1>2 DEF Unread
<1>3. CASE InitSlot1 \/ InitSlot2
  <2>1. 1 \in Slots /\ 2 \in Slots
    BY DEF Slots
  <2> QED BY <1>2, <1>3, <2>1, InitSlotKeeps DEF InitSlot1, InitSlot2
<1>4. CASE Listen \/ WaitWindow \/ WaitForUpload \/ OpenWindow
  <2>1. UNCHANGED file
    BY <1>4 DEF Listen, WaitWindow, WaitForUpload, OpenWindow
  <2> QED BY <1>2, <1>4, <2>1, ListenKeeps, WaitWindowKeeps, WaitForUploadKeeps, OpenWindowKeeps
<1>5. CASE EventsDone \/ BeginFrame \/ PollLan \/ UpdateTurbo
  <2>1. UNCHANGED file
    BY <1>5 DEF EventsDone, BeginFrame, PollLan, UpdateTurbo
  <2> QED BY <1>2, <1>5, <2>1, EventsDoneKeeps, BeginFrameKeeps, PollLanKeeps, UpdateTurboKeeps
<1>6. CASE RemoteInputs \/ Run \/ Media \/ WaitUntilFrameDeadline
  <2>1. UNCHANGED file
    BY <1>6 DEF RemoteInputs, Run, Media, WaitUntilFrameDeadline
  <2> QED BY <1>2, <1>6, <2>1, RemoteInputsKeep, RunKeeps, MediaKeeps, PacingKeeps
<1>7. CASE Keyboard \/ ShutdownSignal
  <2>1. UNCHANGED file
    BY <1>7 DEF Keyboard, LeaveKey, ChooseKey, EnterKey, GameKey, TurboKey, FastKey, FocusLost,
                Event, ShutdownSignal
  <2> QED BY <1>2, <1>7, <2>1, KeyboardKeeps, ShutdownKeeps
<1>8. CASE ReceiveUpload \/ SendSlot2SaveIfDirty \/ SaveLocalSlotIfDirty \/ SaveLocalSlot2IfDirty
           \/ LeaveLoop \/ Teardown
  BY <1>8, ReceiveUploadKeeps, SendingKeeps, LocalSavesKeep, LeaveLoopKeeps, TeardownKeeps
<1> QED BY <1>1, <1>3, <1>4, <1>5, <1>6, <1>7, <1>8 DEF Next, Setup, Loop

\* SavesAreTrue is part of what every step keeps.
LEMMA SafeIsTrue == ASSUME Safe PROVE SavesAreTrue
<1>1. TypeOK
  <2>1. pc \in Stages /\ stop \in BOOLEAN /\ frame \in 0..opt.frames
    BY DEF Safe, Staged
  <2>2. /\ slot \in [Slots -> SlotTypes] /\ file \in [Slots -> Files]
        /\ router \in Routers /\ held \in [Slots -> SUBSET Buttons] /\ window \in Windows
        /\ stream \in [Slots -> StreamTypes]
    BY DEF Safe, SlotsTyped, PlayerTyped, NetTyped
  <2>3. \A f \in {"normal", "turbo", "applied"} : router[f] \in [Slots -> SUBSET Buttons]
    BY <2>2 DEF Routers
  <2>4. router.speed \in 1..4 /\ \A s \in Slots : stream[s].down \in {"free", "busy"}
    BY <2>2 DEF Routers, StreamTypes
  <2> QED BY <2>1, <2>2, <2>3, <2>4 DEF TypeOK, Stages, SlotTypes, Windows
<1> QED BY <1>1 DEF Safe, Kept, Back, SavesAreTrue

\* What a slot has saved is on the disk and, of a client that stayed to the end, back with the
\* client, whatever was refused, lost or interleaved (server_cleanup.c:20, 36, 52).
THEOREM SavesReachTheirOwner == Spec => []SavesAreTrue
<1>1. Init => Safe
  BY InvInit
<1>2. Safe /\ [Next]_vars => Safe'
  BY InvNext
<1>3. Safe => SavesAreTrue
  BY SafeIsTrue
<1> QED BY <1>1, <1>2, <1>3, PTL DEF Spec

\* A SAV that could not be read is never overwritten: a slot that failed to start saves
\* nothing (slot.c:240).
THEOREM BadSavesAreLeftAlone == Spec => UnreadableSavIsKept
<1>1. Init => Safe
  BY InvInit
<1>2. Safe /\ [Next]_vars => Safe'
  BY InvNext
<1>3. Safe /\ [Next]_vars => [\A s \in Slots : file[s].kind = "bad" => file'[s] = file[s]]_vars
  BY InvNext DEF Unread
<1> QED BY <1>1, <1>2, <1>3, PTL DEF Spec, UnreadableSavIsKept

\* The keys follow from what is pressed and what is in force.
LEMMA KeysAreTrue == ASSUME Safe, Keys PROVE KeysAreHeld
<1>1. ASSUME pc = "run", NEW s \in Slots, slot[s].on
      PROVE  IF stream[s].conn THEN slot[s].keys = far[s].said
             ELSE IF s = 1 /\ lan.open THEN slot[s].keys = lan.said
             ELSE slot[s].keys \subseteq LocalKeys(s)
  <2>1. Applied(s)
    BY <1>1 DEF Keys, Followed, Slots
  <2>2. CASE stream[s].conn
    BY <2>1, <2>2 DEF Applied
  <2>3. CASE ~stream[s].conn /\ s = 1 /\ lan.open
    BY <1>1, <2>3 DEF Keys, Followed
  <2>4. CASE ~stream[s].conn /\ ~(s = 1 /\ lan.open)
    <3>1. slot[s].keys \subseteq router.applied[s] \cup Extra(s)
      BY <1>1, <2>1, <2>4 DEF Keys, Pressed, Applied
    <3>2. Extra(s) = MacroKey(s) \cup (IF frame < opt.autoA THEN {"A"} ELSE {})
      BY <1>1 DEF Extra, InFrame
    <3>3. router.applied[s] = router.normal[s]
              \cup (IF router.active /\ router.phase THEN router.turbo[s] ELSE {})
      BY DEF Safe, KeysRouted, Routed
    <3>4. router.normal[s] \subseteq held[s]
      BY DEF Safe, KeysRouted
    <3>5. slot[s].keys \subseteq LocalKeys(s)
      BY <3>1, <3>2, <3>3, <3>4 DEF LocalKeys
    <3> QED BY <2>4, <3>5
  <2> QED BY <2>2, <2>3, <2>4
<1> QED BY <1>1 DEF KeysAreHeld, At

\* No key sticks: when a frame runs a game sees what its remote client, the browser or the player
\* holds, and where automatic presses are counted frame by frame those (main.c:643, 733).
THEOREM NoKeySticks == ASSUME AutoAIsCounted PROVE Spec => []KeysAreHeld
<1>1. Init => Safe /\ Keys
  BY InvInit
<1>2. Safe /\ Keys /\ [Next]_vars => (Safe /\ Keys)'
  BY InvNext
<1>3. Safe /\ Keys => KeysAreHeld
  BY KeysAreTrue
<1> QED BY <1>1, <1>2, <1>3, PTL DEF Spec

-----------------------------------------------------------------------------
(* Routes that match one request                                            *)

\* Two beginnings of one sequence: one of them begins with the other.
LEMMA PrefixesOfOne ==
    ASSUME NEW a \in Seq(Nat), NEW b \in Seq(Nat), NEW v \in Seq(Int),
           IsPrefix(a, v), IsPrefix(b, v)
    PROVE  IsPrefix(a, b) \/ IsPrefix(b, a)
<1>1. ASSUME NEW s \in Seq(Nat), NEW t \in Seq(Nat), IsPrefix(s, v), IsPrefix(t, v),
             Len(s) <= Len(t)
      PROVE  IsPrefix(s, t)
  <2>1. /\ Len(s) \in Nat /\ Len(t) \in Nat /\ Len(v) \in Nat
        /\ Len(s) <= Len(v) /\ Len(t) <= Len(v)
    BY <1>1, LenProperties DEF IsPrefix
  <2>2. \A i \in 1..Len(s) : s[i] = v[i]
    BY <1>1, <2>1, SubSeqFull, SubSeqProperties, SMTT(20) DEF IsPrefix
  <2>3. \A i \in 1..Len(t) : t[i] = v[i]
    BY <1>1, <2>1, SubSeqFull, SubSeqProperties, SMTT(20) DEF IsPrefix
  <2>4. \A i \in 1..Len(s) : s[i] = t[i]
    BY <2>1, <2>2, <2>3, <1>1
  <2>5. SubSeq(s, 1, Len(s)) = SubSeq(t, 1, Len(s))
    <3>1. SubSeq(t, 1, Len(s)) \in Seq(Nat) /\ Len(SubSeq(t, 1, Len(s))) = Len(s)
      BY <1>1, <2>1, SubSeqProperties
    <3>2. \A i \in 1..Len(s) : SubSeq(t, 1, Len(s))[i] = t[i]
      BY <1>1, <2>1, SubSeqProperties
    <3>3. SubSeq(t, 1, Len(s)) = s
      BY <1>1, <3>1, <3>2, <2>4, SeqEqual
    <3>4. SubSeq(s, 1, Len(s)) = s
      BY <1>1, SubSeqFull
    <3> QED BY <3>3, <3>4
  <2> QED BY <1>1, <2>5 DEF IsPrefix
<1>2. Len(a) \in Nat /\ Len(b) \in Nat
  BY LenProperties
<1>3. Len(a) <= Len(b) \/ Len(b) <= Len(a)
  BY <1>2
<1> QED BY <1>1, <1>3

\* No header satisfies predicates that are apart.
LEMMA HeadersApart ==
    ASSUME NEW a \in [match : {"any", "absent", "present", "exact", "prefix", "sha"},
                      value : Seq(Nat), max : Nat],
           NEW b \in [match : {"any", "absent", "present", "exact", "prefix", "sha"},
                      value : Seq(Nat), max : Nat],
           NEW v \in Seq(Int), HeaderMatches(a, v), HeaderMatches(b, v)
    PROVE  ~header_predicates_disjoint(a, b)
<1> SUFFICES ASSUME header_predicates_disjoint(a, b) PROVE FALSE
  OBVIOUS
<1>1. a.match # "any" /\ b.match # "any"
  BY DEF header_predicates_disjoint
<1>2. (a.match = "absent") <=> (b.match = "absent")
  BY <1>1 DEF HeaderMatches
<1>3. a.match # "absent" /\ b.match # "absent"
  BY <1>1, <1>2 DEF header_predicates_disjoint
<1>4. /\ Len(v) <= a.max /\ Len(v) <= b.max
      /\ a.match \in {"exact", "sha"} => v = a.value
      /\ b.match \in {"exact", "sha"} => v = b.value
      /\ a.match = "prefix" => IsPrefix(a.value, v)
      /\ b.match = "prefix" => IsPrefix(b.value, v)
  BY <1>1, <1>3 DEF HeaderMatches
<1>5. a.max \in Nat /\ b.max \in Nat /\ a.value \in Seq(Nat) /\ b.value \in Seq(Nat)
      /\ Len(v) \in Nat
  BY LenProperties
<1>6. \/ a.match = "exact" /\ Len(a.value) > b.max
      \/ b.match = "exact" /\ Len(b.value) > a.max
      \/ /\ {a.match, b.match} \subseteq {"exact", "sha"}
         /\ a.value # b.value
      \/ /\ a.match = "prefix" /\ b.match = "prefix"
         /\ ~IsPrefix(a.value, b.value) /\ ~IsPrefix(b.value, a.value)
      \/ a.match = "exact" /\ b.match = "prefix" /\ ~IsPrefix(b.value, a.value)
      \/ a.match = "prefix" /\ b.match = "exact" /\ ~IsPrefix(a.value, b.value)
  BY <1>1, <1>3 DEF header_predicates_disjoint
<1>7. ~(a.match = "exact" /\ Len(a.value) > b.max)
  BY <1>4, <1>5
<1>8. ~(b.match = "exact" /\ Len(b.value) > a.max)
  BY <1>4, <1>5
<1>9. ~(a.match = "prefix" /\ b.match = "prefix"
        /\ ~IsPrefix(a.value, b.value) /\ ~IsPrefix(b.value, a.value))
  BY <1>4, <1>5, PrefixesOfOne
<1> QED BY <1>4, <1>6, <1>7, <1>8, <1>9

\* No body satisfies predicates that are apart.
LEMMA BodiesApart ==
    ASSUME NEW a \in [min : Int, max : Nat, sha : Seq(Int),
                      slices : SUBSET [offset : Nat, data : Seq(Nat)]],
           NEW b \in [min : Int, max : Nat, sha : Seq(Int),
                      slices : SUBSET [offset : Nat, data : Seq(Nat)]],
           NEW body \in Seq(Nat), BodyMatches(a, body), BodyMatches(b, body)
    PROVE  ~body_predicates_disjoint(a, b)
<1> SUFFICES ASSUME body_predicates_disjoint(a, b) PROVE FALSE
  OBVIOUS
<1>1. a # AnyBody /\ b # AnyBody
  BY DEF body_predicates_disjoint
<1>2. Len(body) \in Nat
  BY LenProperties
<1>3. ~(a.max < b.min \/ b.max < a.min)
  BY <1>1, <1>2 DEF BodyMatches
<1>4. ~(a.sha # Unset /\ b.sha # Unset /\ a.sha # b.sha)
  BY <1>1 DEF BodyMatches
<1>5. ASSUME NEW s \in a.slices, NEW t \in b.slices PROVE ~SlicesDiffer(s, t)
  <2>1. /\ s \in [offset : Nat, data : Seq(Nat)] /\ t \in [offset : Nat, data : Seq(Nat)]
        /\ SliceEnd(s) <= Len(body) /\ SubSeq(body, s.offset + 1, SliceEnd(s)) = s.data
        /\ SliceEnd(t) <= Len(body) /\ SubSeq(body, t.offset + 1, SliceEnd(t)) = t.data
    BY <1>1, <1>5 DEF BodyMatches
  <2>2. ASSUME NEW r \in [offset : Nat, data : Seq(Nat)], SliceEnd(r) <= Len(body),
               SubSeq(body, r.offset + 1, SliceEnd(r)) = r.data,
               NEW i \in Nat, r.offset <= i, i < SliceEnd(r)
        PROVE  r.data[i - r.offset + 1] = body[i + 1]
    <3>1. /\ r.offset \in Nat /\ r.data \in Seq(Nat) /\ Len(r.data) \in Nat
          /\ SliceEnd(r) = r.offset + Len(r.data)
      BY <2>2, LenProperties DEF SliceEnd
    <3> DEFINE m == r.offset + 1  n == SliceEnd(r)  k == i - r.offset + 1
    <3>2. m \in 1..(Len(body) + 1) /\ n \in 0..Len(body) /\ k \in 1..(n - m + 1)
      <4>1. m \in Nat /\ m >= 1
        BY <3>1
      <4>2. n \in Nat
        BY <3>1
      <4>3. n <= Len(body)
        BY <2>2
      <4>4. r.offset <= i /\ i < n /\ i \in Nat
        BY <2>2
      <4>5. m <= Len(body) + 1
        BY SMTT(20), <3>1, <4>2, <4>3, <4>4, <1>2
      <4>6. k \in Nat /\ k >= 1
        BY SMTT(20), <3>1, <4>4
      <4>7. k <= n - m + 1
        <5>1. \A o, x, y \in Nat : x < y => x - o + 1 <= y - (o + 1) + 1
          OBVIOUS
        <5> QED BY <3>1, <4>2, <4>4, <5>1
      <4>8. k \in 1..(n - m + 1)
        BY <4>1, <4>2, <4>6, <4>7
      <4> QED BY <4>1, <4>2, <4>3, <4>5, <4>8, <1>2
    <3>3. SubSeq(body, m, n)[k] = body[m + k - 1]
      <4> HIDE DEF m, n, k
      <4> QED BY <3>2, SubSeqProperties
    <3>4. m + k - 1 = i + 1
      BY SMTT(20), <3>1
    <3> QED BY <3>3, <3>4, <2>2
  <2>3. SUFFICES ASSUME NEW i \in s.offset .. SliceEnd(s) - 1, t.offset <= i, i < SliceEnd(t),
                        s.data[i - s.offset + 1] # t.data[i - t.offset + 1]
                 PROVE  FALSE
    BY DEF SlicesDiffer
  <2>4. s.offset \in Nat /\ SliceEnd(s) \in Nat /\ i \in Nat /\ s.offset <= i /\ i < SliceEnd(s)
    <3>1. s.offset \in Nat /\ Len(s.data) \in Nat /\ SliceEnd(s) = s.offset + Len(s.data)
      BY <2>1, LenProperties DEF SliceEnd
    <3>2. i \in Int /\ s.offset <= i /\ i <= SliceEnd(s) - 1
      BY <3>1, <2>3
    <3>3. i \in Nat
      BY <3>1, <3>2
    <3>4. i < SliceEnd(s)
      BY <3>1, <3>2
    <3> QED BY <3>1, <3>2, <3>3, <3>4
  <2>5. s.data[i - s.offset + 1] = body[i + 1]
    BY <2>1, <2>2, <2>4
  <2>6. t.data[i - t.offset + 1] = body[i + 1]
    BY <2>1, <2>2, <2>3, <2>4
  <2> QED BY <2>3, <2>5, <2>6
<1> QED BY <1>1, <1>3, <1>4, <1>5 DEF body_predicates_disjoint

\* What a request carries, and an engine the checks at loading let through.
Asked == [line : STRING, header : [HeaderNames -> Seq(Int)], body : Seq(Nat)]

Loaded(e) ==
    /\ e.package \in Seq(Routes)
    /\ e.flags \subseteq Flags
    /\ \A i \in DOMAIN e.package : e.package[i].needs.on \cup e.package[i].needs.off = Flags
    /\ \A i, j \in DOMAIN e.package : i < j => ~routes_overlap(e.package[i], e.package[j])

\* A state satisfies the needs of one kind only when every flag is named.
LEMMA NeedsAreTheState ==
    ASSUME NEW r \in Routes, NEW state \in SUBSET Flags, InState(r, state),
           r.needs.on \cup r.needs.off = Flags
    PROVE  r.needs = [on |-> state, off |-> Flags \ state]
<1>1. r.needs \in [on : SUBSET Flags, off : SUBSET Flags]
  BY DEF Routes
<1>2. r.needs.on = state /\ r.needs.off = Flags \ state
  BY <1>1 DEF InState
<1> QED BY <1>1, <1>2

\* Routes that match one request in one state overlap.
LEMMA MatchesOverlap ==
    ASSUME NEW e, Loaded(e), NEW q \in Asked,
           NEW i \in Matches(e, q), NEW j \in Matches(e, q)
    PROVE  routes_overlap(e.package[i], e.package[j])
<1> DEFINE a == e.package[i]  b == e.package[j]
<1>1. /\ i \in DOMAIN e.package /\ j \in DOMAIN e.package
      /\ a.line = q.line /\ b.line = q.line
      /\ InState(a, e.flags) /\ InState(b, e.flags)
      /\ \A n \in HeaderNames : HeaderMatches(a.header[n], q.header[n])
      /\ \A n \in HeaderNames : HeaderMatches(b.header[n], q.header[n])
      /\ BodyMatches(a.body, q.body) /\ BodyMatches(b.body, q.body)
  BY DEF Matches
<1>2. a \in Routes /\ b \in Routes
  BY <1>1, ElementOfSeq, LenProperties DEF Loaded
<1>3. a.needs = b.needs
  BY ZenonT(40), <1>1, <1>2, NeedsAreTheState DEF Loaded
<1>4. ASSUME NEW n \in HeaderNames
      PROVE  ~header_predicates_disjoint(a.header[n], b.header[n])
  <2>1. /\ a.header[n] \in [match : {"any", "absent", "present", "exact", "prefix", "sha"},
                            value : Seq(Nat), max : Nat]
        /\ b.header[n] \in [match : {"any", "absent", "present", "exact", "prefix", "sha"},
                            value : Seq(Nat), max : Nat]
    BY <1>2, <1>4 DEF Routes
  <2>2. q.header[n] \in Seq(Int)
    BY <1>4 DEF Asked
  <2>3. HeaderMatches(a.header[n], q.header[n]) /\ HeaderMatches(b.header[n], q.header[n])
    BY <1>1, <1>4
  <2> HIDE DEF a, b
  <2> QED BY <2>1, <2>2, <2>3, HeadersApart
<1>5. ~body_predicates_disjoint(a.body, b.body)
  <2>1. /\ a.body \in [min : Int, max : Nat, sha : Seq(Int),
                       slices : SUBSET [offset : Nat, data : Seq(Nat)]]
        /\ b.body \in [min : Int, max : Nat, sha : Seq(Int),
                       slices : SUBSET [offset : Nat, data : Seq(Nat)]]
    BY <1>2 DEF Routes
  <2>2. q.body \in Seq(Nat)
    BY DEF Asked
  <2> HIDE DEF a, b
  <2> QED BY <1>1, <2>1, <2>2, BodiesApart
<1> HIDE DEF a, b
<1> QED BY <1>1, <1>3, <1>4, <1>5 DEF routes_overlap, a, b

\* So a request has one match at the most.
LEMMA MatchIsOne ==
    ASSUME NEW e, Loaded(e), NEW q \in Asked,
           NEW i \in Matches(e, q), NEW j \in Matches(e, q)
    PROVE  i = j
<1>1. i \in DOMAIN e.package /\ j \in DOMAIN e.package
  BY DEF Matches
<1>2. i \in Nat /\ j \in Nat
  BY <1>1, LenProperties DEF Loaded
<1>3. ~(i < j)
  BY <1>1, MatchesOverlap DEF Loaded
<1>4. ~(j < i)
  BY <1>1, MatchesOverlap DEF Loaded
<1> QED BY <1>2, <1>3, <1>4

\* What OneAnswer says of one request.
LEMMA MatchesAreFew ==
    ASSUME NEW e, Loaded(e), NEW q \in Asked
    PROVE  Cardinality(Matches(e, q)) <= 1
<1>1. CASE Matches(e, q) = {}
  BY <1>1, FS_EmptySet
<1>2. CASE Matches(e, q) # {}
  <2>1. PICK i \in Matches(e, q) : TRUE
    BY <1>2
  <2>2. Matches(e, q) = {i}
    BY <2>1, MatchIsOne
  <2>3. Cardinality({i}) = 1
    BY FS_Singleton
  <2> QED BY <2>2, <2>3
<1> QED BY <1>1, <1>2

-----------------------------------------------------------------------------
(* The invariant of the mobile adapter                                      *)

Menus == [pc : {"idle", "create", "ask", "ids", "directory", "fetch", "launch"},
          scn : Scenarios \cup {NoScenario}, id : Ids \cup {0}, own : BOOLEAN,
          listed : BOOLEAN, login : Nat]
Servers == [login : [Ids -> Nat], status : [Ids -> {"none", "PREPARED", "RUNNING", "over"}]]
Directories == [made : BOOLEAN, sav : Int,
                result : [clean : BOOLEAN, flushed : BOOLEAN, hash : Int]]
Runs == [pc : {"off", "manifest", "routes", "boot", "play", "flush", "config", "result", "gone"},
         id : Ids \cup {0}, running : BOOLEAN, clean : BOOLEAN, flushed : BOOLEAN,
         hash : Int, ram : Int]
SocketStates == [pc : {"closed", "tcp", "udp", "connected"}, q : Requests \cup {0},
                 part : 0..2, left : BOOLEAN]
Histories == [left : SUBSET Ids, bodies : SUBSET (Nat \X Seq(Nat)),
              told : SUBSET {"none", "PREPARED", "RUNNING", "over"}]

EngineIsTyped ==
    engine \in [package : {engine.package}, flags : SUBSET Flags,
                uses : [DOMAIN engine.package -> Nat],
                digest : [DOMAIN engine.package -> Seq(Int)]]
SocketsAreTyped ==
    /\ socket \in [Sockets -> SocketStates]
    /\ \A c \in Sockets : socket[c].part = 1 => socket[c].q \in Requests

Typed ==
    /\ menu \in Menus
    /\ kept \in [Scenarios -> Ids \cup {0}]
    /\ server \in Servers
    /\ dir \in [Ids -> Directories]
    /\ run \in Runs
    /\ EngineIsTyped
    /\ SocketsAreTyped
    /\ hist \in Histories

\* The launch holds the request it sends, and has let go of it once the identifiers are sound.
MenuKnows ==
    /\ menu.pc \in {"idle", "create"} <=> menu.id = 0
    /\ menu.pc # "idle" => menu.scn \in Scenarios
    /\ menu.pc \in {"ask", "ids"} => kept[menu.scn] = menu.id
    /\ menu.pc = "ids" => server.status[menu.id] # "none"
    /\ menu.pc \in {"directory", "fetch", "launch"} =>
          menu.id \notin Range(kept) /\ server.status[menu.id] # "none"

\* A request is kept for one scenario.
KeptOnce == \A s, t \in Scenarios : kept[s] = kept[t] /\ kept[s] # 0 => s = t

\* The session that is played is no launch's and no kept request's any more.
RunIsOwn ==
    /\ run.pc = "off" <=> run.id = 0
    /\ run.pc # "off" => /\ run.id \notin Range(kept) /\ run.id # menu.id
                         /\ server.status[run.id] # "none"

\* What the runtime has written so far: no result before its start or its end, and what it
\* notes of the SAV is so.
Receipt ==
    LET d == dir[run.id] IN
    /\ menu.pc = "launch" => dir[menu.id].result = NoResult
    /\ run.pc \in {"manifest", "routes", "boot", "play", "flush"} => ~run.flushed
    /\ run.pc \notin {"off", "gone"} => d.result = NoResult
    /\ run.pc \in {"config", "result"} /\ run.flushed => d.sav = run.ram
    /\ run.pc = "gone" /\ d.result.clean => run.clean /\ run.running
    /\ run.pc = "gone" /\ d.result.flushed => d.sav = run.ram

\* The engine knows the body it has answered for every replay route that has answered.
Remembered ==
    /\ \A b \in hist.bodies : /\ b[1] \in DOMAIN engine.package
                              /\ engine.package[b[1]].replay
                              /\ engine.digest[b[1]] = b[2]
    /\ run.pc \in {"off", "manifest", "routes", "gone"} => hist.bodies = {}

Links == MenuKnows /\ KeptOnce /\ RunIsOwn /\ NoOrphan
Routing == Loaded(engine) /\ Remembered

Inv == Typed /\ Links /\ Receipt /\ Routing

-----------------------------------------------------------------------------
(* What an action that leaves something alone keeps                         *)

\* A session's number is not 0.
LEMMA IdsAreNumbers == Ids \subseteq Nat /\ 0 \notin Ids
BY DEF Ids

\* Who holds which session.
LEMMA LinksStay ==
    ASSUME Inv, UNCHANGED <<menu, kept, server>>, run'.id = run.id,
           run'.pc = "off" <=> run.pc = "off", hist'.left = hist.left
    PROVE  Links'
BY DEF Inv, Links, MenuKnows, KeptOnce, RunIsOwn, NoOrphan, Running

\* What the runtime has written.
LEMMA ReceiptStays ==
    ASSUME Inv, UNCHANGED <<dir, run>>, menu' = menu \/ menu'.pc # "launch"
    PROVE  Receipt'
BY DEF Inv, Receipt

\* A directory without a result, and no directory.
LEMMA NoDirIs ==
    /\ NoResult \in [clean : BOOLEAN, flushed : BOOLEAN, hash : Int]
    /\ NoDir \in Directories /\ NoDir.result = NoResult
<1>1. -1 \in Int
  OBVIOUS
<1>2. Nothing \in Int
  BY <1>1 DEF Nothing
<1>3. NoResult \in [clean : BOOLEAN, flushed : BOOLEAN, hash : Int]
  BY <1>2 DEF NoResult
<1>4. NoDir \in Directories /\ NoDir.result = NoResult
  BY <1>2, <1>3 DEF NoDir, Directories
<1> QED BY <1>3, <1>4

\* What the engine has answered.
LEMMA RoutingStays ==
    ASSUME Inv, UNCHANGED engine, hist'.bodies = hist.bodies,
           run'.pc \in {"off", "manifest", "routes", "gone"} =>
               run.pc \in {"off", "manifest", "routes", "gone"}
    PROVE  Routing'
BY DEF Inv, Routing, Remembered

\* The sockets and the engine keep their types.
LEMMA RuntimeStays ==
    ASSUME Typed, UNCHANGED runtime
    PROVE  (EngineIsTyped /\ SocketsAreTyped)'
BY DEF Typed, EngineIsTyped, SocketsAreTyped, runtime

\* The end of the process, whatever it did to its directory.
LEMMA GoneIs ==
    ASSUME Inv, Gone
    PROVE  /\ run' = [run EXCEPT !.pc = "gone"] /\ run' \in Runs
           /\ hist' \in Histories /\ hist'.left = hist.left /\ hist'.bodies = {}
           /\ (EngineIsTyped /\ SocketsAreTyped)'
           /\ Routing'
<1>1. run' = [run EXCEPT !.pc = "gone"] /\ run' \in Runs
  BY DEF Inv, Typed, Gone, Step, Runs
<1>2. hist' \in Histories /\ hist'.left = hist.left /\ hist'.bodies = {}
  BY DEF Inv, Typed, Gone, Histories
<1>3. engine' = NoEngine /\ engine'.package = <<>> /\ engine'.flags = {}
      /\ DOMAIN engine'.package = {}
  BY DEF Gone, NoEngine, Engine
<1>4. EngineIsTyped'
  BY <1>3 DEF EngineIsTyped, NoEngine, Engine
<1>5. SocketsAreTyped'
  BY DEF Gone, SocketsAreTyped, SocketStates, Closed
<1>6. <<>> \in Seq(Routes)
  OBVIOUS
<1>7. Loaded(engine')
  BY <1>3, <1>6 DEF Loaded
<1>8. Remembered'
  BY <1>2 DEF Remembered
<1> QED BY <1>1, <1>2, <1>4, <1>5, <1>7, <1>8 DEF Routing

\* A session is over, or somebody knows that it was left.
LEMMA CancelIs ==
    ASSUME Inv, NEW i \in Ids, Cancel(i)
    PROVE  /\ server' \in Servers /\ hist' \in Histories
           /\ hist'.bodies = hist.bodies /\ hist.left \subseteq hist'.left
           /\ \A j \in Ids : server'.status[j] = "none" <=> server.status[j] = "none"
           /\ Running' \subseteq Running
           /\ i \in Running' => i \in hist'.left
<1>1. /\ server \in Servers /\ hist \in Histories /\ server.status \in
            [Ids -> {"none", "PREPARED", "RUNNING", "over"}]
  BY DEF Inv, Typed, Servers
<1>2. CASE server' = Terminal(i) /\ UNCHANGED <<faults, hist>>
  <2>1. server' \in Servers
    BY <1>1, <1>2 DEF Terminal, Servers
  <2>2. \A j \in Ids : server'.status[j] =
            IF j = i /\ server.status[i] = "RUNNING" THEN "over" ELSE server.status[j]
    BY <1>1, <1>2 DEF Terminal, Servers
  <2>3. Running' \subseteq Running /\ i \notin Running'
    BY <2>2 DEF Running
  <2> QED BY <1>1, <1>2, <2>1, <2>2, <2>3
<1>3. CASE /\ hist' = [hist EXCEPT !.left = @ \cup (Running \cap {i})]
           /\ UNCHANGED server
  <2>1. hist' \in Histories /\ hist'.bodies = hist.bodies
        /\ hist'.left = hist.left \cup (Running \cap {i})
    BY <1>1, <1>3 DEF Histories, Running
  <2>2. Running' = Running
    BY <1>3 DEF Running
  <2> QED BY <1>1, <1>3, <2>1, <2>2
<1> QED BY <1>2, <1>3 DEF Cancel

-----------------------------------------------------------------------------
(* The client and the server                                                *)

\* The lease of a session that nobody renews lapses.
LEMMA ExpireDueKeeps == ASSUME Inv, ExpireDue PROVE Inv'
<1>1. PICK i \in Running \ {run.id} : /\ server' = Terminal(i)
                                      /\ hist' = [hist EXCEPT !.left = @ \ {i}]
  BY DEF ExpireDue
<1>2. /\ server \in Servers /\ hist \in Histories
      /\ server.status \in [Ids -> {"none", "PREPARED", "RUNNING", "over"}]
      /\ i \in Ids /\ server.status[i] = "RUNNING"
  BY <1>1 DEF Inv, Typed, Servers, Running
<1>3. server' \in Servers
  BY <1>1, <1>2 DEF Terminal, Servers
<1>4. \A j \in Ids : server'.status[j] = IF j = i THEN "over" ELSE server.status[j]
  BY <1>1, <1>2 DEF Terminal, Servers
<1>5. hist' \in Histories /\ hist'.bodies = hist.bodies /\ hist'.left = hist.left \ {i}
  BY <1>1, <1>2 DEF Histories
<1>6. UNCHANGED <<menu, kept, dir, run, runtime>>
  BY DEF ExpireDue
<1>7. Typed'
  BY <1>3, <1>5, <1>6, RuntimeStays DEF Inv, Typed
<1>8. menu.id \in Ids \cup {0} /\ run.id \in Ids \cup {0}
  BY DEF Inv, Typed, Menus, Runs
<1>9. MenuKnows' /\ KeptOnce' /\ RunIsOwn'
  <2>1. menu.id \in Ids => (server'.status[menu.id] = "none" <=> server.status[menu.id] = "none")
    BY <1>2, <1>4
  <2>2. run.id \in Ids => (server'.status[run.id] = "none" <=> server.status[run.id] = "none")
    BY <1>2, <1>4
  <2>3. MenuKnows'
    BY <1>6, <1>8, <2>1 DEF Inv, Links, MenuKnows
  <2>4. RunIsOwn'
    BY <1>6, <1>8, <2>2 DEF Inv, Links, RunIsOwn
  <2>5. KeptOnce'
    BY <1>6 DEF Inv, Links, KeptOnce
  <2> QED BY <2>3, <2>4, <2>5
<1>10. NoOrphan'
  <2>1. Running' \subseteq Running \ {i}
    BY <1>4 DEF Running
  <2> QED BY <2>1, <1>5, <1>6 DEF Inv, Links, NoOrphan
<1>11. Receipt'
  BY <1>6, ReceiptStays
<1>12. Routing'
  BY <1>5, <1>6, RoutingStays DEF runtime
<1> QED BY <1>7, <1>9, <1>10, <1>11, <1>12 DEF Inv, Links

\* The list of scenarios, and a scenario chosen: no session is held yet.
LEMMA ChoosingKeeps == ASSUME Inv, RefreshScenarios \/ StartLocal PROVE Inv'
<1>1. UNCHANGED <<kept, server, dir, run, runtime, hist>>
  BY DEF RefreshScenarios, StartLocal
<1>2. menu \in Menus /\ menu.pc = "idle" /\ menu.id = 0
  BY DEF Inv, Typed, Links, MenuKnows, RefreshScenarios, StartLocal
<1>3. menu' \in Menus /\ menu'.id = 0 /\ menu'.pc \in {"idle", "create"}
      /\ (menu'.pc # "idle" => menu'.scn \in Scenarios)
  <2>1. CASE RefreshScenarios
    BY <1>2, <2>1 DEF RefreshScenarios, Menus
  <2>2. CASE StartLocal
    <3>1. PICK s \in Scenarios :
             menu' = [menu EXCEPT !.pc = "create", !.scn = s, !.own = FALSE]
      BY <2>2 DEF StartLocal
    <3> QED BY <1>2, <3>1 DEF Menus
  <2> QED BY <2>1, <2>2
<1>4. Typed'
  BY <1>1, <1>3, RuntimeStays DEF Inv, Typed
<1>5. Links'
  BY <1>1, <1>2, <1>3 DEF Inv, Links, MenuKnows, KeptOnce, RunIsOwn, NoOrphan, Running
<1>6. Receipt' /\ Routing'
  BY <1>1, <1>3, ReceiptStays, RoutingStays DEF runtime
<1> QED BY <1>4, <1>5, <1>6 DEF Inv

\* The launch is given up before it holds anything, or asks under a kept request.
LEMMA CreateRequestKeeps == ASSUME Inv, CreateRequest PROVE Inv'
<1> USE IdsAreNumbers
<1>1. UNCHANGED <<server, dir, run, runtime, hist>>
  BY DEF CreateRequest
<1>2. /\ menu \in Menus /\ menu.pc = "create" /\ menu.id = 0 /\ menu.scn \in Scenarios
      /\ kept \in [Scenarios -> Ids \cup {0}]
      /\ run.pc # "off" => run.id \in Ids /\ run.id \notin Range(kept)
                           /\ server.status[run.id] # "none"
  BY DEF Inv, Typed, Links, MenuKnows, RunIsOwn, CreateRequest, Runs
<1>3. menu'.pc # "launch"
  BY <1>2 DEF CreateRequest, Idle, Menus
<1>4. Receipt' /\ Routing'
  BY <1>1, <1>3, ReceiptStays, RoutingStays DEF runtime
<1> SUFFICES ASSUME TRUE PROVE Typed' /\ Links'
  BY <1>4 DEF Inv
<1>5. ASSUME kept[menu.scn] # 0, menu' = [menu EXCEPT !.pc = "ask", !.id = kept[menu.scn]],
             kept' = kept
      PROVE  Typed' /\ Links'
  <2>1. /\ menu' \in Menus /\ menu'.pc = "ask" /\ menu'.id = kept[menu.scn]
        /\ menu'.scn = menu.scn /\ menu'.id \in Ids /\ menu'.id \in Range(kept)
    BY <1>2, <1>5 DEF Menus, Range
  <2>2. Typed'
    BY <1>1, <1>5, <2>1, RuntimeStays DEF Inv, Typed
  <2>3. MenuKnows'
    BY <1>2, <1>5, <2>1 DEF MenuKnows
  <2>4. KeptOnce' /\ NoOrphan'
    BY <1>1, <1>2, <1>5 DEF Inv, Links, KeptOnce, NoOrphan, Running
  <2>5. RunIsOwn'
    BY <1>1, <1>2, <1>5, <2>1 DEF Inv, Links, RunIsOwn
  <2> QED BY <2>2, <2>3, <2>4, <2>5 DEF Links
<1>6. ASSUME kept[menu.scn] = 0, NEW i \in NewRequest,
             kept' = [kept EXCEPT ![menu.scn] = i],
             menu' = [menu EXCEPT !.pc = "ask", !.id = i]
      PROVE  Typed' /\ Links'
  <2>1. i \in Ids /\ server.status[i] = "none" /\ i \notin Range(kept)
    BY <1>6 DEF NewRequest
  <2>2. /\ menu' \in Menus /\ menu'.pc = "ask" /\ menu'.id = i /\ menu'.scn = menu.scn
    BY <1>2, <1>6, <2>1 DEF Menus
  <2>3. /\ kept' \in [Scenarios -> Ids \cup {0}]
        /\ \A s \in Scenarios : kept'[s] = IF s = menu.scn THEN i ELSE kept[s]
    BY <1>2, <1>6, <2>1
  <2>4. \A s \in Scenarios : kept[s] # i
    BY <1>2, <2>1 DEF Range
  <2>5. \A x : x # 0 => (x \in Range(kept') <=> x \in Range(kept) \/ x = i)
    BY <1>2, <1>6, <2>3 DEF Range
  <2>6. Typed'
    BY <1>1, <2>2, <2>3, RuntimeStays DEF Inv, Typed
  <2>7. MenuKnows'
    BY <1>2, <2>1, <2>2, <2>3 DEF MenuKnows
  <2>8. KeptOnce'
    BY <2>3, <2>4 DEF Inv, Links, KeptOnce
  <2>9. run.pc # "off" => run.id # i
    BY <1>2, <2>1
  <2>10. RunIsOwn'
    BY <1>1, <1>2, <2>2, <2>5, <2>9 DEF Inv, Links, RunIsOwn
  <2>11. NoOrphan'
    <3>1. Running' = Running /\ Running \subseteq Ids
      BY <1>1 DEF Running
    <3> QED BY <1>1, <1>2, <2>2, <2>5, <3>1 DEF Inv, Links, NoOrphan
  <2> QED BY <2>6, <2>7, <2>8, <2>10, <2>11 DEF Links
<1>7. ASSUME Idle, kept' = kept PROVE Typed' /\ Links'
  <2>1. menu' \in Menus /\ menu'.pc = "idle" /\ menu'.id = 0
    BY <1>2, <1>7 DEF Idle, Menus
  <2>2. Typed'
    BY <1>1, <1>7, <2>1, RuntimeStays DEF Inv, Typed
  <2>3. Links'
    BY <1>1, <1>2, <1>7, <2>1
       DEF Inv, Links, MenuKnows, KeptOnce, RunIsOwn, NoOrphan, Running
  <2> QED BY <2>2, <2>3
<1> QED BY <1>5, <1>6, <1>7 DEF CreateRequest

\* What the server's answer to a create says of the session, and what it records.
LEMMA AnswerIs ==
    ASSUME Inv, menu.pc = "ask"
    PROVE  /\ Recorded(menu.id) \in Servers
           /\ ServerAnswer(menu.id) \in {"conflict", "refused", "session", "terminal"}
           /\ \A j \in Ids : j # menu.id => Recorded(menu.id).status[j] = server.status[j]
           /\ Recorded(menu.id).status[menu.id] = "none" => server.status[menu.id] = "none"
           /\ ServerAnswer(menu.id) = "session" => Recorded(menu.id).status[menu.id] # "none"
           /\ ServerAnswer(menu.id) = "terminal" => Recorded(menu.id).status[menu.id] = "over"
<1> DEFINE i == menu.id
<1>1. /\ server \in Servers /\ menu \in Menus /\ i \in Ids /\ menu.login \in Nat
      /\ server.login \in [Ids -> Nat]
      /\ server.status \in [Ids -> {"none", "PREPARED", "RUNNING", "over"}]
  BY DEF Inv, Typed, Servers, Menus, Links, MenuKnows
<1>2. Created(i) \in Servers
  BY <1>1 DEF Created, Servers
<1>3. /\ \A j \in Ids : j # i => Created(i).status[j] = server.status[j]
      /\ Created(i).status[i] \in {"RUNNING", "PREPARED"}
  BY <1>1 DEF Created, Servers
<1>4. ServerAnswer(i) \in {"conflict", "refused", "session", "terminal"}
      /\ (ServerAnswer(i) = "terminal" => server.status[i] = "over")
  BY <1>1 DEF ServerAnswer
<1> HIDE DEF i
<1>5. Recorded(i) = Created(i) \/ Recorded(i) = server
  BY DEF Recorded
<1>6. ServerAnswer(i) = "terminal" => Recorded(i) = server
  BY DEF Recorded
<1>7. ServerAnswer(i) = "session" => Recorded(i).status[i] # "none"
  BY <1>1, <1>3 DEF Recorded
<1> QED BY <1>1, <1>2, <1>3, <1>4, <1>5, <1>6, <1>7 DEF i

\* What the client makes of an answer, over a server that recorded or never saw the request.
LEMMA TakeKeeps ==
    ASSUME Inv, menu.pc = "ask", NEW answer \in {"conflict", "refused", "session", "terminal", "failed"},
           Take(answer), server' \in {server, Recorded(menu.id)},
           answer = "session" => server'.status[menu.id] # "none",
           answer = "terminal" => server'.status[menu.id] # "RUNNING",
           UNCHANGED <<dir, run, runtime>>
    PROVE  Inv'
<1> USE IdsAreNumbers
<1>1. /\ menu \in Menus /\ menu.id \in Ids /\ menu.scn \in Scenarios /\ kept[menu.scn] = menu.id
      /\ kept \in [Scenarios -> Ids \cup {0}] /\ menu.id \in Range(kept)
      /\ hist \in Histories /\ server \in Servers
      /\ server.status \in [Ids -> {"none", "PREPARED", "RUNNING", "over"}]
  BY DEF Inv, Typed, Menus, Servers, Links, MenuKnows, Range
<1>2. /\ server' \in Servers
      /\ \A j \in Ids : j # menu.id => server'.status[j] = server.status[j]
      /\ \A j \in Ids : server'.status[j] = "none" => server.status[j] = "none"
  BY <1>1, AnswerIs
<1>3. hist' \in Histories /\ hist'.left = hist.left /\ hist'.bodies = hist.bodies
  <2>1. CASE answer = "conflict"
    BY <1>1, <2>1 DEF Take, Histories
  <2>2. CASE answer # "conflict"
    BY <1>1, <2>2 DEF Take
  <2> QED BY <2>1, <2>2
<1>4. Receipt' /\ Routing'
  <2>1. menu'.pc # "launch"
    BY <1>1 DEF Take, Idle, Goto, Menus
  <2> QED BY <1>3, <2>1, ReceiptStays, RoutingStays DEF runtime
<1>5. run \in Runs /\ (run.pc # "off" => run.id \in Ids /\ run.id # menu.id
                          /\ run.id \notin Range(kept) /\ server.status[run.id] # "none")
      /\ (run.pc = "off" <=> run.id = 0)
  BY DEF Inv, Typed, Links, RunIsOwn, Runs
<1>6. run.pc # "off" => server'.status[run.id] # "none"
  BY <1>2, <1>5
<1>7. Running' \subseteq Running \cup {menu.id}
  BY <1>2 DEF Running
<1>8. CASE answer = "session"
  <2>1. /\ menu' \in Menus /\ menu'.pc = "ids" /\ menu'.id = menu.id /\ menu'.scn = menu.scn
        /\ kept' = kept
    BY <1>1, <1>8 DEF Take, Goto, Menus
  <2>2. Typed'
    BY <1>2, <1>3, <2>1, RuntimeStays DEF Inv, Typed
  <2>3. MenuKnows'
    BY <1>1, <1>8, <2>1 DEF MenuKnows
  <2>4. KeptOnce' /\ RunIsOwn'
    BY <2>1, <1>5, <1>6 DEF Inv, Links, KeptOnce, RunIsOwn
  <2>5. NoOrphan'
    BY <1>1, <1>3, <1>7, <2>1 DEF Inv, Links, NoOrphan
  <2> QED BY <1>4, <2>2, <2>3, <2>4, <2>5 DEF Inv, Links
<1>9. CASE answer # "session"
  <2>1. menu' \in Menus /\ menu'.pc = "idle" /\ menu'.id = 0
    BY <1>1, <1>9 DEF Take, Idle, Menus
  <2>2. kept' = kept \/ (answer = "terminal" /\ kept' = [kept EXCEPT ![menu.scn] = 0])
    BY <1>9 DEF Take, KeepRequest
  <2>3. kept' \in [Scenarios -> Ids \cup {0}]
    BY <1>1, <2>2
  <2>4. Typed'
    BY <1>2, <1>3, <2>1, <2>3, RuntimeStays DEF Inv, Typed
  <2>5. MenuKnows'
    BY <2>1 DEF MenuKnows
  <2>6. \A s \in Scenarios : kept'[s] = kept[s] \/ kept'[s] = 0
    BY <1>1, <2>2
  <2>7. KeptOnce'
    BY <2>6 DEF Inv, Links, KeptOnce
  <2>8. Range(kept') \subseteq Range(kept) \cup {0}
    BY <1>1, <2>3, <2>6 DEF Range
  <2>9. RunIsOwn'
    BY <1>5, <1>6, <2>1, <2>8 DEF RunIsOwn
  <2>10. NoOrphan'
    <3>1. CASE kept' = kept
      BY <1>1, <1>3, <1>7, <2>1, <3>1 DEF Inv, Links, NoOrphan
    <3>2. CASE answer = "terminal" /\ kept' = [kept EXCEPT ![menu.scn] = 0]
      <4>1. Running' \subseteq Running \ {menu.id}
        BY <1>7, <3>2 DEF Running
      <4>2. \A x \in Ids : x \in Range(kept) /\ x # menu.id => x \in Range(kept')
        BY <1>1, <3>2 DEF Range
      <4>3. Running \subseteq Ids
        BY DEF Running
      <4> QED BY <4>1, <4>2, <4>3, <1>3, <2>1 DEF Inv, Links, NoOrphan
    <3> QED BY <2>2, <3>1, <3>2
  <2> QED BY <1>4, <2>4, <2>5, <2>7, <2>9, <2>10 DEF Inv, Links
<1> QED BY <1>8, <1>9

\* The create: carried out and answered, or lost on its way there or back.
LEMMA StartSessionKeeps == ASSUME Inv, StartSession PROVE Inv'
<1>1. menu.pc = "ask" /\ UNCHANGED <<dir, run, runtime>>
  BY DEF StartSession
<1>2. ASSUME server' = Recorded(menu.id), NEW answer \in Parsed(ServerAnswer(menu.id)), Take(answer)
      PROVE  Inv'
  <2>1. /\ answer \in {"conflict", "refused", "session", "terminal", "failed"}
        /\ answer = "session" => ServerAnswer(menu.id) = "session"
        /\ answer = "terminal" => ServerAnswer(menu.id) = "terminal"
    BY <1>1, <1>2, AnswerIs DEF Parsed
  <2> QED BY <1>1, <1>2, <2>1, AnswerIs, TakeKeeps
<1>3. ASSUME Take("failed"), server' \in {server, Recorded(menu.id)} PROVE Inv'
  BY <1>1, <1>3, TakeKeeps
<1> QED BY <1>2, <1>3 DEF StartSession

\* The kept request is removed, or the session cancelled with the request still there.
LEMMA CheckIdsKeeps == ASSUME Inv, CheckIds PROVE Inv'
<1> USE IdsAreNumbers
<1>1. /\ menu \in Menus /\ menu.pc = "ids" /\ menu.id \in Ids /\ menu.scn \in Scenarios
      /\ kept[menu.scn] = menu.id /\ server.status[menu.id] # "none"
      /\ kept \in [Scenarios -> Ids \cup {0}] /\ menu.id \in Range(kept)
      /\ UNCHANGED <<dir, run, runtime>>
  BY DEF Inv, Typed, Menus, Links, MenuKnows, Range, CheckIds
<1>2. run \in Runs /\ (run.pc # "off" => run.id \in Ids /\ run.id # menu.id
                          /\ run.id \notin Range(kept) /\ server.status[run.id] # "none")
      /\ (run.pc = "off" <=> run.id = 0)
  BY DEF Inv, Typed, Links, RunIsOwn, Runs
<1>3. ASSUME Goto("directory"), kept' = [kept EXCEPT ![menu.scn] = 0],
             UNCHANGED <<server, faults, hist>>
      PROVE  Inv'
  <2>1. /\ menu' \in Menus /\ menu'.pc = "directory" /\ menu'.id = menu.id
        /\ menu'.scn = menu.scn
    BY <1>1, <1>3 DEF Goto, Menus
  <2>2. /\ kept' \in [Scenarios -> Ids \cup {0}]
        /\ \A s \in Scenarios : kept'[s] = IF s = menu.scn THEN 0 ELSE kept[s]
    BY <1>1, <1>3
  <2>3. menu.id \notin Range(kept')
    BY <1>1, <2>2 DEF Inv, Links, KeptOnce, Range
  <2>4. /\ Range(kept') \subseteq Range(kept) \cup {0}
        /\ \A x \in Ids : x \in Range(kept) /\ x # menu.id => x \in Range(kept')
    BY <1>1, <2>2 DEF Range
  <2>5. Typed'
    BY <1>1, <1>3, <2>1, <2>2, RuntimeStays DEF Inv, Typed
  <2>6. MenuKnows'
    BY <1>1, <1>3, <2>1, <2>3 DEF MenuKnows
  <2>7. KeptOnce'
    BY <2>2 DEF Inv, Links, KeptOnce
  <2>8. RunIsOwn'
    BY <1>1, <1>2, <1>3, <2>1, <2>4 DEF RunIsOwn
  <2>9. NoOrphan'
    BY <1>1, <1>3, <2>1, <2>4 DEF Inv, Links, NoOrphan, Running
  <2>10. Receipt' /\ Routing'
    BY <1>1, <1>3, <2>1, ReceiptStays, RoutingStays DEF runtime
  <2> QED BY <2>5, <2>6, <2>7, <2>8, <2>9, <2>10 DEF Inv, Links
<1>4. ASSUME Idle, Cancel(menu.id), UNCHANGED kept
      PROVE  Inv'
  <2>1. menu' \in Menus /\ menu'.pc = "idle" /\ menu'.id = 0
    BY <1>1, <1>4 DEF Idle, Menus
  <2>2. /\ server' \in Servers /\ hist' \in Histories
        /\ hist'.bodies = hist.bodies /\ hist.left \subseteq hist'.left
        /\ \A j \in Ids : server'.status[j] = "none" <=> server.status[j] = "none"
        /\ Running' \subseteq Running
    BY <1>1, <1>4, CancelIs
  <2>3. Typed'
    BY <1>1, <1>4, <2>1, <2>2, RuntimeStays DEF Inv, Typed
  <2>4. MenuKnows'
    BY <2>1 DEF MenuKnows
  <2>5. KeptOnce'
    BY <1>4 DEF Inv, Links, KeptOnce
  <2>6. RunIsOwn'
    BY <1>1, <1>2, <1>4, <2>1, <2>2 DEF RunIsOwn
  <2>7. NoOrphan'
    BY <1>1, <1>4, <2>1, <2>2 DEF Inv, Links, NoOrphan
  <2>8. Receipt' /\ Routing'
    BY <1>1, <2>1, <2>2, ReceiptStays, RoutingStays DEF runtime
  <2> QED BY <2>3, <2>4, <2>5, <2>6, <2>7, <2>8 DEF Inv, Links
<1> QED BY <1>3, <1>4 DEF CheckIds

\* A launch whose session is cancelled is over; its directory may be gone with it.
LEMMA GivesUp ==
    ASSUME Inv, menu.pc \in {"directory", "fetch", "launch"}, Idle, Cancel(menu.id),
           dir' \in {dir, [dir EXCEPT ![menu.id] = NoDir]}, UNCHANGED <<kept, run, runtime>>
    PROVE  Inv'
<1> USE IdsAreNumbers
<1>1. /\ menu \in Menus /\ menu.id \in Ids /\ dir \in [Ids -> Directories]
      /\ run \in Runs
      /\ (run.pc # "off" => run.id \in Ids /\ run.id # menu.id
                          /\ run.id \notin Range(kept) /\ server.status[run.id] # "none")
      /\ (run.pc = "off" <=> run.id = 0)
  BY DEF Inv, Typed, Menus, Runs, Links, MenuKnows, RunIsOwn
<1>2. menu' \in Menus /\ menu'.pc = "idle" /\ menu'.id = 0
  BY <1>1 DEF Idle, Menus
<1>3. /\ server' \in Servers /\ hist' \in Histories
      /\ hist'.bodies = hist.bodies /\ hist.left \subseteq hist'.left
      /\ \A j \in Ids : server'.status[j] = "none" <=> server.status[j] = "none"
      /\ Running' \subseteq Running
      /\ menu.id \in Running' => menu.id \in hist'.left
  BY <1>1, CancelIs
<1>4. dir' \in [Ids -> Directories] /\ (run.pc # "off" => dir'[run.id] = dir[run.id])
  BY <1>1, NoDirIs
<1>5. Typed'
  BY <1>2, <1>3, <1>4, RuntimeStays DEF Inv, Typed
<1>6. MenuKnows'
  BY <1>2 DEF MenuKnows
<1>7. KeptOnce'
  BY DEF Inv, Links, KeptOnce
<1>8. RunIsOwn'
  BY <1>1, <1>2, <1>3 DEF RunIsOwn
<1>9. NoOrphan'
  BY <1>1, <1>2, <1>3 DEF Inv, Links, NoOrphan
<1>10. Receipt'
  BY <1>1, <1>2, <1>4 DEF Inv, Receipt
<1>11. Routing'
  BY <1>3, RoutingStays DEF runtime
<1> QED BY <1>5, <1>6, <1>7, <1>8, <1>9, <1>10, <1>11 DEF Inv, Links

\* The session's directory is made or filled, and the launch goes on.
LEMMA GoesOn ==
    ASSUME Inv, menu.pc \in {"directory", "fetch"}, NEW next \in {"fetch", "launch"}, Goto(next),
           NEW d \in Directories, d.result = NoResult, dir' = [dir EXCEPT ![menu.id] = d],
           UNCHANGED <<kept, server, run, runtime, hist>>
    PROVE  Inv'
<1> USE IdsAreNumbers
<1>1. /\ menu \in Menus /\ menu.id \in Ids /\ dir \in [Ids -> Directories]
      /\ run \in Runs /\ (run.pc # "off" => run.id \in Ids /\ run.id # menu.id)
  BY DEF Inv, Typed, Menus, Runs, Links, MenuKnows, RunIsOwn
<1>2. menu' \in Menus /\ menu'.pc = next /\ menu'.id = menu.id /\ menu'.scn = menu.scn
  BY <1>1 DEF Goto, Menus
<1>3. dir' \in [Ids -> Directories] /\ (run.pc # "off" => dir'[run.id] = dir[run.id])
  BY <1>1
<1>4. Typed'
  BY <1>2, <1>3, RuntimeStays DEF Inv, Typed
<1>5. MenuKnows'
  BY <1>2 DEF Inv, Links, MenuKnows
<1>6. KeptOnce' /\ RunIsOwn' /\ NoOrphan'
  BY <1>2 DEF Inv, Links, KeptOnce, RunIsOwn, NoOrphan, Running
<1>7. Receipt'
  BY <1>1, <1>2, <1>3 DEF Inv, Receipt
<1>8. Routing'
  BY RoutingStays DEF runtime
<1> QED BY <1>4, <1>5, <1>6, <1>7, <1>8 DEF Inv, Links

\* The directory.
LEMMA MakeDirectoryKeeps == ASSUME Inv, MakeDirectory PROVE Inv'
<1>1. menu.pc = "directory" /\ UNCHANGED <<kept, run, runtime>>
  BY DEF MakeDirectory
<1> DEFINE d == [NoDir EXCEPT !.made = TRUE]
<1>2. d \in Directories /\ d.result = NoResult
  BY NoDirIs DEF Directories
<1>3. CASE /\ Goto("fetch")
           /\ dir' = [dir EXCEPT ![menu.id] = d]
           /\ UNCHANGED <<server, faults, hist>>
  <2> HIDE DEF d
  <2> QED BY <1>1, <1>2, <1>3, GoesOn
<1>4. CASE Abandon
  BY <1>1, <1>4, GivesUp DEF Abandon
<1> QED BY <1>3, <1>4 DEF MakeDirectory

\* A directory with the SAV in it.
LEMMA FilledIs ==
    ASSUME NEW x \in Directories
    PROVE  /\ [x EXCEPT !.sav = 0, !.result = NoResult] \in Directories
           /\ [x EXCEPT !.sav = 0, !.result = NoResult].result = NoResult
<1>1. 0 \in Int
  OBVIOUS
<1>2. NoResult \in [clean : BOOLEAN, flushed : BOOLEAN, hash : Int]
  BY NoDirIs
<1> QED BY <1>1, <1>2 DEF Directories

\* The SAV and the manifest.
LEMMA FetchKeeps == ASSUME Inv, Fetch PROVE Inv'
<1>1. menu.pc = "fetch" /\ UNCHANGED <<kept, run, runtime>>
  BY DEF Fetch
<1>2. CASE /\ Goto("launch")
           /\ dir' = [dir EXCEPT ![menu.id].sav = 0, ![menu.id].result = NoResult]
           /\ UNCHANGED <<server, faults, hist>>
  <2> DEFINE d == [dir[menu.id] EXCEPT !.sav = 0, !.result = NoResult]
  <2>1. dir \in [Ids -> Directories] /\ menu.id \in Ids
    BY <1>1 DEF Inv, Typed, Menus, Links, MenuKnows
  <2>2. d \in Directories /\ d.result = NoResult
    BY <2>1, NoDirIs, FilledIs
  <2>3. dir' = [dir EXCEPT ![menu.id] = d]
    BY <1>2, <2>1
  <2> HIDE DEF d
  <2> QED BY <1>1, <1>2, <2>2, <2>3, GoesOn
<1>3. CASE Abandon
  BY <1>1, <1>3, GivesUp DEF Abandon
<1> QED BY <1>2, <1>3 DEF Fetch

\* The runtime is started, or its monitor cannot be.
LEMMA LaunchKeeps == ASSUME Inv, Launch PROVE Inv'
<1> USE IdsAreNumbers
<1>1. menu.pc = "launch" /\ run.pc = "off" /\ UNCHANGED <<kept, runtime>>
  BY DEF Launch
<1>2. CASE Abandon /\ UNCHANGED run
  BY <1>1, <1>2, GivesUp DEF Abandon
<1>3. CASE Idle /\ Cancel(menu.id) /\ UNCHANGED <<dir, run>>
  BY <1>1, <1>3, GivesUp
<1>4. CASE /\ run' = [Off EXCEPT !.pc = "manifest", !.id = menu.id, !.running = TRUE]
           /\ menu' = [menu EXCEPT !.pc = "idle", !.id = 0, !.scn = NoScenario, !.own = TRUE]
           /\ UNCHANGED <<server, dir, faults, hist>>
  <2>1. /\ menu \in Menus /\ menu.id \in Ids /\ menu.id \notin Range(kept)
        /\ server.status[menu.id] # "none" /\ run.id = 0
    BY <1>1 DEF Inv, Typed, Menus, Links, MenuKnows, RunIsOwn
  <2>2. /\ run' \in Runs /\ run'.pc = "manifest" /\ run'.id = menu.id /\ ~run'.flushed
    <3>1. Nothing \in Int /\ 0 \in Int
      <4>1. -1 \in Int
        OBVIOUS
      <4> QED BY <4>1 DEF Nothing
    <3> QED BY <1>4, <2>1, <3>1 DEF Off, Runs
  <2>3. menu' \in Menus /\ menu'.pc = "idle" /\ menu'.id = 0
    BY <1>4, <2>1 DEF Menus
  <2>4. Typed'
    BY <1>1, <1>4, <2>2, <2>3, RuntimeStays DEF Inv, Typed
  <2>5. MenuKnows' /\ KeptOnce' /\ RunIsOwn'
    BY <1>1, <1>4, <2>1, <2>2, <2>3 DEF Inv, Links, MenuKnows, KeptOnce, RunIsOwn
  <2>6. NoOrphan'
    BY <1>1, <1>4, <2>1, <2>2, <2>3 DEF Inv, Links, NoOrphan, Running
  <2>7. Receipt'
    BY <1>1, <1>4, <2>2, <2>3 DEF Inv, Receipt
  <2>8. Routing'
    BY <1>1, <1>4, <2>2, RoutingStays DEF runtime
  <2> QED BY <2>4, <2>5, <2>6, <2>7, <2>8 DEF Inv, Links
<1> QED BY <1>2, <1>3, <1>4 DEF Launch

\* Another login; no session is being launched.
LEMMA LogInKeeps == ASSUME Inv, LogIn PROVE Inv'
<1>1. UNCHANGED <<kept, server, dir, run, runtime, hist>> /\ menu.pc = "idle"
      /\ menu' = [menu EXCEPT !.login = @ + 1]
  BY DEF LogIn
<1>2. menu' \in Menus /\ menu'.pc = "idle" /\ menu'.id = 0 /\ menu.id = 0
  BY <1>1 DEF Inv, Typed, Links, MenuKnows, Menus
<1>3. Typed'
  BY <1>1, <1>2, RuntimeStays DEF Inv, Typed
<1>4. Links'
  BY <1>1, <1>2 DEF Inv, Links, MenuKnows, KeptOnce, RunIsOwn, NoOrphan, Running
<1>5. Receipt' /\ Routing'
  BY <1>1, <1>2, ReceiptStays, RoutingStays DEF runtime
<1> QED BY <1>3, <1>4, <1>5 DEF Inv

\* What the client held when it died is kept on disk or left behind.
LEMMA ClientDiesKeeps == ASSUME Inv, ClientDies PROVE Inv'
<1> USE IdsAreNumbers
<1>1. /\ UNCHANGED <<kept, server, dir, run, runtime>>
      /\ menu' = [menu EXCEPT !.pc = "idle", !.id = 0, !.scn = NoScenario, !.own = FALSE]
      /\ hist' = [hist EXCEPT !.left = @ \cup ((Running \cap {menu.id}) \ Range(kept))]
  BY DEF ClientDies
<1>2. menu' \in Menus /\ menu'.pc = "idle" /\ menu'.id = 0
  BY <1>1 DEF Inv, Typed, Menus
<1>3. hist' \in Histories /\ hist'.bodies = hist.bodies
      /\ hist'.left = hist.left \cup ((Running \cap {menu.id}) \ Range(kept))
  BY <1>1 DEF Inv, Typed, Histories, Running
<1>4. Typed'
  BY <1>1, <1>2, <1>3, RuntimeStays DEF Inv, Typed
<1>5. MenuKnows'
  BY <1>2 DEF MenuKnows
<1>6. KeptOnce'
  BY <1>1 DEF Inv, Links, KeptOnce
<1>7. RunIsOwn'
  <2>1. run.pc # "off" => run.id # 0
    BY DEF Inv, Links, RunIsOwn
  <2> QED BY <1>1, <1>2, <2>1 DEF Inv, Links, RunIsOwn
<1>8. NoOrphan'
  <2>1. Running' = Running /\ Running \subseteq Ids
    BY <1>1 DEF Running
  <2> QED BY <1>1, <1>2, <1>3, <2>1 DEF Inv, Links, NoOrphan
<1>9. Receipt' /\ Routing'
  BY <1>1, <1>2, <1>3, ReceiptStays, RoutingStays DEF runtime
<1> QED BY <1>4, <1>5, <1>6, <1>7, <1>8, <1>9 DEF Inv, Links

-----------------------------------------------------------------------------
(* The runtime                                                              *)

\* A step of the process that leaves the client and the server alone.
LEMMA RunMoves ==
    ASSUME Inv, UNCHANGED <<menu, kept, server>>, run' \in Runs, run'.id = run.id,
           run'.pc = "off" <=> run.pc = "off",
           dir' \in [Ids -> Directories], hist' \in Histories, hist'.left = hist.left,
           (EngineIsTyped /\ SocketsAreTyped)', Receipt', Routing'
    PROVE  Inv'
BY LinksStay DEF Inv, Typed

\* A process that runs has a session, with a directory of its own.
LEMMA RunIs ==
    ASSUME Inv, run.pc # "off"
    PROVE  /\ run \in Runs /\ run.id \in Ids /\ run.id # menu.id
           /\ dir \in [Ids -> Directories] /\ dir[run.id] \in Directories
BY IdsAreNumbers DEF Inv, Typed, Runs, Links, RunIsOwn

\* The process moves on, and leaves its directory and its engine as they are.
LEMMA RunStays ==
    ASSUME Inv, run.pc # "off", UNCHANGED <<menu, kept, server, dir, runtime, hist>>,
           run' \in Runs, run'.id = run.id, run'.pc \notin {"off", "gone"},
           run'.pc = "routes" => run.pc = "manifest",
           run'.pc # "manifest", run.pc # "gone",
           run'.flushed = run.flushed,
           run'.pc \in {"boot", "play", "flush"} => run.pc \in {"boot", "play"},
           run'.pc \in {"config", "result"} => run.pc \in {"config", "flush"} /\ run'.ram = run.ram
    PROVE  Inv'
<1>1. Receipt'
  BY DEF Inv, Receipt
<1>2. Routing'
  BY RoutingStays DEF runtime
<1>3. (EngineIsTyped /\ SocketsAreTyped)'
  BY RuntimeStays DEF Inv
<1>4. dir' \in [Ids -> Directories] /\ hist' \in Histories
  BY DEF Inv, Typed
<1> QED BY <1>1, <1>2, <1>3, <1>4, RunMoves

\* A process that ends without a result leaves none.
LEMMA EndsKeeps ==
    ASSUME Inv, Gone, run.pc \notin {"off", "gone"}, UNCHANGED <<menu, kept, server, dir>>
    PROVE  Inv'
<1>1. run'.pc = "gone" /\ run'.id = run.id
  BY RunIs DEF Gone, Step, Runs
<1>2. ~NoResult.clean /\ ~NoResult.flushed
  BY DEF NoResult
<1>3. Receipt'
  BY <1>1, <1>2 DEF Inv, Receipt
<1>4. dir' \in [Ids -> Directories]
  BY DEF Inv, Typed
<1> QED BY <1>1, <1>3, <1>4, GoneIs, RunMoves

\* The manifest and what it names.
LEMMA LoadManifestKeeps == ASSUME Inv, LoadManifest PROVE Inv'
<1>1. run.pc = "manifest" /\ UNCHANGED <<menu, kept, server, dir>>
  BY DEF LoadManifest
<1>2. CASE Step("routes") /\ UNCHANGED <<runtime, hist>>
  <2>1. /\ run' \in Runs /\ run'.id = run.id /\ run'.pc = "routes"
        /\ run'.flushed = run.flushed
    BY <1>1, <1>2, RunIs DEF Step, Runs
  <2>2. Receipt'
    BY <1>1, <2>1 DEF Inv, Receipt
  <2>3. Routing'
    BY <1>1, <1>2, <2>1, RoutingStays DEF runtime
  <2> QED BY <1>1, <1>2, <2>1, RunStays
<1>3. CASE Gone
  BY <1>1, <1>3, EndsKeeps
<1> QED BY <1>2, <1>3 DEF LoadManifest

\* The checks at loading say what Loaded asks of an engine.
LEMMA AcceptedIsLoaded ==
    ASSUME NEW package \in Packages, Accepted(package, FirstFlags)
    PROVE  Loaded(Engine(package, FirstFlags))
<1>1. package \in Seq(Routes) /\ FirstFlags \subseteq Flags
  BY MobileAssumption
<1>2. /\ Engine(package, FirstFlags).package = package
      /\ Engine(package, FirstFlags).flags = FirstFlags
  BY DEF Engine
<1>3. validate_schema_two_routes(package, FirstFlags)
  BY DEF Accepted
<1> QED BY <1>1, <1>2, <1>3 DEF Loaded, validate_schema_two_routes

\* An engine that starts.
LEMMA FirstEngineIs ==
    ASSUME NEW package \in Seq(Routes), engine' = Engine(package, FirstFlags)
    PROVE  EngineIsTyped'
<1>1. /\ engine' = [package |-> package, flags |-> FirstFlags,
                     uses |-> [i \in DOMAIN package |-> 0],
                     digest |-> [i \in DOMAIN package |-> Unset]]
      /\ FirstFlags \subseteq Flags
  BY MobileAssumption DEF Engine
<1>2. Unset \in Seq(Int)
  <2>1. -1 \in Int
    OBVIOUS
  <2> QED BY <2>1 DEF Unset
<1> QED BY <1>1, <1>2 DEF EngineIsTyped

\* The package: an engine over one that is sound, or the end.
LEMMA LoadRoutesKeeps == ASSUME Inv, LoadRoutes PROVE Inv'
<1>1. run.pc = "routes" /\ UNCHANGED <<menu, kept, server, dir>>
  BY DEF LoadRoutes
<1>2. PICK package \in Packages :
         IF Accepted(package, FirstFlags)
         THEN /\ Step("boot")
              /\ engine' = Engine(package, FirstFlags)
              /\ UNCHANGED <<socket, hist>>
         ELSE Gone
  BY DEF LoadRoutes
<1>3. CASE ~Accepted(package, FirstFlags)
  BY <1>1, <1>2, <1>3, EndsKeeps
<1>4. CASE Accepted(package, FirstFlags)
  <2>1. /\ run' \in Runs /\ run'.id = run.id /\ run'.pc = "boot"
        /\ run'.flushed = run.flushed
    BY <1>1, <1>2, <1>4, RunIs DEF Step, Runs
  <2>2. engine' = Engine(package, FirstFlags) /\ UNCHANGED <<socket, hist>>
    BY <1>2, <1>4
  <2>3. EngineIsTyped'
    BY <2>2, FirstEngineIs, MobileAssumption
  <2>4. SocketsAreTyped'
    BY <2>2 DEF Inv, Typed, SocketsAreTyped
  <2>5. hist.bodies = {}
    BY <1>1 DEF Inv, Routing, Remembered
  <2>6. Routing'
    BY <1>4, <2>2, <2>5, AcceptedIsLoaded DEF Routing, Remembered
  <2>7. Receipt'
    BY <1>1, <2>1 DEF Inv, Receipt
  <2>8. dir' \in [Ids -> Directories] /\ hist' \in Histories
    BY <1>1, <2>2 DEF Inv, Typed
  <2> QED BY <1>1, <2>1, <2>2, <2>3, <2>4, <2>6, <2>7, <2>8, RunMoves
<1> QED BY <1>3, <1>4

\* The start of the game, a frame of it and its end.
LEMMA PlayKeeps == ASSUME Inv, Boot \/ RunFrame \/ PollWindow PROVE Inv'
<1>1. /\ run.pc \in {"boot", "play"}
      /\ UNCHANGED <<menu, kept, server, dir, runtime, hist>>
  BY DEF Boot, RunFrame, PollWindow, Playing, PlayerKeeps
<1>2. run \in Runs /\ dir[run.id].sav \in Int
  BY <1>1, RunIs DEF Directories
<1>3. /\ run' \in Runs /\ run'.id = run.id /\ run'.flushed = run.flushed
      /\ run'.pc \in {"play", "flush"}
  <2>1. CASE Boot
    <3>1. CASE run' = [run EXCEPT !.pc = "play", !.ram = dir[run.id].sav]
      BY <1>2, <3>1 DEF Runs
    <3>2. CASE Fail("flush")
      BY <1>2, <3>2 DEF Fail, Runs
    <3> QED BY <2>1, <3>1, <3>2 DEF Boot
  <2>2. CASE RunFrame
    <3>1. ASSUME NEW m \in 0..MaxRam, run' = [run EXCEPT !.ram = m]
          PROVE  /\ run' \in Runs /\ run'.id = run.id /\ run'.flushed = run.flushed
                 /\ run'.pc \in {"play", "flush"}
      <4>1. m \in Int /\ run.pc = "play"
        BY <2>2 DEF RunFrame, Playing
      <4> QED BY <1>2, <3>1, <4>1 DEF Runs
    <3>2. CASE Fail("flush")
      BY <1>2, <3>2 DEF Fail, Runs
    <3> QED BY <2>2, <3>1, <3>2 DEF RunFrame
  <2>3. CASE PollWindow
    BY <1>2, <2>3 DEF PollWindow, Runs
  <2> QED BY <2>1, <2>2, <2>3
<1> QED BY <1>1, <1>3, RunStays

\* The SAV is written, or not; only what was written is noted.
LEMMA SaveBatteryKeeps == ASSUME Inv, SaveBattery PROVE Inv'
<1>1. run.pc = "flush" /\ UNCHANGED <<menu, kept, server, runtime, hist>>
  BY DEF SaveBattery
<1>2. /\ run \in Runs /\ run.id \in Ids /\ run.id # menu.id /\ run.ram \in Int
      /\ dir \in [Ids -> Directories] /\ dir[run.id].result = NoResult /\ ~run.flushed
  BY <1>1, RunIs DEF Runs, Inv, Receipt
<1>3. CASE Step("config") /\ UNCHANGED dir
  <2>1. /\ run' \in Runs /\ run'.id = run.id /\ run'.pc = "config"
        /\ run'.flushed = run.flushed /\ run'.ram = run.ram
    BY <1>2, <1>3 DEF Step, Runs
  <2> QED BY <1>1, <1>3, <2>1, RunStays
<1>4. CASE /\ dir' = [dir EXCEPT ![run.id].sav = run.ram]
           /\ \/ run' = [run EXCEPT !.pc = "config", !.flushed = TRUE, !.hash = run.ram]
              \/ Step("config")
  <2>1. /\ run' \in Runs /\ run'.id = run.id /\ run'.pc = "config" /\ run'.ram = run.ram
    BY <1>2, <1>4 DEF Step, Runs
  <2>2. dir' \in [Ids -> Directories]
    BY <1>2, <1>4 DEF Directories
  <2>3. dir'[run.id].sav = run.ram /\ dir'[run.id].result = NoResult
    BY <1>2, <1>4 DEF Directories
  <2>4. menu.pc = "launch" => dir'[menu.id] = dir[menu.id]
    BY <1>2, <1>4, IdsAreNumbers DEF Inv, Typed, Menus, Links, MenuKnows
  <2>5. Receipt'
    BY <1>1, <2>1, <2>3, <2>4 DEF Inv, Receipt
  <2>6. Routing'
    BY <1>1, <2>1, RoutingStays DEF runtime
  <2>7. (EngineIsTyped /\ SocketsAreTyped)' /\ hist' \in Histories
    BY <1>1, RuntimeStays DEF Inv, Typed
  <2> QED BY <1>1, <2>1, <2>2, <2>5, <2>6, <2>7, RunMoves
<1> QED BY <1>3, <1>4 DEF SaveBattery

\* The adapter's configuration.
LEMMA SaveConfigKeeps == ASSUME Inv, SaveConfig PROVE Inv'
<1>1. run.pc = "config" /\ UNCHANGED <<menu, kept, server, dir, runtime, hist>>
  BY DEF SaveConfig
<1>2. /\ run' \in Runs /\ run'.id = run.id /\ run'.pc = "result"
      /\ run'.flushed = run.flushed /\ run'.ram = run.ram
  <2>1. run \in Runs
    BY <1>1, RunIs
  <2>2. CASE Step("result")
    BY <2>1, <2>2 DEF Step, Runs
  <2>3. CASE Fail("result")
    BY <2>1, <2>3 DEF Fail, Runs
  <2> QED BY <2>2, <2>3 DEF SaveConfig
<1> QED BY <1>1, <1>2, RunStays

\* The result, whole or not at all.
LEMMA WriteResultKeeps == ASSUME Inv, WriteResult PROVE Inv'
<1>1. run.pc = "result" /\ Gone /\ UNCHANGED <<menu, kept, server>>
  BY DEF WriteResult
<1>2. CASE UNCHANGED dir
  BY <1>1, <1>2, EndsKeeps
<1> DEFINE r == [clean |-> run.running /\ run.clean, flushed |-> run.flushed, hash |-> run.hash]
<1>3. CASE dir' = [dir EXCEPT ![run.id].result = r]
  <2>1. /\ run \in Runs /\ run.id \in Ids /\ run.id # menu.id
        /\ dir \in [Ids -> Directories]
        /\ run.flushed => dir[run.id].sav = run.ram
    BY <1>1, RunIs DEF Inv, Receipt
  <2>2. /\ r \in [clean : BOOLEAN, flushed : BOOLEAN, hash : Int]
        /\ r.clean <=> run.running /\ run.clean
        /\ r.flushed = run.flushed
    BY <2>1 DEF Runs
  <2>3. /\ run'.pc = "gone" /\ run'.id = run.id /\ run'.ram = run.ram
        /\ run'.clean = run.clean /\ run'.running = run.running
    BY <1>1, <2>1, GoneIs DEF Runs
  <2> HIDE DEF r
  <2>4. dir' \in [Ids -> Directories]
    BY <1>3, <2>1, <2>2 DEF Directories
  <2>5. dir'[run.id].sav = dir[run.id].sav /\ dir'[run.id].result = r
    BY <1>3, <2>1 DEF Directories
  <2>6. menu.pc = "launch" => dir'[menu.id] = dir[menu.id]
    BY <1>3, <2>1, IdsAreNumbers DEF Inv, Typed, Menus, Links, MenuKnows
  <2>7. Receipt'
    BY <1>1, <2>1, <2>2, <2>3, <2>5, <2>6 DEF Inv, Receipt
  <2> QED BY <1>1, <2>3, <2>4, <2>7, GoneIs, RunMoves
<1> QED BY <1>2, <1>3 DEF WriteResult

\* The monitor completes or cancels the session and removes the directory.
LEMMA SettleKeeps == ASSUME Inv, Settle PROVE Inv'
<1> USE IdsAreNumbers
<1>1. /\ run.pc = "gone" /\ run' = Off /\ UNCHANGED <<kept, runtime>>
      /\ menu' = [menu EXCEPT !.own = FALSE]
      /\ dir' = [dir EXCEPT ![run.id] = NoDir]
      /\ Cancel(run.id)
  BY DEF Settle, Cancel
<1>2. /\ run.id \in Ids /\ run.id # menu.id /\ dir \in [Ids -> Directories]
      /\ menu \in Menus
  BY <1>1, RunIs DEF Inv, Typed
<1>3. /\ server' \in Servers /\ hist' \in Histories
      /\ hist'.bodies = hist.bodies /\ hist.left \subseteq hist'.left
      /\ \A j \in Ids : server'.status[j] = "none" <=> server.status[j] = "none"
      /\ Running' \subseteq Running
      /\ run.id \in Running' => run.id \in hist'.left
  BY <1>1, <1>2, CancelIs
<1>4. /\ menu' \in Menus /\ menu'.pc = menu.pc /\ menu'.id = menu.id
      /\ menu'.scn = menu.scn
  BY <1>1, <1>2 DEF Menus
<1>5. /\ run' \in Runs /\ run'.pc = "off" /\ run'.id = 0
  <2>1. Nothing \in Int /\ 0 \in Int
    <3>1. -1 \in Int
      OBVIOUS
    <3> QED BY <3>1 DEF Nothing
  <2> QED BY <1>1, <2>1 DEF Off, Runs
<1>6. dir' \in [Ids -> Directories] /\ \A i \in Ids : i # run.id => dir'[i] = dir[i]
  BY <1>1, <1>2, NoDirIs
<1>7. Typed'
  BY <1>1, <1>3, <1>4, <1>5, <1>6, RuntimeStays DEF Inv, Typed
<1>8. menu.id \in Ids \cup {0}
  BY <1>2 DEF Menus
<1>9. MenuKnows'
  BY <1>1, <1>3, <1>4, <1>8 DEF Inv, Links, MenuKnows
<1>10. KeptOnce'
  BY <1>1 DEF Inv, Links, KeptOnce
<1>11. RunIsOwn'
  BY <1>5 DEF RunIsOwn
<1>12. NoOrphan'
  BY <1>1, <1>2, <1>3, <1>4 DEF Inv, Links, NoOrphan
<1>13. menu.pc = "launch" => dir'[menu.id] = dir[menu.id]
  BY <1>2, <1>6, <1>8 DEF Inv, Links, MenuKnows
<1>14. Receipt'
  BY <1>4, <1>5, <1>13 DEF Inv, Receipt
<1>15. Routing'
  BY <1>1, <1>3, RoutingStays DEF runtime
<1> QED BY <1>7, <1>9, <1>10, <1>11, <1>12, <1>14, <1>15 DEF Inv, Links

-----------------------------------------------------------------------------
(* The adapter's sockets and the routes                                     *)

\* A socket that changes.
LEMMA SocketMoves ==
    ASSUME SocketsAreTyped, NEW c \in Sockets, NEW s \in SocketStates,
           s.part = 1 => s.q \in Requests, socket' = [socket EXCEPT ![c] = s]
    PROVE  SocketsAreTyped'
BY DEF SocketsAreTyped

\* A socket with a whole request's answer, and one with a request's first part.
LEMMA SocketHolds ==
    ASSUME NEW x \in SocketStates, NEW b \in BOOLEAN, NEW q \in Requests
    PROVE  /\ [x EXCEPT !.q = 0, !.part = 2, !.left = b] \in SocketStates
           /\ [x EXCEPT !.q = 0, !.part = 2, !.left = b].part # 1
           /\ [x EXCEPT !.q = q, !.part = 1] \in SocketStates
           /\ [x EXCEPT !.q = q, !.part = 1].q = q
<1>1. 2 \in 0..2 /\ 1 \in 0..2 /\ 2 # 1
  OBVIOUS
<1>2. /\ [x EXCEPT !.q = 0, !.part = 2, !.left = b] \in SocketStates
      /\ [x EXCEPT !.q = 0, !.part = 2, !.left = b].part # 1
  BY <1>1 DEF SocketStates
<1>3. /\ [x EXCEPT !.q = q, !.part = 1] \in SocketStates
      /\ [x EXCEPT !.q = q, !.part = 1].q = q
  BY <1>1 DEF SocketStates
<1> QED BY <1>2, <1>3

\* Nothing but the sockets changes.
LEMMA OnlySockets ==
    ASSUME Inv, run.pc = "play", UNCHANGED <<run, engine, hist>>, PlayerKeeps, SocketsAreTyped'
    PROVE  Inv'
<1>1. UNCHANGED <<menu, kept, server, dir, run, engine, hist>>
  BY DEF PlayerKeeps
<1>2. Links' /\ Receipt' /\ Routing'
  BY <1>1, LinksStay, ReceiptStays, RoutingStays
<1>3. Typed'
  BY <1>1 DEF Inv, Typed, EngineIsTyped
<1> QED BY <1>2, <1>3 DEF Inv

\* Opening, connecting, resolving, receiving and closing.
LEMMA SocketsKeep ==
    ASSUME Inv, NEW c \in Sockets,
           SockOpen(c) \/ SockConnect(c) \/ SockClose(c) \/ DnsResponse(c) \/ SockRecv(c)
    PROVE  Inv'
<1>1. run.pc = "play" /\ UNCHANGED <<run, engine, hist>> /\ PlayerKeeps
  BY DEF SockOpen, SockConnect, SockClose, DnsResponse, SockRecv, Playing
<1>2. SocketsAreTyped /\ socket[c] \in SocketStates /\ socket \in [Sockets -> SocketStates]
      /\ (socket[c].part = 1 => socket[c].q \in Requests)
  BY DEF Inv, Typed, SocketsAreTyped
<1>3. \E s \in SocketStates : /\ s.part = 1 => s.q \in Requests
                              /\ socket' = [socket EXCEPT ![c] = s]
  <2>1. CASE SockOpen(c)
    <3>1. PICK kind \in {"tcp", "udp"} : socket' = [socket EXCEPT ![c].pc = kind]
      BY <2>1 DEF SockOpen
    <3>2. [socket[c] EXCEPT !.pc = kind] \in SocketStates
      BY <1>2 DEF SocketStates
    <3>3. /\ [socket[c] EXCEPT !.pc = kind].part = socket[c].part
          /\ [socket[c] EXCEPT !.pc = kind].q = socket[c].q
      BY <1>2 DEF SocketStates
    <3> QED BY <1>2, <3>1, <3>2, <3>3
  <2>2. CASE SockConnect(c)
    <3>1. [socket[c] EXCEPT !.pc = "connected"] \in SocketStates
      BY <1>2 DEF SocketStates
    <3>2. /\ [socket[c] EXCEPT !.pc = "connected"].part = socket[c].part
          /\ [socket[c] EXCEPT !.pc = "connected"].q = socket[c].q
      BY <1>2 DEF SocketStates
    <3> QED BY <1>2, <2>2, <3>1, <3>2 DEF SockConnect
  <2>3. CASE SockClose(c)
    <3>1. Closed \in SocketStates /\ Closed.part # 1
      BY DEF Closed, SocketStates
    <3> QED BY <2>3, <3>1 DEF SockClose
  <2>4. CASE DnsResponse(c)
    <3>1. PICK left \in BOOLEAN : socket' = [socket EXCEPT ![c].part = 2, ![c].left = left]
      BY <2>4 DEF DnsResponse
    <3> DEFINE half == [socket[c] EXCEPT !.part = 2]
               s == [half EXCEPT !.left = left]
    <3>2. half \in SocketStates
      BY <1>2 DEF SocketStates
    <3>3. s \in SocketStates /\ s.part = half.part
      BY <3>2 DEF SocketStates
    <3>4. half.part = 2
      BY <1>2 DEF SocketStates
    <3>5. socket' = [socket EXCEPT ![c] = s]
      BY <1>2, <3>1, Zenon
    <3>6. s.part = 1 => s.q \in Requests
      BY <3>3, <3>4
    <3> QED BY <3>3, <3>5, <3>6
  <2>5. CASE SockRecv(c)
    <3>1. [socket[c] EXCEPT !.left = FALSE] \in SocketStates
      BY <1>2 DEF SocketStates
    <3>2. /\ [socket[c] EXCEPT !.left = FALSE].part = socket[c].part
          /\ [socket[c] EXCEPT !.left = FALSE].q = socket[c].q
      BY <1>2 DEF SocketStates
    <3> QED BY <1>2, <2>5, <3>1, <3>2 DEF SockRecv
  <2> QED BY <2>1, <2>2, <2>3, <2>4, <2>5
<1>4. SocketsAreTyped'
  BY <1>2, <1>3, SocketMoves
<1> QED BY <1>1, <1>4, OnlySockets

\* RESET closes every socket.
LEMMA ResetConsoleKeeps == ASSUME Inv, ResetConsole PROVE Inv'
<1>1. SocketsAreTyped'
  BY DEF ResetConsole, SocketsAreTyped, SocketStates, Closed
<1> QED BY <1>1, OnlySockets DEF ResetConsole, Playing

\* What the answer of a request does to the engine.
LEMMA AnsweredIs ==
    ASSUME EngineIsTyped, Loaded(engine), NEW q \in Asked, Answerable(engine, q),
           engine' = Answered(engine, q)
    PROVE  \E i \in DOMAIN engine.package :
             /\ Matches(engine, q) = {i}
             /\ EngineIsTyped' /\ Loaded(engine') /\ engine'.package = engine.package
             /\ \A j \in DOMAIN engine.package :
                  engine'.digest[j] =
                     IF j = i /\ engine.package[i].replay /\ engine.digest[i] = Unset
                     THEN q.body ELSE engine.digest[j]
<1> DEFINE i == RouteOf(engine, q)
           r == engine.package[i]
<1>1. Matches(engine, q) # {}
  BY FS_EmptySet DEF Answerable
<1>2. i \in Matches(engine, q)
  BY <1>1 DEF RouteOf
<1>3. Matches(engine, q) = {i}
  BY <1>2, MatchIsOne
<1>4. i \in DOMAIN engine.package
  BY <1>2 DEF Matches
<1>5. r \in Routes
  BY <1>4, ElementOfSeq, LenProperties DEF Loaded
<1>6. After(r, engine.flags) \subseteq Flags
  <2>1. r.sets.on \subseteq Flags
    BY <1>5 DEF Routes
  <2> QED BY <2>1 DEF After, Loaded
<1>7. q.body \in Seq(Int)
  <2>1. q.body \in Seq(Nat)
    BY DEF Asked
  <2>2. Nat \subseteq Int
    OBVIOUS
  <2> QED BY <2>1, <2>2, SeqMonotonic
<1>8. engine' = [engine EXCEPT !.flags = After(r, @), !.uses[i] = @ + 1,
                   !.digest[i] = IF r.replay /\ @ = Unset THEN q.body ELSE @]
  BY DEF Answered
<1> HIDE DEF i
<1>9. /\ engine'.package = engine.package /\ engine'.flags = After(r, engine.flags)
      /\ engine'.uses = [engine.uses EXCEPT ![i] = @ + 1]
      /\ engine'.digest = [engine.digest EXCEPT ![i] =
                             IF r.replay /\ @ = Unset THEN q.body ELSE @]
  BY <1>8 DEF EngineIsTyped
<1>10. engine.uses \in [DOMAIN engine.package -> Nat]
       /\ engine.digest \in [DOMAIN engine.package -> Seq(Int)]
  BY DEF EngineIsTyped
<1>11. engine'.uses \in [DOMAIN engine.package -> Nat]
  BY <1>4, <1>9, <1>10
<1>12. engine'.digest \in [DOMAIN engine.package -> Seq(Int)]
  BY <1>4, <1>7, <1>9, <1>10
<1>13. EngineIsTyped'
  <2>1. engine' = [package |-> engine'.package, flags |-> engine'.flags,
                   uses |-> engine'.uses, digest |-> engine'.digest]
    BY <1>8 DEF EngineIsTyped
  <2> QED BY <1>6, <1>9, <1>11, <1>12, <2>1 DEF EngineIsTyped
<1>14. Loaded(engine')
  BY <1>6, <1>9 DEF Loaded
<1>15. \A j \in DOMAIN engine.package :
         engine'.digest[j] = IF j = i /\ engine.package[i].replay /\ engine.digest[i] = Unset
                             THEN q.body ELSE engine.digest[j]
  BY <1>4, <1>9, <1>10
<1> QED BY <1>3, <1>4, <1>9, <1>13, <1>14, <1>15

\* A body is not the sign that there is none.
LEMMA BodiesAreSet == Unset \notin Seq(Nat)
<1> SUFFICES ASSUME Unset \in Seq(Nat) PROVE FALSE
  OBVIOUS
<1>1. Len(Unset) = 1 /\ Unset[1] = -1
  BY DEF Unset
<1>2. Unset[1] \in Nat
  BY <1>1, ElementOfSeq
<1> QED BY <1>1, <1>2

\* The answer of a request, or an error.
LEMMA PrepareHttpKeeps ==
    ASSUME Inv, NEW c \in Sockets, NEW q \in Requests, run.pc = "play",
           PrepareHttp(c, q), PlayerKeeps
    PROVE  Inv'
<1>1. UNCHANGED <<menu, kept, server, dir, run>>
  BY DEF PrepareHttp, PlayerKeeps
<1>2. q \in Asked
  BY MobileAssumption DEF Asked
<1>3. SocketsAreTyped'
  <2>1. SocketsAreTyped /\ socket[c] \in SocketStates /\ socket \in [Sockets -> SocketStates]
    BY DEF Inv, Typed, SocketsAreTyped
  <2>2. Answerable(engine, q) \in BOOLEAN
    BY DEF Answerable
  <2> DEFINE s == [socket[c] EXCEPT !.q = 0, !.part = 2, !.left = Answerable(engine, q)]
  <2>3. s \in SocketStates /\ s.part # 1
    BY <2>1, <2>2, SocketHolds
  <2>4. socket' = [socket EXCEPT ![c] = s]
    BY <2>1 DEF PrepareHttp
  <2> HIDE DEF s
  <2> QED BY <2>1, <2>3, <2>4, SocketMoves
<1>4. ASSUME ~Answerable(engine, q) PROVE Inv'
  <2>1. UNCHANGED <<run, engine, hist>>
    BY <1>4 DEF PrepareHttp
  <2> QED BY <1>3, <2>1, OnlySockets
<1>5. ASSUME Answerable(engine, q) PROVE Inv'
  <2>1. /\ engine' = Answered(engine, q)
        /\ hist' = [hist EXCEPT !.bodies = @ \cup
               {<<k, q.body>> : k \in {j \in Matches(engine, q) : engine.package[j].replay}}]
    BY <1>5 DEF PrepareHttp
  <2>2. EngineIsTyped /\ Loaded(engine) /\ Remembered /\ hist \in Histories
    BY DEF Inv, Typed, Routing
  <2>3. PICK i \in DOMAIN engine.package :
             /\ Matches(engine, q) = {i}
             /\ EngineIsTyped' /\ Loaded(engine') /\ engine'.package = engine.package
             /\ \A j \in DOMAIN engine.package :
                  engine'.digest[j] =
                     IF j = i /\ engine.package[i].replay /\ engine.digest[i] = Unset
                     THEN q.body ELSE engine.digest[j]
    BY <1>2, <1>5, <2>1, <2>2, AnsweredIs
  <2>4. i \in Nat /\ q.body \in Seq(Nat)
    BY <1>2, <2>2, LenProperties DEF Loaded, Asked
  <2>5. hist'.bodies = hist.bodies \cup (IF engine.package[i].replay THEN {<<i, q.body>>} ELSE {})
    BY <2>1, <2>2, <2>3 DEF Histories
  <2>6. hist' \in Histories /\ hist'.left = hist.left
    <3> DEFINE more == {<<k, q.body>> : k \in {j \in Matches(engine, q) : engine.package[j].replay}}
    <3>1. hist' = [hist EXCEPT !.bodies = hist.bodies \cup more]
      BY <2>1
    <3> HIDE DEF more
    <3>2. /\ hist'.left = hist.left /\ hist'.told = hist.told
          /\ hist' = [left |-> hist'.left, bodies |-> hist'.bodies, told |-> hist'.told]
      BY <2>2, <3>1 DEF Histories
    <3>3. hist.bodies \in SUBSET (Nat \X Seq(Nat)) /\ <<i, q.body>> \in Nat \X Seq(Nat)
      BY <2>2, <2>4 DEF Histories
    <3>4. hist'.bodies \in SUBSET (Nat \X Seq(Nat))
      BY <2>5, <3>3
    <3>5. hist.left \in SUBSET Ids /\ hist.told \in SUBSET {"none", "PREPARED", "RUNNING", "over"}
      BY <2>2 DEF Histories
    <3> QED BY <3>2, <3>4, <3>5 DEF Histories
  <2>7. ASSUME NEW b \in hist'.bodies
        PROVE  /\ b[1] \in DOMAIN engine'.package /\ engine'.package[b[1]].replay
               /\ engine'.digest[b[1]] = b[2]
    <3>1. CASE b \in hist.bodies
      <4>1. b[1] \in DOMAIN engine.package /\ engine.package[b[1]].replay
            /\ engine.digest[b[1]] = b[2]
        BY <2>2, <3>1 DEF Remembered
      <4>2. b[2] \in Seq(Nat)
        BY <2>2, <3>1 DEF Histories
      <4>3. engine.digest[b[1]] # Unset
        BY <4>1, <4>2, BodiesAreSet
      <4> QED BY <2>3, <4>1, <4>3
    <3>2. CASE b = <<i, q.body>> /\ engine.package[i].replay
      <4>1. engine.digest[i] # Unset => engine.digest[i] = q.body
        <5>1. i \in Matches(engine, q)
          BY <2>3
        <5> QED BY <3>2, <5>1 DEF Matches
      <4>2. engine'.digest[i] = q.body
        BY <2>3, <3>2, <4>1
      <4> QED BY <2>3, <3>2, <4>2
    <3> QED BY <2>5, <2>7, <3>1, <3>2
  <2>8. Routing'
    BY <1>1, <2>3, <2>7 DEF Routing, Remembered
  <2>9. Links' /\ Receipt'
    BY <1>1, <2>6, LinksStay, ReceiptStays
  <2>10. Typed'
    BY <1>1, <1>3, <2>3, <2>6 DEF Inv, Typed
  <2> QED BY <2>8, <2>9, <2>10 DEF Inv
<1> QED BY <1>4, <1>5

\* What the game sends: a whole request, its two parts, or more than one.
LEMMA SockSendKeeps == ASSUME Inv, NEW c \in Sockets, SockSend(c) PROVE Inv'
<1>1. run.pc = "play" /\ PlayerKeeps
  BY DEF SockSend, Playing
<1>2. ASSUME NEW q \in Requests, PrepareHttp(c, q) PROVE Inv'
  BY <1>1, <1>2, PrepareHttpKeeps
<1>3. SocketsAreTyped /\ socket[c] \in SocketStates /\ socket \in [Sockets -> SocketStates]
  BY DEF Inv, Typed, SocketsAreTyped
<1>4. ASSUME NEW q \in Requests, socket' = [socket EXCEPT ![c].q = q, ![c].part = 1],
             UNCHANGED <<run, engine, hist>>
      PROVE  Inv'
  <2> DEFINE s == [socket[c] EXCEPT !.q = q, !.part = 1]
  <2>1. s \in SocketStates /\ s.q = q
    BY <1>3, SocketHolds
  <2>2. socket' = [socket EXCEPT ![c] = s]
    BY <1>3, <1>4
  <2> HIDE DEF s
  <2>3. SocketsAreTyped'
    BY <1>3, <2>1, <2>2, SocketMoves
  <2> QED BY <1>1, <1>4, <2>3, OnlySockets
<1>5. ASSUME socket[c].part = 1, PrepareHttp(c, socket[c].q) PROVE Inv'
  <2>1. socket[c].q \in Requests
    BY <1>3, <1>5 DEF SocketsAreTyped
  <2> QED BY <1>2, <1>5, <2>1
<1>6. ASSUME UNCHANGED <<run, runtime, hist>> PROVE Inv'
  <2>1. SocketsAreTyped' /\ UNCHANGED engine
    BY <1>3, <1>6 DEF runtime, SocketsAreTyped
  <2> QED BY <1>1, <1>6, <2>1, OnlySockets
<1> QED BY <1>2, <1>4, <1>5, <1>6 DEF SockSend

-----------------------------------------------------------------------------
(* The theorems                                                             *)

\* Before the first launch.
LEMMA MobileInvInit == MobileInit => Inv
<1> SUFFICES ASSUME MobileInit PROVE Inv
  OBVIOUS
<1> USE IdsAreNumbers
<1>1. menu \in Menus /\ menu.pc = "idle" /\ menu.id = 0
  BY DEF MobileInit, Menus
<1>2. kept \in [Scenarios -> Ids \cup {0}] /\ \A s \in Scenarios : kept[s] = 0
  BY DEF MobileInit
<1>3. server \in Servers /\ Running = {}
  BY DEF MobileInit, Servers, Running
<1>4. dir \in [Ids -> Directories]
  BY NoDirIs DEF MobileInit
<1>5. run \in Runs /\ run.pc = "off" /\ run.id = 0
  <2>1. Nothing \in Int /\ 0 \in Int
    <3>1. -1 \in Int
      OBVIOUS
    <3> QED BY <3>1 DEF Nothing
  <2> QED BY <2>1 DEF MobileInit, Off, Runs
<1>6. /\ engine.package = <<>> /\ engine.flags = {} /\ DOMAIN engine.package = {}
      /\ engine = NoEngine
  BY DEF MobileInit, NoEngine, Engine
<1>7. EngineIsTyped
  BY <1>6 DEF EngineIsTyped, NoEngine, Engine
<1>8. SocketsAreTyped
  BY DEF MobileInit, SocketsAreTyped, SocketStates, Closed
<1>9. hist \in Histories /\ hist.bodies = {}
  BY DEF MobileInit, Histories
<1>10. Typed
  BY <1>1, <1>2, <1>3, <1>4, <1>5, <1>7, <1>8, <1>9 DEF Typed
<1>11. Links
  BY <1>1, <1>2, <1>3, <1>5 DEF Links, MenuKnows, KeptOnce, RunIsOwn, NoOrphan
<1>12. Receipt
  BY <1>1, <1>5 DEF Receipt
<1>13. Routing
  <2>1. <<>> \in Seq(Routes)
    OBVIOUS
  <2> QED BY <1>6, <1>9, <2>1 DEF Routing, Loaded, Remembered
<1> QED BY <1>10, <1>11, <1>12, <1>13 DEF Inv

\* Every step of the client, the server, the runtime and its engine.
LEMMA MobileInvNext == Inv /\ [MobileNext]_mobileVars => Inv'
<1> SUFFICES ASSUME Inv, [MobileNext]_mobileVars PROVE Inv'
  OBVIOUS
<1>1. CASE ExpireDue
  BY <1>1, ExpireDueKeeps
<1>2. CASE RefreshScenarios \/ StartLocal
  BY <1>2, ChoosingKeeps
<1>3. CASE Launching
  BY <1>3, CreateRequestKeeps, StartSessionKeeps, CheckIdsKeeps, MakeDirectoryKeeps, FetchKeeps,
     LaunchKeeps DEF Launching
<1>4. CASE LogIn \/ ClientDies
  BY <1>4, LogInKeeps, ClientDiesKeeps
<1>5. CASE LoadManifest \/ LoadRoutes \/ Boot \/ RunFrame \/ PollWindow
  BY <1>5, LoadManifestKeeps, LoadRoutesKeeps, PlayKeeps
<1>6. CASE ResetConsole
  BY <1>6, ResetConsoleKeeps
<1>7. CASE \E c \in Sockets : Adapter(c)
  BY <1>7, SocketsKeep, SockSendKeeps DEF Adapter
<1>8. CASE SaveBattery \/ SaveConfig \/ WriteResult
  BY <1>8, SaveBatteryKeeps, SaveConfigKeeps, WriteResultKeeps
<1>9. CASE Killed
  BY <1>9, EndsKeeps DEF Killed
<1>10. CASE Settle
  BY <1>10, SettleKeeps
<1>11. CASE UNCHANGED mobileVars
  <2>1. UNCHANGED <<menu, kept, server, dir, run, runtime, hist>>
    BY <1>11 DEF mobileVars, runtime
  <2>2. Typed'
    BY <2>1, RuntimeStays DEF Inv, Typed
  <2>3. Links' /\ Receipt' /\ Routing'
    BY <2>1, LinksStay, ReceiptStays, RoutingStays DEF runtime
  <2> QED BY <2>2, <2>3 DEF Inv
<1> QED BY <1>1, <1>2, <1>3, <1>4, <1>5, <1>6, <1>7, <1>8, <1>9, <1>10, <1>11 DEF MobileNext

\* The invariant holds throughout.
LEMMA InvHolds == MobileSpec => []Inv
BY MobileInvInit, MobileInvNext, PTL DEF MobileSpec

\* A package that passed routes_overlap at loading answers a request with one of its routes at
\* most, in every state its routes lead to; and a replay route answers one body only, through
\* console resets and on all sockets (mobile_route_engine.c, prepare_http).
THEOREM RoutesAnswerOnce == MobileSpec => []RoutesAreSound
<1>1. Inv => RoutesAreSound
  <2> SUFFICES ASSUME Inv PROVE RoutesAreSound
    OBVIOUS
  <2>1. Loaded(engine) /\ Remembered
    BY DEF Inv, Routing
  <2>2. OneAnswer
    BY <2>1, MatchesAreFew, MobileAssumption DEF OneAnswer, Asked
  <2>3. ReplaysOneBody
    BY <2>1 DEF ReplaysOneBody, Remembered
  <2> QED BY <2>2, <2>3 DEF RoutesAreSound
<1> QED BY <1>1, InvHolds, PTL

\* The result that lets the client upload a SAV was written by a process that saved that SAV
\* after the player had ended the game (mobile_runtime_result_allows_commit): no failure, death
\* or unfinished directory leaves one that allows another.
THEOREM UploadsWhatWasPlayed == MobileSpec => []ReceiptIsTrue
<1>1. Inv => ReceiptIsTrue
  BY DEF Inv, Receipt, ReceiptIsTrue, Allows
<1> QED BY <1>1, InvHolds, PTL

\* Every session the server runs is the launch's, the runtime's or a kept request's, or was
\* left by a lost cancel or a death (client_launch_gb_mobile_prepare.c).
THEOREM SessionsAreOwned == MobileSpec => []NoOrphan
<1>1. Inv => NoOrphan
  BY DEF Inv, Links
<1> QED BY <1>1, InvHolds, PTL
=============================================================================
