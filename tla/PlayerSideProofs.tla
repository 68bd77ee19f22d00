-------------------------- MODULE PlayerSideProofs --------------------------
(* Proofs about what is nearest to the player. Of ClientConfig and          *)
(* KeyConfig: a save of one section of a config file leaves the others, and *)
(* a remembered login has the password that the server took, where one call *)
(* fails at most. Of HostPads: a button is pressed only while the player    *)
(* holds it, the Host has what the Remote sent last, and a pad that comes   *)
(* back keeps its identity. Of Media: a decoder is given only frames it can *)
(* decode, one that waits for a configuration is given it, and a notice of  *)
(* the picture stays until it is taken.                                     *)
EXTENDS KeyConfig, HostPads, Media, FiniteSetTheorems, SequenceTheorems, WellFoundedInduction, TLAPS

-----------------------------------------------------------------------------
(* The config files                                                         *)

\* What a section of a file may be, where the proofs need to know.
Logins == [server : Servers \cup {NoServer}, remember : BOOLEAN, named : BOOLEAN]

\* What is read of a file has its sections, and a name only beside a login remembered.
Whole(c) ==
    /\ c = [login |-> c.login, local |-> c.local, window |-> c.window, keys |-> c.keys,
            slots |-> c.slots, sgb |-> c.sgb]
    /\ c.local = [selected |-> c.local.selected, delay |-> c.local.delay]
    /\ c.login \in Logins
    /\ c.login.named => c.login.remember

\* The two files, read.
FilesTyped ==
    /\ cfg = [f \in {"base", "user"} |-> cfg[f]]
    /\ \A f \in {"base", "user"} : Whole(Contents(cfg[f]))

\* A file as a save leaves it, of which the calls in bad failed: one section is another, and
\* half of the local one at most; where a call failed, others may be the defaults.
SavedFrom(f, g, bad) ==
    LET old == Contents(f)
        now == Contents(g)
    IN  /\ Whole(now)
        /\ \E s \in Sections : \A r \in Sections \ {s} :
              now[r] = old[r] \/ (bad # {} /\ now[r] = Defaults[r])
        /\ bad = {} /\ now.local.selected # old.local.selected => now.local.delay = old.local.delay

\* The login of a file that was saved for another section.
LoginStays(f, g, bad) ==
    \/ Contents(g).login = Contents(f).login
    \/ bad # {} /\ Contents(g).login = Defaults.login

\* What is read of a file that was saved is what was saved.
LEMMA SavedIsRead ==
    ASSUME NEW c, Whole(c)
    PROVE  Contents(save_config_file(c)) = c
<1>1. c.login = [server |-> c.login.server, remember |-> c.login.remember,
                 named |-> c.login.named /\ c.login.remember]
    BY DEF Whole, Logins
<1>2. [c EXCEPT !.login.named = c.login.named /\ c.login.remember] = c
    BY <1>1 DEF Whole, Logins
<1>3. QED
    BY <1>2 DEF save_config_file, Contents, load_config_file

\* The defaults are whole.
LEMMA DefaultsWhole == Whole(Defaults)
BY DEF Whole, Logins, Defaults

\* What a save puts beside its section is what the file had, or defaults if a call failed.
LEMMA KeptIs ==
    ASSUME NEW f, Whole(Contents(f)), NEW bad
    PROVE  /\ Whole(Kept(f, bad))
           /\ bad = {} => Kept(f, bad) = Contents(f)
           /\ \A s \in Sections : \/ Kept(f, bad)[s] = Contents(f)[s]
                                  \/ bad # {} /\ Kept(f, bad)[s] = Defaults[s]
<1> DEFINE old == load_config_file(f, "read" \in bad)
           sgb == load_config_file(f, "sgb" \in bad).sgb
           now == [old EXCEPT !.sgb = sgb]
<1>1. /\ "read" \notin bad => old = Contents(f)
      /\ "read" \in bad => old = Defaults
    BY DEF load_config_file, Contents
<1>2. /\ "sgb" \notin bad => sgb = Contents(f).sgb
      /\ "sgb" \in bad => sgb = Defaults.sgb
    BY DEF load_config_file, Contents
<1>3. Whole(old)
    BY <1>1, DefaultsWhole
<1>4. Kept(f, bad) = now
    BY DEF Kept, integral_config_sgb_enabled
<1> HIDE DEF old, sgb
<1>5. now = [login |-> old.login, local |-> old.local, window |-> old.window,
             keys |-> old.keys, slots |-> old.slots, sgb |-> sgb]
    BY <1>3 DEF Whole
<1>6. Whole(now)
    BY <1>3, <1>5 DEF Whole
<1>7. bad = {} => now = Contents(f)
  <2>1. SUFFICES ASSUME bad = {} PROVE now = Contents(f)
    OBVIOUS
  <2>2. old = Contents(f) /\ sgb = Contents(f).sgb
    BY <1>1, <1>2, <2>1
  <2>3. QED
    BY <1>5, <2>2 DEF Whole
<1>8. ASSUME NEW s \in Sections
      PROVE  now[s] = Contents(f)[s] \/ (bad # {} /\ now[s] = Defaults[s])
  <2>1. s # "sgb" => now[s] = old[s]
    BY <1>5 DEF Sections
  <2>2. now["sgb"] = sgb
    BY <1>5
  <2>3. QED
    BY <1>1, <1>2, <2>1, <2>2
<1>9. QED
    BY <1>4, <1>6, <1>7, <1>8

\* A file that has what was kept, but for one section.
LEMMA SavedKeeps ==
    ASSUME NEW f, Whole(Contents(f)), NEW bad, NEW g, NEW s \in Sections,
           Whole(Contents(g)),
           \A r \in Sections \ {s} : Contents(g)[r] = Kept(f, bad)[r],
           bad = {} /\ s = "local" =>
              \/ Contents(g).local.selected = Contents(f).local.selected
              \/ Contents(g).local.delay = Contents(f).local.delay
    PROVE  /\ SavedFrom(f, g, bad)
           /\ s # "login" => LoginStays(f, g, bad)
<1>1. \A r \in Sections \ {s} :
         \/ Contents(g)[r] = Contents(f)[r]
         \/ bad # {} /\ Contents(g)[r] = Defaults[r]
    BY KeptIs
<1>2. bad = {} /\ s # "local" => Contents(g).local = Contents(f).local
    BY <1>1 DEF Sections
<1>3. s # "login" => LoginStays(f, g, bad)
    BY <1>1 DEF Sections, LoginStays
<1>4. QED
    BY <1>1, <1>2, <1>3 DEF SavedFrom

\* A login is saved.
LEMMA SaveLogin ==
    ASSUME NEW f, Whole(Contents(f)), NEW v \in Logins, v.named => v.remember, NEW bad
    PROVE  /\ SavedFrom(f, integral_config_save_login(f, v, bad), bad)
           /\ Contents(integral_config_save_login(f, v, bad)).login = v
<1> DEFINE old == Kept(f, bad)
           now == [old EXCEPT !.login = v]
<1>0. Whole(old)
    BY KeptIs
<1> HIDE DEF old
<1>1. now = [login |-> v, local |-> old.local, window |-> old.window, keys |-> old.keys,
             slots |-> old.slots, sgb |-> old.sgb]
    BY <1>0 DEF Whole
<1>2. Whole(now)
    BY <1>0, <1>1 DEF Whole
<1>3. Contents(integral_config_save_login(f, v, bad)) = now
    BY <1>2, SavedIsRead DEF integral_config_save_login, old
<1>4. \A r \in Sections \ {"login"} : now[r] = old[r]
    BY <1>1 DEF Sections
<1>5. now.login = v
    BY <1>1
<1> HIDE DEF now
<1>6. QED
    BY <1>2, <1>3, <1>4, <1>5, SavedKeeps DEF Sections, old

\* Half of the local section is saved.
LEMMA SaveLocal ==
    ASSUME NEW f, Whole(Contents(f)), NEW v, NEW bad,
           v = [selected |-> v.selected, delay |-> v.delay],
           bad = {} => \/ v.selected = Contents(f).local.selected
                       \/ v.delay = Contents(f).local.delay
    PROVE  /\ SavedFrom(f, integral_config_save_local(f, v, bad), bad)
           /\ LoginStays(f, integral_config_save_local(f, v, bad), bad)
<1> DEFINE old == Kept(f, bad)
           now == [old EXCEPT !.local = v]
<1>0. Whole(old)
    BY KeptIs
<1> HIDE DEF old
<1>1. now = [login |-> old.login, local |-> v, window |-> old.window,
             keys |-> old.keys, slots |-> old.slots, sgb |-> old.sgb]
    BY <1>0 DEF Whole
<1>2. Whole(now)
    BY <1>0, <1>1 DEF Whole
<1>3. Contents(integral_config_save_local(f, v, bad)) = now
    BY <1>2, SavedIsRead DEF integral_config_save_local, old
<1>4. \A r \in Sections \ {"local"} : now[r] = old[r]
    BY <1>1 DEF Sections
<1>5. now.local = v
    BY <1>1
<1> HIDE DEF now
<1>6. QED
    BY <1>2, <1>3, <1>4, <1>5, SavedKeeps DEF Sections, old

\* The window is saved.
LEMMA SaveWindowSection ==
    ASSUME NEW f, Whole(Contents(f)), NEW v, NEW bad
    PROVE  /\ SavedFrom(f, integral_config_save_window(f, v, bad), bad)
           /\ LoginStays(f, integral_config_save_window(f, v, bad), bad)
<1> DEFINE old == Kept(f, bad)
           now == [old EXCEPT !.window = v]
<1>0. Whole(old)
    BY KeptIs
<1> HIDE DEF old
<1>1. now = [login |-> old.login, local |-> old.local, window |-> v,
             keys |-> old.keys, slots |-> old.slots, sgb |-> old.sgb]
    BY <1>0 DEF Whole
<1>2. Whole(now)
    BY <1>0, <1>1 DEF Whole
<1>3. Contents(integral_config_save_window(f, v, bad)) = now
    BY <1>2, SavedIsRead DEF integral_config_save_window, old
<1>4. \A r \in Sections \ {"window"} : now[r] = old[r]
    BY <1>1 DEF Sections
<1> HIDE DEF now
<1>6. QED
    BY <1>2, <1>3, <1>4, SavedKeeps DEF Sections, old

\* The keys are saved.
LEMMA SaveKeys ==
    ASSUME NEW f, Whole(Contents(f)), NEW v, NEW bad
    PROVE  /\ SavedFrom(f, integral_config_save_keys(f, v, bad), bad)
           /\ LoginStays(f, integral_config_save_keys(f, v, bad), bad)
<1> DEFINE old == Kept(f, bad)
           now == [old EXCEPT !.keys = v]
<1>0. Whole(old)
    BY KeptIs
<1> HIDE DEF old
<1>1. now = [login |-> old.login, local |-> old.local, window |-> old.window,
             keys |-> v, slots |-> old.slots, sgb |-> old.sgb]
    BY <1>0 DEF Whole
<1>2. Whole(now)
    BY <1>0, <1>1 DEF Whole
<1>3. Contents(integral_config_save_keys(f, v, bad)) = now
    BY <1>2, SavedIsRead DEF integral_config_save_keys, old
<1>4. \A r \in Sections \ {"keys"} : now[r] = old[r]
    BY <1>1 DEF Sections
<1> HIDE DEF now
<1>6. QED
    BY <1>2, <1>3, <1>4, SavedKeeps DEF Sections, old

\* The ROM slots are saved.
LEMMA SaveSlots ==
    ASSUME NEW f, Whole(Contents(f)), NEW v, NEW bad
    PROVE  /\ SavedFrom(f, integral_config_save_rom_slots(f, v, bad), bad)
           /\ LoginStays(f, integral_config_save_rom_slots(f, v, bad), bad)
<1> DEFINE old == Kept(f, bad)
           now == [old EXCEPT !.slots = v]
<1>0. Whole(old)
    BY KeptIs
<1> HIDE DEF old
<1>1. now = [login |-> old.login, local |-> old.local, window |-> old.window,
             keys |-> old.keys, slots |-> v, sgb |-> old.sgb]
    BY <1>0 DEF Whole
<1>2. Whole(now)
    BY <1>0, <1>1 DEF Whole
<1>3. Contents(integral_config_save_rom_slots(f, v, bad)) = now
    BY <1>2, SavedIsRead DEF integral_config_save_rom_slots, old
<1>4. \A r \in Sections \ {"slots"} : now[r] = old[r]
    BY <1>1 DEF Sections
<1> HIDE DEF now
<1>6. QED
    BY <1>2, <1>3, <1>4, SavedKeeps DEF Sections, old

\* The SGB option is saved.
LEMMA SaveSgb ==
    ASSUME NEW f, Whole(Contents(f)), NEW v, NEW bad
    PROVE  /\ SavedFrom(f, integral_config_save_sgb(f, v, bad), bad)
           /\ LoginStays(f, integral_config_save_sgb(f, v, bad), bad)
<1> DEFINE old == Kept(f, bad)
           now == [old EXCEPT !.sgb = v]
<1>0. Whole(old)
    BY KeptIs
<1> HIDE DEF old
<1>1. now = [login |-> old.login, local |-> old.local, window |-> old.window,
             keys |-> old.keys, slots |-> old.slots, sgb |-> v]
    BY <1>0 DEF Whole
<1>2. Whole(now)
    BY <1>0, <1>1 DEF Whole
<1>3. Contents(integral_config_save_sgb(f, v, bad)) = now
    BY <1>2, SavedIsRead DEF integral_config_save_sgb, old
<1>4. \A r \in Sections \ {"sgb"} : now[r] = old[r]
    BY <1>1 DEF Sections
<1> HIDE DEF now
<1>6. QED
    BY <1>2, <1>3, <1>4, SavedKeeps DEF Sections, old

\* Of a file that was saved at most one section is another, or one beside those that are
\* the defaults; and none of a file that was not saved.
LEMMA OneSectionAtMost ==
    ASSUME NEW f, NEW g, NEW bad, SavedFrom(f, g, bad) \/ g = f
    PROVE  LET changed == {s \in Sections : Contents(g)[s] # Contents(f)[s]}
           IN  /\ Cardinality({s \in changed : Contents(g)[s] # Defaults[s]}) <= 1
               /\ bad = {} => Cardinality(changed) <= 1
<1> DEFINE changed == {s \in Sections : Contents(g)[s] # Contents(f)[s]}
           other == {s \in changed : Contents(g)[s] # Defaults[s]}
<1>1. PICK s \in Sections : other \subseteq {s} /\ (bad = {} => changed \subseteq {s})
    BY DEF SavedFrom, Sections
<1>2. IsFiniteSet({s}) /\ Cardinality({s}) = 1
    BY FS_Singleton
<1> HIDE DEF changed, other
<1>3. \A few \in SUBSET {s} : Cardinality(few) <= 1
    BY <1>2, FS_Subset
<1>4. QED
    BY <1>1, <1>3 DEF changed, other

-----------------------------------------------------------------------------
(* The login and the files                                                  *)

\* What the form, the store and the player may be.
Forms == [server : Servers \cup {NoServer}, named : BOOLEAN, pass : Passwords \cup {NoPassword},
          remember : BOOLEAN, at : {"login", "change", "menu"}]

Credentials == [Servers -> Passwords \cup {NoPassword}]

\* The types, and the number of calls that failed.
PlayerTyped ==
    /\ FilesTyped
    /\ form \in Forms
    /\ store \in Credentials
    /\ spent = [faults |-> spent.faults, changes |-> spent.changes, saves |-> spent.saves]
    /\ spent.faults \in Nat /\ spent.faults <= MaxFaults

\* One file is saved, or none; what fails is counted.
FileKept(f) ==
    \/ cfg'[f] = cfg[f]
    \/ \E bad : SavedFrom(cfg[f], cfg'[f], bad) /\ (spent'.faults = spent.faults => bad = {})
FilesKept == FileKept("base") /\ FileKept("user")

\* The login that the base file has, as the client reads it when it starts again.
SavedLogin == Contents(cfg["base"]).login

\* One file is saved, and the other is as it was.
LEMMA FileSaved ==
    ASSUME FilesTyped, NEW f \in {"base", "user"}, NEW g, NEW bad, SavedFrom(cfg[f], g, bad),
           spent'.faults = spent.faults => bad = {}, cfg' = [cfg EXCEPT ![f] = g]
    PROVE  FilesTyped' /\ FilesKept /\ cfg'[f] = g
           /\ \A h \in {"base", "user"} \ {f} : cfg'[h] = cfg[h]
<1>1. /\ cfg' = [h \in {"base", "user"} |-> cfg'[h]]
      /\ cfg'[f] = g /\ \A h \in {"base", "user"} \ {f} : cfg'[h] = cfg[h]
    BY DEF FilesTyped
<1>2. \A h \in {"base", "user"} : Whole(Contents(cfg'[h]))
    BY <1>1 DEF FilesTyped, SavedFrom
<1>3. QED
    BY <1>1, <1>2 DEF FilesTyped, FilesKept, FileKept

\* No file is saved.
LEMMA NoFileSaved ==
    ASSUME FilesTyped, UNCHANGED cfg
    PROVE  FilesTyped' /\ FilesKept /\ SavedLogin' = SavedLogin
BY DEF FilesTyped, FilesKept, FileKept, SavedLogin

\* The form is saved, or the save fails.
LEMMA FormSaved ==
    ASSUME FilesTyped, NEW w, FormSection(w) \in Logins, NEW bad, SaveForm(w, bad),
           spent'.faults = spent.faults => bad = {}
    PROVE  /\ FilesTyped' /\ FilesKept
           /\ "config" \in bad => SavedLogin' = SavedLogin
           /\ "config" \notin bad => SavedLogin' = FormSection(w)
<1>1. CASE "config" \in bad
    BY <1>1, NoFileSaved DEF SaveForm
<1>2. CASE "config" \notin bad
  <2> DEFINE g == integral_config_save_login(cfg["base"], FormSection(w), bad)
  <2>1. cfg' = [cfg EXCEPT !["base"] = g]
    BY <1>2 DEF SaveForm
  <2>2. FormSection(w).named => FormSection(w).remember
    BY DEF FormSection
  <2>3. SavedFrom(cfg["base"], g, bad) /\ Contents(g).login = FormSection(w)
    BY <2>2, SaveLogin DEF FilesTyped
  <2> HIDE DEF g
  <2>4. QED
    BY <1>2, <2>1, <2>3, FileSaved DEF SavedLogin
<1>3. QED
    BY <1>1, <1>2

\* Calls fail as often as the model lets them.
Calls == {"load", "store", "delete", "config", "read", "sgb", "own"}

\* They are few.
LEMMA CallsFinite == IsFiniteSet(Calls)
<1>1. \A x : IsFiniteSet({x})
    BY FS_Singleton
<1>2. \A x, y : IsFiniteSet({x} \cup {y})
    BY <1>1, FS_Union
<1>3. IsFiniteSet((({"load"} \cup {"store"}) \cup ({"delete"} \cup {"config"}))
                    \cup (({"read"} \cup {"sgb"}) \cup {"own"}))
    BY <1>1, <1>2, FS_Union
<1>4. Calls = (({"load"} \cup {"store"}) \cup ({"delete"} \cup {"config"}))
                    \cup (({"read"} \cup {"sgb"}) \cup {"own"})
    BY DEF Calls
<1>5. QED
    BY <1>3, <1>4

\* What their number says of those that failed.
LEMMA CallsCounted ==
    ASSUME NEW bad \in SUBSET Calls
    PROVE  /\ Cardinality(bad) \in Nat
           /\ Cardinality(bad) = 0 <=> bad = {}
           /\ Cardinality(bad) = 1 => \E b : bad = {b}
<1>1. IsFiniteSet(bad)
    BY CallsFinite, FS_Subset
<1>2. Cardinality(bad) \in Nat
    BY <1>1, FS_CardinalityType
<1>3. Cardinality(bad) = 0 <=> bad = {}
    BY <1>1, FS_EmptySet
<1>4. Cardinality(bad) = 1 => \E b : bad = {b}
    BY <1>1, FS_Singleton
<1>5. QED
    BY <1>2, <1>3, <1>4

\* The calls of a step that fail are counted.
LEMMA SpendCounts ==
    ASSUME PlayerTyped, NEW bad \in SUBSET Calls, Spend(bad)
    PROVE  /\ spent' = [faults |-> spent'.faults, changes |-> spent'.changes,
                        saves |-> spent'.saves]
           /\ spent'.faults \in Nat /\ spent'.faults <= MaxFaults
           /\ bad = {} => spent'.faults = spent.faults
           /\ bad # {} => spent'.faults > spent.faults
           /\ spent'.faults = spent.faults => bad = {}
           /\ (\A b : bad # {b}) => bad = {} \/ spent'.faults > spent.faults + 1
<1> DEFINE n == Cardinality(bad)
<1>2. n \in Nat /\ (n = 0 <=> bad = {}) /\ (n = 1 => \E b : bad = {b})
    BY CallsCounted
<1>3. /\ spent' = [faults |-> spent.faults + n, changes |-> spent.changes, saves |-> spent.saves]
      /\ spent.faults + n <= MaxFaults
    BY DEF Spend, PlayerTyped
<1>4. spent.faults \in Nat
    BY DEF PlayerTyped
<1> HIDE DEF n
<1>5. spent'.faults = spent.faults + n
    BY <1>3
<1>6. spent' = [faults |-> spent'.faults, changes |-> spent'.changes, saves |-> spent'.saves]
    BY <1>3
<1>7. spent'.faults \in Nat /\ spent'.faults <= MaxFaults
    BY <1>2, <1>3, <1>4, <1>5
<1>8. /\ n = 0 => spent'.faults = spent.faults
      /\ n # 0 => spent'.faults > spent.faults
      /\ spent'.faults = spent.faults => n = 0
      /\ n # 0 /\ n # 1 => spent'.faults > spent.faults + 1
    BY <1>2, <1>4, <1>5
<1>9. QED
    BY <1>2, <1>6, <1>7, <1>8

\* The client starts.
LEMMA LoadKeeps ==
    ASSUME PlayerTyped, load_login_config
    PROVE  PlayerTyped' /\ FilesKept
<1>1. PICK bad \in SUBSET {"read", "load"} :
        /\ Spend(bad)
        /\ LET l == load_config_file(cfg["base"], "read" \in bad).login
               loaded == /\ l.remember /\ l.named /\ l.server # NoServer /\ "load" \notin bad
                         /\ store[l.server] # NoPassword
           IN  form' = [server |-> l.server, named |-> l.named, remember |-> loaded,
                        pass |-> IF loaded THEN store[l.server] ELSE NoPassword, at |-> "login"]
    BY DEF load_login_config
<1> DEFINE l == load_config_file(cfg["base"], "read" \in bad).login
<1>2. l \in Logins
  <2>1. Contents(cfg["base"]).login \in Logins /\ Defaults.login \in Logins
    BY DefaultsWhole DEF PlayerTyped, FilesTyped, Whole
  <2>2. QED
    BY <2>1 DEF load_config_file, Contents
<1> HIDE DEF l
<1>3. form' \in Forms
    BY <1>1, <1>2 DEF Forms, Logins, PlayerTyped, Credentials, l
<1>4. UNCHANGED <<cfg, store>>
    BY DEF load_login_config
<1>5. QED
    BY <1>1, <1>3, <1>4, SpendCounts, NoFileSaved DEF PlayerTyped, Calls, SaveFails

\* Something is typed.
LEMMA TypingKeeps ==
    ASSUME PlayerTyped, handle_text_input
    PROVE  PlayerTyped' /\ FilesKept
<1>1. form' \in Forms
    BY DEF PlayerTyped, Forms, handle_text_input
<1>2. QED
    BY <1>1, NoFileSaved DEF PlayerTyped, handle_text_input

\* A form can be saved whole.
LEMMA FormCanBeSaved ==
    ASSUME NEW w \in Forms
    PROVE  FormSection(w) \in Logins
BY DEF FormSection, Forms, Logins

\* Another server is typed.
LEMMA EditServerKeeps ==
    ASSUME PlayerTyped, EditServer
    PROVE  PlayerTyped' /\ FilesKept
<1>1. PICK s \in Servers \ {form.server}, bad \in SUBSET SaveFails :
        Spend(bad) /\ form' = [form EXCEPT !.server = s] /\ SaveForm(form', bad)
    BY DEF EditServer
<1>2. form' \in Forms
    BY <1>1 DEF PlayerTyped, Forms
<1>3. UNCHANGED store
    BY DEF EditServer
<1>4. FilesTyped' /\ FilesKept
    BY <1>1, <1>2, FormCanBeSaved, FormSaved, SpendCounts DEF PlayerTyped, Calls, SaveFails
<1>5. QED
    BY <1>1, <1>2, <1>3, <1>4, SpendCounts DEF PlayerTyped, Calls, SaveFails

\* Remembering is switched.
LEMMA ToggleKeeps ==
    ASSUME PlayerTyped, ToggleRemember
    PROVE  PlayerTyped' /\ FilesKept
<1>1. PICK bad \in SUBSET (SaveFails \cup {"delete"}) :
        /\ Spend(bad)
        /\ form' = IF "delete" \in bad THEN form ELSE [form EXCEPT !.remember = ~@]
        /\ store' = [store EXCEPT ![form.server] = NoPassword] \/ store' = store
        /\ IF "delete" \in bad THEN UNCHANGED cfg ELSE SaveForm(form', bad)
    BY DEF ToggleRemember
<1>2. form' \in Forms
    BY <1>1 DEF PlayerTyped, Forms
<1>3. store' \in Credentials
    BY <1>1 DEF PlayerTyped, Credentials
<1>4. FilesTyped' /\ FilesKept
    BY <1>1, <1>2, FormCanBeSaved, FormSaved, NoFileSaved, SpendCounts
       DEF PlayerTyped, Calls, SaveFails
<1>5. QED
    BY <1>1, <1>2, <1>3, <1>4, SpendCounts DEF PlayerTyped, Calls, SaveFails

\* A login that the server takes, of whose calls the ones in bad fail.
SubmitGoes(bad) ==
    LET must == accounts[form.server].must
        keep == form.remember /\ ~must
    IN  /\ "store" \in bad => keep
        /\ "delete" \in bad => must
        /\ Spend(bad)
        /\ store' = [store EXCEPT ![form.server] =
                       IF keep /\ "store" \notin bad THEN form.pass
                       ELSE IF must /\ "delete" \notin bad THEN NoPassword ELSE @]
        /\ SaveForm([form EXCEPT !.remember = StaysRemembered(keep, bad)], bad)
        /\ form' = [form EXCEPT !.remember = StaysRemembered(@, bad),
                                !.at = IF must THEN "change" ELSE "menu"]

\* Which calls these are.
LEMMA SubmitPicks ==
    ASSUME submit_login
    PROVE  \E bad \in SUBSET Calls : SubmitGoes(bad)
<1>1. PICK bad \in SUBSET (SaveFails \cup {"store", "delete"}) : SubmitGoes(bad)
    BY Zenon DEF submit_login, SubmitGoes
<1>2. bad \in SUBSET Calls
    BY DEF Calls, SaveFails
<1>3. QED
    BY <1>1, <1>2

\* The login is submitted, and saved when the server takes it.
LEMMA SubmitKeeps ==
    ASSUME PlayerTyped, submit_login
    PROVE  PlayerTyped' /\ FilesKept
<1> DEFINE keep == form.remember /\ ~accounts[form.server].must
           saved(bad) == [form EXCEPT !.remember = StaysRemembered(keep, bad)]
<1>0. PICK bad \in SUBSET Calls : SubmitGoes(bad)
    BY SubmitPicks
<1>1. /\ Spend(bad)
      /\ \/ store' = [store EXCEPT ![form.server] = form.pass]
         \/ store' = [store EXCEPT ![form.server] = NoPassword]
         \/ store' = [store EXCEPT ![form.server] = @]
      /\ SaveForm(saved(bad), bad)
      /\ form' = [form EXCEPT !.remember = StaysRemembered(@, bad),
                              !.at = IF accounts[form.server].must THEN "change" ELSE "menu"]
    BY <1>0 DEF SubmitGoes
<1>2. form' \in Forms /\ saved(bad) \in Forms
    BY <1>1 DEF PlayerTyped, Forms, StaysRemembered
<1>3. store' \in Credentials
    BY <1>1 DEF PlayerTyped, Credentials, Forms
<1> HIDE DEF saved, keep
<1>4. FilesTyped' /\ FilesKept
    BY <1>1, <1>2, FormCanBeSaved, FormSaved, SpendCounts DEF PlayerTyped, Calls, SaveFails
<1>5. QED
    BY <1>1, <1>2, <1>3, <1>4, SpendCounts DEF PlayerTyped, Calls, SaveFails

\* The answer to a new password, of whose calls the ones in bad fail.
ChangeGoes(p, bad) ==
    /\ bad # {} => form.remember
    /\ Spend(bad)
    /\ store' = IF form.remember /\ "store" \notin bad
                THEN [store EXCEPT ![form.server] = p] ELSE store
    /\ IF form.remember /\ "store" \notin bad THEN SaveForm(form, bad) ELSE UNCHANGED cfg
    /\ form' = [form EXCEPT !.pass = IF form.remember THEN p ELSE @, !.at = "menu"]
    /\ accepted' = p

\* The password is changed, and the login saved.
LEMMA ChangePasswordKeeps ==
    ASSUME PlayerTyped, change_account_password
    PROVE  PlayerTyped' /\ FilesKept
<1>1. CASE UNCHANGED <<cfg, store, form, accepted, spent>>
    BY <1>1, NoFileSaved DEF PlayerTyped
<1>2. ASSUME NEW p \in Passwords, NEW bad \in SUBSET (SaveFails \cup {"store"}),
             ChangeGoes(p, bad)
      PROVE  PlayerTyped' /\ FilesKept
  <2> USE DEF ChangeGoes
  <2>1. form' \in Forms
    BY <1>2 DEF PlayerTyped, Forms
  <2>2. store' \in Credentials
    BY <1>2 DEF PlayerTyped, Credentials
  <2>3. FilesTyped' /\ FilesKept
    BY <1>2, FormCanBeSaved, FormSaved, NoFileSaved, SpendCounts
       DEF PlayerTyped, Calls, SaveFails
  <2>4. QED
    BY <1>2, <2>1, <2>2, <2>3, SpendCounts DEF PlayerTyped, Calls, SaveFails
<1>3. QED
  <2>1. PICK p \in Passwords :
          \/ UNCHANGED <<cfg, store, form, accepted, spent>>
          \/ \E bad \in (SUBSET SaveFails) \cup {{"store"}} : ChangeGoes(p, bad)
    BY Zenon DEF change_account_password, ChangeGoes
  <2>2. \A bad \in (SUBSET SaveFails) \cup {{"store"}} : bad \in SUBSET (SaveFails \cup {"store"})
    OBVIOUS
  <2>3. QED
    BY <1>1, <1>2, <2>1, <2>2

\* A section that is not the login is saved, or is not; the login is forgotten where a call
\* fails.
Aside ==
    /\ UNCHANGED <<store, form, accepted>>
    /\ spent'.faults >= spent.faults
    /\ \/ SavedLogin' = SavedLogin
       \/ SavedLogin' = Defaults.login /\ spent'.faults > spent.faults

\* Another section of a file is saved: the login of the base file stays.
LEMMA OtherFileSaved ==
    ASSUME FilesTyped, NEW f \in {"base", "user"}, NEW g, NEW bad, SavedFrom(cfg[f], g, bad),
           LoginStays(cfg[f], g, bad), spent'.faults = spent.faults => bad = {},
           cfg' = [cfg EXCEPT ![f] = g]
    PROVE  /\ FilesTyped' /\ FilesKept
           /\ \/ SavedLogin' = SavedLogin
              \/ SavedLogin' = Defaults.login /\ spent'.faults # spent.faults
<1>1. FilesTyped' /\ FilesKept /\ cfg'[f] = g
      /\ \A h \in {"base", "user"} \ {f} : cfg'[h] = cfg[h]
    BY FileSaved
<1>2. QED
    BY <1>1 DEF SavedLogin, LoginStays

\* What the calls of a save cost.
LEMMA OtherCounts ==
    ASSUME PlayerTyped, NEW bad \in SUBSET Calls, NEW f, NEW g, SaveOther(f, g, bad)
    PROVE  /\ spent' = [faults |-> spent'.faults, changes |-> spent'.changes,
                        saves |-> spent'.saves]
           /\ spent'.faults \in Nat /\ spent'.faults <= MaxFaults
           /\ spent'.faults >= spent.faults
           /\ spent'.faults = spent.faults => bad = {}
<1> DEFINE n == Cardinality(bad)
<1>1. n \in Nat /\ (n = 0 <=> bad = {})
    BY CallsCounted
<1>2. /\ spent' = [faults |-> spent.faults + n, changes |-> spent.changes,
                   saves |-> spent.saves + 1]
      /\ spent.faults + n <= MaxFaults
    BY DEF SaveOther, PlayerTyped
<1>3. spent.faults \in Nat
    BY DEF PlayerTyped
<1> HIDE DEF n
<1>4. spent' = [faults |-> spent'.faults, changes |-> spent'.changes, saves |-> spent'.saves]
      /\ spent'.faults = spent.faults + n
    BY <1>2
<1>5. QED
    BY <1>1, <1>2, <1>3, <1>4

\* Every save of another section.
LEMMA SaveOtherKeeps ==
    ASSUME PlayerTyped, NEW f \in {"base", "user"}, NEW g, NEW bad \in SUBSET Calls,
           NEW few, few \subseteq bad, SavedFrom(cfg[f], g, few), LoginStays(cfg[f], g, few),
           SaveOther(f, g, bad)
    PROVE  PlayerTyped' /\ FilesKept /\ Aside
<1>1. UNCHANGED <<store, form, accepted>>
    BY DEF SaveOther
<1>2. /\ spent' = [faults |-> spent'.faults, changes |-> spent'.changes, saves |-> spent'.saves]
      /\ spent'.faults \in Nat /\ spent'.faults <= MaxFaults
      /\ spent'.faults >= spent.faults
      /\ spent'.faults = spent.faults => few = {}
    BY OtherCounts
<1>3. /\ FilesTyped' /\ FilesKept
      /\ \/ SavedLogin' = SavedLogin
         \/ SavedLogin' = Defaults.login /\ spent'.faults # spent.faults
    BY <1>2, OtherFileSaved, NoFileSaved DEF SaveOther, PlayerTyped
<1>4. spent.faults \in Nat
    BY DEF PlayerTyped
<1>5. Aside
    BY <1>1, <1>2, <1>3, <1>4 DEF Aside
<1>6. QED
    BY <1>1, <1>2, <1>3, <1>5 DEF PlayerTyped

\* The options, the ROMs and the window.
OptionStep ==
    SelectRom \/ adjust_ir_release_delay_option \/ toggle_sgb_option \/ SaveRomSlots \/ SaveWindow

\* Half of the local section is saved, of which the other half is the file's if it could be
\* read.
LEMMA LocalKeeps ==
    ASSUME PlayerTyped, NEW bad \in SUBSET Calls, NEW v,
           v = [selected |-> v.selected, delay |-> v.delay],
           bad = {} => \/ v.selected = Contents(cfg["user"]).local.selected
                       \/ v.delay = Contents(cfg["user"]).local.delay,
           SaveOther("user", integral_config_save_local(cfg["user"], v, bad), bad)
    PROVE  PlayerTyped' /\ FilesKept /\ Aside
<1> DEFINE g == integral_config_save_local(cfg["user"], v, bad)
<1>1. Whole(Contents(cfg["user"]))
    BY DEF PlayerTyped, FilesTyped
<1>2. SavedFrom(cfg["user"], g, bad) /\ LoginStays(cfg["user"], g, bad)
    BY <1>1, SaveLocal
<1>3. SaveOther("user", g, bad)
    OBVIOUS
<1> HIDE DEF g
<1>4. QED
    BY <1>2, <1>3, SaveOtherKeeps

\* Every step of the options.
LEMMA OptionKeeps ==
    ASSUME PlayerTyped, OptionStep
    PROVE  PlayerTyped' /\ FilesKept /\ Aside
<1>1. Whole(Contents(cfg["user"])) /\ Whole(Contents(cfg["base"]))
    BY DEF PlayerTyped, FilesTyped
<1>2. ASSUME NEW bad
      PROVE  LET local == integral_config_load_local(bad) IN
             /\ local = [selected |-> local.selected, delay |-> local.delay]
             /\ bad = {} => local = Contents(cfg["user"]).local
    BY <1>1, DefaultsWhole DEF integral_config_load_local, load_config_file, Contents, Whole
<1>3. CASE SelectRom
  <2>1. PICK n \in {0, 1}, bad \in SUBSET (SaveFails \cup {"own"}) :
           SaveOther("user", integral_config_save_local(cfg["user"],
               [integral_config_load_local(bad) EXCEPT !.selected = n], bad), bad)
    BY <1>3 DEF SelectRom
  <2> DEFINE v == [integral_config_load_local(bad) EXCEPT !.selected = n]
  <2>2. v = [selected |-> n, delay |-> integral_config_load_local(bad).delay]
    BY <1>2
  <2>3. /\ v = [selected |-> v.selected, delay |-> v.delay]
        /\ bad = {} => v.delay = Contents(cfg["user"]).local.delay
    BY <1>2, <2>2
  <2>4. SaveOther("user", integral_config_save_local(cfg["user"], v, bad), bad)
    BY <2>1
  <2>5. bad \in SUBSET Calls
    BY DEF Calls, SaveFails
  <2> HIDE DEF v
  <2>6. QED
    BY <2>3, <2>4, <2>5, LocalKeeps
<1>4. CASE adjust_ir_release_delay_option
  <2>1. PICK n \in 0..MaxDelay, bad \in SUBSET (SaveFails \cup {"own"}) :
           SaveOther("user", integral_config_save_local(cfg["user"],
               [integral_config_load_local(bad) EXCEPT !.delay = n], bad), bad)
    BY <1>4 DEF adjust_ir_release_delay_option
  <2> DEFINE v == [integral_config_load_local(bad) EXCEPT !.delay = n]
  <2>2. v = [selected |-> integral_config_load_local(bad).selected, delay |-> n]
    BY <1>2
  <2>3. /\ v = [selected |-> v.selected, delay |-> v.delay]
        /\ bad = {} => v.selected = Contents(cfg["user"]).local.selected
    BY <1>2, <2>2
  <2>4. SaveOther("user", integral_config_save_local(cfg["user"], v, bad), bad)
    BY <2>1
  <2>5. bad \in SUBSET Calls
    BY DEF Calls, SaveFails
  <2> HIDE DEF v
  <2>6. QED
    BY <2>3, <2>4, <2>5, LocalKeeps
<1>5. CASE toggle_sgb_option
  <2>1. PICK v \in {0, 1}, bad \in SUBSET {"read", "config"} :
           SaveOther("user", integral_config_save_sgb(cfg["user"], v, bad), bad)
    BY <1>5 DEF toggle_sgb_option
  <2> DEFINE g == integral_config_save_sgb(cfg["user"], v, bad)
  <2>2. SavedFrom(cfg["user"], g, bad) /\ LoginStays(cfg["user"], g, bad)
    BY <1>1, SaveSgb
  <2>3. bad \in SUBSET Calls
    BY DEF Calls, SaveFails
  <2>4. SaveOther("user", g, bad)
    BY <2>1
  <2> HIDE DEF g
  <2>5. QED
    BY <2>2, <2>3, <2>4, SaveOtherKeeps
<1>6. CASE SaveRomSlots
  <2>1. PICK v \in {0, 1}, bad \in SUBSET SaveFails :
           SaveOther("user", integral_config_save_rom_slots(cfg["user"], v, bad), bad)
    BY <1>6 DEF SaveRomSlots
  <2> DEFINE g == integral_config_save_rom_slots(cfg["user"], v, bad)
  <2>2. SavedFrom(cfg["user"], g, bad) /\ LoginStays(cfg["user"], g, bad)
    BY <1>1, SaveSlots
  <2>3. bad \in SUBSET Calls
    BY DEF Calls, SaveFails
  <2>4. SaveOther("user", g, bad)
    BY <2>1
  <2> HIDE DEF g
  <2>5. QED
    BY <2>2, <2>3, <2>4, SaveOtherKeeps
<1>7. CASE SaveWindow
  <2>1. PICK v \in {0, 1}, bad \in SUBSET SaveFails :
           SaveOther("base", integral_config_save_window(cfg["base"], v, bad), bad)
    BY <1>7 DEF SaveWindow
  <2> DEFINE g == integral_config_save_window(cfg["base"], v, bad)
  <2>2. SavedFrom(cfg["base"], g, bad) /\ LoginStays(cfg["base"], g, bad)
    BY <1>1, SaveWindowSection
  <2>3. bad \in SUBSET Calls
    BY DEF Calls, SaveFails
  <2>4. SaveOther("base", g, bad)
    BY <2>1
  <2> HIDE DEF g
  <2>5. QED
    BY <2>2, <2>3, <2>4, SaveOtherKeeps
<1>8. QED
    BY <1>3, <1>4, <1>5, <1>6, <1>7 DEF OptionStep

\* The key editor saves the keys, or does not.
LEMMA KeysSaved ==
    ASSUME PlayerTyped, NEW k, NEW bad \in SUBSET SaveFails, save_key_config(k, bad), ConfigAside
    PROVE  PlayerTyped' /\ FilesKept /\ Aside
<1> DEFINE g == integral_config_save_keys(cfg["user"], k, bad)
<1>1. SavedFrom(cfg["user"], g, bad) /\ LoginStays(cfg["user"], g, bad)
    BY SaveKeys DEF PlayerTyped, FilesTyped
<1>2. cfg' = cfg \/ cfg' = [cfg EXCEPT !["user"] = g]
    BY DEF save_key_config
<1> HIDE DEF g
<1>3. /\ spent' = [faults |-> spent'.faults, changes |-> spent'.changes, saves |-> spent'.saves]
      /\ spent'.faults \in Nat /\ spent'.faults <= MaxFaults
      /\ spent'.faults = spent.faults \/ spent'.faults > spent.faults
      /\ spent'.faults = spent.faults => bad = {}
    BY SpendCounts DEF save_key_config, Calls, SaveFails
<1>4. /\ FilesTyped' /\ FilesKept
      /\ \/ SavedLogin' = SavedLogin
         \/ SavedLogin' = Defaults.login /\ spent'.faults # spent.faults
    BY <1>1, <1>2, <1>3, OtherFileSaved, NoFileSaved DEF PlayerTyped
<1>5. spent.faults \in Nat /\ UNCHANGED <<store, form, accepted>>
    BY DEF PlayerTyped, ConfigAside
<1>6. Aside
    BY <1>3, <1>4, <1>5 DEF Aside
<1>7. QED
    BY <1>3, <1>4, <1>5, <1>6 DEF PlayerTyped

\* Nothing of the player changes.
LEMMA NotSavedKeeps ==
    ASSUME PlayerTyped, NotSaved, ConfigAside
    PROVE  PlayerTyped' /\ FilesKept /\ Aside
BY NoFileSaved DEF PlayerTyped, NotSaved, ConfigAside, Aside

\* Whatever the key editor does, of the files it saves the keys.
LEMMA EditorKeeps ==
    ASSUME PlayerTyped, KeysNext
    PROVE  PlayerTyped' /\ FilesKept /\ Aside
<1>1. ConfigAside
    BY DEF KeysNext, PressKey, PressEnter, MoveAxis, PlugPad, reset_key_defaults
<1>2. NotSaved \/ \E k : \E bad \in SUBSET SaveFails : save_key_config(k, bad)
  <2>1. ASSUME NEW kc, NEW code, NEW wait, apply_captured_binding(kc, code, wait)
        PROVE  NotSaved \/ \E k : \E bad \in SUBSET SaveFails : save_key_config(k, bad)
    BY <2>1, ZenonT(30) DEF apply_captured_binding
  <2>2. ASSUME NEW op, Operation(op)
        PROVE  NotSaved
    BY <2>2 DEF Operation, begin_key_capture
  <2>3. CASE PressKey
    BY <2>1, <2>2, <2>3 DEF PressKey, CancelCapture
  <2>4. CASE PressEnter
    BY <2>2, <2>4 DEF PressEnter
  <2>5. CASE MoveAxis
    <3>1. PICK p \in PadNames, v \in AxisAt :
            IF edit.target = "none" THEN AliasAxis(p, v) ELSE EditorAxis(p, v)
      BY <2>5 DEF MoveAxis
    <3>2. CASE AliasAxis(p, v)
      BY <2>2, <3>2 DEF AliasAxis
    <3>3. CASE EditorAxis(p, v)
      BY <2>1, <3>3 DEF EditorAxis
    <3>4. QED
      BY <3>1, <3>2, <3>3
  <2>6. CASE PlugPad
    BY <2>6 DEF PlugPad
  <2>7. CASE reset_key_defaults
    BY <2>7 DEF reset_key_defaults
  <2>8. QED
    BY <2>3, <2>4, <2>5, <2>6, <2>7 DEF KeysNext
<1>3. QED
    BY <1>1, <1>2, KeysSaved, NotSavedKeeps

\* The player at the client: the login and the options, and the key editor.
PlayerInit == ConfigInit /\ KeysInit
PlayerNext == (LoginNext /\ UNCHANGED keyVars) \/ KeysNext
playerVars == <<configVars, keyVars>>
PlayerSpec == PlayerInit /\ [][PlayerNext]_playerVars

\* Every step of the player keeps the types, and of a file at most one section changes.
LEMMA PlayerKeeps ==
    ASSUME PlayerTyped, [PlayerNext]_playerVars
    PROVE  PlayerTyped' /\ FilesKept
<1>1. CASE UNCHANGED playerVars
    BY <1>1, NoFileSaved DEF playerVars, configVars, PlayerTyped
<1>2. CASE ChangedElsewhere
  <2>1. /\ spent' = [faults |-> spent.faults, changes |-> spent.changes + 1,
                     saves |-> spent.saves]
        /\ UNCHANGED <<cfg, store, form>>
    BY <1>2 DEF ChangedElsewhere, PlayerTyped
  <2>2. QED
    BY <2>1, NoFileSaved DEF PlayerTyped
<1>3. QED
    BY <1>1, <1>2, LoadKeeps, TypingKeeps, EditServerKeeps, ToggleKeeps, SubmitKeeps,
       ChangePasswordKeeps, OptionKeeps, EditorKeeps
       DEF PlayerNext, LoginNext, OptionStep

\* The player begins with a file of before, or with none.
LEMMA PlayerInitTyped == PlayerInit => PlayerTyped
<1> SUFFICES ASSUME PlayerInit PROVE PlayerTyped
    OBVIOUS
<1>1. /\ form \in Forms /\ store \in Credentials
      /\ spent = [faults |-> spent.faults, changes |-> spent.changes, saves |-> spent.saves]
      /\ spent.faults \in Nat /\ spent.faults <= MaxFaults
    BY ConfigAssumption DEF PlayerInit, ConfigInit, Forms, Credentials
<1>2. Whole(Defaults)
    BY DefaultsWhole
<1>3. Whole([login |-> Defaults.login, local |-> Defaults.local, window |-> 1,
             keys |-> StoredKeys, slots |-> 1, sgb |-> 0])
    BY <1>2 DEF Whole
<1>4. PICK f : /\ cfg = [base |-> f, user |-> f]
               /\ \/ f = Missing
                  \/ f = [there |-> TRUE,
                           is |-> [login |-> Defaults.login, local |-> Defaults.local,
                                   window |-> 1, keys |-> StoredKeys, slots |-> 1, sgb |-> 0]]
    BY DEF PlayerInit, ConfigInit
<1>5. Whole(Contents(f))
    BY <1>2, <1>3, <1>4 DEF Contents, load_config_file, Missing
<1>6. FilesTyped
    BY <1>4, <1>5 DEF FilesTyped
<1>7. QED
    BY <1>1, <1>6 DEF PlayerTyped

\* A save none of whose calls fails leaves what was in every other section, and each half of
\* the local one the other; one of whose calls fails may leave the defaults beside its
\* section, and nothing else (client_config.c): whatever the options, the login and the key
\* editor save.
THEOREM SavesKeepSections == PlayerSpec => SectionsAreKept
<1>1. FilesKept =>
        \A f \in {"base", "user"} :
         LET old == Contents(cfg[f])
             now == Contents(cfg'[f])
             changed == {s \in Sections : now[s] # old[s]}
         IN  /\ Cardinality({s \in changed : now[s] # Defaults[s]}) <= 1
             /\ spent'.faults = spent.faults =>
                  /\ Cardinality(changed) <= 1
                  /\ now.local.selected # old.local.selected => now.local.delay = old.local.delay
  <2> SUFFICES ASSUME FilesKept, NEW f \in {"base", "user"}
               PROVE  LET old == Contents(cfg[f])
                          now == Contents(cfg'[f])
                          changed == {s \in Sections : now[s] # old[s]}
                      IN  /\ Cardinality({s \in changed : now[s] # Defaults[s]}) <= 1
                          /\ spent'.faults = spent.faults =>
                               /\ Cardinality(changed) <= 1
                               /\ now.local.selected # old.local.selected =>
                                      now.local.delay = old.local.delay
    OBVIOUS
  <2>1. PICK bad : /\ SavedFrom(cfg[f], cfg'[f], bad) \/ cfg'[f] = cfg[f]
                   /\ spent'.faults = spent.faults => bad = {}
    BY DEF FilesKept, FileKept
  <2>2. bad = {} /\ Contents(cfg'[f]).local.selected # Contents(cfg[f]).local.selected =>
            Contents(cfg'[f]).local.delay = Contents(cfg[f]).local.delay
    BY <2>1 DEF SavedFrom
  <2>3. QED
    BY <2>1, <2>2, OneSectionAtMost
<1>2. PlayerTyped /\ [PlayerNext]_playerVars => FilesKept
    BY PlayerKeeps
<1>3. QED
    BY <1>1, <1>2, PlayerInitTyped, PlayerKeeps, PTL DEF PlayerSpec, SectionsAreKept

-----------------------------------------------------------------------------
(* The remembered login, where one call fails                               *)

\* While nothing has failed the file has the server of the form, and a login that the file
\* remembers and the form does not has no password in the store.
FormIsSaved ==
    spent.faults = 0 =>
        /\ SavedLogin.server = form.server
        /\ SavedLogin.remember /\ SavedLogin.named /\ SavedLogin.server # NoServer
              /\ ~form.remember => store[SavedLogin.server] = NoPassword

\* Whoever must change his password has none stored, or is not remembered.
NothingToRemember ==
    form.at = "change" =>
        /\ store[form.server] = NoPassword
              \/ (SavedLogin.server = form.server => ~SavedLogin.remember)
        /\ spent.faults = 0 => store[form.server] = NoPassword

\* RememberedIsTrue in words of SavedLogin.
LoginRemembered ==
    form.at = "menu" /\ SavedLogin.remember /\ SavedLogin.named /\ SavedLogin.server = form.server
        => store[SavedLogin.server] \in {NoPassword, accepted}

\* What makes the remembered login true, and inductive.
LoginInv ==
    /\ form.at \in {"change", "menu"} => form.server # NoServer
    /\ FormIsSaved
    /\ NothingToRemember
    /\ LoginRemembered

\* A step that leaves the login alone.
LEMMA AsideKeepsLogin ==
    ASSUME PlayerTyped, LoginInv, Aside, spent'.faults \in Nat
    PROVE  LoginInv'
<1>1. spent'.faults = 0 => spent.faults = 0
    BY DEF Aside, PlayerTyped
<1>2. /\ UNCHANGED <<store, form, accepted>>
      /\ \/ SavedLogin' = SavedLogin
         \/ SavedLogin'.remember = FALSE /\ spent'.faults # 0
    BY DEF Aside, PlayerTyped, Defaults
<1>3. QED
    BY <1>1, <1>2 DEF LoginInv, FormIsSaved, NothingToRemember, LoginRemembered

\* Facts about the types.
LEMMA LoginTypes ==
    ASSUME PlayerTyped
    PROVE  /\ SavedLogin \in Logins /\ form \in Forms /\ spent.faults \in Nat
           /\ SavedLogin.named => SavedLogin.remember
BY DEF PlayerTyped, FilesTyped, Whole, SavedLogin

\* What the calls of a step cost, where one may fail in all.
LEMMA OneFails ==
    ASSUME PlayerTyped, MaxFaults <= 1, NEW bad \in SUBSET Calls, Spend(bad)
    PROVE  \/ bad = {} /\ spent'.faults = spent.faults
           \/ spent.faults = 0 /\ spent'.faults = 1 /\ \E b : bad = {b}
<1>1. /\ spent'.faults \in Nat /\ spent'.faults <= MaxFaults
      /\ bad = {} => spent'.faults = spent.faults
      /\ bad # {} => spent'.faults > spent.faults
      /\ (\A b : bad # {b}) => bad = {} \/ spent'.faults > spent.faults + 1
    BY SpendCounts
<1>2. MaxFaults \in Nat /\ spent.faults \in Nat
    BY ConfigAssumption DEF PlayerTyped
<1>3. ~(spent'.faults > spent.faults + 1)
      /\ (spent'.faults > spent.faults => spent.faults = 0 /\ spent'.faults = 1)
    BY <1>1, <1>2
<1>4. QED
    BY <1>1, <1>3

\* The client starts: it takes the login of the file, and its password from the store.
LEMMA LoadKeepsLogin ==
    ASSUME PlayerTyped, PlayerTyped', LoginInv, MaxFaults <= 1, load_login_config
    PROVE  LoginInv'
<1>1. PICK bad \in SUBSET {"read", "load"} :
        LET l == load_config_file(cfg["base"], "read" \in bad).login IN
        /\ Spend(bad)
        /\ form'.server = l.server /\ form'.at = "login"
        /\ form'.remember <=> /\ l.remember /\ l.named /\ l.server # NoServer
                              /\ "load" \notin bad /\ store[l.server] # NoPassword
    BY DEF load_login_config
<1>2. UNCHANGED <<store, accepted>> /\ SavedLogin' = SavedLogin
    BY DEF load_login_config, SavedLogin
<1>3. bad # {} => spent'.faults = 1
    BY <1>1, OneFails DEF Calls
<1>4. bad = {} => load_config_file(cfg["base"], "read" \in bad).login = SavedLogin
    BY DEF SavedLogin, Contents, load_config_file
<1>5. CASE bad # {}
    BY <1>1, <1>2, <1>3, <1>5 DEF LoginInv, FormIsSaved, NothingToRemember, LoginRemembered
<1>6. CASE bad = {}
    BY <1>1, <1>2, <1>4, <1>6 DEF LoginInv, FormIsSaved, NothingToRemember, LoginRemembered
<1>7. QED
    BY <1>5, <1>6

\* Something is typed.
LEMMA TypingKeepsLogin ==
    ASSUME PlayerTyped, LoginInv, handle_text_input
    PROVE  LoginInv'
<1>1. /\ form'.server = form.server /\ form'.at = "login" /\ form'.remember = form.remember
      /\ UNCHANGED <<store, accepted, spent>> /\ SavedLogin' = SavedLogin
    BY DEF handle_text_input, PlayerTyped, Forms, SavedLogin
<1>2. QED
    BY <1>1 DEF LoginInv, FormIsSaved, NothingToRemember, LoginRemembered

\* Another server is typed: the form of the other is forgotten.
LEMMA EditServerKeepsLogin ==
    ASSUME PlayerTyped, PlayerTyped', LoginInv, MaxFaults <= 1, EditServer
    PROVE  LoginInv'
<1>1. PICK s \in Servers \ {form.server}, bad \in SUBSET SaveFails :
        Spend(bad) /\ form' = [form EXCEPT !.server = s] /\ SaveForm(form', bad)
    BY DEF EditServer
<1>2. form.at = "login" /\ UNCHANGED <<store, accepted>>
    BY DEF EditServer
<1>3. form'.at = "login" /\ form' \in Forms
    BY <1>1, <1>2 DEF PlayerTyped, Forms
<1>4. "config" \notin bad => SavedLogin' = FormSection(form')
    BY <1>1, <1>3, FormCanBeSaved, FormSaved, SpendCounts DEF PlayerTyped, Calls, SaveFails
<1>5. "config" \in bad => spent'.faults = 1
    BY <1>1, OneFails DEF Calls, SaveFails
<1>6. QED
    BY <1>2, <1>3, <1>4, <1>5
       DEF LoginInv, FormIsSaved, NothingToRemember, LoginRemembered, FormSection

\* Remembering is switched: what is not to be remembered leaves the store first.
LEMMA ToggleKeepsLogin ==
    ASSUME PlayerTyped, PlayerTyped', LoginInv, MaxFaults <= 1, ToggleRemember
    PROVE  LoginInv'
<1>1. PICK bad \in SUBSET (SaveFails \cup {"delete"}) :
        /\ Spend(bad)
        /\ "delete" \in bad => bad # {}
        /\ form' = IF "delete" \in bad THEN form ELSE [form EXCEPT !.remember = ~@]
        /\ IF "delete" \in bad THEN UNCHANGED cfg ELSE SaveForm(form', bad)
    BY DEF ToggleRemember
<1>2. form.at = "login" /\ UNCHANGED accepted
    BY DEF ToggleRemember
<1>3. form'.at = "login" /\ form' \in Forms
    BY <1>1, <1>2 DEF PlayerTyped, Forms
<1>4. bad = {} => SavedLogin' = FormSection(form')
    BY <1>1, <1>3, FormCanBeSaved, FormSaved, SpendCounts DEF PlayerTyped, Calls, SaveFails
<1>5. bad # {} => spent'.faults = 1
    BY <1>1, OneFails DEF Calls, SaveFails
<1>6. QED
    BY <1>2, <1>3, <1>4, <1>5
       DEF LoginInv, FormIsSaved, NothingToRemember, LoginRemembered, FormSection

\* The login is submitted: the password goes to the store before the file is saved.
LEMMA SubmitKeepsLogin ==
    ASSUME PlayerTyped, PlayerTyped', LoginInv, MaxFaults <= 1, submit_login
    PROVE  LoginInv'
<1> DEFINE must == accounts[form.server].must
           keep == form.remember /\ ~must
           saved(bad) == [form EXCEPT !.remember = StaysRemembered(keep, bad)]
<1>0. PICK bad \in SUBSET Calls : SubmitGoes(bad)
    BY SubmitPicks
<1>1. /\ "store" \in bad => keep
      /\ "delete" \in bad => must
      /\ Spend(bad)
      /\ store' = [store EXCEPT ![form.server] =
                     IF keep /\ "store" \notin bad THEN form.pass
                     ELSE IF must /\ "delete" \notin bad THEN NoPassword ELSE @]
      /\ SaveForm(saved(bad), bad)
      /\ form' = [form EXCEPT !.remember = StaysRemembered(@, bad),
                              !.at = IF must THEN "change" ELSE "menu"]
    BY <1>0 DEF SubmitGoes
<1>2. form.server \in Servers /\ form.server # NoServer /\ form.named /\ accepted' = form.pass
    BY DEF submit_login, PlayerTyped, Forms
<1>3. saved(bad) \in Forms
    BY DEF PlayerTyped, Forms, StaysRemembered
<1>4. /\ "config" \in bad => SavedLogin' = SavedLogin
      /\ "config" \notin bad =>
            /\ SavedLogin'.server = form.server
            /\ SavedLogin'.remember = (keep /\ "store" \notin bad)
  <2>1. /\ "config" \in bad => SavedLogin' = SavedLogin
        /\ "config" \notin bad => SavedLogin' = FormSection(saved(bad))
    BY <1>1, <1>3, FormCanBeSaved, FormSaved, SpendCounts DEF PlayerTyped, Calls, SaveFails
  <2>2. /\ FormSection(saved(bad)).server = form.server
        /\ FormSection(saved(bad)).remember = (keep /\ "store" \notin bad)
    BY DEF FormSection, StaysRemembered, PlayerTyped, Forms
  <2>3. QED
    BY <2>1, <2>2
<1>5. /\ store'[form.server] = IF keep /\ "store" \notin bad THEN form.pass
                               ELSE IF must /\ "delete" \notin bad THEN NoPassword
                               ELSE store[form.server]
    BY <1>1, <1>2 DEF PlayerTyped, Credentials
<1>6. /\ form'.server = form.server
      /\ form'.at = IF must THEN "change" ELSE "menu"
      /\ form'.remember = (form.remember /\ "store" \notin bad)
    BY <1>1 DEF PlayerTyped, Forms, StaysRemembered
<1>7. \/ bad = {} /\ spent'.faults = spent.faults
      \/ spent.faults = 0 /\ spent'.faults = 1 /\ \E b : bad = {b}
    BY <1>1, OneFails DEF Calls, SaveFails
<1>8. /\ "delete" \in bad => "config" \notin bad
      /\ "store" \in bad => "config" \notin bad
      /\ "config" \in bad => spent.faults = 0
      /\ bad # {} => spent'.faults = 1
    BY <1>7
<1>9. form'.server # NoServer
    BY <1>2, <1>6
<1> HIDE DEF must, saved
<1>10. FormIsSaved'
    BY <1>1, <1>2, <1>4, <1>5, <1>6, <1>7 DEF FormIsSaved
<1>11. NothingToRemember'
  <2>1. SUFFICES ASSUME must
                 PROVE  /\ store'[form.server] = NoPassword \/ ~SavedLogin'.remember
                        /\ bad = {} => store'[form.server] = NoPassword
    BY <1>6, <1>8 DEF NothingToRemember
  <2>2. "delete" \notin bad => store'[form.server] = NoPassword
    BY <1>5, <2>1
  <2>3. "delete" \in bad => SavedLogin'.remember = FALSE
    BY <1>4, <1>8, <2>1
  <2>4. QED
    BY <2>2, <2>3
<1>12. LoginRemembered'
  <2>1. SUFFICES ASSUME ~must, SavedLogin'.remember, SavedLogin'.named,
                        SavedLogin'.server = form.server
                 PROVE  store'[form.server] \in {NoPassword, form.pass}
    BY <1>2, <1>6 DEF LoginRemembered
  <2>2. CASE form.remember /\ "store" \notin bad
    BY <1>5, <2>1, <2>2
  <2>3. CASE ~(form.remember /\ "store" \notin bad)
    <3>1. "config" \in bad
      BY <1>4, <2>1, <2>3
    <3>2. "store" \notin bad /\ ~form.remember /\ spent.faults = 0 /\ SavedLogin' = SavedLogin
      BY <1>4, <1>8, <2>3, <3>1
    <3>3. store[form.server] = NoPassword
      BY <1>2, <2>1, <3>2 DEF LoginInv, FormIsSaved
    <3>4. store'[form.server] = store[form.server]
      BY <1>5, <2>1, <3>2
    <3>5. QED
      BY <3>3, <3>4
  <2>4. QED
    BY <2>2, <2>3
<1>13. QED
    BY <1>9, <1>10, <1>11, <1>12 DEF LoginInv

\* The password is changed: the new one is stored, or the old one deleted.
LEMMA ChangePasswordKeepsLogin ==
    ASSUME PlayerTyped, PlayerTyped', LoginInv, MaxFaults <= 1, change_account_password
    PROVE  LoginInv'
<1>1. CASE UNCHANGED <<cfg, store, form, accepted, spent>>
    BY <1>1 DEF LoginInv, FormIsSaved, NothingToRemember, LoginRemembered, SavedLogin
<1>2. ASSUME NEW p \in Passwords, NEW bad \in SUBSET (SaveFails \cup {"store"}),
             ChangeGoes(p, bad)
      PROVE  LoginInv'
  <2> USE DEF ChangeGoes
  <2>1. form.at = "change" /\ form.server \in Servers /\ form.server # NoServer
    BY DEF change_account_password, LoginInv, PlayerTyped, Forms
  <2>2. form'.at = "menu" /\ form'.server = form.server /\ form'.remember = form.remember
    BY <1>2 DEF PlayerTyped, Forms
  <2>3. store'[form.server] = IF form.remember /\ "store" \notin bad THEN p
                              ELSE store[form.server]
    BY <1>2, <2>1 DEF PlayerTyped, Credentials
  <2>4. /\ form.remember /\ "store" \notin bad /\ "config" \notin bad =>
              SavedLogin' = FormSection(form)
        /\ ~(form.remember /\ "store" \notin bad /\ "config" \notin bad) =>
              SavedLogin' = SavedLogin
    BY <1>2, FormCanBeSaved, FormSaved, NoFileSaved, SpendCounts
       DEF PlayerTyped, Calls, SaveFails
  <2>5. \/ bad = {} /\ spent'.faults = spent.faults
        \/ spent.faults = 0 /\ spent'.faults = 1
    <3>1. bad \in SUBSET Calls
      BY DEF Calls, SaveFails
    <3>2. QED
      BY <1>2, <3>1, OneFails
  <2>6. FormIsSaved'
    <3>1. CASE spent'.faults # 0
      BY <3>1 DEF FormIsSaved
    <3>2. CASE spent'.faults = 0 /\ form.remember
      BY <2>2, <2>4, <2>5, <3>2 DEF FormIsSaved, FormSection
    <3>3. CASE spent'.faults = 0 /\ ~form.remember
      BY <1>2, <2>2, <2>4, <2>5, <3>3 DEF FormIsSaved, LoginInv
    <3>4. QED
      BY <3>1, <3>2, <3>3
  <2>7. LoginRemembered'
    <3>1. SUFFICES ASSUME SavedLogin'.remember, SavedLogin'.server = form.server
                   PROVE  store'[form.server] \in {NoPassword, p}
      BY <1>2, <2>2 DEF LoginRemembered
    <3>2. CASE form.remember /\ "store" \notin bad
      BY <2>3, <3>2
    <3>3. CASE ~(form.remember /\ "store" \notin bad)
      <4>1. store'[form.server] = store[form.server] /\ SavedLogin' = SavedLogin
        BY <2>3, <2>4, <3>3
      <4>2. CASE bad = {}
        BY <2>1, <3>1, <4>1 DEF LoginInv, NothingToRemember
      <4>3. CASE bad # {}
        <5>1. spent.faults = 0
          BY <2>5, <4>3
        <5>2. QED
          BY <2>1, <4>1, <5>1 DEF LoginInv, NothingToRemember
      <4>4. QED
        BY <4>2, <4>3
    <3>4. QED
      BY <3>2, <3>3
  <2>8. QED
    BY <2>1, <2>2, <2>6, <2>7 DEF LoginInv, NothingToRemember
<1>3. QED
  <2>1. PICK p \in Passwords :
          \/ UNCHANGED <<cfg, store, form, accepted, spent>>
          \/ \E bad \in (SUBSET SaveFails) \cup {{"store"}} : ChangeGoes(p, bad)
    BY Zenon DEF change_account_password, ChangeGoes
  <2>2. \A bad \in (SUBSET SaveFails) \cup {{"store"}} : bad \in SUBSET (SaveFails \cup {"store"})
    OBVIOUS
  <2>3. QED
    BY <1>1, <1>2, <2>1, <2>2

\* Every step of the player keeps what the login needs.
LEMMA PlayerKeepsLogin ==
    ASSUME PlayerTyped, LoginInv, MaxFaults <= 1, [PlayerNext]_playerVars
    PROVE  LoginInv'
<1>1. PlayerTyped' /\ spent'.faults \in Nat
    BY PlayerKeeps DEF PlayerTyped
<1>2. CASE UNCHANGED playerVars
    BY <1>2 DEF playerVars, configVars, LoginInv, FormIsSaved, NothingToRemember, LoginRemembered,
                SavedLogin
<1>3. CASE ChangedElsewhere
  <2>1. UNCHANGED <<cfg, store, form, accepted>> /\ spent'.faults = spent.faults
    BY <1>3 DEF ChangedElsewhere, PlayerTyped
  <2>2. QED
    BY <2>1 DEF LoginInv, FormIsSaved, NothingToRemember, LoginRemembered, SavedLogin
<1>4. CASE OptionStep \/ KeysNext
    BY <1>1, <1>4, OptionKeeps, EditorKeeps, AsideKeepsLogin
<1>5. QED
    BY <1>1, <1>2, <1>3, <1>4, LoadKeepsLogin, TypingKeepsLogin, EditServerKeepsLogin,
       ToggleKeepsLogin, SubmitKeepsLogin, ChangePasswordKeepsLogin
       DEF PlayerNext, LoginNext, OptionStep

\* Where one call fails at most, a player who is in is remembered with the password that the
\* server took from him, or with none (save_authenticated_login, change_account_password).
THEOREM TheRememberedLoginIsTrue == MaxFaults <= 1 /\ PlayerSpec => []RememberedIsTrue
<1> SUFFICES ASSUME MaxFaults <= 1
             PROVE  PlayerSpec => []RememberedIsTrue
    OBVIOUS
<1>1. PlayerInit => LoginInv
  <2> SUFFICES ASSUME PlayerInit PROVE LoginInv
    OBVIOUS
  <2>1. form.at = "login" /\ form.server = NoServer
    BY DEF PlayerInit, ConfigInit
  <2>2. SavedLogin.server = NoServer
    <3>1. PICK f : /\ cfg["base"] = f
                   /\ \/ f = Missing
                      \/ f = [there |-> TRUE,
                               is |-> [login |-> Defaults.login, local |-> Defaults.local,
                                       window |-> 1, keys |-> StoredKeys, slots |-> 1, sgb |-> 0]]
      BY DEF PlayerInit, ConfigInit
    <3>2. QED
      BY <3>1 DEF SavedLogin, Contents, load_config_file, Missing, Defaults
  <2>3. QED
    BY <2>1, <2>2 DEF LoginInv, FormIsSaved, NothingToRemember, LoginRemembered
<1>2. PlayerTyped /\ LoginInv /\ [PlayerNext]_playerVars => (PlayerTyped /\ LoginInv)'
    BY PlayerKeeps, PlayerKeepsLogin
<1>3. LoginInv => RememberedIsTrue
    BY DEF LoginInv, LoginRemembered, RememberedIsTrue, SavedLogin
<1>4. QED
    BY <1>1, <1>2, <1>3, PlayerInitTyped, PTL DEF PlayerSpec

-----------------------------------------------------------------------------
(* The device table                                                         *)

\* A set of numbers has a least one.
LEMMA LeastNat ==
    ASSUME NEW T \in SUBSET Nat, T # {}
    PROVE  \E m \in T : \A k \in T : m <= k
<1> DEFINE R == {ss \in Nat \X Nat : ss[1] < ss[2]}
<1>1. IsWellFoundedOn(R, Nat)
  <2>1. OpToRel(<, Nat) = R
    BY DEF OpToRel
  <2>2. QED
    BY <2>1, NatLessThanWellFounded
<1>2. \E x \in T : \A y \in T : ~ (<<y, x>> \in R)
  <2> HIDE DEF R
  <2>1. QED
    BY <1>1, WFMin
<1>3. \A x, y \in Nat : (<<y, x>> \notin R) => x <= y
    OBVIOUS
<1>4. QED
    BY <1>2, <1>3

\* A sequence of two at most without one of its elements.
LEMMA WithoutOne ==
    ASSUME NEW S, NEW s \in Seq(S), NEW i \in 1..Len(s), Len(s) <= 2
    PROVE  LET r == SubSeq(s, 1, i - 1) \o SubSeq(s, i + 1, Len(s)) IN
           /\ r \in Seq(S) /\ Len(r) = Len(s) - 1
           /\ \A j \in 1..Len(s) : j # i => \E k \in 1..Len(r) : r[k] = s[j]
           /\ \A k \in 1..Len(r) : \E j \in 1..Len(s) : r[k] = s[j]
<1> DEFINE a == SubSeq(s, 1, i - 1)
           b == SubSeq(s, i + 1, Len(s))
           r == a \o b
<1>1. Len(s) \in Nat /\ s \in [1..Len(s) -> S]
    OBVIOUS
<1>2. a \in Seq(S) /\ Len(a) = i - 1 /\ \A j \in 1..(i - 1) : a[j] = s[j]
    BY <1>1, SubSeqProperties
<1>3. b \in Seq(S) /\ Len(b) = Len(s) - i /\ \A j \in 1..(Len(s) - i) : b[j] = s[i + j]
  <2>1. PICK m \in Int : m = i + 1
    BY <1>1
  <2>2. PICK n \in Nat : n = Len(s)
    BY <1>1
  <2>3. \A j \in m..n : s[j] \in S
    BY <1>1, <2>1, <2>2
  <2>4. b = SubSeq(s, m, n)
    BY <2>1, <2>2
  <2>5. /\ b \in Seq(S) /\ Len(b) = IF m <= n THEN n - m + 1 ELSE 0
        /\ \A j \in 1..(n - m + 1) : b[j] = s[m + j - 1]
    BY <2>3, <2>4, SubSeqProperties
  <2> HIDE DEF a, b
  <2>6. i \in Int /\ i <= n /\ Len(s) = n
    BY <2>2
  <2>7. IF m <= n THEN n - m + 1 = n - i ELSE n - i = 0
    BY <2>1, <2>6
  <2>8. Len(b) = Len(s) - i
    BY <2>5, <2>6, <2>7
  <2>9. \A j \in 1..(Len(s) - i) : b[j] = s[i + j]
    <3>1. n - m + 1 = n - i /\ \A j \in Int : m + j - 1 = i + j
      BY <2>1, <2>6
    <3>2. ASSUME NEW j \in 1..(n - i)
          PROVE  b[j] = s[i + j]
      <4>1. b[j] = s[m + j - 1] /\ m + j - 1 = i + j
        BY <2>5, <3>1
      <4>2. QED
        BY <4>1
    <3>3. QED
      BY <2>6, <3>2
  <2>10. QED
    BY <2>5, <2>8, <2>9
<1> HIDE DEF a, b
<1>4. r \in Seq(S) /\ Len(r) = Len(s) - 1
  <2>1. r \in Seq(S) /\ Len(r) = Len(a) + Len(b)
        /\ \A j \in 1..(Len(a) + Len(b)) : r[j] = IF j <= Len(a) THEN a[j] ELSE b[j - Len(a)]
    BY <1>2, <1>3, ConcatProperties
  <2> HIDE DEF r
  <2>2. QED
    BY <1>1, <1>2, <1>3, <2>1
<1>5. CASE Len(s) = 1
    BY <1>4, <1>5 DEF a, b
<1>6. CASE Len(s) = 2 /\ i = 1
  <2>1. r[1] = s[2]
    BY <1>1, <1>2, <1>3, <1>6, ConcatProperties
  <2> HIDE DEF r
  <2>2. QED
    BY <1>4, <1>6, <2>1 DEF a, b, r
<1>7. CASE Len(s) = 2 /\ i = 2
  <2>1. r[1] = s[1]
    <3>1. Len(a) = 1 /\ Len(b) = 0 /\ a[1] = s[1]
      BY <1>2, <1>3, <1>7
    <3>2. \A j \in 1..(Len(a) + Len(b)) : r[j] = IF j <= Len(a) THEN a[j] ELSE b[j - Len(a)]
      BY <1>2, <1>3, ConcatProperties
    <3> HIDE DEF r
    <3>3. QED
      BY <3>1, <3>2
  <2> HIDE DEF r
  <2>2. QED
    BY <1>4, <1>7, <2>1 DEF a, b, r
<1>8. Len(s) = 1 \/ (Len(s) = 2 /\ i = 1) \/ (Len(s) = 2 /\ i = 2)
    BY <1>1
<1>9. QED
    BY <1>5, <1>6, <1>7, <1>8 DEF a, b

\* A pad is opened, unless it is.
Opened(T, p) == IF OpenIn(T, p) THEN T ELSE remember_device(T, p)

\* With one pad plugged in it is opened,
LEMMA OpensOne ==
    ASSUME NEW pads, Len(pads) = 1
    PROVE  open_game_controllers(pads) = Opened(table, pads[1])
<1> DEFINE Body(f) == [i \in 0..Len(pads) |->
                         IF i = 0 THEN table
                         ELSE IF OpenIn(f[i - 1], pads[i]) THEN f[i - 1]
                         ELSE remember_device(f[i - 1], pads[i])]
           opened == CHOOSE f : f = Body(f)
           g == [i \in 0..1 |-> IF i = 0 THEN table ELSE Opened(table, pads[1])]
<1>1. open_game_controllers(pads) = opened[Len(pads)]
    BY DEF open_game_controllers
<1>2. g = Body(g)
  <2>1. \A i \in 0..1 : i # 0 => i = 1 /\ i - 1 \in 0..1 /\ i - 1 = 0
    OBVIOUS
  <2>2. g[0] = table
    OBVIOUS
  <2> DEFINE x == Opened(table, pads[1])
  <2>3. \A i \in 0..1 : g[i] = Body(g)[i]
    BY <2>1, <2>2 DEF Opened
  <2>4. QED
    BY <2>3
<1>3. opened = Body(opened)
    BY <1>2
<1> HIDE DEF opened
<1>4. 0 \in 0..Len(pads) /\ 1 \in 0..Len(pads)
    OBVIOUS
<1>5. opened[0] = table
    BY <1>3, <1>4
<1>6. opened[1] = Opened(table, pads[1])
    BY <1>3, <1>4, <1>5 DEF Opened
<1>7. QED
    BY <1>1, <1>6

\* and with two the first and then the second.
LEMMA OpensTwo ==
    ASSUME NEW pads, Len(pads) = 2
    PROVE  open_game_controllers(pads) = Opened(Opened(table, pads[1]), pads[2])
<1> DEFINE Body(f) == [i \in 0..Len(pads) |->
                         IF i = 0 THEN table
                         ELSE IF OpenIn(f[i - 1], pads[i]) THEN f[i - 1]
                         ELSE remember_device(f[i - 1], pads[i])]
           opened == CHOOSE f : f = Body(f)
           g == [i \in 0..2 |-> IF i = 0 THEN table
                                ELSE IF i = 1 THEN Opened(table, pads[1])
                                ELSE Opened(Opened(table, pads[1]), pads[2])]
<1>1. open_game_controllers(pads) = opened[Len(pads)]
    BY DEF open_game_controllers
<1>2. g = Body(g)
  <2>1. \A i \in 0..2 : i # 0 => (i = 1 /\ i - 1 = 0) \/ (i = 2 /\ i - 1 = 1)
    OBVIOUS
  <2>2. g[0] = table /\ g[1] = Opened(table, pads[1])
        /\ g[2] = Opened(Opened(table, pads[1]), pads[2])
    OBVIOUS
  <2>3. \A i \in 0..2 : g[i] = Body(g)[i]
    BY <2>1, <2>2 DEF Opened
  <2>4. QED
    BY <2>3
<1>3. opened = Body(opened)
    BY <1>2
<1> HIDE DEF opened
<1>4. 0 \in 0..Len(pads) /\ 1 \in 0..Len(pads) /\ 2 \in 0..Len(pads)
    OBVIOUS
<1>5. opened[0] = table
    BY <1>3, <1>4
<1>6. opened[1] = Opened(table, pads[1])
    BY <1>3, <1>4, <1>5 DEF Opened
<1>7. opened[2] = Opened(Opened(table, pads[1]), pads[2])
    BY <1>3, <1>4, <1>6 DEF Opened
<1>8. QED
    BY <1>1, <1>7

\* What the table is, whatever was plugged in.
Entries == [pad : Pads \cup {NoPad}, print : Prints \cup {0}, ordinal : Nat]

\* An entry that is not free has a print, the one of its pad if it is open; no two entries have
\* one identity or one pad.
TableOk(T) ==
    /\ T \in [Slots -> Entries]
    /\ \A s \in Slots : T[s] # Free => T[s].print \in Prints
    /\ \A s \in Slots : T[s].pad # NoPad => T[s].print = Fingerprint[T[s].pad]
    /\ \A s, t \in Slots : s # t /\ T[s] # Free /\ T[t] # Free => IdOf(T[s]) # IdOf(T[t])
    /\ \A s, t \in Slots : T[s].pad # NoPad /\ T[s].pad = T[t].pad => s = t

\* No ordinal is above the bound.
Bounded(T) == \A s \in Slots : T[s].ordinal <= MaxOrdinal

\* The places of the table are numbers, and no pad is none.
LEMMA SlotsAreNumbers == Slots \in SUBSET Nat /\ MaxOrdinal \in Nat /\ NoPad \notin Pads
BY PadAssumption DEF Slots

\* An entry is taken that no pad has.
LEMMA UnusedHasNoPad ==
    ASSUME NEW T, TableOk(T), ~Full(T)
    PROVE  Unused(T) \in Slots /\ T[Unused(T)].pad = NoPad
<1> DEFINE free == {s \in Slots : T[s] = Free}
           unused == IF free # {} THEN free ELSE ClosedIn(T)
<1>1. unused # {} /\ unused \in SUBSET Nat
    BY SlotsAreNumbers DEF Full, ClosedIn
<1>2. \E s \in unused : \A t \in unused : s <= t
    BY <1>1, LeastNat
<1>3. Unused(T) \in unused
    BY <1>2 DEF Unused
<1>4. QED
    BY <1>3 DEF ClosedIn, Free

\* Of the closed entries the one of the lowest ordinal is one of them.
LEMMA RememberedIsClosed ==
    ASSUME NEW T, TableOk(T), NEW print, ClosedOf(T, print) # {}
    PROVE  Remembered(T, print) \in ClosedOf(T, print)
<1> DEFINE ordinals == {T[s].ordinal : s \in ClosedOf(T, print)}
<1>1. ordinals # {} /\ ordinals \in SUBSET Nat
    BY DEF TableOk, Entries, ClosedOf, ClosedIn
<1>2. \E m \in ordinals : \A k \in ordinals : m <= k
    BY <1>1, LeastNat
<1>3. \E s \in ClosedOf(T, print) : \A t \in ClosedOf(T, print) : T[s].ordinal <= T[t].ordinal
    BY <1>2
<1>4. QED
    BY <1>3 DEF Remembered

\* A new pad's ordinal is above those of its make.
LEMMA NewEntryIsNew ==
    ASSUME NEW T, TableOk(T), Bounded(T), NEW s \in Slots, NEW p \in Pads
    PROVE  /\ NewEntry(T, s, p) \in Entries
           /\ NewEntry(T, s, p).pad = p /\ NewEntry(T, s, p).print = Fingerprint[p]
           /\ \A t \in Slots \ {s} : T[t] # Free => IdOf(T[t]) # IdOf(NewEntry(T, s, p))
<1> DEFINE print == Fingerprint[p]
           taken == {T[t].ordinal : t \in {u \in Slots \ {s} : T[u] # Free /\ T[u].print = print}}
           above == {n \in Nat : \A m \in taken : m < n}
           Next1(n) == (\A m \in taken : m < n) /\ (n = 0 \/ n - 1 \in taken)
           ordinal == CHOOSE n \in 0..MaxOrdinal + 1 : Next1(n)
<1>1. taken \in SUBSET Nat /\ \A m \in taken : m <= MaxOrdinal
    BY DEF TableOk, Entries, Bounded
<1> HIDE DEF taken
<1>2. MaxOrdinal + 1 \in above
  <2>1. MaxOrdinal + 1 \in Nat /\ \A m \in Nat : m <= MaxOrdinal => m < MaxOrdinal + 1
    BY SlotsAreNumbers
  <2>2. QED
    BY <1>1, <2>1
<1>3. PICK n \in above : \A k \in above : n <= k
    BY <1>2, LeastNat
<1>4. n \in 0..MaxOrdinal + 1
    BY <1>2, <1>3, SlotsAreNumbers
<1>5. Next1(n)
  <2>1. CASE n = 0
    BY <1>3, <2>1
  <2>2. CASE n # 0
    <3>1. n - 1 \in Nat /\ n - 1 \notin above
      BY <1>3, <1>4, <2>2
    <3>2. PICK m \in taken : ~(m < n - 1)
      BY <3>1
    <3>3. m = n - 1
      BY <1>1, <1>3, <1>4, <3>2
    <3>4. QED
      BY <1>3, <3>2, <3>3
  <2>3. QED
    BY <2>1, <2>2
<1>6. ordinal \in 0..MaxOrdinal + 1 /\ Next1(ordinal)
    BY <1>4, <1>5
<1>7. NewEntry(T, s, p) = [pad |-> p, print |-> print, ordinal |-> ordinal]
    BY DEF NewEntry, taken
<1> HIDE DEF ordinal
<1>8. ordinal \in Nat /\ ordinal \notin taken
    BY <1>1, <1>6
<1>9. print \in Prints
    BY DEF Prints
<1>10. NewEntry(T, s, p) \in Entries
    BY <1>7, <1>8, <1>9 DEF Entries
<1>11. ASSUME NEW t \in Slots \ {s}, T[t] # Free, T[t].print = print
       PROVE  T[t].ordinal # ordinal
    BY <1>8, <1>11 DEF taken
<1>12. \A t \in Slots \ {s} : T[t] # Free => IdOf(T[t]) # IdOf(NewEntry(T, s, p))
    BY <1>7, <1>11 DEF IdOf
<1>13. QED
    BY <1>7, <1>10, <1>12

\* An entry that a pad has stays as it is.
LEMMA OpenStays ==
    ASSUME NEW T, TableOk(T), NEW p \in Pads, NEW s \in Slots, T[s].pad # NoPad
    PROVE  Opened(T, p)[s] = T[s]
<1>1. CASE OpenIn(T, p) \/ (ClosedOf(T, Fingerprint[p]) = {} /\ Full(T))
    BY <1>1 DEF Opened, remember_device
<1>2. CASE ~OpenIn(T, p) /\ ClosedOf(T, Fingerprint[p]) # {}
  <2> DEFINE r == Remembered(T, Fingerprint[p])
  <2>1. r \in Slots /\ T[r].pad = NoPad
    BY <1>2, RememberedIsClosed DEF ClosedOf, ClosedIn
  <2>2. Opened(T, p) = [T EXCEPT ![r] = [T[r] EXCEPT !.pad = p]]
    BY <1>2 DEF Opened, remember_device
  <2> HIDE DEF r
  <2>3. QED
    BY <2>1, <2>2 DEF TableOk
<1>3. CASE ~OpenIn(T, p) /\ ClosedOf(T, Fingerprint[p]) = {} /\ ~Full(T)
  <2> DEFINE r == Unused(T)
  <2>1. r \in Slots /\ T[r].pad = NoPad
    BY <1>3, UnusedHasNoPad
  <2>2. Opened(T, p) = [T EXCEPT ![r] = NewEntry(T, r, p)]
    BY <1>3 DEF Opened, remember_device
  <2> HIDE DEF r
  <2>3. QED
    BY <2>1, <2>2 DEF TableOk
<1>4. QED
    BY <1>1, <1>2, <1>3

\* A pad that alone of its identity's make is missing takes that identity again.
Reopens(T, p, U) ==
    \A i : /\ ~OpenIn(T, p) /\ {IdOf(T[s]) : s \in ClosedOf(T, Fingerprint[p])} = {i}
          => \E s \in Slots : U[s].pad = p /\ IdOf(U[s]) = i

\* What comes of a table when a pad is opened in it.
OpensWell(T, p, U) ==
    /\ TableOk(U)
    /\ \A s \in Slots : T[s].pad # NoPad => U[s] = T[s]
    /\ \A s \in Slots : U[s] = T[s] \/ U[s].pad = p
    /\ U = T \/ OpenIn(U, p)
    /\ Reopens(T, p, U)

\* A pad is opened in an entry that no pad has, the one of its identity if there is one, and
\* the others keep theirs.
LEMMA OpenedKeeps ==
    ASSUME NEW T, TableOk(T), Bounded(T), NEW p \in Pads, NEW U, U = Opened(T, p)
    PROVE  OpensWell(T, p, U)
<1>1. CASE U = T /\ (OpenIn(T, p) \/ ClosedOf(T, Fingerprint[p]) = {})
    BY <1>1 DEF OpensWell, Reopens
<1>2. ASSUME NEW s \in Slots, T[s].pad = NoPad, NEW e \in Entries,
             U = [T EXCEPT ![s] = e], ~OpenIn(T, p),
             e.pad = p, e.print = Fingerprint[p],
             \A t \in Slots \ {s} : T[t] # Free => IdOf(T[t]) # IdOf(e)
      PROVE  /\ TableOk(U)
             /\ \A t \in Slots : T[t].pad # NoPad => U[t] = T[t]
             /\ \A t \in Slots : U[t] = T[t] \/ U[t].pad = p
             /\ OpenIn(U, p) /\ U[s] = e
  <2>1. /\ U \in [Slots -> Entries] /\ U[s] = e
        /\ \A t \in Slots \ {s} : U[t] = T[t]
    BY <1>2 DEF TableOk
  <2>2. \A t \in Slots : T[t].pad # p
    BY <1>2 DEF OpenIn
  <2>3. \A t \in Slots : U[t] # Free => U[t].print \in Prints
    BY <1>2, <2>1 DEF TableOk, Prints
  <2>4. \A t \in Slots : U[t].pad # NoPad => U[t].print = Fingerprint[U[t].pad]
    BY <1>2, <2>1 DEF TableOk
  <2>5. \A t, u \in Slots : t # u /\ U[t] # Free /\ U[u] # Free => IdOf(U[t]) # IdOf(U[u])
    BY <1>2, <2>1 DEF TableOk
  <2>6. \A t, u \in Slots : U[t].pad # NoPad /\ U[t].pad = U[u].pad => t = u
    BY <1>2, <2>1, <2>2 DEF TableOk
  <2>7. QED
    BY <1>2, <2>1, <2>3, <2>4, <2>5, <2>6 DEF TableOk, OpenIn
<1>3. CASE ~OpenIn(T, p) /\ ClosedOf(T, Fingerprint[p]) # {}
  <2> DEFINE s == Remembered(T, Fingerprint[p])
             e == [T[s] EXCEPT !.pad = p]
  <2>1. s \in ClosedOf(T, Fingerprint[p])
    BY <1>3, RememberedIsClosed
  <2>2. s \in Slots /\ T[s].pad = NoPad /\ T[s] # Free /\ T[s].print = Fingerprint[p]
    BY <2>1 DEF ClosedOf, ClosedIn
  <2>3. U = [T EXCEPT ![s] = e]
    BY <1>3 DEF Opened, remember_device
  <2> HIDE DEF s
  <2>4. T[s] \in Entries
    BY <2>2 DEF TableOk
  <2>5. /\ e \in Entries /\ e.pad = p /\ e.print = Fingerprint[p] /\ IdOf(e) = IdOf(T[s])
    BY <2>2, <2>4 DEF Entries, IdOf
  <2>6. \A t \in Slots \ {s} : T[t] # Free => IdOf(T[t]) # IdOf(e)
    BY <2>2, <2>5 DEF TableOk
  <2> HIDE DEF e
  <2>7. /\ TableOk(U)
        /\ \A t \in Slots : T[t].pad # NoPad => U[t] = T[t]
        /\ \A t \in Slots : U[t] = T[t] \/ U[t].pad = p
        /\ OpenIn(U, p) /\ U[s] = e
    BY <1>2, <1>3, <2>2, <2>3, <2>5, <2>6
  <2>8. ASSUME NEW i, {IdOf(T[t]) : t \in ClosedOf(T, Fingerprint[p])} = {i}
        PROVE  \E t \in Slots : U[t].pad = p /\ IdOf(U[t]) = i
    BY <2>1, <2>2, <2>5, <2>7, <2>8
  <2>9. QED
    BY <2>7, <2>8 DEF OpensWell, Reopens
<1>4. CASE ~OpenIn(T, p) /\ ClosedOf(T, Fingerprint[p]) = {} /\ ~Full(T)
  <2> DEFINE s == Unused(T)
             e == NewEntry(T, s, p)
  <2>1. s \in Slots /\ T[s].pad = NoPad
    BY <1>4, UnusedHasNoPad
  <2>2. U = [T EXCEPT ![s] = e]
    BY <1>4 DEF Opened, remember_device
  <2> HIDE DEF s
  <2>3. /\ e \in Entries /\ e.pad = p /\ e.print = Fingerprint[p]
        /\ \A t \in Slots \ {s} : T[t] # Free => IdOf(T[t]) # IdOf(e)
    BY <2>1, NewEntryIsNew
  <2> HIDE DEF e
  <2>4. /\ TableOk(U)
        /\ \A t \in Slots : T[t].pad # NoPad => U[t] = T[t]
        /\ \A t \in Slots : U[t] = T[t] \/ U[t].pad = p
        /\ OpenIn(U, p)
    BY <1>2, <1>4, <2>1, <2>2, <2>3
  <2>5. QED
    BY <1>4, <2>4 DEF OpensWell, Reopens
<1>5. CASE OpenIn(T, p) \/ (ClosedOf(T, Fingerprint[p]) = {} /\ Full(T))
  <2>1. U = T
    BY <1>5 DEF Opened, remember_device
  <2>2. QED
    BY <1>1, <1>5, <2>1
<1>6. QED
    BY <1>3, <1>4, <1>5

-----------------------------------------------------------------------------
(* The pads and the window                                                  *)

\* What the pads are: whoever is open is plugged in.
PadsTyped ==
    /\ plugged \in Seq(Pads) /\ Len(plugged) <= 2
    /\ TableOk(table) /\ Bounded(table)
    /\ \A s \in Slots : table[s].pad # NoPad =>
          \E i \in 1..Len(plugged) : plugged[i] = table[s].pad
    /\ axis \in [Pads -> Int] /\ key \in BOOLEAN

\* What a window may be.
Windows == [role : {"host", "remote"}, focused : BOOLEAN, running : BOOLEAN,
            asking : BOOLEAN, yes : BOOLEAN, neutral : BOOLEAN, buttons : SUBSET Buttons]

\* A window without the focus, or with the question of leaving, has no button pressed.
WinTyped ==
    /\ win \in Windows
    /\ win.asking \/ ~win.focused => win.buttons = {}

\* What is opened when a pad is plugged in.
LEMMA TwoAreOpened ==
    ASSUME PadsTyped, NEW T, NEW x \in Pads, NEW y \in Pads, x # y,
           T = Opened(Opened(table, x), y), Bounded(T)
    PROVE  /\ TableOk(T)
           /\ \A s \in Slots : table[s].pad # NoPad => T[s] = table[s]
           /\ \A s \in Slots : T[s] = table[s] \/ T[s].pad \in {x, y}
           /\ \A p \in Pads :
                {q \in Pads : OpenIn(T, q) /\ ~OpenIn(table, q)} = {p} => Reopens(table, p, T)
<1> DEFINE U == Opened(table, x)
<1>1. OpensWell(table, x, U)
  <2>1. TableOk(table) /\ Bounded(table)
    BY DEF PadsTyped
  <2>2. QED
    BY <2>1, OpenedKeeps
<1>2. T = Opened(U, y)
    OBVIOUS
<1>3. /\ TableOk(U)
      /\ \A s \in Slots : table[s].pad # NoPad => U[s] = table[s]
      /\ \A s \in Slots : U[s] = table[s] \/ U[s].pad = x
      /\ U = table \/ OpenIn(U, x)
      /\ Reopens(table, x, U)
    BY <1>1 DEF OpensWell
<1> HIDE DEF U
<1>4. \A s \in Slots : U[s].pad # NoPad => T[s] = U[s]
    BY <1>3, <1>2, OpenStays
<1>5. Bounded(U)
  <2> SUFFICES ASSUME NEW s \in Slots PROVE U[s].ordinal <= MaxOrdinal
    BY DEF Bounded
  <2>1. CASE U[s] = table[s]
    BY <2>1 DEF Bounded, PadsTyped
  <2>2. CASE U[s].pad = x
    BY <1>4, <2>2, SlotsAreNumbers DEF Bounded
  <2>3. QED
    BY <1>3, <2>1, <2>2
<1>6. OpensWell(U, y, T)
    BY <1>3, <1>2, <1>5, OpenedKeeps
<1>7. /\ TableOk(T)
      /\ \A s \in Slots : T[s] = U[s] \/ T[s].pad = y
      /\ T = U \/ OpenIn(T, y)
      /\ Reopens(U, y, T)
    BY <1>6 DEF OpensWell
<1>8. \A s \in Slots : table[s].pad # NoPad => T[s] = table[s]
    BY <1>4, <1>3
<1>9. \A s \in Slots : T[s] = table[s] \/ T[s].pad \in {x, y}
    BY <1>3, <1>7
<1>10. ASSUME NEW p \in Pads, {q \in Pads : OpenIn(T, q) /\ ~OpenIn(table, q)} = {p}
       PROVE  Reopens(table, p, T)
  <2>1. OpenIn(T, p) /\ ~OpenIn(table, p)
    BY <1>10
  <2>2. p \in {x, y}
    BY <1>9, <2>1 DEF OpenIn
  <2>3. CASE p = x
    <3>1. ASSUME NEW i, NEW s \in Slots, U[s].pad = x /\ IdOf(U[s]) = i
          PROVE  T[s].pad = x /\ IdOf(T[s]) = i
      BY <1>4, <3>1, SlotsAreNumbers
    <3>2. QED
      BY <1>3, <2>3, <3>1 DEF Reopens
  <2>4. CASE p = y
    <3>1. U = table
      <4>1. CASE OpenIn(table, x)
        BY <4>1 DEF U, Opened
      <4>2. CASE ~OpenIn(table, x) /\ OpenIn(U, x)
        <5>1. OpenIn(T, x)
          BY <1>4, <4>2, SlotsAreNumbers DEF OpenIn
        <5>2. QED
          BY <1>10, <2>4, <4>2, <5>1
      <4>3. QED
        BY <1>3, <4>1, <4>2
    <3>2. QED
      BY <1>7, <2>4, <3>1
  <2>5. QED
    BY <2>2, <2>3, <2>4
<1>11. QED
    BY <1>8, <1>9, <1>10, <1>7

\* The same of one pad.
LEMMA OneIsOpened ==
    ASSUME PadsTyped, NEW T, NEW x \in Pads, T = Opened(table, x)
    PROVE  /\ TableOk(T)
           /\ \A s \in Slots : table[s].pad # NoPad => T[s] = table[s]
           /\ \A s \in Slots : T[s] = table[s] \/ T[s].pad = x
           /\ \A p \in Pads :
                {q \in Pads : OpenIn(T, q) /\ ~OpenIn(table, q)} = {p} => Reopens(table, p, T)
<1>1. TableOk(table) /\ Bounded(table)
    BY DEF PadsTyped
<1>2. OpensWell(table, x, T)
    BY <1>1, OpenedKeeps
<1>3. /\ TableOk(T)
      /\ \A s \in Slots : table[s].pad # NoPad => T[s] = table[s]
      /\ \A s \in Slots : T[s] = table[s] \/ T[s].pad = x
      /\ Reopens(table, x, T)
    BY <1>2 DEF OpensWell
<1>4. ASSUME NEW p \in Pads, {q \in Pads : OpenIn(T, q) /\ ~OpenIn(table, q)} = {p}
      PROVE  Reopens(table, p, T)
  <2>1. OpenIn(T, p) /\ ~OpenIn(table, p)
    BY <1>4
  <2>2. p = x
    BY <1>3, <2>1 DEF OpenIn
  <2>3. QED
    BY <1>3, <2>2
<1>5. QED
    BY <1>3, <1>4

\* Where the entry of an open pad is.
LEMMA SlotOfPad ==
    ASSUME NEW T, TableOk(T), NEW p \in Pads
    PROVE  /\ OpenIn(T, p) => SlotOf(T, p) \in Slots /\ T[SlotOf(T, p)].pad = p
           /\ \A s \in Slots : T[s].pad = p => OpenIn(T, p) /\ SlotOf(T, p) = s
<1>1. OpenIn(T, p) => SlotOf(T, p) \in Slots /\ T[SlotOf(T, p)].pad = p
    BY DEF OpenIn, SlotOf
<1>2. ASSUME NEW s \in Slots, T[s].pad = p
      PROVE  OpenIn(T, p) /\ SlotOf(T, p) = s
  <2>1. OpenIn(T, p)
    BY <1>2 DEF OpenIn
  <2>2. p # NoPad
    BY SlotsAreNumbers
  <2>3. QED
    BY <1>1, <1>2, <2>1, <2>2 DEF TableOk
<1>3. QED
    BY <1>1, <1>2

\* A pad is added to those that are plugged in.
LEMMA AddedPad ==
    ASSUME PadsTyped, WinTyped, DeviceAdded
    PROVE  /\ plugged' \in Seq(Pads) /\ Len(plugged') \in {1, 2}
           /\ \A i \in 1..Len(plugged) : \E j \in 1..Len(plugged') : plugged'[j] = plugged[i]
           /\ Len(plugged') = 2 => plugged'[1] # plugged'[2]
           /\ axis' \in [Pads -> Int]
           /\ \A q \in Pads : (\E i \in 1..Len(plugged) : plugged[i] = q) => axis'[q] = axis[q]
<1>1. win.role \in {"host", "remote"}
    BY DEF WinTyped, Windows
<1>2. PICK p \in PadsOf[win.role], v \in {-1, 0, 1} :
         /\ \A i \in 1..Len(plugged) : plugged[i] # p
         /\ plugged' = Append(plugged, p)
         /\ axis' = [axis EXCEPT ![p] = v]
    BY DEF DeviceAdded
<1>3. p \in Pads
    BY <1>1 DEF Pads
<1>4. plugged \in Seq(Pads) /\ Len(plugged) \in {0, 1} /\ axis \in [Pads -> Int]
  <2>1. plugged \in Seq(Pads) /\ axis \in [Pads -> Int]
    BY DEF PadsTyped
  <2>2. Len(plugged) \in Nat /\ Len(plugged) < 2
    BY <2>1 DEF DeviceAdded
  <2>3. Len(plugged) = 0 \/ Len(plugged) = 1
    <3>1. PICK n \in Nat : n = Len(plugged)
      BY <2>2
    <3>2. n = 0 \/ n = 1
      BY <2>2, <3>1
    <3>3. QED
      BY <3>1, <3>2
  <2>4. QED
    BY <2>1, <2>3
<1>5. /\ plugged' \in Seq(Pads) /\ Len(plugged') = Len(plugged) + 1
      /\ \A i \in 1..Len(plugged) : plugged'[i] = plugged[i]
      /\ plugged'[Len(plugged) + 1] = p
    BY <1>2, <1>3, <1>4, AppendProperties
<1>6. Len(plugged') \in {1, 2}
    BY <1>4, <1>5
<1>7. \A i \in 1..Len(plugged) : \E j \in 1..Len(plugged') : plugged'[j] = plugged[i]
    BY <1>4, <1>5
<1>8. Len(plugged') = 2 => plugged'[1] # plugged'[2]
    BY <1>2, <1>4, <1>5
<1>9. axis' \in [Pads -> Int]
    BY <1>2, <1>3, <1>4
<1>10. \A q \in Pads : q # p => axis'[q] = axis[q]
    BY <1>2, <1>4
<1>11. QED
    BY <1>2, <1>5, <1>6, <1>7, <1>8, <1>9, <1>10

\* What the table is when a pad is plugged in.
LEMMA AddedTable ==
    ASSUME PadsTyped, WinTyped, DeviceAdded
    PROVE  /\ TableOk(table') /\ Bounded(table')
           /\ \A s \in Slots : table[s].pad # NoPad => table'[s] = table[s]
           /\ \A s \in Slots : table'[s].pad # NoPad =>
                \E i \in 1..Len(plugged') : plugged'[i] = table'[s].pad
           /\ \A p \in Pads : {q \in Pads : OpenIn(table', q) /\ ~OpenIn(table, q)} = {p}
                              => Reopens(table, p, table')
<1>1. Bounded(table') /\ table' = open_game_controllers(plugged')
    BY DEF DeviceAdded, Bounded
<1>2. /\ plugged' \in Seq(Pads) /\ Len(plugged') \in {1, 2}
      /\ \A i \in 1..Len(plugged) : \E j \in 1..Len(plugged') : plugged'[j] = plugged[i]
      /\ Len(plugged') = 2 => plugged'[1] # plugged'[2]
    BY AddedPad
<1>3. \A s \in Slots : table[s].pad # NoPad =>
          \E i \in 1..Len(plugged) : plugged[i] = table[s].pad
    BY DEF PadsTyped
<1>4. CASE Len(plugged') = 1
  <2>1. plugged'[1] \in Pads
    BY <1>2, <1>4
  <2>2. table' = Opened(table, plugged'[1])
    BY <1>1, <1>4, OpensOne
  <2>3. /\ TableOk(table')
        /\ \A s \in Slots : table[s].pad # NoPad => table'[s] = table[s]
        /\ \A s \in Slots : table'[s] = table[s] \/ table'[s].pad = plugged'[1]
        /\ \A p \in Pads : {q \in Pads : OpenIn(table', q) /\ ~OpenIn(table, q)} = {p}
                           => Reopens(table, p, table')
    BY <2>1, <2>2, OneIsOpened
  <2>4. \A s \in Slots : table'[s].pad # NoPad =>
          \E i \in 1..Len(plugged') : plugged'[i] = table'[s].pad
    <3>1. 1 \in 1..Len(plugged')
      BY <1>4
    <3>2. ASSUME NEW s \in Slots, table'[s].pad # NoPad, table'[s] = table[s]
          PROVE  \E i \in 1..Len(plugged') : plugged'[i] = table'[s].pad
      <4>1. PICK i \in 1..Len(plugged) : plugged[i] = table[s].pad
        BY <1>3, <3>2
      <4>2. PICK j \in 1..Len(plugged') : plugged'[j] = plugged[i]
        BY <1>2
      <4>3. QED
        BY <3>2, <4>1, <4>2
    <3>3. QED
      BY <2>3, <3>1, <3>2
  <2>5. QED
    BY <1>1, <2>3, <2>4
<1>5. CASE Len(plugged') = 2
  <2>1. plugged'[1] \in Pads /\ plugged'[2] \in Pads /\ plugged'[1] # plugged'[2]
    BY <1>2, <1>5
  <2>2. table' = Opened(Opened(table, plugged'[1]), plugged'[2])
    BY <1>1, <1>5, OpensTwo
  <2>3. /\ TableOk(table')
        /\ \A s \in Slots : table[s].pad # NoPad => table'[s] = table[s]
        /\ \A s \in Slots : table'[s] = table[s] \/ table'[s].pad \in {plugged'[1], plugged'[2]}
        /\ \A p \in Pads : {q \in Pads : OpenIn(table', q) /\ ~OpenIn(table, q)} = {p}
                           => Reopens(table, p, table')
    BY <1>1, <2>1, <2>2, TwoAreOpened
  <2>4. \A s \in Slots : table'[s].pad # NoPad =>
          \E i \in 1..Len(plugged') : plugged'[i] = table'[s].pad
    <3>1. 1 \in 1..Len(plugged') /\ 2 \in 1..Len(plugged')
      BY <1>5
    <3>2. ASSUME NEW s \in Slots, table'[s].pad # NoPad, table'[s] = table[s]
          PROVE  \E i \in 1..Len(plugged') : plugged'[i] = table'[s].pad
      <4>1. PICK i \in 1..Len(plugged) : plugged[i] = table[s].pad
        BY <1>3, <3>2
      <4>2. PICK j \in 1..Len(plugged') : plugged'[j] = plugged[i]
        BY <1>2
      <4>3. QED
        BY <3>2, <4>1, <4>2
    <3>3. QED
      BY <2>3, <3>1, <3>2
  <2>5. QED
    BY <1>1, <2>3, <2>4
<1>6. QED
    BY <1>2, <1>4, <1>5

\* A pad that is unplugged leaves its entry closed.
LEMMA RemovedTable ==
    ASSUME PadsTyped, DeviceRemoved
    PROVE  /\ PadsTyped'
           /\ \A s \in Slots : table'[s].pad # NoPad => table'[s] = table[s]
<1>1. PICK i \in 1..Len(plugged) :
         /\ plugged' = SubSeq(plugged, 1, i - 1) \o SubSeq(plugged, i + 1, Len(plugged))
         /\ axis' = [axis EXCEPT ![plugged[i]] = 0]
         /\ table' = [s \in Slots |-> IF table[s].pad = plugged[i]
                                     THEN [table[s] EXCEPT !.pad = NoPad] ELSE table[s]]
    BY DEF DeviceRemoved
<1>2. plugged \in Seq(Pads) /\ Len(plugged) <= 2 /\ axis \in [Pads -> Int] /\ TableOk(table)
      /\ Bounded(table)
    BY DEF PadsTyped
<1>3. /\ plugged' \in Seq(Pads) /\ Len(plugged') <= 2
      /\ \A j \in 1..Len(plugged) : j # i => \E k \in 1..Len(plugged') : plugged'[k] = plugged[j]
  <2>1. LET r == SubSeq(plugged, 1, i - 1) \o SubSeq(plugged, i + 1, Len(plugged)) IN
        /\ r \in Seq(Pads) /\ Len(r) = Len(plugged) - 1
        /\ \A j \in 1..Len(plugged) : j # i => \E k \in 1..Len(r) : r[k] = plugged[j]
    BY <1>2, WithoutOne
  <2>2. /\ plugged' \in Seq(Pads) /\ Len(plugged') = Len(plugged) - 1
        /\ \A j \in 1..Len(plugged) : j # i
                => \E k \in 1..Len(plugged') : plugged'[k] = plugged[j]
    BY <1>1, <2>1
  <2>3. Len(plugged) \in Nat
    BY <1>2
  <2>4. Len(plugged') <= 2
    BY <1>2, <2>2, <2>3
  <2>5. QED
    BY <2>2, <2>4
<1>4. PICK p \in Pads : p = plugged[i]
    BY <1>2
<1>5. \A s \in Slots : table[s] \in Entries
    BY <1>2 DEF TableOk
<1>6. \A s \in Slots : /\ table'[s] \in Entries
                       /\ IdOf(table'[s]) = IdOf(table[s])
                       /\ table'[s].print = table[s].print /\ table'[s].ordinal = table[s].ordinal
                       /\ table'[s].pad = IF table[s].pad = p THEN NoPad ELSE table[s].pad
                       /\ table[s].pad # p => table'[s] = table[s]
                       /\ table'[s] # Free => table[s] # Free
  <2> SUFFICES ASSUME NEW s \in Slots
               PROVE  /\ table'[s] \in Entries
                      /\ IdOf(table'[s]) = IdOf(table[s])
                      /\ table'[s].print = table[s].print
                      /\ table'[s].ordinal = table[s].ordinal
                      /\ table'[s].pad = IF table[s].pad = p THEN NoPad ELSE table[s].pad
                      /\ table[s].pad # p => table'[s] = table[s]
                      /\ table'[s] # Free => table[s] # Free
    OBVIOUS
  <2>1. CASE table[s].pad = p
    <3>1. table'[s] = [table[s] EXCEPT !.pad = NoPad]
      BY <1>1, <1>4, <2>1
    <3>2. table[s] = [pad |-> p, print |-> table[s].print, ordinal |-> table[s].ordinal]
      BY <1>5, <2>1 DEF Entries
    <3>3. table'[s] = [pad |-> NoPad, print |-> table[s].print, ordinal |-> table[s].ordinal]
      BY <3>1, <3>2
    <3>4. table[s] # Free
      BY <2>1, SlotsAreNumbers DEF Free
    <3>5. table'[s] \in Entries
      BY <1>5, <3>3 DEF Entries
    <3>6. QED
      BY <2>1, <3>3, <3>4, <3>5 DEF IdOf
  <2>2. CASE table[s].pad # p
    BY <1>1, <1>4, <1>5, <2>2
  <2>3. QED
    BY <2>1, <2>2
<1>7. TableOk(table')
  <2>1. table' \in [Slots -> Entries]
    BY <1>1, <1>6
  <2>2. \A s \in Slots : table'[s] # Free => table'[s].print \in Prints
    BY <1>2, <1>6 DEF TableOk
  <2>3. \A s \in Slots : table'[s].pad # NoPad => table'[s].print = Fingerprint[table'[s].pad]
    BY <1>2, <1>6 DEF TableOk
  <2>4. \A s, t \in Slots :
            s # t /\ table'[s] # Free /\ table'[t] # Free => IdOf(table'[s]) # IdOf(table'[t])
    BY <1>2, <1>6 DEF TableOk
  <2>5. \A s, t \in Slots : table'[s].pad # NoPad /\ table'[s].pad = table'[t].pad => s = t
    BY <1>2, <1>6 DEF TableOk
  <2>6. QED
    BY <2>1, <2>2, <2>3, <2>4, <2>5 DEF TableOk
<1>8. Bounded(table')
    BY <1>2, <1>6 DEF Bounded
<1>9. \A s \in Slots : table'[s].pad # NoPad =>
          \E j \in 1..Len(plugged') : plugged'[j] = table'[s].pad
  <2> SUFFICES ASSUME NEW s \in Slots, table'[s].pad # NoPad
               PROVE  \E j \in 1..Len(plugged') : plugged'[j] = table'[s].pad
    OBVIOUS
  <2>1. table[s].pad # p /\ table'[s].pad = table[s].pad
    BY <1>6
  <2>2. PICK j \in 1..Len(plugged) : plugged[j] = table[s].pad
    BY <2>1 DEF PadsTyped
  <2>3. j # i
    BY <1>4, <2>1, <2>2
  <2>4. QED
    BY <1>3, <2>1, <2>2, <2>3
<1>10. axis' \in [Pads -> Int] /\ key' \in BOOLEAN
  <2>1. axis' \in [Pads -> Int]
    BY <1>1, <1>2, <1>4
  <2>2. key' \in BOOLEAN
    BY DEF DeviceRemoved, PadsTyped
  <2>3. QED
    BY <2>1, <2>2
<1>11. QED
    BY <1>3, <1>6, <1>7, <1>8, <1>9, <1>10 DEF PadsTyped

\* Every step keeps what the pads are.
LEMMA PadsKept ==
    ASSUME PadsTyped, WinTyped, [PadsNext]_padVars
    PROVE  PadsTyped'
<1>1. CASE DeviceAdded
  <2>1. /\ plugged' \in Seq(Pads) /\ Len(plugged') \in {1, 2}
        /\ axis' \in [Pads -> Int]
    BY <1>1, AddedPad
  <2>2. /\ TableOk(table') /\ Bounded(table')
        /\ \A s \in Slots : table'[s].pad # NoPad =>
             \E i \in 1..Len(plugged') : plugged'[i] = table'[s].pad
    BY <1>1, AddedTable
  <2>3. key' \in BOOLEAN
    BY <1>1 DEF DeviceAdded, PadsTyped
  <2>4. Len(plugged') <= 2
    <3>1. PICK n \in {1, 2} : n = Len(plugged')
      BY <2>1
    <3>2. n <= 2
      OBVIOUS
    <3>3. QED
      BY <3>1, <3>2
  <2>5. QED
    BY <2>1, <2>2, <2>3, <2>4 DEF PadsTyped
<1>2. CASE DeviceRemoved
    BY <1>2, RemovedTable
<1>3. CASE UNCHANGED <<plugged, table>> /\ axis' \in [Pads -> Int] /\ key' \in BOOLEAN
    BY <1>3 DEF PadsTyped
<1>4. CASE AxisMoved
  <2>1. PICK i \in 1..Len(plugged), v \in {-1, 0, 1} : axis' = [axis EXCEPT ![plugged[i]] = v]
    BY <1>4 DEF AxisMoved
  <2>2. plugged[i] \in Pads /\ axis \in [Pads -> Int]
    BY DEF PadsTyped
  <2>3. axis' \in [Pads -> Int]
    BY <2>1, <2>2
  <2>4. UNCHANGED <<plugged, table>> /\ key' \in BOOLEAN
    BY <1>4 DEF AxisMoved, PadsTyped
  <2>5. QED
    BY <1>3, <2>3, <2>4
<1>5. CASE KeyMoved
  <2>1. UNCHANGED <<plugged, table, axis>> /\ key' = ~key
    BY <1>5 DEF KeyMoved
  <2>2. QED
    BY <1>3, <2>1 DEF PadsTyped
<1>6. CASE WindowEvent \/ SendInput \/ Break \/ BreakBoth \/ Return \/ TakeMessage \/ Frame
           \/ UNCHANGED padVars
  <2>1. UNCHANGED <<plugged, table, axis, key>>
    BY <1>6 DEF WindowEvent, SendInput, Break, BreakBoth, Return, TakeMessage, Frame, padVars,
                DeviceAside
  <2>2. QED
    BY <1>3, <2>1 DEF PadsTyped
<1>7. QED
    BY <1>1, <1>2, <1>4, <1>5, <1>6 DEF PadsNext, Events

\* What an event makes of a window.
LEMMA PolledTyped ==
    ASSUME WinTyped, NEW press \in SUBSET Buttons, NEW release \in SUBSET Buttons,
           NEW w, w = Polled(press, release)
    PROVE  /\ w \in Windows /\ w.role = win.role
           /\ w.asking \/ ~w.focused => w.buttons = {}
           /\ w.running => \/ w.buttons \subseteq (win.buttons \cup press) \ release
                           \/ w.buttons = {}
<1>1. win \in Windows /\ (win.asking \/ ~win.focused => win.buttons = {})
    BY DEF WinTyped
<1>2. CASE ~win.asking
  <2>1. w = set_button(win, press, release)
    BY <1>2 DEF Polled
  <2>2. CASE ~win.running \/ ~win.focused
    <3>1. w = win
      BY <2>1, <2>2 DEF set_button
    <3>2. QED
      BY <1>1, <2>2, <3>1
  <2>3. CASE win.running /\ win.focused
    <3>1. PICK b \in SUBSET Buttons : b = (win.buttons \cup press) \ release
      BY <1>1 DEF Windows
    <3>2. w = [win EXCEPT !.buttons = b]
      BY <2>1, <2>3, <3>1 DEF set_button
    <3>3. /\ w \in Windows /\ w.role = win.role /\ w.focused = win.focused
          /\ w.asking = win.asking /\ w.buttons = b
      BY <1>1, <3>2 DEF Windows
    <3>4. QED
      BY <1>2, <2>3, <3>1, <3>3
  <2>4. QED
    BY <2>2, <2>3
<1>3. CASE win.asking
  <2>1. win.buttons = {}
    BY <1>1, <1>3
  <2>2. CASE w = [win EXCEPT !.yes = ~@]
    <3>1. w \in Windows /\ w.role = win.role /\ w.buttons = win.buttons
      BY <1>1, <2>2 DEF Windows
    <3>2. QED
      BY <2>1, <3>1
  <2>3. CASE w = [win EXCEPT !.buttons = {}, !.neutral = TRUE, !.running = FALSE]
    <3>1. w \in Windows /\ w.role = win.role /\ w.buttons = {}
      BY <1>1, <2>3 DEF Windows
    <3>2. QED
      BY <3>1
  <2>4. CASE w = [win EXCEPT !.asking = FALSE, !.yes = FALSE]
    <3>1. w \in Windows /\ w.role = win.role /\ w.buttons = win.buttons
      BY <1>1, <2>4 DEF Windows
    <3>2. QED
      BY <2>1, <3>1
  <2>5. CASE w = win
    BY <1>1, <2>1, <2>5
  <2>6. CASE press \cap {"LEFT", "RIGHT"} # {}
    <3>1. w = [win EXCEPT !.yes = ~@]
      BY <1>3, <2>6 DEF Polled, toggle_exit_selection
    <3>2. QED
      BY <2>2, <3>1
  <2>7. CASE press \cap {"LEFT", "RIGHT"} = {}
    <3>1. w = IF "A" \in press THEN select_exit(win) ELSE win
      BY <1>3, <2>7 DEF Polled
    <3>2. QED
      BY <2>3, <2>4, <2>5, <3>1 DEF select_exit, cancel_exit
  <2>8. QED
    BY <2>6, <2>7
<1>4. win.asking \in BOOLEAN
    BY <1>1 DEF Windows
<1>5. QED
    BY <1>2, <1>3, <1>4

\* What a step that polls no axis and no key makes of a window.
LEMMA Released ==
    ASSUME WinTyped, NEW w,
           \/ w = win
           \/ w = [win EXCEPT !.buttons = {}, !.neutral = TRUE]
           \/ w = focus_lost(win)
           \/ w = [win EXCEPT !.focused = TRUE]
           \/ w = request_exit(win)
           \/ win.asking /\ w = cancel_exit(win)
           \/ w = take_neutral(win)
           \/ w = [win EXCEPT !.buttons = {}]
    PROVE  /\ w \in Windows /\ w.role = win.role /\ w.running = win.running
           /\ w.asking \/ ~w.focused => w.buttons = {}
           /\ w.buttons \subseteq win.buttons
<1>1. win \in Windows /\ (win.asking \/ ~win.focused => win.buttons = {})
    BY DEF WinTyped
<1>2. CASE w = win
    BY <1>1, <1>2
<1>3. CASE w = [win EXCEPT !.buttons = {}, !.neutral = TRUE] \/ w = [win EXCEPT !.buttons = {}]
  <2>1. w \in Windows /\ w.role = win.role /\ w.running = win.running /\ w.buttons = {}
    BY <1>1, <1>3 DEF Windows
  <2>2. QED
    BY <2>1
<1>4. CASE w = focus_lost(win)
  <2>1. w \in Windows /\ w.role = win.role /\ w.running = win.running /\ w.buttons = {}
    BY <1>1, <1>4 DEF Windows, focus_lost
  <2>2. QED
    BY <2>1
<1>5. CASE w = request_exit(win)
  <2>1. w \in Windows /\ w.role = win.role /\ w.running = win.running /\ w.buttons = {}
    BY <1>1, <1>5 DEF Windows, request_exit
  <2>2. QED
    BY <2>1
<1>6. CASE w = [win EXCEPT !.focused = TRUE]
  <2>1. w \in Windows /\ w.role = win.role /\ w.running = win.running
        /\ w.buttons = win.buttons /\ w.asking = win.asking /\ w.focused
    BY <1>1, <1>6 DEF Windows
  <2>2. QED
    BY <1>1, <2>1
<1>7. CASE win.asking /\ w = cancel_exit(win)
  <2>1. w \in Windows /\ w.role = win.role /\ w.running = win.running /\ w.buttons = win.buttons
    BY <1>1, <1>7 DEF Windows, cancel_exit
  <2>2. QED
    BY <1>1, <1>7, <2>1
<1>8. CASE w = take_neutral(win)
  <2>1. w \in Windows /\ w.role = win.role /\ w.running = win.running
        /\ w.buttons = win.buttons /\ w.asking = win.asking /\ w.focused = win.focused
    BY <1>1, <1>8 DEF Windows, take_neutral
  <2>2. QED
    BY <1>1, <2>1
<1>9. QED
    BY <1>2, <1>3, <1>4, <1>5, <1>6, <1>7, <1>8

\* What an axis or the key makes of the window.
LEMMA PolledKeeps ==
    ASSUME WinTyped, AxisMoved \/ KeyMoved
    PROVE  /\ win' \in Windows /\ win'.role = win.role
           /\ win'.asking \/ ~win'.focused => win'.buttons = {}
<1>1. CASE win' = win
    BY <1>1 DEF WinTyped
<1>2. CASE AxisMoved /\ win' # win
  <2>1. PICK p, v : win' = Polled(press_mask(p, v), release_mask(p, v))
    BY <1>2 DEF AxisMoved
  <2>2. press_mask(p, v) \in SUBSET Buttons /\ release_mask(p, v) \in SUBSET Buttons
    BY DEF press_mask, release_mask
  <2>3. QED
    BY <2>1, <2>2, PolledTyped
<1>3. CASE KeyMoved /\ win' # win
  <2>1. PICK press, release : /\ press \in {{}, KeyMask} /\ release \in {{}, KeyMask}
                              /\ win' = Polled(press, release)
    BY <1>3 DEF KeyMoved
  <2>2. press \in SUBSET Buttons /\ release \in SUBSET Buttons
    BY <2>1 DEF KeyMask
  <2>3. QED
    BY <2>1, <2>2, PolledTyped
<1>4. QED
    BY <1>1, <1>2, <1>3

\* Every step keeps what the window is; only an axis or the key presses a button.
LEMMA WinKept ==
    ASSUME WinTyped, [PadsNext]_padVars
    PROVE  /\ WinTyped' /\ win'.role = win.role
           /\ \/ AxisMoved \/ KeyMoved
              \/ win'.running = win.running /\ win'.buttons \subseteq win.buttons
<1>1. CASE AxisMoved \/ KeyMoved
    BY <1>1, PolledKeeps DEF WinTyped
<1>2. CASE \/ win' = win
           \/ win' = [win EXCEPT !.buttons = {}, !.neutral = TRUE]
           \/ win' = focus_lost(win)
           \/ win' = [win EXCEPT !.focused = TRUE]
           \/ win' = request_exit(win)
           \/ win.asking /\ win' = cancel_exit(win)
           \/ win' = take_neutral(win)
           \/ win' = [win EXCEPT !.buttons = {}]
  <2>1. /\ win' \in Windows /\ win'.role = win.role /\ win'.running = win.running
        /\ win'.asking \/ ~win'.focused => win'.buttons = {}
        /\ win'.buttons \subseteq win.buttons
    BY <1>2, Released
  <2>2. QED
    BY <2>1 DEF WinTyped
<1>3. CASE DeviceAdded \/ Frame \/ UNCHANGED padVars
  <2>1. win' = win
    BY <1>3 DEF DeviceAdded, Frame, padVars
  <2>2. QED
    BY <1>2, <2>1
<1>4. CASE DeviceRemoved
  <2>1. win' = [win EXCEPT !.buttons = {}, !.neutral = TRUE]
    BY <1>4 DEF DeviceRemoved
  <2>2. QED
    BY <1>2, <2>1
<1>5. CASE WindowEvent
  <2>1. \/ win' = focus_lost(win)
        \/ win' = [win EXCEPT !.focused = TRUE]
        \/ win' = request_exit(win)
        \/ win.asking /\ win' = cancel_exit(win)
    BY <1>5 DEF WindowEvent
  <2>2. QED
    BY <1>2, <2>1
<1>6. CASE SendInput
  <2>1. win' = take_neutral(win)
    BY <1>6 DEF SendInput
  <2>2. QED
    BY <1>2, <2>1
<1>7. CASE Break \/ BreakBoth \/ Return \/ TakeMessage
  <2>1. win' = win \/ win' = [win EXCEPT !.buttons = {}]
    <3>1. CASE Break
      BY <3>1 DEF Break, Recovering
    <3>2. CASE BreakBoth
      BY <3>2 DEF BreakBoth
    <3>3. CASE Return
      BY <3>3 DEF Return, Recovering
    <3>4. CASE TakeMessage
      BY <3>4 DEF TakeMessage
    <3>5. QED
      BY <1>7, <3>1, <3>2, <3>3, <3>4
  <2>2. QED
    BY <1>2, <2>1
<1>8. QED
    BY <1>1, <1>3, <1>4, <1>5, <1>6, <1>7 DEF PadsNext, Events

\* What holds a button down, of a table, the axes and the key.
Holds(T, a, k, b) ==
    IF IsKey(b) THEN k
    ELSE \E p \in Pads, s \in Slots : /\ T[s].pad = p /\ a[p] = Bindings[b].push
                                      /\ IdOf(T[s]) = Bindings[b].id

\* The window reads the same of a pad as of its entry.
LEMMA HeldIsHolds ==
    ASSUME NEW T, TableOk(T), NEW a, NEW k, NEW b \in Buttons
    PROVE  Holds(T, a, k, b) <=>
             IF IsKey(b) THEN k
             ELSE \E p \in Pads : /\ OpenIn(T, p) /\ a[p] = Bindings[b].push
                                  /\ IdOf(T[SlotOf(T, p)]) = Bindings[b].id
<1>1. ASSUME NEW p \in Pads, NEW s \in Slots, T[s].pad = p
      PROVE  OpenIn(T, p) /\ SlotOf(T, p) = s
    BY <1>1, SlotOfPad
<1>2. ASSUME NEW p \in Pads, OpenIn(T, p)
      PROVE  SlotOf(T, p) \in Slots /\ T[SlotOf(T, p)].pad = p
    BY <1>2, SlotOfPad
<1>3. QED
    BY <1>1, <1>2 DEF Holds

\* ButtonsAreHeld in words of Holds.
ButtonsHeld == win.running => \A b \in win.buttons : Holds(table, axis, key, b)

\* The buttons that are held stay held.
LEMMA HeldKept ==
    ASSUME PadsTyped, WinTyped, ButtonsHeld, [PadsNext]_padVars
    PROVE  ButtonsHeld'
<1>1. ASSUME win'.running = win.running, win'.buttons \subseteq win.buttons,
             \A b \in win'.buttons : Holds(table, axis, key, b) => Holds(table', axis', key', b)
      PROVE  ButtonsHeld'
    BY <1>1 DEF ButtonsHeld
<1>2. CASE DeviceAdded
  <2>1. win' = win /\ key' = key
    BY <1>2 DEF DeviceAdded
  <2>2. \A s \in Slots : table[s].pad # NoPad => table'[s] = table[s]
    BY <1>2, AddedTable
  <2>3. \A q \in Pads : (\E i \in 1..Len(plugged) : plugged[i] = q) => axis'[q] = axis[q]
    BY <1>2, AddedPad
  <2>4. ASSUME NEW b, Holds(table, axis, key, b)
        PROVE  Holds(table', axis', key', b)
    <3>1. CASE IsKey(b)
      BY <2>1, <2>4, <3>1 DEF Holds
    <3>2. CASE ~IsKey(b)
      <4>1. PICK p \in Pads, s \in Slots : /\ table[s].pad = p /\ axis[p] = Bindings[b].push
                                           /\ IdOf(table[s]) = Bindings[b].id
        BY <2>4, <3>2 DEF Holds
      <4>2. table'[s] = table[s]
        BY <2>2, <4>1, SlotsAreNumbers
      <4>3. axis'[p] = axis[p]
        BY <2>3, <4>1, SlotsAreNumbers DEF PadsTyped
      <4>4. QED
        BY <3>2, <4>1, <4>2, <4>3 DEF Holds
    <3>3. QED
      BY <3>1, <3>2
  <2>5. QED
    BY <1>1, <2>1, <2>4
<1>3. CASE DeviceRemoved
  <2>1. win'.buttons = {}
    BY <1>3 DEF DeviceRemoved, WinTyped, Windows
  <2>2. QED
    BY <2>1 DEF ButtonsHeld
<1>4. CASE UNCHANGED <<table, axis, key>> /\ win'.running = win.running
           /\ win'.buttons \subseteq win.buttons
    BY <1>4 DEF ButtonsHeld
<1>5. CASE AxisMoved
  <2>1. PICK i \in 1..Len(plugged), v \in {-1, 0, 1} :
           /\ axis' = [axis EXCEPT ![plugged[i]] = v]
           /\ \/ win' = Polled(press_mask(plugged[i], v), release_mask(plugged[i], v))
              \/ ~win.focused /\ UNCHANGED win
    BY <1>5 DEF AxisMoved
  <2>2. PICK p \in Pads : p = plugged[i]
    BY DEF PadsTyped
  <2>3. UNCHANGED <<table, key>> /\ axis'[p] = v /\ \A q \in Pads : q # p => axis'[q] = axis[q]
    BY <1>5, <2>1, <2>2 DEF AxisMoved, PadsTyped
  <2>4. CASE win' = win /\ ~win.focused
    BY <2>4 DEF WinTyped, ButtonsHeld
  <2>5. CASE win' = Polled(press_mask(p, v), release_mask(p, v))
    <3>1. press_mask(p, v) \in SUBSET Buttons /\ release_mask(p, v) \in SUBSET Buttons
      BY DEF press_mask, release_mask
    <3>2. win'.running =>
            \/ win'.buttons \subseteq (win.buttons \cup press_mask(p, v)) \ release_mask(p, v)
            \/ win'.buttons = {}
      <4>1. PICK press \in SUBSET Buttons, release \in SUBSET Buttons :
               press = press_mask(p, v) /\ release = release_mask(p, v)
        BY <3>1
      <4>2. win' = Polled(press, release)
        BY <2>5, <4>1
      <4>3. win'.running => \/ win'.buttons \subseteq (win.buttons \cup press) \ release
                            \/ win'.buttons = {}
        BY <4>2, PolledTyped
      <4>4. QED
        BY <4>1, <4>3
    <3>3. TableOk(table)
      BY DEF PadsTyped
    <3>4. ASSUME NEW b \in Buttons
          PROVE  binding_matches_event(b, p) <=>
                   ~IsKey(b) /\ \E s \in Slots : table[s].pad = p /\ IdOf(table[s]) = Bindings[b].id
      <4>1. \A s \in Slots : table[s].pad = p => OpenIn(table, p) /\ SlotOf(table, p) = s
        BY <3>3, SlotOfPad
      <4>2. OpenIn(table, p) => SlotOf(table, p) \in Slots /\ table[SlotOf(table, p)].pad = p
        BY <3>3, SlotOfPad
      <4>3. QED
        BY <4>1, <4>2 DEF binding_matches_event
    <3>5. ASSUME NEW b \in Buttons, b \in press_mask(p, v)
          PROVE  Holds(table', axis', key', b)
      BY <2>3, <3>4, <3>5 DEF press_mask, Holds
    <3>6. ASSUME NEW b \in Buttons, Holds(table, axis, key, b), b \notin release_mask(p, v)
          PROVE  Holds(table', axis', key', b)
      <4>1. CASE IsKey(b)
        BY <2>3, <3>6, <4>1 DEF Holds
      <4>2. CASE ~IsKey(b)
        <5>1. PICK q \in Pads, s \in Slots : /\ table[s].pad = q /\ axis[q] = Bindings[b].push
                                             /\ IdOf(table[s]) = Bindings[b].id
          BY <3>6, <4>2 DEF Holds
        <5>2. axis'[q] = Bindings[b].push
          <6>1. CASE q # p
            BY <2>3, <5>1, <6>1
          <6>2. CASE q = p
            <7>1. binding_matches_event(b, p)
              BY <3>4, <4>2, <5>1, <6>2
            <7>2. Bindings[b].push = v
              BY <3>6, <7>1 DEF release_mask
            <7>3. QED
              BY <2>3, <6>2, <7>2
          <6>3. QED
            BY <6>1, <6>2
        <5>3. QED
          BY <2>3, <4>2, <5>1, <5>2 DEF Holds
      <4>3. QED
        BY <4>1, <4>2
    <3>7. win.buttons \in SUBSET Buttons
      BY DEF WinTyped, Windows
    <3>8. win.running
      BY <1>5 DEF AxisMoved
    <3>9. QED
      BY <3>1, <3>2, <3>5, <3>6, <3>7, <3>8 DEF ButtonsHeld
  <2>6. QED
    BY <2>1, <2>2, <2>4, <2>5
<1>6. CASE KeyMoved
  <2>1. UNCHANGED <<table, axis>> /\ key' = ~key /\ win.running /\ key \in BOOLEAN
    BY <1>6 DEF KeyMoved, PadsTyped
  <2>2. win.buttons \in SUBSET Buttons
    BY DEF WinTyped, Windows
  <2>3. CASE win' = win /\ ~win.focused
    BY <2>3 DEF WinTyped, ButtonsHeld
  <2>4. CASE key /\ win' = Polled({}, KeyMask)
    <3>1. KeyMask \in SUBSET Buttons /\ {} \in SUBSET Buttons
      BY DEF KeyMask
    <3>2. win'.running =>
             win'.buttons \subseteq (win.buttons \cup {}) \ KeyMask \/ win'.buttons = {}
      BY <2>4, <3>1, PolledTyped
    <3>3. \A b \in Buttons : Holds(table, axis, key, b) /\ b \notin KeyMask
                            => Holds(table', axis', key', b)
      BY <2>1 DEF Holds, KeyMask
    <3>4. QED
      BY <2>1, <2>2, <3>2, <3>3 DEF ButtonsHeld
  <2>5. CASE ~key /\ win' = Polled(KeyMask, {})
    <3>1. KeyMask \in SUBSET Buttons /\ {} \in SUBSET Buttons
      BY DEF KeyMask
    <3>2. win'.running =>
             win'.buttons \subseteq (win.buttons \cup KeyMask) \ {} \/ win'.buttons = {}
      BY <2>5, <3>1, PolledTyped
    <3>3. \A b \in Buttons : Holds(table, axis, key, b) \/ b \in KeyMask
                            => Holds(table', axis', key', b)
      BY <2>1, <2>5 DEF Holds, KeyMask
    <3>4. QED
      BY <2>1, <2>2, <3>1, <3>2, <3>3 DEF ButtonsHeld
  <2>6. QED
    BY <1>6, <2>3, <2>4, <2>5 DEF KeyMoved
<1>7. CASE WindowEvent \/ SendInput \/ Break \/ BreakBoth \/ Return \/ TakeMessage \/ Frame
           \/ UNCHANGED padVars
  <2>1. UNCHANGED <<table, axis, key>>
    BY <1>7 DEF WindowEvent, SendInput, Break, BreakBoth, Return, TakeMessage, Frame, padVars,
                DeviceAside
  <2>2. (win'.running = win.running /\ win'.buttons \subseteq win.buttons) \/ AxisMoved \/ KeyMoved
    BY WinKept
  <2>3. QED
    BY <1>4, <1>5, <1>6, <2>1, <2>2
<1>8. QED
    BY <1>2, <1>3, <1>5, <1>6, <1>7 DEF PadsNext, Events

-----------------------------------------------------------------------------
(* The wire                                                                 *)

\* What is on its way to the Host.
Messages == [type : {"input", "away", "back"}, buttons : SUBSET Buttons]

AllInput(w) == \A i \in 1..Len(w) : w[i].type = "input"

\* What is on its way ends with what was sent last, and after the news that the Remote is
\* gone the news that it is back is on its way.
WireTells ==
    win.role = "remote" /\ away = "nobody" =>
        /\ wire = <<>> => ~host.paused /\ (sent # Nothing => host.remote = sent)
        /\ wire # <<>> =>
              /\ wire[Len(wire)].type \in {"input", "back"}
              /\ wire[Len(wire)].type = "input" => wire[Len(wire)].buttons = sent
              /\ wire[Len(wire)].type = "back" => sent = Nothing
        /\ AllInput(wire) => ~host.paused
        /\ \A i \in 1..Len(wire) : wire[i].type = "away" =>
              \E j \in (i + 1)..Len(wire) : wire[j].type = "back"

\* The types of the wire; after the Host lost its connection nothing is on its way.
WireTyped ==
    /\ wire \in Seq(Messages)
    /\ host \in [remote : SUBSET Buttons, paused : BOOLEAN]
    /\ away \in {"nobody", "remote", "both"}
    /\ away = "both" => wire = <<>>

WireOk == WireTyped /\ WireTells

\* A message is sent.
LEMMA SentKeepsTheWire ==
    ASSUME WinTyped, WireOk, SendInput
    PROVE  WireOk'
<1>1. PICK m : m = [type |-> "input", buttons |-> win.buttons]
    OBVIOUS
<1>2. m \in Messages /\ m.type = "input" /\ m.buttons = win.buttons
    BY <1>1 DEF Messages, WinTyped, Windows
<1>3. /\ wire' = Append(wire, m) /\ sent' = win.buttons /\ UNCHANGED <<away, host>>
      /\ away = "nobody" /\ win.role = "remote"
    BY <1>1 DEF SendInput
<1>4. wire \in Seq(Messages)
    BY DEF WireOk, WireTyped
<1>5. /\ wire' \in Seq(Messages) /\ Len(wire') = Len(wire) + 1
      /\ \A i \in 1..Len(wire) : wire'[i] = wire[i]
      /\ wire'[Len(wire) + 1] = m
    BY <1>2, <1>3, <1>4, AppendProperties
<1>6. WireTyped'
    BY <1>3, <1>5 DEF WireOk, WireTyped
<1>7. PICK n \in Nat : n = Len(wire)
    BY <1>4
<1>8. wire' # <<>> /\ wire'[Len(wire')] = m
    BY <1>5, <1>7
<1>9. AllInput(wire') => AllInput(wire)
    BY <1>5, <1>7 DEF AllInput
<1>10. ASSUME NEW i \in 1..Len(wire'), wire'[i].type = "away"
       PROVE  \E j \in (i + 1)..Len(wire') : wire'[j].type = "back"
  <2>1. i \in 1..n
    BY <1>2, <1>5, <1>7, <1>10
  <2>2. PICK j \in (i + 1)..n : wire[j].type = "back"
    BY <1>3, <1>5, <1>7, <1>10, <2>1 DEF WireOk, WireTells
  <2>3. j \in 1..n /\ j \in (i + 1)..(n + 1)
    BY <2>1
  <2>4. QED
    BY <1>5, <1>7, <2>2, <2>3
<1>11. WireTells'
    BY <1>2, <1>3, <1>8, <1>9, <1>10 DEF WireOk, WireTells
<1>12. QED
    BY <1>6, <1>11 DEF WireOk

\* A connection breaks or is there again.
LEMMA BrokenKeepsTheWire ==
    ASSUME WinTyped, WireOk, Break \/ BreakBoth \/ Return
    PROVE  WireOk'
<1>1. wire \in Seq(Messages) /\ host \in [remote : SUBSET Buttons, paused : BOOLEAN]
    BY DEF WireOk, WireTyped
<1>2. CASE Break
  <2>1. PICK n \in 0..Len(wire) :
           wire' = Append(SubSeq(wire, 1, n), [type |-> "away", buttons |-> {}])
    BY <1>2 DEF Break
  <2>2. PICK m : m = [type |-> "away", buttons |-> {}]
    OBVIOUS
  <2>3. m \in Messages
    BY <2>2 DEF Messages
  <2>4. SubSeq(wire, 1, n) \in Seq(Messages)
    BY <1>1, SubSeqProperties
  <2>5. wire' \in Seq(Messages)
    BY <2>1, <2>2, <2>3, <2>4, AppendProperties
  <2>6. away' = "remote" /\ host' = host
    BY <1>2 DEF Break
  <2>7. QED
    BY <1>1, <2>5, <2>6 DEF WireOk, WireTyped, WireTells
<1>3. CASE BreakBoth
  <2>1. away' = "both" /\ wire' = <<>> /\ host' = [host EXCEPT !.paused = TRUE]
    BY <1>3 DEF BreakBoth
  <2>2. host' \in [remote : SUBSET Buttons, paused : BOOLEAN]
    BY <1>1, <2>1
  <2>3. wire' \in Seq(Messages)
    BY <2>1
  <2>4. QED
    BY <2>1, <2>2, <2>3 DEF WireOk, WireTyped, WireTells
<1>4. CASE Return /\ away = "both"
  <2>1. /\ away' = "nobody" /\ host' = [host EXCEPT !.remote = {}, !.paused = FALSE]
        /\ wire' = wire /\ wire = <<>>
        /\ sent' = IF win.role = "remote" THEN Nothing ELSE sent
    BY <1>4 DEF Return, WireOk, WireTyped
  <2>2. host' \in [remote : SUBSET Buttons, paused : BOOLEAN] /\ ~host'.paused
    BY <1>1, <2>1
  <2>3. win'.role = win.role
    BY <1>4, WinKept DEF PadsNext
  <2>4. WireTyped'
    BY <1>1, <2>1, <2>2 DEF WireTyped
  <2>5. Len(wire') = 0
    BY <2>1
  <2>6. \A i \in 1..Len(wire') : FALSE
    BY <2>5
  <2>7. win'.role = "remote" => sent' = Nothing
    BY <2>1, <2>3
  <2>8. wire' = <<>>
    BY <2>1
  <2>9. WireTells'
    BY <2>2, <2>6, <2>7, <2>8 DEF WireTells
  <2>10. QED
    BY <2>4, <2>9 DEF WireOk
<1>5. CASE Return /\ away # "both"
  <2>1. PICK m : m = [type |-> "back", buttons |-> {}]
    OBVIOUS
  <2>2. m \in Messages /\ m.type = "back"
    BY <2>1 DEF Messages
  <2>3. /\ wire' = Append(wire, m) /\ away' = "nobody" /\ host' = host
        /\ sent' = IF win.role = "remote" THEN Nothing ELSE sent
    BY <1>5, <2>1 DEF Return
  <2>4. /\ wire' \in Seq(Messages) /\ Len(wire') = Len(wire) + 1
        /\ \A i \in 1..Len(wire) : wire'[i] = wire[i]
        /\ wire'[Len(wire) + 1] = m
    BY <1>1, <2>2, <2>3, AppendProperties
  <2>5. PICK n \in Nat : n = Len(wire)
    BY <1>1
  <2>6. win'.role = win.role
    BY <1>5, WinKept DEF PadsNext
  <2>7. wire' # <<>> /\ wire'[Len(wire')] = m /\ Len(wire') \in 1..Len(wire')
    BY <2>4, <2>5
  <2>8. ~AllInput(wire')
    BY <2>2, <2>7 DEF AllInput
  <2>9. ASSUME NEW i \in 1..Len(wire'), wire'[i].type = "away"
        PROVE  \E j \in (i + 1)..Len(wire') : wire'[j].type = "back"
    <3>1. i \in 1..n
      BY <2>2, <2>4, <2>5, <2>9
    <3>2. n + 1 \in (i + 1)..(n + 1)
      BY <3>1
    <3>3. QED
      BY <2>2, <2>4, <2>5, <3>2
  <2>10. WireTells'
    BY <2>2, <2>3, <2>6, <2>7, <2>8, <2>9 DEF WireTells
  <2>11. WireTyped'
    BY <1>1, <2>3, <2>4 DEF WireTyped
  <2>12. QED
    BY <2>10, <2>11 DEF WireOk
<1>6. QED
    BY <1>2, <1>3, <1>4, <1>5

\* A message is taken.
LEMMA TakenKeepsTheWire ==
    ASSUME WinTyped, WireOk, TakeMessage
    PROVE  WireOk'
<1>1. /\ wire \in Seq(Messages) /\ wire # <<>>
      /\ host \in [remote : SUBSET Buttons, paused : BOOLEAN]
    BY DEF WireOk, WireTyped, TakeMessage
<1>2. PICK n \in Nat : n = Len(wire)
    BY <1>1
<1>3. n # 0 /\ Head(wire) = wire[1] /\ wire[1] \in Messages
    BY <1>1, <1>2
<1>4. /\ wire' \in Seq(Messages) /\ Len(wire') = n - 1
      /\ \A i \in 1..(n - 1) : wire'[i] = wire[i + 1]
    BY <1>1, <1>2, HeadTailProperties DEF TakeMessage
<1>5. PICK m \in Messages : m = wire[1]
    BY <1>3
<1>6. /\ UNCHANGED <<sent, away>> /\ win'.role = win.role
      /\ m.type = "input" => host' = [host EXCEPT !.remote = m.buttons]
      /\ m.type # "input" => host' = [host EXCEPT !.remote = {}, !.paused = m.type = "away"]
  <2>1. win'.role = win.role
    BY WinKept DEF PadsNext
  <2>2. QED
    BY <1>3, <1>5, <2>1 DEF TakeMessage
<1>7. m.buttons \in SUBSET Buttons /\ m.type \in {"input", "away", "back"}
    BY DEF Messages
<1>8. /\ host' \in [remote : SUBSET Buttons, paused : BOOLEAN]
      /\ m.type = "input" => host'.remote = m.buttons /\ host'.paused = host.paused
      /\ m.type = "back" => ~host'.paused
  <2>1. CASE m.type = "input"
    BY <1>1, <1>6, <1>7, <2>1
  <2>2. CASE m.type = "away"
    <3>1. host' = [host EXCEPT !.remote = {}, !.paused = TRUE]
      BY <1>6, <2>2
    <3>2. QED
      BY <1>1, <2>2, <3>1
  <2>3. CASE m.type = "back"
    <3>1. host' = [host EXCEPT !.remote = {}, !.paused = FALSE]
      BY <1>6, <2>3
    <3>2. QED
      BY <1>1, <2>3, <3>1
  <2>4. QED
    BY <1>7, <2>1, <2>2, <2>3
<1>9. WireTyped'
    BY <1>1, <1>4, <1>6, <1>8 DEF WireOk, WireTyped
<1>10. ASSUME win.role = "remote", away = "nobody"
       PROVE  /\ wire' = <<>> => ~host'.paused /\ (sent # Nothing => host'.remote = sent)
              /\ wire' # <<>> => wire'[Len(wire')] = wire[Len(wire)]
              /\ AllInput(wire') => ~host'.paused
              /\ \A i \in 1..Len(wire') : wire'[i].type = "away" =>
                    \E j \in (i + 1)..Len(wire') : wire'[j].type = "back"
  <2>1. /\ wire[n].type \in {"input", "back"}
        /\ wire[n].type = "input" => wire[n].buttons = sent
        /\ wire[n].type = "back" => sent = Nothing
        /\ AllInput(wire) => ~host.paused
        /\ \A i \in 1..n : wire[i].type = "away" =>
              \E j \in (i + 1)..n : wire[j].type = "back"
    <3>1. WireTells
      BY DEF WireOk
    <3>2. /\ wire[Len(wire)].type \in {"input", "back"}
          /\ wire[Len(wire)].type = "input" => wire[Len(wire)].buttons = sent
          /\ wire[Len(wire)].type = "back" => sent = Nothing
          /\ AllInput(wire) => ~host.paused
          /\ \A i \in 1..Len(wire) : wire[i].type = "away" =>
                \E j \in (i + 1)..Len(wire) : wire[j].type = "back"
      BY <1>1, <1>10, <3>1, Zenon DEF WireTells
    <3>3. QED
      BY <1>2, <3>2
  <2>2. AllInput(wire') => ~host'.paused
    <3>1. CASE m.type = "input"
      <4>1. ASSUME AllInput(wire'), NEW i \in 1..n
            PROVE  wire[i].type = "input"
        <5>1. CASE i = 1
          BY <1>5, <3>1, <5>1
        <5>2. CASE i # 1
          <6>1. i - 1 \in 1..(n - 1) /\ (i - 1) + 1 = i
            BY <5>2
          <6>2. wire'[i - 1] = wire[i]
            BY <1>4, <6>1
          <6>3. QED
            BY <1>4, <4>1, <6>1, <6>2 DEF AllInput
        <5>3. QED
          BY <5>1, <5>2
      <4>2. AllInput(wire') => AllInput(wire)
        BY <1>2, <4>1 DEF AllInput
      <4>3. QED
        BY <1>8, <2>1, <3>1, <4>2
    <3>2. CASE m.type = "back"
      BY <1>8, <3>2
    <3>3. CASE m.type = "away"
      <4>1. PICK j \in 2..n : wire[j].type = "back"
        <5>1. 1 \in 1..n /\ 1 + 1 = 2
          BY <1>3
        <5>2. QED
          BY <1>5, <2>1, <3>3, <5>1
      <4>2. j - 1 \in 1..(n - 1) /\ (j - 1) + 1 = j
        OBVIOUS
      <4>3. wire'[j - 1].type = "back"
        BY <1>4, <4>1, <4>2
      <4>4. QED
        BY <1>4, <4>2, <4>3 DEF AllInput
    <3>4. QED
      BY <1>7, <3>1, <3>2, <3>3
  <2>3. wire' = <<>> => ~host'.paused /\ (sent # Nothing => host'.remote = sent)
    <3>1. SUFFICES ASSUME wire' = <<>>
                   PROVE  ~host'.paused /\ (sent # Nothing => host'.remote = sent)
      OBVIOUS
    <3>2. Len(wire') = 0
      BY <3>1
    <3>3. n = 1
      BY <1>4, <3>2
    <3>4. AllInput(wire')
      BY <3>2 DEF AllInput
    <3>5. QED
      BY <1>5, <1>8, <2>1, <2>2, <3>3, <3>4
  <2>4. wire' # <<>> => wire'[Len(wire')] = wire[Len(wire)]
    <3>1. SUFFICES ASSUME wire' # <<>> PROVE wire'[n - 1] = wire[n]
      BY <1>2, <1>4
    <3>2. n - 1 # 0
      BY <1>4, <3>1
    <3>3. n - 1 \in 1..(n - 1) /\ (n - 1) + 1 = n
      BY <1>3, <3>2
    <3>4. QED
      BY <1>4, <3>3
  <2>5. ASSUME NEW i \in 1..(n - 1), wire'[i].type = "away"
        PROVE  \E j \in (i + 1)..(n - 1) : wire'[j].type = "back"
    <3>1. i + 1 \in 1..n /\ wire'[i] = wire[i + 1]
      BY <1>4
    <3>2. PICK j \in (i + 1 + 1)..n : wire[j].type = "back"
      BY <2>1, <2>5, <3>1
    <3>3. j - 1 \in (i + 1)..(n - 1) /\ j - 1 \in 1..(n - 1) /\ (j - 1) + 1 = j
      OBVIOUS
    <3>4. wire'[j - 1] = wire[j]
      BY <1>4, <3>3
    <3>5. QED
      BY <3>2, <3>3, <3>4
  <2>6. QED
    BY <1>4, <2>2, <2>3, <2>4, <2>5
<1>11. WireTells'
  <2>1. SUFFICES ASSUME win'.role = "remote", away' = "nobody" PROVE WireTells'
    BY DEF WireTells
  <2>2. win.role = "remote" /\ away = "nobody" /\ sent' = sent
    BY <1>6, <2>1
  <2>3. /\ wire[Len(wire)].type \in {"input", "back"}
        /\ wire[Len(wire)].type = "input" => wire[Len(wire)].buttons = sent
        /\ wire[Len(wire)].type = "back" => sent = Nothing
    <3>1. WireTells
      BY DEF WireOk
    <3>2. QED
      BY <1>1, <2>2, <3>1, Zenon DEF WireTells
  <2>4. QED
    BY <1>1, <1>10, <2>2, <2>3 DEF WireTells
<1>12. QED
    BY <1>9, <1>11 DEF WireOk

\* Every step keeps what the wire tells.
LEMMA WireKept ==
    ASSUME WinTyped, WireOk, [PadsNext]_padVars
    PROVE  WireOk'
<1>1. CASE SendInput
    BY <1>1, SentKeepsTheWire
<1>2. CASE Break \/ BreakBoth \/ Return
    BY <1>2, BrokenKeepsTheWire
<1>3. CASE TakeMessage
    BY <1>3, TakenKeepsTheWire
<1>4. CASE Events \/ UNCHANGED padVars
  <2>1. UNCHANGED <<sent, wire, away, host>>
    BY <1>4 DEF Events, DeviceAdded, DeviceRemoved, AxisMoved, KeyMoved, WindowEvent, GameAside,
                padVars
  <2>2. win'.role = win.role
    BY WinKept
  <2>3. QED
    BY <2>1, <2>2 DEF WireOk, WireTyped, WireTells, AllInput
<1>5. CASE Frame
  <2>1. UNCHANGED <<sent, wire, away, win>>
    BY <1>5 DEF Frame
  <2>2. host \in [remote : SUBSET Buttons, paused : BOOLEAN]
    BY DEF WireOk, WireTyped
  <2>3. /\ host' \in [remote : SUBSET Buttons, paused : BOOLEAN] /\ host'.paused = host.paused
        /\ ~host.paused => host' = host
    BY <1>5, <2>2 DEF Frame
  <2>4. WireTyped'
    BY <2>1, <2>3 DEF WireOk, WireTyped
  <2>5. WireTells'
    BY <2>1, <2>3 DEF WireOk, WireTells, AllInput
  <2>6. QED
    BY <2>4, <2>5 DEF WireOk
<1>6. QED
    BY <1>1, <1>2, <1>3, <1>4, <1>5 DEF PadsNext

-----------------------------------------------------------------------------
(* What the player's hand does                                              *)

\* The inductive invariant.
PadsInv == PadsTyped /\ WinTyped /\ ButtonsHeld /\ WireOk

\* No pad is plugged in, no button is pressed and nothing is on its way.
LEMMA PadsInitOk == PadsInit => PadsInv
<1> SUFFICES ASSUME PadsInit PROVE PadsInv
    OBVIOUS
<1>1. PadsTyped
  <2>1. plugged = <<>> /\ table = [s \in Slots |-> Free] /\ axis = [p \in Pads |-> 0] /\ key = FALSE
    BY DEF PadsInit
  <2>2. Free \in Entries /\ Free.pad = NoPad /\ Free.ordinal = 0
    BY DEF Free, Entries
  <2>3. TableOk(table) /\ Bounded(table)
    BY <2>1, <2>2, SlotsAreNumbers DEF TableOk, Bounded
  <2>4. plugged \in Seq(Pads) /\ Len(plugged) <= 2
    BY <2>1
  <2>5. axis \in [Pads -> Int] /\ key \in BOOLEAN
    <3>1. axis \in [Pads -> Int]
      BY <2>1
    <3>2. QED
      BY <2>1, <3>1
  <2>6. QED
    BY <2>1, <2>2, <2>3, <2>4, <2>5 DEF PadsTyped
<1>2. PICK r \in {"host", "remote"} :
         win = [role |-> r, focused |-> TRUE, running |-> TRUE, asking |-> FALSE, yes |-> FALSE,
                neutral |-> FALSE, buttons |-> {}]
    BY DEF PadsInit
<1>3. win \in Windows /\ win.buttons = {}
    BY <1>2 DEF Windows
<1>4. WinTyped /\ ButtonsHeld
    BY <1>3 DEF WinTyped, ButtonsHeld
<1>5. WireOk
  <2>1. wire = <<>> /\ host = [remote |-> {}, paused |-> FALSE] /\ away = "nobody" /\ sent = Nothing
    BY DEF PadsInit
  <2>2. wire \in Seq(Messages) /\ Len(wire) = 0
    BY <2>1
  <2>3. host \in [remote : SUBSET Buttons, paused : BOOLEAN] /\ ~host.paused
    BY <2>1
  <2>4. QED
    BY <2>1, <2>2, <2>3 DEF WireOk, WireTyped, WireTells
<1>6. QED
    BY <1>1, <1>4, <1>5 DEF PadsInv

\* Every step keeps the invariant.
LEMMA PadsInvKept == PadsInv /\ [PadsNext]_padVars => PadsInv'
BY PadsKept, WinKept, HeldKept, WireKept DEF PadsInv

\* InputIsTrue, for any number of pads, makes, entries and buttons: a button of the window is
\* held by the player's hand, and what the Remote sent last is what the Host has.
THEOREM TheInputIsTrue == PadsSpec => []InputIsTrue
<1>1. PadsInv => InputIsTrue
  <2> SUFFICES ASSUME PadsInv PROVE InputIsTrue
    OBVIOUS
  <2>1. ASSUME win.running, NEW b \in win.buttons
        PROVE  Held(b)
    <3>1. b \in Buttons /\ TableOk(table) /\ Holds(table, axis, key, b)
      BY <2>1 DEF PadsInv, PadsTyped, WinTyped, Windows, ButtonsHeld
    <3>2. QED
      BY <3>1, HeldIsHolds DEF Held
  <2>2. ButtonsAreHeld
    BY <2>1 DEF ButtonsAreHeld
  <2>3. HostHasWhatWasSent
    BY DEF PadsInv, WireOk, WireTells, HostHasWhatWasSent
  <2>4. QED
    BY <2>2, <2>3 DEF InputIsTrue
<1>2. QED
    BY <1>1, PadsInitOk, PadsInvKept, PTL DEF PadsSpec

\* What PadsKeepTheirIdentity says of a step.
IdentityKept ==
    /\ \A p \in Pads :
         /\ {q \in Pads : OpenIn(table', q) /\ ~OpenIn(table, q)} = {p}
         /\ {IdOf(table[s]) : s \in ClosedOf(table, Fingerprint[p])} = {was[p]}
         => was'[p] = was[p]
    /\ \A s, t \in Slots : /\ s # t /\ table'[s] # Free /\ table'[t] # Free
                           => IdOf(table'[s]) # IdOf(table'[t])

\* A step of the pads.
LEMMA StepKeepsIdentity == PadsInv /\ [PadsNext]_padVars => IdentityKept
<1> SUFFICES ASSUME PadsInv, [PadsNext]_padVars PROVE IdentityKept
    OBVIOUS
<1>1. PadsTyped /\ WinTyped
    BY DEF PadsInv
<1>2. PadsTyped'
    BY <1>1, PadsKept
<1>3. \A s, t \in Slots : /\ s # t /\ table'[s] # Free /\ table'[t] # Free
                         => IdOf(table'[s]) # IdOf(table'[t])
    BY <1>2 DEF PadsTyped, TableOk
<1>4. ASSUME NEW p \in Pads,
             {q \in Pads : OpenIn(table', q) /\ ~OpenIn(table, q)} = {p},
             {IdOf(table[s]) : s \in ClosedOf(table, Fingerprint[p])} = {was[p]}
      PROVE  was'[p] = was[p]
  <2>1. OpenIn(table', p) /\ ~OpenIn(table, p)
    BY <1>4
  <2>2. CASE DeviceAdded
    <3>1. Reopens(table, p, table')
      BY <1>1, <1>4, <2>2, AddedTable
    <3>2. PICK s \in Slots : table'[s].pad = p /\ IdOf(table'[s]) = was[p]
      BY <1>4, <2>1, <3>1 DEF Reopens
    <3>3. SlotOf(table', p) = s
      <4>1. TableOk(table')
        BY <1>1, <2>2, AddedTable
      <4>2. QED
        BY <3>2, <4>1, SlotOfPad
    <3>4. was'[p] = IdOf(table'[SlotOf(table', p)])
      BY <2>1, <2>2 DEF DeviceAdded
    <3>5. QED
      BY <3>2, <3>3, <3>4
  <2>3. CASE DeviceRemoved
    <3>1. \A s \in Slots : table'[s].pad # NoPad => table'[s] = table[s]
      BY <1>1, <2>3, RemovedTable
    <3>2. QED
      BY <2>1, <3>1, SlotsAreNumbers DEF OpenIn
  <2>4. CASE UNCHANGED table
    BY <2>1, <2>4 DEF OpenIn
  <2>5. CASE ~DeviceAdded /\ ~DeviceRemoved
    BY <2>4, <2>5 DEF PadsNext, Events, AxisMoved, KeyMoved, WindowEvent, SendInput, Break,
       BreakBoth, Return, TakeMessage, Frame, DeviceAside, padVars
  <2>6. QED
    BY <2>2, <2>3, <2>5
<1>5. QED
    BY <1>3, <1>4 DEF IdentityKept

\* PadsKeepTheirIdentity, for any number of pads, makes and entries: a pad that alone of its
\* make was missing is opened with the identity it had, and no two entries have one.
THEOREM PadsKeepIdentity == PadsSpec => PadsKeepTheirIdentity
<1>1. QED
    BY PadsInitOk, PadsInvKept, StepKeepsIdentity, PTL
       DEF PadsSpec, PadsKeepTheirIdentity, IdentityKept

-----------------------------------------------------------------------------
(* What is kept of a queue: the elements at some of its positions, in order. *)

UpTo(K, k) == {j \in K : j <= k}
PlaceOf(K, i) == CHOOSE k \in K : Cardinality({j \in K : j <= k}) = i
KeptOf(s, K) == [i \in 1..Cardinality(K) |-> s[PlaceOf(K, i)]]

\* The elements up to a position are finitely many, and more at a later position of the set.
LEMMA UpToGrows ==
    ASSUME NEW n \in Nat, NEW K, \A k \in K : k \in 1..n
    PROVE  /\ IsFiniteSet(K) /\ Cardinality(K) \in Nat /\ Cardinality(K) <= n
           /\ \A k \in Int : IsFiniteSet(UpTo(K, k)) /\ Cardinality(UpTo(K, k)) \in Nat
                             /\ Cardinality(UpTo(K, k)) <= Cardinality(K)
           /\ \A k \in Int, l \in K :
                 k < l => Cardinality(UpTo(K, k)) < Cardinality(UpTo(K, l))
<1>0. \A x \in K : x \in Int
    OBVIOUS
<1>00. K \in SUBSET (1..n)
    OBVIOUS
<1>1. IsFiniteSet(1..n) /\ Cardinality(1..n) = n
    BY FS_Interval
<1>2. IsFiniteSet(K) /\ Cardinality(K) <= n
    BY <1>00, <1>1, FS_Subset
<1>3. \A k \in Int : UpTo(K, k) \subseteq K
    BY DEF UpTo
<1>4. \A k \in Int : IsFiniteSet(UpTo(K, k)) /\ Cardinality(UpTo(K, k)) <= Cardinality(K)
    BY <1>2, <1>3, FS_Subset
<1>5. ASSUME NEW k \in Int, NEW l \in K, k < l
      PROVE  Cardinality(UpTo(K, k)) < Cardinality(UpTo(K, l))
  <2>1. UpTo(K, k) \subseteq UpTo(K, l) \ {l}
    BY <1>0, <1>5 DEF UpTo
  <2>2. l \in UpTo(K, l) /\ l \in Int
    BY DEF UpTo
  <2>3. /\ IsFiniteSet(UpTo(K, l) \ {l})
        /\ Cardinality(UpTo(K, l) \ {l}) = Cardinality(UpTo(K, l)) - 1
    BY <1>4, <2>2, FS_RemoveElement
  <2>4. Cardinality(UpTo(K, k)) <= Cardinality(UpTo(K, l) \ {l})
    BY <2>1, <2>3, FS_Subset
  <2>5. Cardinality(UpTo(K, l)) \in Nat /\ Cardinality(UpTo(K, k)) \in Nat
    BY <1>4, <2>2, FS_CardinalityType
  <2>6. QED
    BY <2>3, <2>4, <2>5
<1>6. QED
    BY <1>2, <1>4, <1>5, FS_CardinalityType

\* Every position of what is kept is that of one element, in order, and every element has one.
LEMMA PlacesAreKept ==
    ASSUME NEW n \in Nat, NEW K, \A k \in K : k \in 1..n
    PROVE  /\ \A i \in 1..Cardinality(K) :
                 PlaceOf(K, i) \in K /\ Cardinality(UpTo(K, PlaceOf(K, i))) = i
           /\ \A i, j \in 1..Cardinality(K) : i < j => PlaceOf(K, i) < PlaceOf(K, j)
           /\ \A k \in K : \E i \in 1..Cardinality(K) : PlaceOf(K, i) = k
<1>0. \A x \in K : x \in Int /\ 1 <= x /\ x <= n
    OBVIOUS
<1>01. Cardinality(K) \in Nat /\ \A k \in Int : /\ IsFiniteSet(UpTo(K, k))
                                                /\ Cardinality(UpTo(K, k)) \in Nat
    BY UpToGrows
<1>02. \A k, l \in K : k < l => Cardinality(UpTo(K, k)) < Cardinality(UpTo(K, l))
  <2>1. \A k \in Int, l \in K : k < l => Cardinality(UpTo(K, k)) < Cardinality(UpTo(K, l))
    BY UpToGrows
  <2>2. QED
    BY <1>0, <2>1
<1>03. \A k, l \in K : k < l \/ k = l \/ l < k
    BY <1>0
<1>1. ASSUME NEW i \in 1..Cardinality(K)
      PROVE  \E k \in K : Cardinality(UpTo(K, k)) = i
  <2> DEFINE T == {k \in 0..n : i <= Cardinality(UpTo(K, k))}
  <2>1. UpTo(K, n) = K /\ UpTo(K, 0) = {}
    BY <1>0 DEF UpTo
  <2>2. n \in T
    BY <2>1, UpToGrows
  <2>3. T \in SUBSET Nat
    OBVIOUS
  <2>4. PICK m \in T : \A k \in T : m <= k
    BY <2>2, <2>3, LeastNat
  <2>5. m # 0
    BY <2>1, FS_EmptySet
  <2>6. m - 1 \in 0..n /\ m - 1 \notin T
    BY <2>4, <2>5
  <2>7. Cardinality(UpTo(K, m - 1)) < i
    BY <1>01, <2>6
  <2>8. m \in K
    <3>1. SUFFICES ASSUME m \notin K PROVE FALSE
      OBVIOUS
    <3>2. UpTo(K, m) = UpTo(K, m - 1)
      BY <1>0, <2>5, <3>1 DEF UpTo
    <3>3. QED
      BY <2>7, <3>2, UpToGrows
  <2>9. UpTo(K, m) = UpTo(K, m - 1) \cup {m} /\ m \notin UpTo(K, m - 1)
    <3>1. m \in Int /\ m - 1 \in Int
      BY <2>6
    <3>2. m \notin UpTo(K, m - 1)
      BY <3>1 DEF UpTo
    <3>3. \A x \in K : x <= m <=> x <= m - 1 \/ x = m
      BY <1>0, <3>1
    <3>4. QED
      BY <2>8, <3>2, <3>3 DEF UpTo
  <2>10. Cardinality(UpTo(K, m)) = Cardinality(UpTo(K, m - 1)) + 1
    <3>1. IsFiniteSet(UpTo(K, m - 1))
      BY <1>01, <2>6
    <3>2. QED
      BY <2>9, <3>1, FS_AddElement
  <2>11. QED
    BY <1>01, <2>4, <2>6, <2>7, <2>8, <2>10
<1>2. ASSUME NEW i \in 1..Cardinality(K)
      PROVE  PlaceOf(K, i) \in K /\ Cardinality(UpTo(K, PlaceOf(K, i))) = i
    BY <1>1 DEF PlaceOf, UpTo
<1>3. ASSUME NEW i \in 1..Cardinality(K), NEW j \in 1..Cardinality(K), i < j
      PROVE  PlaceOf(K, i) < PlaceOf(K, j)
  <2>1. PlaceOf(K, i) \in K /\ PlaceOf(K, j) \in K
    BY <1>2
  <2>2. QED
    BY <1>01, <1>02, <1>03, <1>2, <1>3, <2>1
<1>4. ASSUME NEW k \in K
      PROVE  \E i \in 1..Cardinality(K) : PlaceOf(K, i) = k
  <2> DEFINE i == Cardinality(UpTo(K, k))
  <2>1. i \in Nat /\ i <= Cardinality(K) /\ Cardinality(K) \in Nat
    BY UpToGrows
  <2>2. UpTo(K, 0) = {} /\ 0 < k
    BY <1>0 DEF UpTo
  <2>3. 0 < i
    BY <2>1, <2>2, UpToGrows, FS_EmptySet
  <2>4. i \in 1..Cardinality(K)
    BY <2>1, <2>3
  <2>5. PlaceOf(K, i) \in K /\ Cardinality(UpTo(K, PlaceOf(K, i))) = i
    BY <1>2, <2>4
  <2>6. PlaceOf(K, i) = k
    BY <1>01, <1>02, <1>03, <2>5
  <2>7. QED
    BY <2>4, <2>6
<1>5. QED
    BY <1>2, <1>3, <1>4

LEMMA KeptQueue ==
    ASSUME NEW S, NEW s \in Seq(S), NEW K, \A k \in K : k \in 1..Len(s)
    PROVE  /\ KeptOf(s, K) \in Seq(S) /\ Len(KeptOf(s, K)) <= Len(s)
           /\ \A i \in 1..Len(KeptOf(s, K)) : \E k \in K : KeptOf(s, K)[i] = s[k]
           /\ \A k \in K : \E i \in 1..Len(KeptOf(s, K)) : KeptOf(s, K)[i] = s[k]
           /\ \A i, j \in 1..Len(KeptOf(s, K)) :
                 i < j => \E k, l \in K : k < l /\ KeptOf(s, K)[i] = s[k] /\ KeptOf(s, K)[j] = s[l]
<1>1. Len(s) \in Nat
    OBVIOUS
<1>2. Cardinality(K) \in Nat /\ Cardinality(K) <= Len(s)
    BY <1>1, UpToGrows
<1>3. /\ \A i \in 1..Cardinality(K) : PlaceOf(K, i) \in K
      /\ \A i, j \in 1..Cardinality(K) : i < j => PlaceOf(K, i) < PlaceOf(K, j)
      /\ \A k \in K : \E i \in 1..Cardinality(K) : PlaceOf(K, i) = k
    BY <1>1, PlacesAreKept
<1>4. \A k \in K : s[k] \in S
    OBVIOUS
<1> DEFINE N == Cardinality(K)
<1>5. \A i \in 1..N : s[PlaceOf(K, i)] \in S
    BY <1>3, <1>4
<1>6. /\ KeptOf(s, K) = [i \in 1..N |-> s[PlaceOf(K, i)]]
    BY DEF KeptOf
<1> HIDE DEF N
<1>7. N \in Nat
    BY <1>2 DEF N
<1>8. KeptOf(s, K) \in Seq(S) /\ Len(KeptOf(s, K)) = N
      /\ \A i \in 1..N : KeptOf(s, K)[i] = s[PlaceOf(K, i)]
    BY <1>5, <1>6, <1>7
<1>9. QED
    BY <1>2, <1>3, <1>8 DEF N

-----------------------------------------------------------------------------
(* The video messages of a sequence. *)

\* The video messages of a sequence.
Videos(s) == {m \in {s[i] : i \in DOMAIN s} : Video(m)}
VideosIn(m) == {x \in {m} : Video(x)}
Increasing(s) ==
    \A i, j \in DOMAIN s : i < j /\ Video(s[i]) /\ Video(s[j]) => s[i].seq < s[j].seq

\* A message written before another: of a lower number, or the same message again, or followed by
\* the configuration a Host stores, which may take up a number.
IsConfig(m) == m.k = "config"
Before(a, b) == a.seq < b.seq \/ a = b \/ (a.seq = b.seq /\ IsConfig(b))
Growing(s) ==
    \A i, j \in DOMAIN s : i < j /\ Video(s[i]) /\ Video(s[j]) => Before(s[i], s[j])

LEMMA VideosOf ==
    ASSUME NEW S, NEW s \in Seq(S)
    PROVE  /\ Videos(s) \subseteq S
           /\ \A m : m \in Videos(s) <=> Video(m) /\ \E i \in 1..Len(s) : s[i] = m
    BY DEF Videos

LEMMA VideosOfNone == Videos(<<>>) = {} /\ Increasing(<<>>) /\ Growing(<<>>)
    BY DEF Videos, Increasing, Growing

LEMMA VideosAppend ==
    ASSUME NEW S, NEW s \in Seq(S), NEW m \in S
    PROVE  /\ Videos(Append(s, m)) = Videos(s) \cup VideosIn(m)
           /\ Increasing(s) /\ (Video(m) => \A x \in Videos(s) : x.seq < m.seq)
                 => Increasing(Append(s, m))
           /\ Growing(s) /\ (Video(m) => \A x \in Videos(s) : Before(x, m))
                 => Growing(Append(s, m))
<1> DEFINE a == Append(s, m)
<1>1. a \in Seq(S) /\ Len(a) = Len(s) + 1 /\ Len(s) \in Nat /\ a[Len(s) + 1] = m
      /\ DOMAIN a = 1..(Len(s) + 1) /\ DOMAIN s = 1..Len(s)
    OBVIOUS
<1>2. \A i \in 1..Len(s) : a[i] = s[i]
    OBVIOUS
<1> HIDE DEF a
<1>3. \A i \in DOMAIN a : (i \in DOMAIN s /\ a[i] = s[i]) \/ (i = Len(s) + 1 /\ a[i] = m)
    BY <1>1, <1>2
<1>4. \A i \in DOMAIN s : i \in DOMAIN a /\ a[i] = s[i]
    BY <1>1, <1>2
<1>5. Len(s) + 1 \in DOMAIN a
    BY <1>1
<1>6. Videos(a) = Videos(s) \cup VideosIn(m)
    BY <1>1, <1>3, <1>4, <1>5 DEF Videos, VideosIn
<1>7. \A i \in DOMAIN s : Video(s[i]) => s[i] \in Videos(s)
    BY DEF Videos
<1>8. \A i, j \in DOMAIN a : i < j => (i \in DOMAIN s /\ a[i] = s[i])
                                     /\ ((j \in DOMAIN s /\ a[j] = s[j]) \/ a[j] = m)
    BY <1>1, <1>3
<1>9. Increasing(s) /\ (Video(m) => \A x \in Videos(s) : x.seq < m.seq) => Increasing(a)
    BY <1>7, <1>8 DEF Increasing
<1>10. Growing(s) /\ (Video(m) => \A x \in Videos(s) : Before(x, m)) => Growing(a)
    BY <1>7, <1>8 DEF Growing
<1>11. QED
    BY <1>6, <1>9, <1>10 DEF a

LEMMA VideosTail ==
    ASSUME NEW S, NEW s \in Seq(S), s # <<>>
    PROVE  /\ Head(s) \in S /\ Tail(s) \in Seq(S) /\ Len(Tail(s)) = Len(s) - 1
           /\ Videos(s) = Videos(Tail(s)) \cup VideosIn(Head(s))
           /\ Increasing(s) =>
                 /\ Increasing(Tail(s))
                 /\ Video(Head(s)) => \A x \in Videos(Tail(s)) : Head(s).seq < x.seq
           /\ Growing(s) =>
                 /\ Growing(Tail(s))
                 /\ Video(Head(s)) => \A x \in Videos(Tail(s)) : Before(Head(s), x)
<1> DEFINE t == Tail(s)
           h == Head(s)
<1>1. h \in S /\ t \in Seq(S) /\ Len(t) = Len(s) - 1 /\ Len(s) \in Nat /\ Len(s) >= 1
      /\ h = s[1] /\ DOMAIN t = 1..(Len(s) - 1) /\ DOMAIN s = 1..Len(s)
    OBVIOUS
<1>2. \A i \in 1..(Len(s) - 1) : t[i] = s[i + 1]
    OBVIOUS
<1> HIDE DEF t, h
<1>3. \A i \in DOMAIN s : (i = 1 /\ s[i] = h) \/ (i - 1 \in DOMAIN t /\ s[i] = t[i - 1])
    BY <1>1, <1>2
<1>4. \A i \in DOMAIN t : i + 1 \in DOMAIN s /\ 1 < i + 1 /\ i \in Nat /\ t[i] = s[i + 1]
    BY <1>1, <1>2
<1>5. 1 \in DOMAIN s
    BY <1>1
<1>6. Videos(s) = Videos(t) \cup VideosIn(h)
  <2>1. ASSUME NEW m \in Videos(s) PROVE m \in Videos(t) \cup VideosIn(h)
    <3>1. PICK i \in DOMAIN s : s[i] = m /\ Video(m)
      BY <2>1 DEF Videos
    <3>2. QED
      BY <1>3, <3>1 DEF Videos, VideosIn
  <2>2. ASSUME NEW m \in Videos(t) PROVE m \in Videos(s)
    BY <1>4, <2>2 DEF Videos
  <2>3. ASSUME NEW m \in VideosIn(h) PROVE m \in Videos(s)
    BY <1>1, <1>5, <2>3 DEF Videos, VideosIn
  <2>4. QED
    BY <2>1, <2>2, <2>3
<1>7. \A i, j \in DOMAIN t : i < j => i + 1 < j + 1
    BY <1>4
<1>8. Increasing(s) => Increasing(t) /\ (Video(h) => \A x \in Videos(t) : h.seq < x.seq)
    BY <1>1, <1>4, <1>5, <1>7 DEF Increasing, Videos
<1>9. Growing(s) => Growing(t) /\ (Video(h) => \A x \in Videos(t) : Before(h, x))
    BY <1>1, <1>4, <1>5, <1>7 DEF Growing, Videos
<1>10. QED
    BY <1>1, <1>6, <1>8, <1>9 DEF t, h

-----------------------------------------------------------------------------
(* Messages, and what the relay's queue keeps of them. *)

Message ==
    [k : {"config"}, enc : Nat, seq : Nat \ {0}]
    \cup [k : {"frame"}, enc : Nat, n : Nat \ {0}, seq : Nat \ {0}]
    \cup [k : {"audio"}, seq : Nat \ {0}] \cup [k : Notices]

QueueRec == [queue : Seq(Message), begun : BOOLEAN, wait : BOOLEAN, last : Nat]

\* A video message is a configuration, a delta or a key frame.
LEMMA VideoKinds ==
    ASSUME NEW m \in Message, Video(m)
    PROVE  /\ m.seq \in Nat /\ m.seq >= 1 /\ m.enc \in Nat
           /\ IsConfig(m) \/ (m.k = "frame" /\ m.n \in Nat /\ m.n >= 1)
           /\ m.k = "frame" => Delta(m) \/ KeyFrame(m)
           /\ Delta(m) => m.k = "frame" /\ ~IsConfig(m) /\ ~KeyFrame(m) /\ ~Key(m.n)
           /\ KeyFrame(m) => m.k = "frame" /\ ~IsConfig(m) /\ ~Delta(m) /\ Key(m.n)
    BY DEF Message, Video, Delta, KeyFrame, IsConfig, Notices

LEMMA MessageKinds ==
    /\ \A m \in Message : Delta(m) \/ KeyFrame(m) \/ IsConfig(m) => Video(m)
    /\ \A m \in Message : m.k = "audio" => ~Video(m) /\ ~Delta(m) /\ ~KeyFrame(m)
    /\ None \notin Message /\ ~Video(None)
    BY DEF Message, Video, Delta, KeyFrame, IsConfig, None, Notices

\* What pruning leaves: every message that is no delta, no delta without the frame it needs, and
\* the newest message unless deltas are to be refused from now on.
PrunedOk(q, p) ==
    /\ p.last = q.last /\ p.begun = q.begun
    /\ Videos(p.queue) \subseteq Videos(q.queue)
    /\ \A m \in Videos(q.queue) : ~Delta(m) => m \in Videos(p.queue)
    /\ \A a \in Videos(q.queue), b \in Videos(p.queue) :
          Delta(b) /\ a.seq + 1 = b.seq => a \in Videos(p.queue)
    /\ q.wait => p.wait
    /\ ~p.wait => \A a \in Videos(q.queue) :
          (\A x \in Videos(q.queue) : x.seq <= a.seq) => a \in Videos(p.queue)

PrunedPlaces(q, aged) ==
    {i \in 1..Len(q.queue) :
       (i = 1 /\ q.begun) \/ ~(\/ Delta(q.queue[i]) /\ Broken(q, aged, i)
                               \/ q.queue[i].k = "audio" /\ i <= aged)}

LEMMA PrunedIsKept ==
    ASSUME NEW q \in QueueRec, NEW aged \in Nat
    PROVE  /\ Pruned(q, aged).queue = KeptOf(q.queue, PrunedPlaces(q, aged))
           /\ Pruned(q, aged).wait
                = (q.wait \/ (q.queue # <<>> /\ Broken(q, aged, Len(q.queue))))
           /\ Pruned(q, aged).last = q.last /\ Pruned(q, aged).begun = q.begun
           /\ Pruned(q, aged).wait \in BOOLEAN
           /\ DOMAIN Pruned(q, aged) = {"queue", "begun", "wait", "last"}
    BY DEF Pruned, KeptOf, PrunedPlaces, PlaceOf, QueueRec, Broken

\* What is kept of a queue is in its order.
LEMMA KeptVideos ==
    ASSUME NEW S, NEW s \in Seq(S), NEW K, \A k \in K : k \in 1..Len(s), Increasing(s)
    PROVE  /\ Increasing(KeptOf(s, K))
           /\ \A m : m \in Videos(KeptOf(s, K)) <=> Video(m) /\ \E k \in K : s[k] = m
<1> DEFINE t == KeptOf(s, K)
<1>1. /\ t \in Seq(S)
      /\ \A i \in 1..Len(t) : \E k \in K : t[i] = s[k]
      /\ \A k \in K : \E i \in 1..Len(t) : t[i] = s[k]
      /\ \A i, j \in 1..Len(t) : i < j => \E k, l \in K : k < l /\ t[i] = s[k] /\ t[j] = s[l]
    BY KeptQueue
<1>2. DOMAIN t = 1..Len(t) /\ DOMAIN s = 1..Len(s)
    BY <1>1
<1> HIDE DEF t
<1>3. Increasing(t)
  <2>1. ASSUME NEW i \in 1..Len(t), NEW j \in 1..Len(t), i < j, Video(t[i]), Video(t[j])
        PROVE  t[i].seq < t[j].seq
    <3>1. PICK k \in K, l \in K : k < l /\ t[i] = s[k] /\ t[j] = s[l]
      BY <1>1, <2>1
    <3>2. k \in DOMAIN s /\ l \in DOMAIN s
      BY <1>2
    <3>3. QED
      BY <2>1, <3>1, <3>2 DEF Increasing
  <2>2. QED
    BY <1>2, <2>1 DEF Increasing
<1>4. \A m : m \in Videos(t) <=> Video(m) /\ \E i \in 1..Len(t) : t[i] = m
    BY <1>1, VideosOf
<1>5. \A m : m \in Videos(t) <=> Video(m) /\ \E k \in K : s[k] = m
  <2>1. ASSUME NEW i \in 1..Len(t) PROVE \E k \in K : s[k] = t[i]
    BY <1>1
  <2>2. ASSUME NEW k \in K PROVE \E i \in 1..Len(t) : t[i] = s[k]
    BY <1>1
  <2>3. QED
    BY <1>4, <2>1, <2>2
<1>6. QED
    BY <1>3, <1>5 DEF t

LEMMA PrunedKeeps ==
    ASSUME NEW q \in QueueRec, NEW aged \in Nat, Increasing(q.queue)
    PROVE  /\ Pruned(q, aged) \in QueueRec
           /\ Len(Pruned(q, aged).queue) <= Len(q.queue)
           /\ Increasing(Pruned(q, aged).queue)
           /\ PrunedOk(q, Pruned(q, aged))
<1> DEFINE K == PrunedPlaces(q, aged)
           s == q.queue
           p == Pruned(q, aged)
<1>1. s \in Seq(Message) /\ \A k \in K : k \in 1..Len(s)
    BY DEF QueueRec, PrunedPlaces
<1>2. Len(s) \in Nat /\ DOMAIN s = 1..Len(s) /\ \A i \in 1..Len(s) : s[i] \in Message
    BY <1>1
<1>3. /\ p.queue = KeptOf(s, K)
      /\ p.wait = (q.wait \/ (s # <<>> /\ Broken(q, aged, Len(s))))
      /\ p.last = q.last /\ p.begun = q.begun
    BY PrunedIsKept
<1>4. p \in QueueRec
  <2>1. KeptOf(s, K) \in Seq(Message)
    BY <1>1, KeptQueue
  <2>2. p = [q EXCEPT !.queue = p.queue, !.wait = p.wait] /\ p.wait \in BOOLEAN
    BY PrunedIsKept DEF Pruned
  <2>3. QED
    BY <1>3, <2>1, <2>2 DEF QueueRec
<1>5. Len(p.queue) <= Len(s)
    BY <1>1, <1>3, KeptQueue
<1>6. /\ Increasing(p.queue)
      /\ \A m : m \in Videos(p.queue) <=> Video(m) /\ \E k \in K : s[k] = m
    BY <1>1, <1>3, KeptVideos
<1>7. \A m : m \in Videos(s) <=> Video(m) /\ \E i \in 1..Len(s) : s[i] = m
    BY <1>1, VideosOf
<1>8. \A i \in 1..Len(s) : ~(Delta(s[i]) /\ Broken(q, aged, i)) /\ Video(s[i]) => i \in K
    BY <1>2, MessageKinds DEF PrunedPlaces
<1>9. \A i \in K : Delta(s[i]) /\ Broken(q, aged, i) => i = 1
    BY DEF PrunedPlaces
<1>10. \A i \in 1..Len(s) : Broken(q, aged, i)
          <=> \E j \in 1..i : Breaks(q, aged, j) /\ \A l \in (j + 1)..i : ~KeyFrame(s[l])
    BY DEF Broken
<1>11. \A i, j \in 1..Len(s) : i < j /\ Video(s[i]) /\ Video(s[j]) => s[i].seq < s[j].seq
    BY <1>2 DEF Increasing
<1>12. \A i \in 1..Len(s) : Video(s[i]) => s[i].seq \in Nat
    BY <1>2, VideoKinds
<1>13. p.queue = p.queue /\ q.queue = s
    OBVIOUS
<1> HIDE DEF K, s, p
<1>14. \A m \in Videos(s) : ~Delta(m) => m \in Videos(p.queue)
    BY <1>6, <1>7, <1>8
<1>15. ASSUME NEW a \in Videos(s), NEW b \in Videos(p.queue), Delta(b), a.seq + 1 = b.seq,
              a \notin Videos(p.queue)
       PROVE  FALSE
  <2>1. PICK i \in 1..Len(s) : s[i] = a /\ Video(a)
    BY <1>7
  <2>2. PICK j \in 1..Len(s) : s[j] = b /\ Video(b) /\ j \in K
    BY <1>1, <1>6
  <2>3. a.seq \in Nat /\ b.seq \in Nat
    BY <1>12, <2>1, <2>2
  <2>4. i < j
    <3>1. ~(j < i) /\ i # j
      BY <1>11, <1>15, <2>1, <2>2, <2>3
    <3>2. QED
      BY <2>1, <2>2, <3>1
  <2>5. Delta(a) /\ Broken(q, aged, i)
    BY <1>6, <1>8, <1>15, <2>1
  <2>6. PICK h \in 1..i : Breaks(q, aged, h) /\ \A l \in (h + 1)..i : ~KeyFrame(s[l])
    BY <1>10, <2>5
  <2>7. \A l \in (i + 1)..j : ~KeyFrame(s[l])
    <3>1. SUFFICES ASSUME NEW l \in (i + 1)..j, KeyFrame(s[l]) PROVE FALSE
      OBVIOUS
    <3>2. l \in 1..Len(s) /\ i < l /\ (l < j \/ l = j)
      BY <1>2, <2>1, <2>2
    <3>3. Video(s[l]) /\ s[l].seq \in Nat
      BY <1>2, <1>12, <3>1, <3>2, MessageKinds
    <3>4. l # j
      BY <1>2, <1>15, <2>2, <3>1, VideoKinds
    <3>5. a.seq < s[l].seq /\ s[l].seq < b.seq
      BY <1>11, <2>1, <2>2, <3>2, <3>3, <3>4
    <3>6. QED
      BY <1>15, <2>3, <3>3, <3>5
  <2>8. \A l \in (h + 1)..j : ~KeyFrame(s[l])
    BY <2>1, <2>2, <2>6, <2>7
  <2>9. h \in 1..j
    BY <2>4, <2>1, <2>2
  <2>10. Broken(q, aged, j)
    BY <1>10, <2>6, <2>8, <2>9
  <2>11. j = 1
    BY <1>9, <1>15, <2>2, <2>10
  <2>12. QED
    BY <2>4, <2>11
<1>16. ASSUME ~p.wait, NEW a \in Videos(s), \A x \in Videos(s) : x.seq <= a.seq,
              a \notin Videos(p.queue)
       PROVE  FALSE
  <2>1. PICK i \in 1..Len(s) : s[i] = a /\ Video(a)
    BY <1>7
  <2>2. Delta(a) /\ Broken(q, aged, i)
    BY <1>6, <1>8, <1>16, <2>1
  <2>3. PICK h \in 1..i : Breaks(q, aged, h) /\ \A l \in (h + 1)..i : ~KeyFrame(s[l])
    BY <1>10, <2>2
  <2>4. \A l \in (i + 1)..Len(s) : ~KeyFrame(s[l])
    <3>1. SUFFICES ASSUME NEW l \in (i + 1)..Len(s), KeyFrame(s[l]) PROVE FALSE
      OBVIOUS
    <3>2. l \in 1..Len(s) /\ i < l
      BY <1>2, <2>1
    <3>3. Video(s[l]) /\ s[l].seq \in Nat /\ a.seq \in Nat
      BY <1>2, <1>12, <2>1, <3>1, <3>2, MessageKinds
    <3>4. a.seq < s[l].seq
      BY <1>11, <2>1, <3>2, <3>3
    <3>5. s[l].seq <= a.seq
      BY <1>7, <1>16, <3>2, <3>3
    <3>6. QED
      BY <3>3, <3>4, <3>5
  <2>5. Len(s) \in 1..Len(s) /\ h \in 1..Len(s)
    BY <1>2, <2>1
  <2>6. \A l \in (h + 1)..Len(s) : ~KeyFrame(s[l])
    BY <1>2, <2>1, <2>3, <2>4
  <2>7. Broken(q, aged, Len(s))
    BY <1>10, <2>3, <2>5, <2>6
  <2>8. s # <<>>
    BY <2>1
  <2>9. QED
    BY <1>3, <1>16, <2>7, <2>8
<1>17. Videos(p.queue) \subseteq Videos(s)
    BY <1>1, <1>6, <1>7
<1>18. q.wait => p.wait
    BY <1>3
<1>19. PrunedOk(q, p)
    BY <1>3, <1>13, <1>14, <1>15, <1>16, <1>17, <1>18 DEF PrunedOk
<1>20. QED
    BY <1>4, <1>5, <1>6, <1>19 DEF p, s

\* What a key frame leaves of the video before it: the newest configuration, and the first message if
\* it has begun to be written.
SupersededOk(q, p) ==
    /\ p.last = q.last /\ p.wait = q.wait
    /\ Videos(p.queue) \subseteq Videos(q.queue)
    /\ \A c \in Videos(q.queue) :
          IsConfig(c) => \E m \in Videos(p.queue) : IsConfig(m) /\ c.seq <= m.seq
    /\ \A m \in Videos(p.queue) :
          \/ IsConfig(m)
          \/ \A x \in Videos(q.queue) : m.seq <= x.seq

SupersededPlaces(q) ==
    LET configs == {i \in 1..Len(q.queue) : q.queue[i].k = "config"}
    IN {i \in 1..Len(q.queue) : (i = 1 /\ q.begun) \/ ~Video(q.queue[i])
                                \/ (i \in configs /\ \A j \in configs : j <= i)}

LEMMA SupersededIsKept ==
    ASSUME NEW q \in QueueRec
    PROVE  Superseded(q) = [q EXCEPT !.queue = KeptOf(q.queue, SupersededPlaces(q))]
    BY DEF Superseded, KeptOf, SupersededPlaces, PlaceOf

\* Of positions with something the last is one.
LEMMA LastPlace ==
    ASSUME NEW n \in Nat, NEW P, \A i \in P : i \in 1..n, P # {}
    PROVE  \E i \in P : \A j \in P : j <= i
<1> DEFINE T == {k \in 0..n : n - k \in P}
<1>1. PICK x \in P : TRUE
    OBVIOUS
<1>2. n - x \in T
  <2>1. x \in 1..n /\ n - x \in 0..n /\ n - (n - x) = x
    BY <1>1
  <2>2. QED
    BY <1>1, <2>1
<1>3. T \in SUBSET Nat /\ T # {}
    BY <1>2
<1>4. PICK m \in T : \A k \in T : m <= k
  <2> HIDE DEF T
  <2>1. QED
    BY <1>3, LeastNat
<1>5. ASSUME NEW j \in P PROVE j <= n - m
  <2>1. j \in 1..n /\ n - j \in 0..n /\ n - (n - j) = j
    BY <1>5
  <2>2. n - j \in T
    BY <1>5, <2>1
  <2>3. m <= n - j /\ m \in Int
    BY <1>4, <2>2
  <2>4. QED
    BY <2>1, <2>3
<1>6. n - m \in P
    BY <1>4
<1>7. QED
    BY <1>5, <1>6

LEMMA SupersededKeeps ==
    ASSUME NEW q \in QueueRec, Increasing(q.queue)
    PROVE  /\ Superseded(q) \in QueueRec
           /\ Len(Superseded(q).queue) <= Len(q.queue)
           /\ Increasing(Superseded(q).queue)
           /\ SupersededOk(q, Superseded(q))
<1> DEFINE K == SupersededPlaces(q)
           s == q.queue
           p == Superseded(q)
           configs == {i \in 1..Len(s) : s[i].k = "config"}
<1>1. s \in Seq(Message) /\ \A k \in K : k \in 1..Len(s)
    BY DEF QueueRec, SupersededPlaces
<1>2. Len(s) \in Nat /\ DOMAIN s = 1..Len(s) /\ \A i \in 1..Len(s) : s[i] \in Message
    BY <1>1
<1>3. KeptOf(s, K) \in Seq(Message) /\ Len(KeptOf(s, K)) <= Len(s)
    BY <1>1, KeptQueue
<1>4. /\ p \in QueueRec /\ p.queue = KeptOf(s, K)
      /\ p.wait = q.wait /\ p.last = q.last /\ p.begun = q.begun
    BY <1>3, SupersededIsKept DEF QueueRec
<1>5. /\ Increasing(p.queue)
      /\ \A m : m \in Videos(p.queue) <=> Video(m) /\ \E k \in K : s[k] = m
    BY <1>1, <1>4, KeptVideos
<1>6. \A m : m \in Videos(s) <=> Video(m) /\ \E i \in 1..Len(s) : s[i] = m
    BY <1>1, VideosOf
<1>7. \A i, j \in 1..Len(s) : i < j /\ Video(s[i]) /\ Video(s[j]) => s[i].seq < s[j].seq
    BY <1>2 DEF Increasing
<1>8. \A i \in 1..Len(s) : Video(s[i]) => s[i].seq \in Nat
    BY <1>2, VideoKinds
<1>9. \A i \in 1..Len(s) :
         i \in K <=> (i = 1 /\ q.begun) \/ ~Video(s[i])
                     \/ (i \in configs /\ \A j \in configs : j <= i)
    BY DEF SupersededPlaces
<1>10. \A i \in 1..Len(s) : i \in configs <=> IsConfig(s[i])
    BY DEF IsConfig
<1>11. \A i \in configs : i \in 1..Len(s)
    OBVIOUS
<1>12. q.queue = s
    OBVIOUS
<1> HIDE DEF K, s, p, configs
<1>13. \A i, j \in 1..Len(s) : Video(s[i]) /\ Video(s[j]) /\ i <= j => s[i].seq <= s[j].seq
    BY <1>7, <1>8
<1>14. ASSUME NEW c \in Videos(s), IsConfig(c)
       PROVE  \E m \in Videos(p.queue) : IsConfig(m) /\ c.seq <= m.seq
  <2>1. PICK i \in 1..Len(s) : s[i] = c /\ Video(c)
    BY <1>6
  <2>2. i \in configs
    BY <1>10, <1>14, <2>1
  <2>3. PICK l \in configs : \A j \in configs : j <= l
    BY <1>2, <1>11, <2>2, LastPlace
  <2>4. l \in 1..Len(s) /\ l \in K /\ IsConfig(s[l]) /\ i <= l
    BY <1>9, <1>10, <1>11, <2>2, <2>3
  <2>5. Video(s[l])
    BY <1>2, <2>4, MessageKinds
  <2>6. s[l] \in Videos(p.queue)
    BY <1>5, <2>4, <2>5
  <2>7. c.seq <= s[l].seq
    BY <1>13, <2>1, <2>4, <2>5
  <2>8. QED
    BY <2>4, <2>6, <2>7
<1>15. ASSUME NEW m \in Videos(p.queue), ~IsConfig(m)
       PROVE  \A x \in Videos(s) : m.seq <= x.seq
  <2>1. PICK k \in K : s[k] = m /\ Video(m)
    BY <1>5
  <2>2. k \in 1..Len(s) /\ k = 1
    BY <1>1, <1>9, <1>10, <1>15, <2>1
  <2>3. ASSUME NEW x \in Videos(s) PROVE m.seq <= x.seq
    <3>1. PICK i \in 1..Len(s) : s[i] = x /\ Video(x)
      BY <1>6
    <3>2. k <= i
      BY <2>2
    <3>3. QED
      BY <1>13, <2>1, <2>2, <3>1, <3>2
  <2>4. QED
    BY <2>3
<1>16. Videos(p.queue) \subseteq Videos(s)
    BY <1>1, <1>5, <1>6
<1>17. SupersededOk(q, p)
    BY <1>4, <1>12, <1>14, <1>15, <1>16 DEF SupersededOk
<1>18. QED
    BY <1>3, <1>4, <1>5, <1>17 DEF p, s

-----------------------------------------------------------------------------
(* What is known of the video on its way: H is what the Remote has or will be given by the relay,  *)
(* U what the relay has yet to read, C what the Host is going to send next; d is the decoder.      *)

\* Between a message and a frame with no configuration between them the encoder is the same ...
OneEncoder(A) ==
    \A a, b \in A :
       /\ ~IsConfig(b) /\ a.seq < b.seq
       /\ \A c \in A : IsConfig(c) => ~(a.seq < c.seq /\ c.seq < b.seq)
       => a.enc = b.enc

\* ... and a frame with none before it is of the decoder's.
DecodersOwn(A, d) ==
    d # None => \A b \in A :
                   ~IsConfig(b) /\ (\A c \in A : IsConfig(c) => ~(c.seq < b.seq)) => d.config = b.enc

\* A delta is numbered after the frame it needs.
Needs(a, b) == a.k = "frame" /\ a.enc = b.enc /\ a.n + 1 = b.n
AfterItsFrame(A) == \A a, b \in A : Delta(b) /\ a.seq + 1 = b.seq => Needs(a, b)

\* A delta the Remote has, or will be given, comes after that frame or is the next to be decoded.
Ready(d, m) == d = None \/ Decodable(d, m)
Chained(H, d) ==
    \A b \in H : Delta(b) => \/ \E a \in H : a.seq + 1 = b.seq
                             \/ (\A x \in H : b.seq <= x.seq) /\ Ready(d, b)

Decodables(H, A, d) == OneEncoder(A) /\ DecodersOwn(A, d) /\ AfterItsFrame(A) /\ Chained(H, d)

\* What is behind the relay is older than what is before it.
Parted(H, U, C, d, last) ==
    /\ \A h \in H, u \in U \cup C : Before(h, u)
    /\ \A h \in H : h.seq <= last
    /\ \A u \in U \cup C : last <= u.seq
    /\ last = 0 => H = {} /\ d = None

\* Nothing is missing before the relay, unless it is about to find a number repeated.
First(b, U) == \A x \in U : b.seq <= x.seq
Doomed(U, last) == \E m \in U : m.seq = last
NoneMissing(U, C, last) ==
    /\ \A b \in U \cup C : Delta(b) => First(b, U) \/ \E a \in U : a.seq + 1 = b.seq
    /\ last # 0 /\ ~Doomed(U, last) =>
         \A b \in U \cup C : Delta(b) /\ First(b, U) /\ b.seq > last => b.seq = last + 1

\* ... and a delta the relay will not drop finds the frame it needs.
Joins(H, U, C, d, last, wait) ==
    ~wait /\ ~Doomed(U, last) =>
      \A b \in U \cup C : Delta(b) /\ b.seq = last + 1 =>
         \/ \E a \in H : a.seq = last
         \/ H = {} /\ Ready(d, b)

Stream(H, U, C, d, last, wait) ==
    /\ Decodables(H, H \cup U \cup C, d)
    /\ Parted(H, U, C, d, last)
    /\ NoneMissing(U, C, last)
    /\ Joins(H, U, C, d, last, wait)

\* The Host's next number is that of what is coming, or is not used yet.
Numbered(H, U, C, seq, last) ==
    /\ last <= seq + 1
    /\ \A a \in H \cup U : a.seq <= seq + 1 /\ (a.seq = seq + 1 => a \in C)
    /\ \A c \in C : c.seq = seq + 1

VideoSet(A) == \A m \in A : m \in Message /\ Video(m)

LEMMA SetKinds ==
    ASSUME NEW A, VideoSet(A)
    PROVE  \A m \in A : /\ m.seq \in Nat /\ m.seq >= 1 /\ m.seq \in Int
                        /\ IsConfig(m) \/ m.k = "frame"
                        /\ Delta(m) => ~IsConfig(m)
    BY VideoKinds DEF VideoSet

Decoders == [k : {"decoder"}, config : Nat, enc : Nat, n : Nat, broken : BOOLEAN]

\* The first message the Remote has is decoded.
LEMMA DecodeKeeps ==
    ASSUME NEW H, NEW R, VideoSet(H), VideoSet(R), NEW m \in H, NEW d \in Decoders \cup {None},
           \A x \in H : x # m => m.seq < x.seq,
           \A h \in H, u \in R : Before(h, u),
           Decodables(H, H \cup R, d)
    PROVE  /\ IsConfig(m) => Decodables(H \ {m}, (H \ {m}) \cup R, NewDecoder(m.enc))
           /\ ~IsConfig(m) /\ d = None => Decodables(H \ {m}, (H \ {m}) \cup R, None)
           /\ ~IsConfig(m) /\ d # None =>
                 /\ Decodable(d, m)
                 /\ Decodables(H \ {m}, (H \ {m}) \cup R, Decoded(d, m))
<1> DEFINE G == H \ {m}
           A == H \cup R
           B == G \cup R
<1>1. \A x \in A : /\ x.seq \in Nat /\ x.seq >= 1
                   /\ IsConfig(x) \/ x.k = "frame"
                   /\ Delta(x) => ~IsConfig(x)
    BY SetKinds
<1>2. B \subseteq A /\ G \subseteq H /\ m \in A /\ G \subseteq B /\ R \subseteq B
      /\ \A x \in A : x \in B \/ x = m
    OBVIOUS
<1>3. OneEncoder(A) /\ DecodersOwn(A, d) /\ AfterItsFrame(A) /\ Chained(H, d)
    BY DEF Decodables
<1>4. \A x \in G : m.seq < x.seq
    OBVIOUS
<1>5. \A u \in R : Before(m, u)
    OBVIOUS
<1>6. \A u \in B : ~IsConfig(u) => m.seq < u.seq \/ u = m
    BY <1>4, <1>5 DEF Before
<1>7. \A u \in A : m.seq <= u.seq
    BY <1>1, <1>4, <1>5 DEF Before
<1>8. \A x \in H : x \in G \/ x = m
    OBVIOUS
<1> HIDE DEF G, A, B
<1>9. OneEncoder(B)
  <2>1. SUFFICES ASSUME NEW a \in B, NEW b \in B, ~IsConfig(b), a.seq < b.seq,
                        \A c \in B : IsConfig(c) => ~(a.seq < c.seq /\ c.seq < b.seq)
                 PROVE  a.enc = b.enc
    BY DEF OneEncoder
  <2>2. \A c \in A : IsConfig(c) => ~(a.seq < c.seq /\ c.seq < b.seq)
    BY <1>1, <1>2, <1>7, <2>1
  <2>3. QED
    BY <1>2, <1>3, <2>1, <2>2 DEF OneEncoder
<1>10. AfterItsFrame(B)
    BY <1>2, <1>3 DEF AfterItsFrame
<1>11. ASSUME NEW e, \A b \in G : Delta(b) /\ m.seq + 1 = b.seq => Ready(e, b)
       PROVE  Chained(G, e)
  <2>1. SUFFICES ASSUME NEW b \in G, Delta(b), ~ \E a \in G : a.seq + 1 = b.seq
                 PROVE  (\A x \in G : b.seq <= x.seq) /\ Ready(e, b)
    BY DEF Chained
  <2>2. \/ \E a \in H : a.seq + 1 = b.seq
        \/ \A x \in H : b.seq <= x.seq
    BY <1>2, <1>3, <2>1 DEF Chained
  <2>3. m.seq + 1 = b.seq
    BY <1>1, <1>2, <1>4, <1>8, <2>1, <2>2
  <2>4. \A x \in G : b.seq <= x.seq
    BY <1>1, <1>2, <1>4, <2>3
  <2>5. QED
    BY <1>11, <2>1, <2>3, <2>4
<1>12. \A b \in G : Delta(b) /\ m.seq + 1 = b.seq => Needs(m, b)
    BY <1>2, <1>3 DEF AfterItsFrame
<1>13. ASSUME IsConfig(m)
       PROVE  Decodables(G, B, NewDecoder(m.enc))
  <2>1. \A b \in G : Delta(b) /\ m.seq + 1 = b.seq => FALSE
    BY <1>12, <1>13 DEF Needs, IsConfig
  <2>2. Chained(G, NewDecoder(m.enc))
    BY <1>11, <2>1
  <2>3. NewDecoder(m.enc).config = m.enc
    BY DEF NewDecoder
  <2>4. ASSUME NEW b \in B, ~IsConfig(b), \A c \in B : IsConfig(c) => ~(c.seq < b.seq)
        PROVE  m.enc = b.enc
    <3>1. m.seq < b.seq
      BY <1>6, <1>13, <2>4
    <3>2. \A c \in A : IsConfig(c) => ~(m.seq < c.seq /\ c.seq < b.seq)
      BY <1>1, <1>2, <2>4
    <3>3. QED
      BY <1>2, <1>3, <2>4, <3>1, <3>2 DEF OneEncoder
  <2>5. DecodersOwn(B, NewDecoder(m.enc))
    BY <2>3, <2>4 DEF DecodersOwn
  <2>6. QED
    BY <1>9, <1>10, <2>2, <2>5 DEF Decodables
<1>14. ASSUME ~IsConfig(m), d = None
       PROVE  Decodables(G, B, None)
  <2>1. Chained(G, None)
    BY <1>11 DEF Ready
  <2>2. QED
    BY <1>9, <1>10, <2>1 DEF Decodables, DecodersOwn
<1>15. ASSUME ~IsConfig(m), d # None
       PROVE  Decodable(d, m) /\ Decodables(G, B, Decoded(d, m))
  <2>1. m.k = "frame"
    BY <1>1, <1>2, <1>15
  <2>2. \A c \in A : IsConfig(c) => ~(c.seq < m.seq)
    BY <1>1, <1>2, <1>7
  <2>3. d.config = m.enc
    BY <1>2, <1>3, <1>15, <2>2 DEF DecodersOwn
  <2>4. Delta(m) => Ready(d, m)
    <3>1. \A a \in H : ~(a.seq + 1 = m.seq)
      BY <1>1, <1>2, <1>4, <1>8
    <3>2. QED
      BY <1>3, <3>1 DEF Chained
  <2>5. Decodable(d, m)
    BY <1>15, <2>1, <2>3, <2>4 DEF Ready, Decodable, Delta
  <2>6. /\ Decoded(d, m).config = m.enc /\ Decoded(d, m).enc = m.enc /\ Decoded(d, m).n = m.n
    BY <1>15, <2>3 DEF Decoded, Decoders
  <2>7. \A b \in G : Delta(b) /\ m.seq + 1 = b.seq => Ready(Decoded(d, m), b)
    BY <1>12, <2>6 DEF Needs, Ready, Decodable
  <2>8. Chained(G, Decoded(d, m))
    BY <1>11, <2>7
  <2>9. DecodersOwn(B, Decoded(d, m))
    <3>1. SUFFICES ASSUME NEW b \in B, ~IsConfig(b), \A c \in B : IsConfig(c) => ~(c.seq < b.seq)
                   PROVE  m.enc = b.enc
      BY <2>6 DEF DecodersOwn
    <3>2. \A c \in A : IsConfig(c) => ~(c.seq < b.seq)
      BY <1>2, <1>15, <3>1
    <3>3. QED
      BY <1>2, <1>3, <1>15, <2>3, <3>1, <3>2 DEF DecodersOwn
  <2>10. QED
    BY <1>9, <1>10, <2>5, <2>8, <2>9 DEF Decodables
<1>16. QED
    BY <1>13, <1>14, <1>15 DEF G, B

\* U without a message the relay has read, if that was not written twice.
Remains(U, b, V) == V \subseteq U /\ (\A u \in U : u \in V \/ u = b) /\ \A v \in V : Before(b, v)

\* What remains is missing nothing.
LEMMA ReadMissesNothing ==
    ASSUME NEW U, NEW C, VideoSet(U), VideoSet(C), NEW b \in U, NEW V, Remains(U, b, V),
           \A c \in C : Before(b, c), NEW last \in Nat, last < b.seq, NoneMissing(U, C, last)
    PROVE  NoneMissing(V, C, b.seq)
<1>1. \A x \in U \cup C : x.seq \in Nat
    BY SetKinds
<1>2. V \subseteq U /\ (\A u \in U : u \in V \/ u = b) /\ b \in U
    BY DEF Remains
<1>3. \A v \in V \cup C : b.seq <= v.seq
    BY <1>1, <1>2 DEF Remains, Before
<1>4. ASSUME NEW x \in V \cup C, Delta(x)
      PROVE  First(x, V) \/ \E a \in V : a.seq + 1 = x.seq
  <2>1. SUFFICES ASSUME ~ \E a \in V : a.seq + 1 = x.seq PROVE First(x, V)
    OBVIOUS
  <2>2. First(x, U) \/ \E a \in U : a.seq + 1 = x.seq
    BY <1>2, <1>4 DEF NoneMissing
  <2>3. CASE First(x, U)
    BY <1>2, <2>3 DEF First
  <2>4. CASE \E a \in U : a.seq + 1 = x.seq
    <3>1. b.seq + 1 = x.seq
      BY <1>2, <2>1, <2>4
    <3>2. \A v \in V : v.seq # b.seq
      BY <2>1, <3>1
    <3>3. \A v \in V : v.seq \in Nat /\ b.seq <= v.seq
      BY <1>1, <1>2, <1>3
    <3>4. b.seq \in Nat
      BY <1>1
    <3>5. \A v \in V : x.seq <= v.seq
      BY <3>1, <3>2, <3>3, <3>4
    <3>6. QED
      BY <3>5 DEF First
  <2>5. QED
    BY <2>2, <2>3, <2>4
<1>5. ASSUME ~Doomed(V, b.seq), NEW x \in V \cup C, Delta(x), First(x, V), x.seq > b.seq
      PROVE  x.seq = b.seq + 1
  <2>1. First(x, U) \/ \E a \in U : a.seq + 1 = x.seq
    BY <1>2, <1>5 DEF NoneMissing
  <2>2. ~First(x, U)
    <3>1. x \in U \cup C /\ b \in U \cup C
      BY <1>2
    <3>2. ~(x.seq <= b.seq)
      BY <1>1, <1>5, <3>1
    <3>3. QED
      BY <3>2 DEF First
  <2>3. PICK a \in U : a.seq + 1 = x.seq
    BY <2>1, <2>2
  <2>4. a \notin V
    BY <1>1, <1>5, <2>3 DEF First
  <2>5. QED
    BY <1>1, <1>2, <2>3, <2>4
<1>6. QED
    BY <1>4, <1>5 DEF NoneMissing

\* The relay reads a message and keeps it.
LEMMA ReadKeeps ==
    ASSUME NEW H, NEW U, NEW C, VideoSet(H), VideoSet(U), VideoSet(C), NEW b \in U, NEW V,
           Remains(U, b, V), \A c \in C : Before(b, c), NEW d, NEW last \in Nat, last < b.seq,
           NEW wait \in BOOLEAN, NEW waits \in BOOLEAN, Stream(H, U, C, d, last, wait),
           ~(wait /\ Delta(b)), waits <=> wait /\ ~KeyFrame(b)
    PROVE  Stream(H \cup {b}, V, C, d, b.seq, waits)
<1> DEFINE G == H \cup {b}
           A == H \cup U \cup C
           B == G \cup V \cup C
<1>1. \A x \in A : x.seq \in Nat /\ x.seq >= 1
    BY SetKinds
<1>2. V \subseteq U /\ (\A u \in U : u \in V \/ u = b) /\ (\A v \in V : Before(b, v)) /\ b \in U
    BY DEF Remains
<1>3. A = B
    BY <1>2
<1>4. Decodables(H, A, d) /\ Parted(H, U, C, d, last) /\ NoneMissing(U, C, last)
      /\ Joins(H, U, C, d, last, wait)
    BY DEF Stream
<1>5. NoneMissing(V, C, b.seq)
    BY <1>4, ReadMissesNothing
<1>6. \A h \in H : h.seq <= last
    BY <1>4 DEF Parted
<1>7. \A h \in H : h.seq < b.seq
    BY <1>1, <1>6
<1>8. Parted(G, V, C, d, b.seq)
  <2>1. \A h \in G, u \in V \cup C : Before(h, u)
    BY <1>2, <1>4 DEF Parted
  <2>2. \A h \in G : h.seq <= b.seq
    BY <1>1, <1>7
  <2>3. \A u \in V \cup C : b.seq <= u.seq
    BY <1>1, <1>2 DEF Before
  <2>4. b.seq # 0
    BY <1>1
  <2>5. QED
    BY <2>1, <2>2, <2>3, <2>4 DEF Parted
<1>9. Delta(b) => (\E a \in H : a.seq + 1 = b.seq) \/ (H = {} /\ Ready(d, b))
  <2>1. SUFFICES ASSUME Delta(b) PROVE (\E a \in H : a.seq + 1 = b.seq) \/ (H = {} /\ Ready(d, b))
    OBVIOUS
  <2>2. CASE last = 0
    BY <1>4, <2>2 DEF Parted, Ready
  <2>3. CASE last # 0
    <3>1. \A u \in U : u \in V \/ u = b
      BY <1>2
    <3>2. \A u \in U : b.seq <= u.seq
      BY <1>1, <1>2 DEF Before
    <3>3. ~Doomed(U, last)
      BY <1>1, <3>2 DEF Doomed
    <3>4. First(b, U)
      BY <3>2 DEF First
    <3>5. b.seq = last + 1
      BY <1>1, <1>4, <2>1, <2>3, <3>3, <3>4 DEF NoneMissing
    <3>6. ~wait
      BY <2>1
    <3>7. (\E a \in H : a.seq = last) \/ (H = {} /\ Ready(d, b))
      BY <1>4, <2>1, <3>3, <3>5, <3>6 DEF Joins
    <3>8. QED
      BY <3>5, <3>7
  <2>4. QED
    BY <2>2, <2>3
<1>10. Chained(G, d)
  <2>1. SUFFICES ASSUME NEW x \in G, Delta(x), ~ \E a \in G : a.seq + 1 = x.seq
                 PROVE  (\A y \in G : x.seq <= y.seq) /\ Ready(d, x)
    BY DEF Chained
  <2>2. CASE x = b
    BY <1>1, <1>9, <2>1, <2>2
  <2>3. CASE x \in H
    <3>1. (\A y \in H : x.seq <= y.seq) /\ Ready(d, x)
      BY <1>4, <2>1, <2>3 DEF Decodables, Chained
    <3>2. x.seq <= b.seq
      BY <1>1, <1>7, <2>3
    <3>3. QED
      BY <3>1, <3>2
  <2>4. QED
    BY <2>1, <2>2, <2>3
<1>11. Decodables(G, B, d)
    BY <1>3, <1>4, <1>10 DEF Decodables
<1>12. Joins(G, V, C, d, b.seq, waits)
    BY DEF Joins
<1>13. QED
    BY <1>5, <1>8, <1>11, <1>12 DEF Stream

\* ... or drops a delta while it waits for a key frame.
LEMMA DropKeeps ==
    ASSUME NEW H, NEW U, NEW C, VideoSet(H), VideoSet(U), VideoSet(C), NEW b \in U, NEW V,
           Remains(U, b, V), \A c \in C : Before(b, c), NEW d, NEW last \in Nat, last < b.seq,
           Stream(H, U, C, d, last, TRUE), Delta(b)
    PROVE  Stream(H, V, C, d, b.seq, TRUE)
<1> DEFINE A == H \cup U \cup C
           B == H \cup V \cup C
<1>1. \A x \in A : x.seq \in Nat /\ x.seq >= 1 /\ (Delta(x) => ~IsConfig(x))
    BY SetKinds
<1>2. V \subseteq U /\ (\A u \in U : u \in V \/ u = b) /\ (\A v \in V : Before(b, v)) /\ b \in U
    BY DEF Remains
<1>3. Decodables(H, A, d) /\ Parted(H, U, C, d, last) /\ NoneMissing(U, C, last)
    BY DEF Stream
<1>4. NoneMissing(V, C, b.seq)
    BY <1>3, ReadMissesNothing
<1>5. B \subseteq A /\ \A x \in A : x \in B \/ x = b
    BY <1>2
<1>6. Parted(H, V, C, d, b.seq)
  <2>1. \A h \in H, u \in V \cup C : Before(h, u)
    BY <1>2, <1>3 DEF Parted
  <2>2. \A h \in H : h.seq <= b.seq
    BY <1>1, <1>3 DEF Parted
  <2>3. \A u \in V \cup C : b.seq <= u.seq
    BY <1>1, <1>2 DEF Before
  <2>4. b.seq # 0
    BY <1>1
  <2>5. QED
    BY <2>1, <2>2, <2>3, <2>4 DEF Parted
<1>7. ~IsConfig(b)
    BY <1>1
<1> HIDE DEF A, B
<1>8. \A c \in A : IsConfig(c) => c \in B
    BY <1>5, <1>7
<1>9. OneEncoder(B)
    BY <1>3, <1>5, <1>8 DEF Decodables, OneEncoder
<1>10. DecodersOwn(B, d)
    BY <1>3, <1>5, <1>8 DEF Decodables, DecodersOwn
<1>11. AfterItsFrame(B)
    BY <1>3, <1>5 DEF Decodables, AfterItsFrame
<1>12. Decodables(H, B, d)
    BY <1>3, <1>9, <1>10, <1>11 DEF Decodables
<1>13. QED
    BY <1>4, <1>6, <1>12 DEF Stream, Joins, B

\* The relay drops what has aged.
LEMMA PruneKeeps ==
    ASSUME NEW P, NEW Q, NEW R, NEW U, NEW C, VideoSet(P), VideoSet(Q), VideoSet(U), VideoSet(C),
           R \subseteq Q, \A p \in P, q \in Q : p.seq < q.seq,
           \A m \in Q : ~Delta(m) => m \in R,
           \A a \in Q, b \in R : Delta(b) /\ a.seq + 1 = b.seq => a \in R,
           NEW wait \in BOOLEAN, NEW waits \in BOOLEAN, wait => waits,
           ~waits => \A a \in Q : (\A x \in Q : x.seq <= a.seq) => a \in R,
           NEW d, NEW last \in Nat, Stream(P \cup Q, U, C, d, last, wait)
    PROVE  Stream(P \cup R, U, C, d, last, waits)
<1> DEFINE H == P \cup Q
           G == P \cup R
           A == H \cup U \cup C
           B == G \cup U \cup C
<1>1. \A x \in A : /\ x.seq \in Nat /\ x.seq >= 1
                   /\ Delta(x) => ~IsConfig(x)
    BY SetKinds
<1>2. B \subseteq A /\ G \subseteq H /\ \A x \in A : IsConfig(x) => x \in B
    BY <1>1
<1>3. Decodables(H, A, d) /\ Parted(H, U, C, d, last) /\ NoneMissing(U, C, last)
      /\ Joins(H, U, C, d, last, wait)
    BY DEF Stream
<1>4. /\ \A h \in H : h \in P \/ h \in Q
      /\ \A h \in G : h \in P \/ h \in R
      /\ P \subseteq G /\ R \subseteq G
      /\ P \subseteq H /\ Q \subseteq H /\ H \subseteq A
    OBVIOUS
<1>5. B = G \cup U \cup C
    OBVIOUS
<1> HIDE DEF H, G, A, B
<1>6. OneEncoder(B) /\ DecodersOwn(B, d) /\ AfterItsFrame(B)
    BY <1>2, <1>3 DEF Decodables, OneEncoder, DecodersOwn, AfterItsFrame
<1>7. Chained(G, d)
  <2>1. SUFFICES ASSUME NEW b \in G, Delta(b), ~ \E a \in G : a.seq + 1 = b.seq
                 PROVE  (\A x \in G : b.seq <= x.seq) /\ Ready(d, b)
    BY DEF Chained
  <2>2. ~ \E a \in H : a.seq + 1 = b.seq
    <3>1. SUFFICES ASSUME NEW a \in H, a.seq + 1 = b.seq PROVE FALSE
      OBVIOUS
    <3>2. a \in Q /\ a \notin R
      BY <1>4, <2>1, <3>1
    <3>3. b \in P
      BY <1>4, <2>1, <3>1, <3>2
    <3>4. b.seq < a.seq /\ a.seq \in Nat /\ b.seq \in Nat
      BY <1>1, <1>4, <3>2, <3>3
    <3>5. QED
      BY <3>1, <3>4
  <2>3. (\A x \in H : b.seq <= x.seq) /\ Ready(d, b)
    BY <1>2, <1>3, <2>1, <2>2 DEF Decodables, Chained
  <2>4. QED
    BY <1>2, <2>3
<1>8. Decodables(G, B, d)
    BY <1>6, <1>7 DEF Decodables
<1>9. Parted(G, U, C, d, last)
    BY <1>2, <1>3 DEF Parted
<1>10. Joins(G, U, C, d, last, waits)
  <2>1. SUFFICES ASSUME ~waits, ~Doomed(U, last), NEW b \in U \cup C, Delta(b), b.seq = last + 1
                 PROVE  (\E a \in G : a.seq = last) \/ (G = {} /\ Ready(d, b))
    BY DEF Joins
  <2>2. (\E a \in H : a.seq = last) \/ (H = {} /\ Ready(d, b))
    BY <1>3, <2>1 DEF Joins
  <2>3. CASE H = {} /\ Ready(d, b)
    BY <1>2, <2>3
  <2>4. ASSUME NEW a \in H, a.seq = last PROVE a \in G
    <3>1. CASE a \in P
      BY <1>4, <3>1
    <3>2. CASE a \in Q
      <4>1. \A x \in Q : x.seq <= a.seq
        BY <1>3, <1>4, <2>4 DEF Parted
      <4>2. QED
        BY <1>4, <2>1, <3>2, <4>1
    <3>3. QED
      BY <1>4, <3>1, <3>2
  <2>5. QED
    BY <2>2, <2>3, <2>4
<1>11. QED
    BY <1>3, <1>5, <1>8, <1>9, <1>10 DEF Stream, G

\* ... and what a key frame it waited for supersedes.
LEMMA SupersedeKeeps ==
    ASSUME NEW P, NEW Q, NEW R, NEW U, NEW C, VideoSet(P), VideoSet(Q), VideoSet(U), VideoSet(C),
           R \subseteq Q, \A p \in P, q \in Q : p.seq < q.seq,
           \A c \in Q : IsConfig(c) => \E m \in R : IsConfig(m) /\ c.seq <= m.seq,
           \A m \in R : IsConfig(m) \/ \A x \in Q : m.seq <= x.seq,
           NEW d, NEW last \in Nat, Stream(P \cup Q, U, C, d, last, TRUE)
    PROVE  Stream(P \cup R, U, C, d, last, TRUE)
<1> DEFINE H == P \cup Q
           G == P \cup R
           A == H \cup U \cup C
           B == G \cup U \cup C
<1>1. \A x \in A : /\ x.seq \in Nat /\ x.seq >= 1
                   /\ Delta(x) => ~IsConfig(x)
    BY SetKinds
<1>2. B \subseteq A /\ G \subseteq H
    OBVIOUS
<1>3. Decodables(H, A, d) /\ Parted(H, U, C, d, last) /\ NoneMissing(U, C, last)
    BY DEF Stream
<1>4. /\ \A h \in H : h \in P \/ h \in Q
      /\ \A h \in G : h \in P \/ h \in R
      /\ P \subseteq G /\ R \subseteq G /\ P \subseteq H /\ Q \subseteq H /\ H \subseteq A /\ G \subseteq B
      /\ \A x \in B : x \in P \/ x \in R \/ x \in U \cup C
      /\ \A x \in A : x \in B \/ x \in Q
    OBVIOUS
<1>5. ASSUME NEW c \in A, IsConfig(c), NEW b \in B, ~IsConfig(b), c.seq < b.seq
      PROVE  \E m \in B : IsConfig(m) /\ c.seq <= m.seq /\ m.seq < b.seq
  <2>1. CASE c \in B
    BY <1>1, <1>5, <2>1
  <2>2. CASE c \in Q
    <3>1. PICK m \in R : IsConfig(m) /\ c.seq <= m.seq
      BY <1>5, <2>2
    <3>2. m \in H /\ m \in B /\ m \in Q
      BY <1>4
    <3>3. b \notin P
      BY <1>1, <1>2, <1>5, <2>2
    <3>4. b \notin R
      BY <1>1, <1>2, <1>4, <1>5, <2>2
    <3>5. b \in U \cup C
      BY <1>4, <3>3, <3>4
    <3>6. Before(m, b)
      BY <1>3, <3>2, <3>5 DEF Parted
    <3>7. m.seq < b.seq
      BY <1>5, <3>1, <3>6 DEF Before
    <3>8. QED
      BY <3>1, <3>2, <3>7
  <2>3. QED
    BY <1>4, <2>1, <2>2
<1> HIDE DEF H, G, A, B
<1>6. OneEncoder(B)
  <2>1. SUFFICES ASSUME NEW a \in B, NEW b \in B, ~IsConfig(b), a.seq < b.seq,
                        \A c \in B : IsConfig(c) => ~(a.seq < c.seq /\ c.seq < b.seq)
                 PROVE  a.enc = b.enc
    BY DEF OneEncoder
  <2>2. \A c \in A : IsConfig(c) => ~(a.seq < c.seq /\ c.seq < b.seq)
    <3>1. SUFFICES ASSUME NEW c \in A, IsConfig(c), a.seq < c.seq, c.seq < b.seq PROVE FALSE
      OBVIOUS
    <3>2. PICK m \in B : IsConfig(m) /\ c.seq <= m.seq /\ m.seq < b.seq
      BY <1>5, <2>1, <3>1
    <3>3. a.seq < m.seq
      BY <1>1, <1>2, <3>1, <3>2
    <3>4. QED
      BY <2>1, <3>2, <3>3
  <2>3. QED
    BY <1>2, <1>3, <2>1, <2>2 DEF Decodables, OneEncoder
<1>7. DecodersOwn(B, d)
  <2>1. SUFFICES ASSUME d # None, NEW b \in B, ~IsConfig(b),
                        \A c \in B : IsConfig(c) => ~(c.seq < b.seq)
                 PROVE  d.config = b.enc
    BY DEF DecodersOwn
  <2>2. \A c \in A : IsConfig(c) => ~(c.seq < b.seq)
    BY <1>5, <2>1
  <2>3. QED
    BY <1>2, <1>3, <2>1, <2>2 DEF Decodables, DecodersOwn
<1>8. AfterItsFrame(B)
    BY <1>2, <1>3 DEF Decodables, AfterItsFrame
<1>9. Chained(G, d)
  <2>1. SUFFICES ASSUME NEW b \in G, Delta(b), ~ \E a \in G : a.seq + 1 = b.seq
                 PROVE  (\A x \in G : b.seq <= x.seq) /\ Ready(d, b)
    BY DEF Chained
  <2>2. b \in A /\ ~IsConfig(b) /\ b.seq \in Nat
    BY <1>1, <1>2, <1>4, <2>1
  <2>3. ~ \E a \in H : a.seq + 1 = b.seq
    <3>1. SUFFICES ASSUME NEW a \in H, a.seq + 1 = b.seq PROVE FALSE
      OBVIOUS
    <3>2. a \in Q /\ a.seq \in Nat
      BY <1>1, <1>4, <2>1, <3>1
    <3>3. b \in P \/ \A x \in Q : b.seq <= x.seq
      BY <1>4, <2>2
    <3>4. b.seq <= a.seq
      BY <2>2, <3>2, <3>3
    <3>5. QED
      BY <2>2, <3>1, <3>2, <3>4
  <2>4. (\A x \in H : b.seq <= x.seq) /\ Ready(d, b)
    BY <1>2, <1>3, <2>1, <2>3 DEF Decodables, Chained
  <2>5. QED
    BY <1>2, <2>4
<1>10. Decodables(G, B, d)
    BY <1>6, <1>7, <1>8, <1>9 DEF Decodables
<1>11. Parted(G, U, C, d, last)
    BY <1>2, <1>3 DEF Parted
<1>12. QED
    BY <1>3, <1>10, <1>11 DEF Stream, Joins, B, G

\* The link is closed: what the Remote has is as decodable as before.
LEMMA DownKeeps ==
    ASSUME NEW P, NEW Q, NEW U, NEW C, VideoSet(P), VideoSet(Q), VideoSet(U), VideoSet(C),
           \A p \in P, q \in Q : p.seq < q.seq,
           NEW d, NEW last \in Nat, NEW wait, Stream(P \cup Q, U, C, d, last, wait)
    PROVE  Decodables(P, P, d)
<1> DEFINE H == P \cup Q
           A == H \cup U \cup C
<1>1. \A x \in A : x.seq \in Nat /\ x.seq >= 1
    BY SetKinds
<1>2. Decodables(H, A, d) /\ Parted(H, U, C, d, last)
    BY DEF Stream
<1>3. P \subseteq H /\ H \subseteq A /\ (\A x \in A : x \in P \/ x \in Q \/ x \in U \cup C)
      /\ \A x \in H : x \in P \/ x \in Q
    OBVIOUS
<1> HIDE DEF A, H
<1>4. \A c \in A, b \in P : c.seq < b.seq => c \in P
  <2>1. SUFFICES ASSUME NEW c \in A, NEW b \in P, c.seq < b.seq, c \notin P PROVE FALSE
    OBVIOUS
  <2>2. b.seq <= last /\ b.seq \in Nat /\ c.seq \in Nat
    BY <1>1, <1>2, <1>3 DEF Parted
  <2>3. CASE c \in Q
    BY <2>1, <2>2, <2>3
  <2>4. CASE c \in U \cup C
    <3>1. last <= c.seq
      BY <1>2, <2>4 DEF Parted
    <3>2. QED
      BY <2>1, <2>2, <3>1
  <2>5. QED
    BY <1>3, <2>1, <2>3, <2>4
<1>5. OneEncoder(P) /\ DecodersOwn(P, d) /\ AfterItsFrame(P)
    BY <1>2, <1>3, <1>4 DEF Decodables, OneEncoder, DecodersOwn, AfterItsFrame
<1>6. Chained(P, d)
  <2>1. SUFFICES ASSUME NEW b \in P, Delta(b), ~ \E a \in P : a.seq + 1 = b.seq
                 PROVE  (\A x \in P : b.seq <= x.seq) /\ Ready(d, b)
    BY DEF Chained
  <2>2. ~ \E a \in H : a.seq + 1 = b.seq
    <3>1. SUFFICES ASSUME NEW a \in H, a.seq + 1 = b.seq PROVE FALSE
      OBVIOUS
    <3>2. a.seq < b.seq
      BY <1>1, <1>3, <3>1
    <3>3. QED
      BY <1>3, <1>4, <2>1, <3>1, <3>2
  <2>3. QED
    BY <1>2, <1>3, <2>1, <2>2 DEF Decodables, Chained
<1>7. QED
    BY <1>5, <1>6 DEF Decodables

\* The Remote has gone: what the relay has yet to read is as good for the one that comes back.
LEMMA FreshKeeps ==
    ASSUME NEW H, NEW U, NEW C, VideoSet(H), VideoSet(U), VideoSet(C),
           NEW d, NEW last \in Nat, NEW wait, Stream(H, U, C, d, last, wait)
    PROVE  Stream({}, U, C, None, 0, FALSE)
<1> DEFINE A == H \cup U \cup C
           B == U \cup C
<1>1. \A x \in A : x.seq \in Nat /\ x.seq >= 1
    BY SetKinds
<1>2. Decodables(H, A, d) /\ Parted(H, U, C, d, last) /\ NoneMissing(U, C, last)
    BY DEF Stream
<1>3. B \subseteq A /\ \A x \in A : x \in B \/ x \in H
    OBVIOUS
<1>4. \A b \in B, h \in H : h.seq <= b.seq
    BY <1>1, <1>2 DEF Parted
<1>5. {} \cup U \cup C = B
    OBVIOUS
<1>6. \A u \in B : 0 <= u.seq
    BY <1>1, <1>3
<1>7. H \subseteq A /\ B = U \cup C
    OBVIOUS
<1> HIDE DEF A, B
<1>8. \A c \in A, a \in B : a.seq < c.seq => c \in B
  <2>1. SUFFICES ASSUME NEW c \in A, NEW a \in B, a.seq < c.seq, c \notin B PROVE FALSE
    OBVIOUS
  <2>2. c \in H /\ c.seq <= a.seq /\ a.seq \in Nat /\ c.seq \in Nat
    BY <1>1, <1>3, <1>4, <2>1
  <2>3. QED
    BY <2>1, <2>2
<1>9. OneEncoder(B) /\ AfterItsFrame(B) /\ DecodersOwn(B, None)
    BY <1>2, <1>3, <1>8 DEF Decodables, OneEncoder, AfterItsFrame, DecodersOwn
<1>10. Decodables({}, B, None)
    BY <1>9 DEF Decodables, Chained
<1>11. Parted({}, U, C, None, 0)
    BY <1>6, <1>7 DEF Parted
<1>12. NoneMissing(U, C, 0)
    BY <1>2 DEF NoneMissing
<1>13. Joins({}, U, C, None, 0, FALSE)
    BY DEF Joins, Ready
<1>14. QED
    BY <1>5, <1>10, <1>11, <1>12, <1>13 DEF Stream

\* The Host's message is accepted, and may have to be sent again.
LEMMA AcceptKeeps ==
    ASSUME NEW H, NEW U, NEW b, VideoSet(H), VideoSet(U), VideoSet({b}),
           NEW d, NEW last \in Nat, NEW wait, NEW seq \in Nat,
           Stream(H, U, {b}, d, last, wait), Numbered(H, U, {b}, seq, last)
    PROVE  /\ Stream(H, U \cup {b}, {b}, d, last, wait) /\ Numbered(H, U \cup {b}, {b}, seq, last)
           /\ \A u \in U : Before(u, b)
<1> DEFINE C == {b}
           A == H \cup U \cup C
           V == U \cup C
<1>1. \A x \in A : x.seq \in Nat /\ x.seq >= 1
    BY SetKinds
<1>2. Decodables(H, A, d) /\ Parted(H, U, C, d, last) /\ NoneMissing(U, C, last)
      /\ Joins(H, U, C, d, last, wait)
    BY DEF Stream
<1>3. H \cup V \cup C = A /\ V \cup C = U \cup C /\ U \subseteq V /\ b \in V /\ b \in A /\ b \in C
      /\ V = U \cup {b} /\ H \subseteq A /\ U \subseteq A /\ (\A x \in V : x \in U \/ x = b)
      /\ \A x \in C : x = b
    OBVIOUS
<1>4. b.seq = seq + 1 /\ last <= seq + 1
      /\ \A a \in H \cup U : a.seq <= seq + 1 /\ (a.seq = seq + 1 => a \in C)
    BY DEF Numbered
<1> HIDE DEF A, V, C
<1>5. \A x \in U \cup C : First(x, U) => First(x, V)
    BY <1>1, <1>3, <1>4 DEF First
<1>6. \A x : First(x, V) => First(x, U)
    BY <1>3 DEF First
<1>7. Doomed(U, last) => Doomed(V, last)
    BY <1>3 DEF Doomed
<1>8. NoneMissing(V, C, last)
  <2>1. \A x \in V \cup C : Delta(x) => First(x, V) \/ \E a \in V : a.seq + 1 = x.seq
    BY <1>2, <1>3, <1>5 DEF NoneMissing
  <2>2. QED
    BY <1>2, <1>3, <1>6, <1>7, <2>1 DEF NoneMissing
<1>9. Joins(H, V, C, d, last, wait)
    BY <1>2, <1>3, <1>7 DEF Joins
<1>10. Parted(H, V, C, d, last)
    BY <1>2, <1>3 DEF Parted
<1>11. Stream(H, V, C, d, last, wait)
    BY <1>2, <1>3, <1>8, <1>9, <1>10 DEF Stream
<1>12. Numbered(H, V, C, seq, last)
    BY <1>3, <1>4 DEF Numbered
<1>13. \A u \in U : Before(u, b)
    BY <1>1, <1>3, <1>4 DEF Before
<1>14. QED
    BY <1>3, <1>11, <1>12, <1>13 DEF C

\* ... or is written, and the next one is a frame that follows it.
LEMMA SentKeeps ==
    ASSUME NEW H, NEW U, NEW b, VideoSet(H), VideoSet(U), VideoSet({b}),
           NEW d, NEW last \in Nat, NEW wait, NEW seq \in Nat,
           Stream(H, U, {b}, d, last, wait), Numbered(H, U, {b}, seq, last),
           NEW f, VideoSet({f}), f.k = "frame", f.seq = seq + 2, f.enc = b.enc,
           Delta(f) => Needs(b, f)
    PROVE  /\ Stream(H, U \cup {b}, {f}, d, last, wait)
           /\ Numbered(H, U \cup {b}, {f}, seq + 1, last)
<1> DEFINE C == {b}
           A == H \cup U \cup C
           V == U \cup C
           F == {f}
           B == A \cup F
<1>1. \A x \in B : x.seq \in Nat /\ x.seq >= 1 /\ (Delta(x) => ~IsConfig(x))
    BY SetKinds
<1>2. Decodables(H, A, d) /\ Parted(H, U, C, d, last) /\ NoneMissing(U, C, last)
      /\ Joins(H, U, C, d, last, wait)
    BY DEF Stream
<1>3. /\ H \cup V \cup F = B /\ U \subseteq V /\ b \in V /\ b \in A /\ b \in C
      /\ V = U \cup {b} /\ H \subseteq A /\ U \subseteq A /\ V \subseteq A
      /\ \A x \in V : x \in U \/ x = b
      /\ \A x \in C : x = b
      /\ \A x \in A : x \in H \/ x \in U \/ x = b
      /\ \A x \in B : x \in A \/ x = f
      /\ A \subseteq B /\ f \in B /\ f \in F
      /\ (\A x \in V \cup F : x \in U \cup C \/ x = f) /\ F = {f}
    OBVIOUS
<1>4. b.seq = seq + 1 /\ last <= seq + 1
      /\ \A a \in H \cup U : a.seq <= seq + 1 /\ (a.seq = seq + 1 => a \in C)
    BY DEF Numbered
<1>5. ~IsConfig(f)
    BY DEF IsConfig
<1> HIDE DEF A, V, C, F, B
<1>6. \A a \in A : a.seq <= b.seq /\ (a.seq = b.seq => a = b) /\ b.seq + 1 = f.seq
    BY <1>1, <1>3, <1>4
<1>7. OneEncoder(B)
  <2>1. SUFFICES ASSUME NEW x \in B, NEW y \in B, ~IsConfig(y), x.seq < y.seq,
                        \A c \in B : IsConfig(c) => ~(x.seq < c.seq /\ c.seq < y.seq)
                 PROVE  x.enc = y.enc
    BY DEF OneEncoder
  <2>2. x \in A
    BY <1>1, <1>3, <1>6, <2>1
  <2>3. CASE y \in A
    BY <1>2, <1>3, <2>1, <2>2, <2>3 DEF Decodables, OneEncoder
  <2>4. CASE y = f
    <3>1. CASE x = b
      BY <2>4, <3>1
    <3>2. CASE x # b
      <4>1. x.seq < b.seq
        BY <1>1, <1>3, <1>6, <2>2, <3>2
      <4>2. b.seq < f.seq
        BY <1>1, <1>3, <1>6
      <4>3. ~IsConfig(b)
        BY <1>3, <2>1, <2>4, <4>1, <4>2
      <4>4. \A c \in A : IsConfig(c) => ~(x.seq < c.seq /\ c.seq < b.seq)
        BY <1>1, <1>3, <1>6, <2>1, <2>4
      <4>5. x.enc = b.enc
        BY <1>2, <1>3, <2>2, <4>1, <4>3, <4>4 DEF Decodables, OneEncoder
      <4>6. QED
        BY <2>4, <4>5
    <3>3. QED
      BY <3>1, <3>2
  <2>5. QED
    BY <1>3, <2>3, <2>4
<1>8. DecodersOwn(B, d)
  <2>1. SUFFICES ASSUME d # None, NEW y \in B, ~IsConfig(y),
                        \A c \in B : IsConfig(c) => ~(c.seq < y.seq)
                 PROVE  d.config = y.enc
    BY DEF DecodersOwn
  <2>2. CASE y \in A
    BY <1>2, <1>3, <2>1, <2>2 DEF Decodables, DecodersOwn
  <2>3. CASE y = f
    <3>1. b.seq < f.seq
      BY <1>1, <1>3, <1>6
    <3>2. ~IsConfig(b)
      BY <1>3, <2>1, <2>3, <3>1
    <3>3. \A c \in A : IsConfig(c) => ~(c.seq < b.seq)
      BY <1>1, <1>3, <1>6, <2>1, <2>3
    <3>4. d.config = b.enc
      BY <1>2, <1>3, <2>1, <3>2, <3>3 DEF Decodables, DecodersOwn
    <3>5. QED
      BY <2>3, <3>4
  <2>4. QED
    BY <1>3, <2>2, <2>3
<1>9. AfterItsFrame(B)
  <2>1. SUFFICES ASSUME NEW x \in B, NEW y \in B, Delta(y), x.seq + 1 = y.seq PROVE Needs(x, y)
    BY DEF AfterItsFrame
  <2>2. x \in A
    BY <1>1, <1>3, <1>6, <2>1
  <2>3. CASE y \in A
    BY <1>2, <2>1, <2>2, <2>3 DEF Decodables, AfterItsFrame
  <2>4. CASE y = f
    <3>1. x = b
      BY <1>1, <1>3, <1>6, <2>1, <2>2, <2>4
    <3>2. QED
      BY <2>1, <2>4, <3>1
  <2>5. QED
    BY <1>3, <2>3, <2>4
<1>10. Decodables(H, B, d)
    BY <1>2, <1>7, <1>8, <1>9 DEF Decodables
<1>11. Parted(H, V, F, d, last)
  <2>1. \A h \in H, u \in V : Before(h, u)
    BY <1>2, <1>3 DEF Parted
  <2>2. \A h \in H : Before(h, f)
    BY <1>1, <1>3, <1>6 DEF Before
  <2>3. \A u \in V : last <= u.seq
    BY <1>2, <1>3 DEF Parted
  <2>4. last <= f.seq
    BY <1>4
  <2>5. \A u \in V \cup F : u \in V \/ u = f
    BY <1>3
  <2>6. QED
    BY <1>2, <2>1, <2>2, <2>3, <2>4, <2>5 DEF Parted
<1>12. \A x \in U \cup C : First(x, U) => First(x, V)
  <2>1. \A x \in U \cup C : x.seq <= b.seq
    BY <1>3, <1>6
  <2>2. QED
    BY <1>3, <2>1 DEF First
<1>13. \A x : First(x, V) => First(x, U)
    BY <1>3 DEF First
<1>14. Doomed(U, last) => Doomed(V, last)
    BY <1>3 DEF Doomed
<1>15. ~First(f, V) /\ b.seq + 1 = f.seq
  <2>1. ~(f.seq <= b.seq)
    BY <1>1, <1>3, <1>6
  <2>2. QED
    BY <1>3, <1>6, <2>1 DEF First
<1>16. NoneMissing(V, F, last)
  <2>1. ASSUME NEW x \in V \cup F, Delta(x) PROVE First(x, V) \/ \E a \in V : a.seq + 1 = x.seq
    <3>1. CASE x = f
      BY <1>3, <1>15, <3>1
    <3>2. CASE x \in U \cup C
      BY <1>2, <1>3, <1>12, <2>1, <3>2 DEF NoneMissing
    <3>3. QED
      BY <1>3, <3>1, <3>2
  <2>2. ASSUME last # 0, ~Doomed(V, last), NEW x \in V \cup F, Delta(x), First(x, V), x.seq > last
        PROVE  x.seq = last + 1
    <3>1. x \in U \cup C
      BY <1>3, <1>15, <2>2
    <3>2. QED
      BY <1>2, <1>13, <1>14, <2>2, <3>1 DEF NoneMissing
  <2>3. QED
    BY <2>1, <2>2 DEF NoneMissing
<1>17. Joins(H, V, F, d, last, wait)
  <2>1. SUFFICES ASSUME ~wait, ~Doomed(V, last), NEW x \in V \cup F, Delta(x), x.seq = last + 1
                 PROVE  (\E a \in H : a.seq = last) \/ (H = {} /\ Ready(d, x))
    BY DEF Joins
  <2>2. x # f
    <3>1. b.seq # last
      BY <1>3, <2>1 DEF Doomed
    <3>2. QED
      BY <1>1, <1>3, <1>6, <2>1, <3>1
  <2>3. x \in U \cup C
    BY <1>3, <2>2
  <2>4. QED
    BY <1>2, <1>14, <2>1, <2>3 DEF Joins
<1>18. Stream(H, V, F, d, last, wait)
    BY <1>3, <1>10, <1>11, <1>16, <1>17 DEF Stream
<1>19. Numbered(H, V, F, seq + 1, last)
    BY <1>1, <1>3, <1>4, <1>6 DEF Numbered
<1>20. QED
    BY <1>3, <1>18, <1>19 DEF F

\* A new encoder gives its first frame: its configuration is coming.
LEMMA EncodeKeeps ==
    ASSUME NEW H, NEW U, NEW b, VideoSet(H), VideoSet(U), VideoSet({b}),
           NEW d, NEW last \in Nat, NEW wait, NEW seq \in Nat,
           Stream(H, U, {}, d, last, wait), Numbered(H, U, {}, seq, last),
           IsConfig(b), b.seq = seq + 1
    PROVE  Stream(H, U, {b}, d, last, wait) /\ Numbered(H, U, {b}, seq, last)
<1> DEFINE A == H \cup U
           C == {b}
           B == A \cup C
<1>1. \A x \in B : x.seq \in Nat /\ x.seq >= 1 /\ (Delta(x) => ~IsConfig(x))
    BY SetKinds
<1>2. H \cup U \cup {} = A /\ U \cup {} = U
    OBVIOUS
<1>3. Decodables(H, A, d) /\ Parted(H, U, {}, d, last) /\ NoneMissing(U, {}, last)
      /\ Joins(H, U, {}, d, last, wait)
    BY <1>2 DEF Stream
<1>4. last <= seq + 1 /\ \A a \in A : a.seq <= seq /\ a.seq < b.seq
    BY <1>1 DEF Numbered
<1>5. /\ H \cup U \cup C = B /\ H \subseteq A /\ U \subseteq A /\ A \subseteq B /\ b \in B
      /\ (\A x \in B : x \in A \/ x = b) /\ C = {b} /\ b \in C /\ U \cup C \subseteq B
      /\ \A x \in U \cup C : x \in U \/ x = b
    OBVIOUS
<1> HIDE DEF A, B, C
<1>6. OneEncoder(B)
  <2>1. SUFFICES ASSUME NEW x \in B, NEW y \in B, ~IsConfig(y), x.seq < y.seq,
                        \A c \in B : IsConfig(c) => ~(x.seq < c.seq /\ c.seq < y.seq)
                 PROVE  x.enc = y.enc
    BY DEF OneEncoder
  <2>2. x \in A /\ y \in A
    BY <1>1, <1>4, <1>5, <2>1
  <2>3. QED
    BY <1>3, <1>5, <2>1, <2>2 DEF Decodables, OneEncoder
<1>7. DecodersOwn(B, d)
    BY <1>3, <1>5 DEF Decodables, DecodersOwn
<1>8. AfterItsFrame(B)
    BY <1>1, <1>3, <1>4, <1>5 DEF Decodables, AfterItsFrame
<1>9. Decodables(H, B, d)
    BY <1>3, <1>6, <1>7, <1>8 DEF Decodables
<1>10. Parted(H, U, C, d, last)
    BY <1>3, <1>4, <1>5 DEF Parted, Before
<1>11. \A x \in U \cup C : Delta(x) => x \in U
    BY <1>1, <1>5
<1>12. NoneMissing(U, C, last) /\ Joins(H, U, C, d, last, wait)
    BY <1>2, <1>3, <1>11 DEF NoneMissing, Joins
<1>13. Stream(H, U, C, d, last, wait)
    BY <1>5, <1>9, <1>10, <1>12 DEF Stream
<1>14. Numbered(H, U, C, seq, last)
    BY <1>1, <1>4, <1>5 DEF Numbered
<1>15. QED
    BY <1>13, <1>14 DEF C

\* A Host that resumes stores its configuration again and forgets what was coming.
LEMMA ResumeKeeps ==
    ASSUME NEW H, NEW U, NEW C, VideoSet(H), VideoSet(U), VideoSet(C), NEW b, VideoSet({b}),
           NEW d, NEW last \in Nat, NEW wait, NEW seq \in Nat,
           Stream(H, U, C, d, last, wait), Numbered(H, U, C, seq, last),
           IsConfig(b), b.seq = seq + 1, NEW V, V = U \/ V = U \cup {b}
    PROVE  /\ Stream(H, V, {}, d, last, wait) /\ Numbered(H, V, {}, seq + 1, last)
           /\ \A u \in U : Before(u, b)
<1> DEFINE A == H \cup U \cup C
           B == H \cup V
<1>1. /\ \A x \in A : x.seq \in Nat /\ x.seq >= 1 /\ (Delta(x) => ~IsConfig(x))
      /\ \A x \in {b} : x.seq \in Nat /\ x.seq >= 1 /\ (Delta(x) => ~IsConfig(x))
    BY SetKinds
<1>2. Decodables(H, A, d) /\ Parted(H, U, C, d, last) /\ NoneMissing(U, C, last)
      /\ Joins(H, U, C, d, last, wait)
    BY DEF Stream
<1>3. last <= seq + 1 /\ (\A a \in H \cup U : a.seq <= seq + 1) /\ (\A c \in C : c.seq = seq + 1)
    BY DEF Numbered
<1>4. /\ H \cup V \cup {} = B /\ V \cup {} = V /\ U \subseteq V
      /\ \A x \in V : x \in U \/ x = b
      /\ \A x \in B : x \in H \cup U \/ x = b
      /\ H \cup U \subseteq B /\ H \cup U \subseteq A /\ (\A x \in A : x \in B \/ x \in C)
      /\ H \subseteq A /\ U \subseteq A /\ C \subseteq A
    OBVIOUS
<1> HIDE DEF A, B
<1>5. \A x \in B : x.seq <= seq + 1 /\ x.seq \in Nat /\ (~IsConfig(x) => x \in A /\ x \in H \cup U)
    BY <1>1, <1>3, <1>4
<1>6. \A x, y \in B : ~IsConfig(y) /\ x.seq < y.seq => x \in A
    BY <1>1, <1>3, <1>4
<1>7. \A c \in A, y \in B : IsConfig(c) /\ c.seq < y.seq => c \in B
    BY <1>1, <1>3, <1>4, <1>5
<1>8. OneEncoder(B)
    BY <1>2, <1>5, <1>6, <1>7 DEF Decodables, OneEncoder
<1>9. DecodersOwn(B, d)
    BY <1>2, <1>5, <1>7 DEF Decodables, DecodersOwn
<1>10. AfterItsFrame(B)
  <2>1. SUFFICES ASSUME NEW x \in B, NEW y \in B, Delta(y), x.seq + 1 = y.seq PROVE Needs(x, y)
    BY DEF AfterItsFrame
  <2>2. x # b
    BY <1>5, <2>1
  <2>3. ~IsConfig(y)
    BY <1>1, <1>4, <2>1
  <2>4. QED
    BY <1>2, <1>4, <1>5, <2>1, <2>2, <2>3 DEF Decodables, AfterItsFrame
<1>11. Decodables(H, B, d)
    BY <1>2, <1>8, <1>9, <1>10 DEF Decodables
<1>12. Parted(H, V, {}, d, last)
  <2>1. \A h \in H : Before(h, b)
    BY <1>1, <1>3, <1>4 DEF Before
  <2>2. QED
    BY <1>2, <1>3, <1>4, <2>1 DEF Parted
<1>13. \A x \in V : Delta(x) => x \in U
    BY <1>1, <1>4
<1>14. \A x \in U : First(x, U) => First(x, V)
    BY <1>3, <1>4 DEF First
<1>15. \A x : First(x, V) => First(x, U)
    BY <1>4 DEF First
<1>16. Doomed(U, last) => Doomed(V, last)
    BY <1>4 DEF Doomed
<1>17. NoneMissing(V, {}, last)
  <2>1. \A x \in V : Delta(x) => First(x, V) \/ \E a \in V : a.seq + 1 = x.seq
    BY <1>2, <1>4, <1>13, <1>14 DEF NoneMissing
  <2>2. QED
    BY <1>2, <1>4, <1>13, <1>15, <1>16, <2>1 DEF NoneMissing
<1>18. Joins(H, V, {}, d, last, wait)
    BY <1>2, <1>4, <1>13, <1>16 DEF Joins
<1>19. Stream(H, V, {}, d, last, wait)
    BY <1>4, <1>11, <1>12, <1>17, <1>18 DEF Stream
<1>20. Numbered(H, V, {}, seq + 1, last)
  <2>1. \A a \in H \cup V : a.seq \in Nat /\ a.seq <= seq + 1
    BY <1>4, <1>5
  <2>2. QED
    BY <1>3, <2>1 DEF Numbered
<1>21. \A u \in U : Before(u, b)
    BY <1>1, <1>3, <1>4 DEF Before
<1>22. QED
    BY <1>19, <1>20, <1>21

\* Both ends begin again.
LEMMA NothingStreams ==
    /\ Stream({}, {}, {}, None, 0, FALSE)
    /\ \A seq \in Nat : Numbered({}, {}, {}, seq, 0)
    BY DEF Stream, Decodables, OneEncoder, DecodersOwn, AfterItsFrame, Chained, Parted,
           NoneMissing, Joins, Ready, Numbered

\* The decoder takes the first message it is given.
LEMMA DecodeStreams ==
    ASSUME NEW H, NEW U, NEW C, VideoSet(H), VideoSet(U), VideoSet(C), NEW m \in H,
           \A x \in H : x # m => m.seq < x.seq,
           NEW d \in Decoders \cup {None}, NEW last \in Nat, NEW wait,
           Stream(H, U, C, d, last, wait),
           NEW e, \/ IsConfig(m) /\ e = NewDecoder(m.enc)
                  \/ ~IsConfig(m) /\ d = None /\ e = None
                  \/ ~IsConfig(m) /\ d # None /\ e = Decoded(d, m)
    PROVE  /\ Stream(H \ {m}, U, C, e, last, wait)
           /\ ~IsConfig(m) /\ d # None => Decodable(d, m)
<1> DEFINE A == H \cup U \cup C
           R == U \cup C
           G == H \ {m}
<1>1. \A x \in A : /\ x.seq \in Nat /\ x.seq >= 1
                   /\ IsConfig(x) \/ x.k = "frame"
                   /\ Delta(x) => ~IsConfig(x)
    BY SetKinds
<1>2. Decodables(H, A, d) /\ Parted(H, U, C, d, last) /\ NoneMissing(U, C, last)
      /\ Joins(H, U, C, d, last, wait)
    BY DEF Stream
<1>3. H \cup R = A /\ G \cup R = G \cup U \cup C /\ VideoSet(R) /\ H \subseteq A /\ R \subseteq A
      /\ G \subseteq H /\ m \in A /\ \A x \in H : x \in G \/ x = m
    BY DEF VideoSet
<1>4. \A h \in H, u \in R : Before(h, u)
    BY <1>2 DEF Parted
<1>5. \A x \in G : m.seq < x.seq
    OBVIOUS
<1> HIDE DEF A
<1>6. /\ IsConfig(m) => Decodables(G, G \cup R, NewDecoder(m.enc))
      /\ ~IsConfig(m) /\ d = None => Decodables(G, G \cup R, None)
      /\ ~IsConfig(m) /\ d # None =>
            Decodable(d, m) /\ Decodables(G, G \cup R, Decoded(d, m))
    BY <1>2, <1>3, <1>4, DecodeKeeps
<1> HIDE DEF R, G
<1>7. Decodables(G, G \cup U \cup C, e)
    BY <1>3, <1>6
<1>8. Parted(G, U, C, e, last)
    BY <1>2, <1>3 DEF Parted
<1>9. Joins(G, U, C, e, last, wait)
  <2>1. SUFFICES ASSUME ~wait, ~Doomed(U, last), NEW b \in U \cup C, Delta(b), b.seq = last + 1
                 PROVE  (\E a \in G : a.seq = last) \/ (G = {} /\ Ready(e, b))
    BY DEF Joins
  <2>2. PICK a \in H : a.seq = last
    BY <1>2, <2>1 DEF Joins
  <2>3. CASE a # m
    BY <1>3, <2>2, <2>3
  <2>4. CASE a = m
    <3>1. G = {}
      <4>1. \A x \in G : x.seq <= last /\ m.seq < x.seq /\ x.seq \in Nat
        BY <1>1, <1>2, <1>3, <1>5 DEF Parted
      <4>2. QED
        BY <2>2, <2>4, <4>1
    <3>2. Needs(m, b)
      <4>1. b \in A
        BY <1>3 DEF R
      <4>2. m.seq + 1 = b.seq
        BY <2>1, <2>2, <2>4
      <4>3. QED
        BY <1>2, <1>3, <2>1, <4>1, <4>2 DEF Decodables, AfterItsFrame
    <3>3. ~IsConfig(m)
      BY <3>2 DEF Needs, IsConfig
    <3>4. CASE d = None
      BY <3>1, <3>3, <3>4 DEF Ready
    <3>5. CASE d # None
      <4>1. d.config = m.enc
        BY <1>6, <3>3, <3>5 DEF Decodable
      <4>2. e.config = m.enc /\ e.enc = m.enc /\ e.n = m.n
        BY <3>3, <3>5, <4>1 DEF Decoded, Decoders
      <4>3. Ready(e, b)
        BY <3>2, <4>2 DEF Ready, Decodable, Needs
      <4>4. QED
        BY <3>1, <4>3
    <3>6. QED
      BY <3>4, <3>5
  <2>5. QED
    BY <2>3, <2>4
<1>10. QED
    BY <1>2, <1>6, <1>7, <1>8, <1>9 DEF Stream, G

-----------------------------------------------------------------------------
(* What every variable holds. *)

Senders == [up : BOOLEAN, paused : BOOLEAN, failed : BOOLEAN, made : Nat, config : Nat, vseq : Nat,
            aseq : Nat]
Encoders == [k : {"encoder"}, id : Nat \ {0}, n : Nat]
Outputs == [k : {"output"}, enc : Nat, n : Nat \ {0}, config : BOOLEAN]

GameTyped ==
    game \in [path : {"gb", "n64"}, codec : {"openh264", "videotoolbox", "mediafoundation"},
              gop : Nat \ {0}, frames : Nat, audio : Nat, pongs : Nat, cuts : Nat,
              told : BOOLEAN, left : BOOLEAN]

HostTyped ==
    /\ sender \in Senders
    /\ enc \in Encoders \cup {None} /\ (enc # None => enc.id <= sender.made)
    /\ worker \in {"off", "idle", "busy", "dead"} /\ input \in BOOLEAN
    /\ output \in Outputs \cup {None}

LinkTyped == conn \in Message \cup {None} /\ pipe \in Seq(Message) /\ Len(pipe) <= MaxWire

RelayTyped ==
    /\ relay \in [link : {"up", "held", "down"}, to : QueueRec, torn : BOOLEAN, replayed : BOOLEAN]
    /\ Len(relay.to.queue) <= QueueCap
    /\ notes \in Seq({"paused", "resumed"})

JitterTyped ==
    /\ jitter \in [held : SUBSET Nat, next : Nat]
    /\ IsFiniteSet(jitter.held) /\ Cardinality(jitter.held) <= JitterSlots
    /\ NothingStranded

\* A notice is in the slot only while the Remote is on its way to take it.
RemoteTyped ==
    /\ remote \in [up : BOOLEAN, pc : {"pump", "play"}, slot : Notices \cup {"none"}, over : BOOLEAN]
    /\ remote.slot # "none" => remote.pc = "play"
    /\ packets \in Seq(Message) /\ Len(packets) <= DecodeCap
    /\ dec \in Decoders \cup {None} /\ failed \in BOOLEAN
    /\ ~remote.up => packets = <<>> /\ dec = None /\ ~failed /\ remote.slot = "none"

Typed == GameTyped /\ HostTyped /\ LinkTyped /\ RelayTyped /\ RemoteTyped /\ JitterTyped

LEMMA SenderSet ==
    ASSUME NEW r \in Senders, NEW x \in Nat, NEW y \in BOOLEAN
    PROVE  /\ [r EXCEPT !.paused = y] \in Senders /\ [r EXCEPT !.paused = y].made = r.made
           /\ [r EXCEPT !.vseq = x] \in Senders /\ [r EXCEPT !.vseq = x].made = r.made
           /\ [r EXCEPT !.aseq = x] \in Senders /\ [r EXCEPT !.aseq = x].made = r.made
           /\ [r EXCEPT !.config = x] \in Senders /\ [r EXCEPT !.config = x].made = r.made
           /\ [r EXCEPT !.made = x] \in Senders /\ [r EXCEPT !.made = x].made = x
    BY DEF Senders

LEMMA SenderResumed ==
    ASSUME NEW s \in Senders, NEW b \in BOOLEAN, NEW v \in Nat
    PROVE  /\ [s EXCEPT !.paused = b, !.vseq = v] \in Senders
           /\ [s EXCEPT !.paused = b, !.vseq = v].made = s.made
<1>1. [s EXCEPT !.paused = b] \in Senders /\ [s EXCEPT !.paused = b].made = s.made
    BY SenderSet
<1>2. QED
    BY <1>1, SenderSet, Zenon

LEMMA SenderSent ==
    ASSUME NEW s \in Senders, NEW c \in Nat, NEW v \in Nat
    PROVE  /\ [s EXCEPT !.config = c, !.vseq = v] \in Senders
           /\ [s EXCEPT !.config = c, !.vseq = v].made = s.made
<1>1. [s EXCEPT !.config = c] \in Senders /\ [s EXCEPT !.config = c].made = s.made
    BY SenderSet
<1>2. QED
    BY <1>1, SenderSet, Zenon

LEMMA NewTyped ==
    /\ NewQueue \in QueueRec /\ NewQueue.queue = <<>> /\ Len(NewQueue.queue) <= QueueCap
    /\ NewQueue.last = 0 /\ NewQueue.wait = FALSE
    /\ IsFiniteSet(NewJitter.held) /\ Cardinality(NewJitter.held) <= JitterSlots
    /\ NewJitter \in [held : SUBSET Nat, next : Nat] /\ NewJitter.next = 0
    /\ None \notin Encoders /\ None \notin Outputs /\ None \notin Decoders
<1>1. NewQueue \in QueueRec /\ NewQueue.queue = <<>> /\ NewQueue.last = 0 /\ NewQueue.wait = FALSE
    BY DEF NewQueue, QueueRec
<1>2. Len(<<>>) = 0 /\ QueueCap \in Nat /\ JitterSlots \in Nat
    BY MediaAssumption
<1>3. IsFiniteSet({}) /\ Cardinality({}) = 0
    BY FS_EmptySet
<1>4. NewJitter.held = {} /\ NewJitter.next = 0 /\ NewJitter \in [held : SUBSET Nat, next : Nat]
    BY DEF NewJitter
<1>5. None \notin Encoders /\ None \notin Outputs /\ None \notin Decoders
    BY DEF None, Encoders, Outputs, Decoders
<1>6. QED
    BY <1>1, <1>2, <1>3, <1>4, <1>5

\* What a send leaves: the message refused and nothing said of it, or the message behind all that
\* was accepted before.
LEMMA SendsTyped ==
    ASSUME NEW c, c.conn \in Message \cup {None}, c.pipe \in Seq(Message), Len(c.pipe) <= MaxWire,
           c = [conn |-> c.conn, pipe |-> c.pipe], NEW m \in Message, NEW s \in Sends(c, m)
    PROVE  /\ s.conn \in Message \cup {None} /\ s.pipe \in Seq(Message) /\ Len(s.pipe) <= MaxWire
           /\ s.sent \in BOOLEAN /\ (s.sent => s.conn = None)
           /\ s = [conn |-> s.conn, pipe |-> s.pipe, sent |-> s.sent]
           /\ \/ s.conn = c.conn /\ s.pipe = c.pipe /\ ~s.sent
              \/ c.conn = None /\ s.pipe = c.pipe /\ s.conn = m
              \/ c.conn = None /\ s.pipe = Append(c.pipe, m) /\ s.conn = None
              \/ c.conn # None /\ s.pipe = Append(c.pipe, c.conn) /\ s.conn = m
              \/ c.conn # None /\ s.pipe = Append(Append(c.pipe, c.conn), m) /\ s.conn = None
<1>0. MaxWire \in Nat
    BY MediaAssumption
<1>1. None \notin Message
    BY MessageKinds
<1>2. ASSUME NEW d, d.conn \in Message, d.pipe \in Seq(Message), Len(d.pipe) <= MaxWire,
             d = [conn |-> d.conn, pipe |-> d.pipe], NEW f \in Flushes(d)
      PROVE  \/ f = d
             \/ /\ f = [conn |-> None, pipe |-> Append(d.pipe, d.conn)]
                /\ f.pipe \in Seq(Message) /\ Len(f.pipe) <= MaxWire
  <2>1. [d EXCEPT !.conn = None, !.pipe = Append(d.pipe, d.conn)]
          = [conn |-> None, pipe |-> Append(d.pipe, d.conn)]
    <3>1. ASSUME NEW x, NEW y, NEW z
          PROVE  [[conn |-> x, pipe |-> y] EXCEPT !.conn = None, !.pipe = z]
                   = [conn |-> None, pipe |-> z]
      <4>1. [[conn |-> x, pipe |-> y] EXCEPT !.conn = None] = [conn |-> None, pipe |-> y]
        OBVIOUS
      <4>2. [[conn |-> None, pipe |-> y] EXCEPT !.pipe = z] = [conn |-> None, pipe |-> z]
        OBVIOUS
      <4>3. QED
        BY <4>1, <4>2
    <3>2. QED
      BY <1>2, <3>1, Zenon
  <2>2. \/ f = d
        \/ /\ Len(d.pipe) < MaxWire
           /\ f = [d EXCEPT !.conn = None, !.pipe = Append(d.pipe, d.conn)]
    BY <1>2 DEF Flushes
  <2>3. Append(d.pipe, d.conn) \in Seq(Message) /\ Len(Append(d.pipe, d.conn)) = Len(d.pipe) + 1
    BY <1>2
  <2>4. Len(d.pipe) \in Nat
    BY <1>2
  <2>5. CASE f = d
    BY <2>5
  <2>6. CASE Len(d.pipe) < MaxWire /\ f = [conn |-> None, pipe |-> Append(d.pipe, d.conn)]
    <3>1. f.pipe = Append(d.pipe, d.conn)
      BY <2>6
    <3>2. Len(f.pipe) <= MaxWire
      BY <1>0, <2>3, <2>4, <2>6, <3>1
    <3>3. QED
      BY <2>3, <2>6, <3>1, <3>2
  <2>7. QED
    BY <2>1, <2>2, <2>5, <2>6
<1>3. ASSUME NEW d, d.pipe \in Seq(Message), Len(d.pipe) <= MaxWire,
             d = [conn |-> d.conn, pipe |-> d.pipe],
             NEW f \in Flushes([d EXCEPT !.conn = m])
      PROVE  \/ f = [conn |-> m, pipe |-> d.pipe]
             \/ /\ f = [conn |-> None, pipe |-> Append(d.pipe, m)]
                /\ f.pipe \in Seq(Message) /\ Len(f.pipe) <= MaxWire
  <2>1. [d EXCEPT !.conn = m] = [conn |-> m, pipe |-> d.pipe]
    BY <1>3
  <2>2. QED
    BY <1>2, <1>3, <2>1
<1>4. CASE c.conn = None
  <2>1. PICK f \in Flushes([c EXCEPT !.conn = m]) :
           s = [conn |-> f.conn, pipe |-> f.pipe, sent |-> f.conn = None]
    BY <1>4 DEF Sends
  <2>2. \/ f = [conn |-> m, pipe |-> c.pipe]
        \/ /\ f = [conn |-> None, pipe |-> Append(c.pipe, m)]
           /\ f.pipe \in Seq(Message) /\ Len(f.pipe) <= MaxWire
    BY <1>3, <2>1
  <2>3. CASE f = [conn |-> m, pipe |-> c.pipe]
    BY <1>1, <1>4, <2>1, <2>3
  <2>4. CASE /\ f = [conn |-> None, pipe |-> Append(c.pipe, m)]
             /\ f.pipe \in Seq(Message) /\ Len(f.pipe) <= MaxWire
    <3>1. s.pipe = Append(c.pipe, m) /\ s.conn = None /\ s.pipe = f.pipe /\ s.sent
      BY <2>1, <2>4
    <3>2. s = [conn |-> s.conn, pipe |-> s.pipe, sent |-> s.sent]
      BY <2>1
    <3>3. QED
      BY <1>4, <2>4, <3>1, <3>2
  <2>5. QED
    BY <2>2, <2>3, <2>4
<1>5. CASE c.conn # None
  <2>1. \/ s = [conn |-> c.conn, pipe |-> c.pipe, sent |-> FALSE]
        \/ \E d \in Flushes(c) \ {c} : \E f \in Flushes([d EXCEPT !.conn = m]) :
              s = [conn |-> f.conn, pipe |-> f.pipe, sent |-> f.conn = None]
    BY <1>5 DEF Sends
  <2>2. CASE s = [conn |-> c.conn, pipe |-> c.pipe, sent |-> FALSE]
    BY <2>2
  <2>3. CASE \E d \in Flushes(c) \ {c} : \E f \in Flushes([d EXCEPT !.conn = m]) :
                s = [conn |-> f.conn, pipe |-> f.pipe, sent |-> f.conn = None]
    <3>1. PICK d \in Flushes(c) \ {c} : \E f \in Flushes([d EXCEPT !.conn = m]) :
                s = [conn |-> f.conn, pipe |-> f.pipe, sent |-> f.conn = None]
      BY <2>3
    <3>2. PICK f \in Flushes([d EXCEPT !.conn = m]) :
                s = [conn |-> f.conn, pipe |-> f.pipe, sent |-> f.conn = None]
      BY <3>1
    <3>3. /\ d = [conn |-> None, pipe |-> Append(c.pipe, c.conn)]
          /\ d.pipe \in Seq(Message) /\ Len(d.pipe) <= MaxWire
      BY <1>2, <1>5, <3>1
    <3>4. d = [conn |-> d.conn, pipe |-> d.pipe] /\ d.pipe = Append(c.pipe, c.conn)
      BY <3>3
    <3>5. \/ f = [conn |-> m, pipe |-> d.pipe]
          \/ /\ f = [conn |-> None, pipe |-> Append(d.pipe, m)]
             /\ f.pipe \in Seq(Message) /\ Len(f.pipe) <= MaxWire
      BY <1>3, <3>2, <3>3, <3>4
    <3>6. s = [conn |-> s.conn, pipe |-> s.pipe, sent |-> s.sent]
          /\ s.conn = f.conn /\ s.pipe = f.pipe /\ s.sent = (f.conn = None)
      BY <3>2
    <3>7. CASE f = [conn |-> m, pipe |-> d.pipe]
      BY <1>1, <1>5, <3>3, <3>6, <3>7
    <3>8. CASE /\ f = [conn |-> None, pipe |-> Append(d.pipe, m)]
               /\ f.pipe \in Seq(Message) /\ Len(f.pipe) <= MaxWire
      <4>1. f.pipe = Append(Append(c.pipe, c.conn), m) /\ f.conn = None
        BY <3>4, <3>8
      <4>2. QED
        BY <1>5, <3>6, <3>8, <4>1
    <3>9. QED
      BY <3>5, <3>7, <3>8
  <2>4. QED
    BY <2>1, <2>2, <2>3
<1>6. QED
    BY <1>4, <1>5

LEMMA UnchangedTyped ==
    /\ GameTyped /\ UNCHANGED game => GameTyped'
    /\ HostTyped /\ UNCHANGED hostVars => HostTyped'
    /\ LinkTyped /\ UNCHANGED <<conn, pipe>> => LinkTyped'
    /\ RelayTyped /\ UNCHANGED <<relay, notes>> => RelayTyped'
    /\ RemoteTyped /\ UNCHANGED <<remote, packets, dec, failed>> => RemoteTyped'
    /\ JitterTyped /\ UNCHANGED jitter => JitterTyped'
    BY DEF GameTyped, HostTyped, LinkTyped, RelayTyped, RemoteTyped, JitterTyped, hostVars,
           NothingStranded

\* What is put on the connection.
LEMMA LinkKept ==
    ASSUME LinkTyped, NEW m \in Message, NEW s \in Sends(Link, m)
    PROVE  /\ s.conn \in Message \cup {None} /\ s.pipe \in Seq(Message) /\ Len(s.pipe) <= MaxWire
           /\ s.sent \in BOOLEAN
           /\ Written(s) => LinkTyped'
<1>1. Link.conn = conn /\ Link.pipe = pipe /\ Link = [conn |-> Link.conn, pipe |-> Link.pipe]
    BY DEF Link
<1>2. /\ s.conn \in Message \cup {None} /\ s.pipe \in Seq(Message) /\ Len(s.pipe) <= MaxWire
      /\ s.sent \in BOOLEAN
    BY <1>1, SendsTyped DEF LinkTyped
<1>3. QED
    BY <1>2 DEF Written, LinkTyped

LEMMA MessagesMade ==
    /\ \A e, seq \in Nat : seq >= 1 => Config(e, seq) \in Message
    /\ \A e, n, seq \in Nat : n >= 1 /\ seq >= 1 => FrameOf(e, n, seq) \in Message
    /\ \A seq \in Nat : seq >= 1 => Audio(seq) \in Message
    /\ Notice("pong") \in Message /\ Notice("terminal") \in Message
    BY DEF Config, FrameOf, Audio, Notice, Message, Notices

LEMMA NewEncoderTyped ==
    ASSUME HostTyped
    PROVE  /\ NewEncoder \in Encoders /\ NewEncoder # None
           /\ [NewEncoder EXCEPT !.n = @ + 1] \in Encoders
           /\ [NewEncoder EXCEPT !.n = @ + 1].id = NewEncoder.id
           /\ [NewEncoder EXCEPT !.n = @ + 1].n = NewEncoder.n + 1
           /\ [NewEncoder EXCEPT !.n = @ + 1] # None
           /\ Encoded(NewEncoder) \in Outputs
    BY NewTyped DEF HostTyped, Senders, NewEncoder, Encoders, Encoded, Outputs

LEMMA HostLosesTyped ==
    ASSUME HostTyped, HostLoses
    PROVE  HostTyped' /\ LinkTyped' /\ notes' = <<>>
<1>1. Len(<<>>) = 0 /\ MaxWire \in Nat
    BY MediaAssumption
<1>2. [sender EXCEPT !.up = FALSE, !.paused = TRUE, !.config = 0]
        \in Senders
    BY DEF HostTyped, Senders
<1>3. HostTyped'
    BY <1>2 DEF HostTyped, HostLoses, Stopped
<1>4. QED
    BY <1>1, <1>3 DEF HostLoses, LinkTyped

LEMMA ClosedTyped ==
    ASSUME Closed, notes' \in Seq({"paused", "resumed"})
    PROVE  RelayTyped'
    BY NewTyped DEF Closed, RelayTyped

LEMMA RemoteLosesTyped ==
    ASSUME RemoteTyped, RemoteLoses
    PROVE  RemoteTyped' /\ JitterTyped' /\ remote'.slot = "none"
<1>1. Len(<<>>) = 0 /\ DecodeCap \in Nat
    BY MediaAssumption
<1>2. [remote EXCEPT !.up = FALSE, !.pc = "pump", !.slot = "none"]
        \in [up : BOOLEAN, pc : {"pump", "play"}, slot : Notices \cup {"none"}, over : BOOLEAN]
    BY DEF RemoteTyped
<1>3. remote'.slot = "none"
    BY DEF RemoteTyped, RemoteLoses
<1>4. RemoteTyped'
  <2>1. packets' = <<>> /\ dec' = None /\ failed' = FALSE
    BY DEF RemoteLoses
  <2>2. packets' \in Seq(Message) /\ Len(packets') <= DecodeCap
    BY <1>1, <2>1
  <2>3. remote' \in [up : BOOLEAN, pc : {"pump", "play"}, slot : Notices \cup {"none"}, over : BOOLEAN]
    BY <1>2 DEF RemoteLoses
  <2>4. QED
    BY <1>3, <2>1, <2>2, <2>3 DEF RemoteTyped
<1>5. JitterTyped'
    BY NewTyped DEF RemoteLoses, JitterTyped, NothingStranded
<1>6. QED
    BY <1>3, <1>4, <1>5

LEMMA KeepsHostTyped ==
    ASSUME RelayTyped, KeepsHost
    PROVE  RelayTyped'
<1>1. Append(notes, "paused") \in Seq({"paused", "resumed"}) /\ notes \in Seq({"paused", "resumed"})
    BY DEF RelayTyped
<1>2. CASE Closed
    BY <1>1, <1>2, ClosedTyped DEF KeepsHost
<1>3. CASE Gb
  <2>1. PICK torn \in BOOLEAN :
            relay' = [link |-> "held", to |-> NewQueue, torn |-> torn, replayed |-> FALSE]
    BY <1>3 DEF KeepsHost
  <2>2. relay' \in [link : {"up", "held", "down"}, to : QueueRec, torn : BOOLEAN, replayed : BOOLEAN]
        /\ relay'.to = NewQueue
    BY <2>1, NewTyped
  <2>3. QED
    BY <1>1, <1>3, <2>2, NewTyped DEF KeepsHost, RelayTyped
<1>4. QED
    BY <1>2, <1>3 DEF KeepsHost

\* The relay's queue stays one.
LEMMA QueueMade ==
    ASSUME NEW q \in QueueRec, NEW s, NEW w
    PROVE  [q EXCEPT !.queue = s, !.wait = w]
             = [queue |-> s, begun |-> q.begun, wait |-> w, last |-> q.last]
<1>1. q = [queue |-> q.queue, begun |-> q.begun, wait |-> q.wait, last |-> q.last]
    BY DEF QueueRec
<1>2. [q EXCEPT !.queue = s] = [queue |-> s, begun |-> q.begun, wait |-> q.wait, last |-> q.last]
    BY <1>1
<1>3. [[queue |-> s, begun |-> q.begun, wait |-> q.wait, last |-> q.last] EXCEPT !.wait = w]
        = [queue |-> s, begun |-> q.begun, wait |-> w, last |-> q.last]
    OBVIOUS
<1>4. QED
    BY <1>2, <1>3

LEMMA PrunedTyped ==
    ASSUME NEW q \in QueueRec, NEW aged \in Nat
    PROVE  /\ Pruned(q, aged) \in QueueRec
           /\ Len(Pruned(q, aged).queue) <= Len(q.queue)
<1> DEFINE p == Pruned(q, aged)
           K == PrunedPlaces(q, aged)
<1>1. q.queue \in Seq(Message) /\ q.last \in Nat /\ q.begun \in BOOLEAN
    BY DEF QueueRec
<1>2. \A k \in K : k \in 1..Len(q.queue)
    BY DEF PrunedPlaces
<1>3. KeptOf(q.queue, K) \in Seq(Message) /\ Len(KeptOf(q.queue, K)) <= Len(q.queue)
    BY <1>1, <1>2, KeptQueue
<1>4. /\ p.queue = KeptOf(q.queue, K) /\ p.wait \in BOOLEAN /\ p.last = q.last /\ p.begun = q.begun
    BY PrunedIsKept
<1>5. p = [queue |-> p.queue, begun |-> p.begun, wait |-> p.wait, last |-> p.last]
  <2>1. \E t, w : p = [q EXCEPT !.queue = t, !.wait = w]
    BY Zenon DEF Pruned
  <2>2. PICK t, w : p = [q EXCEPT !.queue = t, !.wait = w]
    BY <2>1
  <2>3. p = [queue |-> t, begun |-> q.begun, wait |-> w, last |-> q.last]
    BY <2>2, QueueMade
  <2>4. QED
    BY <2>3
<1>6. QED
    BY <1>1, <1>3, <1>4, <1>5 DEF QueueRec

LEMMA SupersededTyped ==
    ASSUME NEW q \in QueueRec
    PROVE  /\ Superseded(q) \in QueueRec
           /\ Len(Superseded(q).queue) <= Len(q.queue)
<1>1. q.queue \in Seq(Message)
    BY DEF QueueRec
<1>2. \A k \in SupersededPlaces(q) : k \in 1..Len(q.queue)
    BY DEF SupersededPlaces
<1>3. /\ KeptOf(q.queue, SupersededPlaces(q)) \in Seq(Message)
      /\ Len(KeptOf(q.queue, SupersededPlaces(q))) <= Len(q.queue)
    BY <1>1, <1>2, KeptQueue
<1>4. QED
    BY <1>3, SupersededIsKept DEF QueueRec

LEMMA AppendedTyped ==
    ASSUME NEW q \in QueueRec, NEW m \in Message
    PROVE  Appended(q, m) \in QueueRec /\ Len(Appended(q, m).queue) <= Len(q.queue) + 1
<1>1. ASSUME NEW b \in QueueRec, Len(b.queue) <= Len(q.queue), b.wait \in BOOLEAN
      PROVE  LET a == [b EXCEPT !.queue = Append(@, m), !.wait = @ /\ ~KeyFrame(m)]
             IN  a \in QueueRec /\ Len(a.queue) <= Len(q.queue) + 1
  <2>1. b.queue \in Seq(Message) /\ q.queue \in Seq(Message)
    BY DEF QueueRec
  <2>2. Append(b.queue, m) \in Seq(Message) /\ Len(Append(b.queue, m)) = Len(b.queue) + 1
        /\ Len(b.queue) \in Nat /\ Len(q.queue) \in Nat
    BY <2>1
  <2>3. (b.wait /\ ~KeyFrame(m)) \in BOOLEAN
    OBVIOUS
  <2>4. [b EXCEPT !.queue = Append(b.queue, m), !.wait = b.wait /\ ~KeyFrame(m)]
          = [queue |-> Append(b.queue, m), begun |-> b.begun, wait |-> (b.wait /\ ~KeyFrame(m)),
             last |-> b.last]
    BY QueueMade
  <2>5. b.begun \in BOOLEAN /\ b.last \in Nat
    BY DEF QueueRec
  <2>6. [queue |-> Append(b.queue, m), begun |-> b.begun, wait |-> (b.wait /\ ~KeyFrame(m)),
         last |-> b.last] \in QueueRec
    BY <2>2, <2>3, <2>5 DEF QueueRec
  <2>7. QED
    BY <1>1, <2>2, <2>4, <2>6
<1>2. q.queue \in Seq(Message) /\ Len(q.queue) \in Nat
    BY DEF QueueRec
<1>3. Superseded(q) \in QueueRec /\ Len(Superseded(q).queue) <= Len(q.queue)
    BY SupersededTyped
<1>4. q.wait \in BOOLEAN /\ Superseded(q).wait \in BOOLEAN
    BY <1>3 DEF QueueRec
<1>5. Len(q.queue) <= Len(q.queue)
    BY <1>2
<1>6. CASE q.wait /\ Delta(m)
    BY <1>2, <1>6 DEF Appended
<1>7. CASE ~(q.wait /\ Delta(m)) /\ q.wait /\ KeyFrame(m)
    BY <1>1, <1>3, <1>4, <1>7 DEF Appended
<1>8. CASE ~(q.wait /\ Delta(m)) /\ ~(q.wait /\ KeyFrame(m))
    BY <1>1, <1>4, <1>5, <1>8 DEF Appended
<1>9. QED
    BY <1>6, <1>7, <1>8

HostSteps == Submit \/ WorkerTakes \/ WorkerEncodes \/ WorkerFails \/ HostNotices \/ EncoderFailed
             \/ PumpVideo \/ SendAudio \/ SendPong \/ SendTerminal \/ PumpHost \/ HostPauses \/ HostResumes

RelaySteps == RelayReads \/ RelayPrunes \/ RelayBegins \/ RemoteLeaves \/ RemoteNotices \/ HostLeaves
              \/ Resume \/ Pair

RemoteSteps == RemoteFails \/ RemoteReceives \/ RemotePlays \/ RemoteShows \/ DecodeNext

LEMMA PumpFrameTyped ==
    ASSUME HostTyped, output # None, NEW c, c.conn \in Message \cup {None}, c.pipe \in Seq(Message),
           Len(c.pipe) <= MaxWire, c.vseq \in Nat, c.config \in Nat, PumpFrame(c),
           UNCHANGED <<enc, worker, input>>
    PROVE  HostTyped' /\ LinkTyped'
<1>1. output \in Outputs /\ output.enc \in Nat /\ output.n \in Nat /\ output.n >= 1
    BY DEF HostTyped, Outputs
<1>2. FrameOf(output.enc, output.n, c.vseq + 1) \in Message
    BY <1>1, MessagesMade
<1> DEFINE l == [conn |-> c.conn, pipe |-> c.pipe]
<1>3. l.conn = c.conn /\ l.pipe = c.pipe /\ l = [conn |-> l.conn, pipe |-> l.pipe]
    OBVIOUS
<1>4. PICK s \in Sends(l, FrameOf(output.enc, output.n, c.vseq + 1)) :
         /\ Written(s)
         /\ sender' = [sender EXCEPT !.config = c.config, !.vseq = IF s.sent THEN c.vseq + 1 ELSE c.vseq]
         /\ output' = IF s.sent THEN None ELSE [output EXCEPT !.config = FALSE]
    BY DEF PumpFrame
<1> HIDE DEF l
<1>5. s.conn \in Message \cup {None} /\ s.pipe \in Seq(Message) /\ Len(s.pipe) <= MaxWire
    BY <1>2, <1>3, <1>4, SendsTyped
<1>6. LinkTyped'
    BY <1>4, <1>5 DEF Written, LinkTyped
<1>7. output' \in Outputs \cup {None}
    BY <1>1, <1>4 DEF Outputs
<1>8. /\ sender' \in Senders
      /\ sender'.made = sender.made
  <2> DEFINE v == IF s.sent THEN c.vseq + 1 ELSE c.vseq
  <2>1. sender \in Senders /\ v \in Nat /\ sender' = [sender EXCEPT !.config = c.config, !.vseq = v]
    BY <1>4 DEF HostTyped
  <2> HIDE DEF v
  <2>2. QED
    BY <2>1, SenderSent, Zenon
<1>9. QED
    BY <1>6, <1>7, <1>8 DEF HostTyped

LEMMA PumpVideoTyped ==
    ASSUME Typed, PumpVideo
    PROVE  HostTyped' /\ LinkTyped'
<1>1. HostTyped /\ LinkTyped /\ output # None /\ UNCHANGED <<enc, worker, input>>
    BY DEF Typed, PumpVideo
<1>2. output \in Outputs /\ output.enc \in Nat /\ output.n \in Nat /\ output.n >= 1
      /\ sender.vseq \in Nat /\ sender.config \in Nat
    BY <1>1 DEF HostTyped, Outputs, Senders
<1>3. CASE output.config
  <2>1. Config(output.enc, sender.vseq + 1) \in Message
    BY <1>2, MessagesMade
  <2>2. PICK s \in Sends(Link, Config(output.enc, sender.vseq + 1)) :
              IF s.sent
              THEN PumpFrame([conn |-> s.conn, pipe |-> s.pipe, vseq |-> sender.vseq + 1,
                              config |-> output.enc])
              ELSE Written(s) /\ UNCHANGED <<sender, output>>
    BY <1>3 DEF PumpVideo
  <2>3. /\ s.conn \in Message \cup {None} /\ s.pipe \in Seq(Message) /\ Len(s.pipe) <= MaxWire
        /\ s.sent \in BOOLEAN
        /\ Written(s) => LinkTyped'
    BY <1>1, <2>1, <2>2, LinkKept
  <2>4. CASE s.sent
    <3> DEFINE c == [conn |-> s.conn, pipe |-> s.pipe, vseq |-> sender.vseq + 1, config |-> output.enc]
    <3>1. c.conn = s.conn /\ c.pipe = s.pipe /\ c.vseq \in Nat /\ c.config \in Nat /\ PumpFrame(c)
      BY <1>2, <2>2, <2>4
    <3> HIDE DEF c
    <3>2. QED
      BY <1>1, <2>3, <3>1, PumpFrameTyped
  <2>5. CASE ~s.sent
    BY <1>1, <2>2, <2>3, <2>5, UnchangedTyped DEF hostVars
  <2>6. QED
    BY <2>3, <2>4, <2>5
<1>4. CASE ~output.config
  <2> DEFINE c == [conn |-> conn, pipe |-> pipe, vseq |-> sender.vseq, config |-> sender.config]
  <2>1. c.conn = conn /\ c.pipe = pipe /\ c.vseq = sender.vseq /\ c.config = sender.config /\ PumpFrame(c)
    BY <1>4 DEF PumpVideo
  <2> HIDE DEF c
  <2>2. c.conn \in Message \cup {None} /\ c.pipe \in Seq(Message) /\ Len(c.pipe) <= MaxWire
    BY <1>1, <2>1 DEF LinkTyped
  <2>3. QED
    BY <1>1, <1>2, <2>1, <2>2, PumpFrameTyped
<1>5. QED
    BY <1>2, <1>3, <1>4 DEF Outputs

\* One step of an N64 Host.
LEMMA PumpHostTyped ==
    ASSUME Typed, PumpHost
    PROVE  GameTyped' /\ HostTyped' /\ LinkTyped'
<1>1. HostTyped /\ LinkTyped /\ GameTyped /\ UNCHANGED <<worker, input, output>>
    BY DEF Typed, PumpHost
<1>2. PICK picture, sound \in BOOLEAN :
          /\ picture \/ sound
          /\ (picture => game.frames > 0) /\ (sound => game.audio > 0)
          /\ game' = [game EXCEPT !.frames = IF picture THEN @ - 1 ELSE @,
                                  !.audio = IF sound THEN @ - 1 ELSE @]
          /\ enc' = IF picture THEN [NewEncoder EXCEPT !.n = @ + 1] ELSE enc
          /\ \E v \in IF picture THEN SyncVideo(Link, sender.vseq)
                                 ELSE {[link |-> Link, vseq |-> sender.vseq]} :
             \E s \in SyncAudio(v.link, sound) :
                /\ Written(s)
                /\ sender' = [sender EXCEPT !.vseq = v.vseq, !.aseq = IF sound THEN @ + 1 ELSE @,
                              !.made = IF picture THEN NewEncoder.id ELSE @,
                              !.config = IF picture /\ NewEncoder.n = 0 THEN NewEncoder.id ELSE @]
    BY DEF PumpHost
<1>3. PICK v \in IF picture THEN SyncVideo(Link, sender.vseq)
                            ELSE {[link |-> Link, vseq |-> sender.vseq]} :
             \E s \in SyncAudio(v.link, sound) :
                /\ Written(s)
                /\ sender' = [sender EXCEPT !.vseq = v.vseq, !.aseq = IF sound THEN @ + 1 ELSE @,
                              !.made = IF picture THEN NewEncoder.id ELSE @,
                              !.config = IF picture /\ NewEncoder.n = 0 THEN NewEncoder.id ELSE @]
    BY <1>2
<1>4. PICK s \in SyncAudio(v.link, sound) :
                /\ Written(s)
                /\ sender' = [sender EXCEPT !.vseq = v.vseq, !.aseq = IF sound THEN @ + 1 ELSE @,
                              !.made = IF picture THEN NewEncoder.id ELSE @,
                              !.config = IF picture /\ NewEncoder.n = 0 THEN NewEncoder.id ELSE @]
    BY <1>3
<1> DEFINE IsLink(l) == /\ l.conn \in Message \cup {None} /\ l.pipe \in Seq(Message)
                        /\ Len(l.pipe) <= MaxWire /\ l = [conn |-> l.conn, pipe |-> l.pipe]
<1>5. /\ sender.vseq \in Nat /\ sender.aseq \in Nat /\ sender.made \in Nat /\ sender.config \in Nat
      /\ sender \in Senders
      /\ enc \in Encoders \cup {None}
    BY <1>1 DEF HostTyped, Senders
<1>6. NewEncoder \in Encoders /\ NewEncoder.id \in Nat /\ NewEncoder.n \in Nat
    BY <1>1, NewEncoderTyped DEF Encoders
<1>7. IsLink(Link)
    BY <1>1 DEF Link, LinkTyped
<1>8. ASSUME NEW l, IsLink(l), NEW m \in Message, NEW t \in Sends(l, m)
      PROVE  IsLink([conn |-> t.conn, pipe |-> t.pipe]) /\ t.sent \in BOOLEAN
  <2>1. t.conn \in Message \cup {None} /\ t.pipe \in Seq(Message) /\ Len(t.pipe) <= MaxWire
        /\ t.sent \in BOOLEAN
    BY <1>8, SendsTyped
  <2>2. QED
    BY <2>1
<1> HIDE DEF IsLink
<1>9. ASSUME picture PROVE IsLink(v.link) /\ v.vseq \in Nat
  <2>1. v \in SyncVideo(Link, sender.vseq)
    BY <1>3, <1>9
  <2>2. CASE NewEncoder.n = 0
    <3>1. PICK t \in Sends(Link, Config(NewEncoder.id, sender.vseq + 1)) :
              v \in IF t.sent
                    THEN {[link |-> [conn |-> u.conn, pipe |-> u.pipe], vseq |-> sender.vseq + 2] :
                            u \in Sends([conn |-> t.conn, pipe |-> t.pipe],
                                        FrameOf(NewEncoder.id, 1, sender.vseq + 2))}
                    ELSE {[link |-> [conn |-> t.conn, pipe |-> t.pipe], vseq |-> sender.vseq + 1]}
      BY <2>1, <2>2 DEF SyncVideo
    <3>2. /\ Config(NewEncoder.id, sender.vseq + 1) \in Message
          /\ FrameOf(NewEncoder.id, 1, sender.vseq + 2) \in Message
      BY <1>5, <1>6, MessagesMade
    <3>3. IsLink([conn |-> t.conn, pipe |-> t.pipe])
      BY <1>7, <1>8, <3>1, <3>2
    <3>4. CASE t.sent
      <4>1. PICK u \in Sends([conn |-> t.conn, pipe |-> t.pipe],
                            FrameOf(NewEncoder.id, 1, sender.vseq + 2)) :
                v = [link |-> [conn |-> u.conn, pipe |-> u.pipe], vseq |-> sender.vseq + 2]
        BY <3>1, <3>4
      <4>2. IsLink([conn |-> u.conn, pipe |-> u.pipe])
        BY <1>8, <3>2, <3>3, <4>1
      <4>3. QED
        BY <1>5, <4>1, <4>2
    <3>5. CASE ~t.sent
      BY <1>5, <3>1, <3>3, <3>5
    <3>6. QED
      BY <3>4, <3>5
  <2>3. CASE NewEncoder.n # 0
    <3>1. PICK t \in Sends(Link, FrameOf(enc.id, enc.n + 1, sender.vseq + 1)) :
              v = [link |-> [conn |-> t.conn, pipe |-> t.pipe], vseq |-> sender.vseq + 1]
      BY <2>1, <2>3 DEF SyncVideo
    <3>2. NewEncoder = enc
      BY <2>3 DEF NewEncoder
    <3>3. FrameOf(enc.id, enc.n + 1, sender.vseq + 1) \in Message
      BY <1>5, <1>6, <3>2, MessagesMade
    <3>4. QED
      BY <1>5, <1>7, <1>8, <3>1, <3>3
  <2>4. QED
    BY <2>2, <2>3
<1>10. ASSUME ~picture PROVE IsLink(v.link) /\ v.vseq \in Nat
    BY <1>3, <1>5, <1>7, <1>10
<1>11. IsLink(v.link) /\ v.vseq \in Nat
    BY <1>9, <1>10
<1>12. IsLink(s)
  <2>1. CASE sound
    <3>1. PICK t \in Sends(v.link, Audio(sender.aseq + 1)) : s = [conn |-> t.conn, pipe |-> t.pipe]
      BY <1>4, <2>1 DEF SyncAudio
    <3>2. Audio(sender.aseq + 1) \in Message
      BY <1>5, MessagesMade
    <3>3. QED
      BY <1>8, <1>11, <3>1, <3>2
  <2>2. CASE ~sound
    BY <1>4, <1>11, <2>2 DEF SyncAudio
  <2>3. QED
    BY <2>1, <2>2
<1>13. LinkTyped'
    BY <1>4, <1>12 DEF Written, LinkTyped, IsLink
<1>14. /\ sender' \in Senders
       /\ sender'.made = IF picture THEN NewEncoder.id ELSE sender.made
  <2>1. /\ sender' = [i \in {"up", "paused", "failed", "made", "config", "vseq", "aseq"} |-> sender'[i]]
        /\ sender'.up = sender.up /\ sender'.paused = sender.paused
        /\ sender'.failed = sender.failed
    BY <1>4, <1>5 DEF Senders
  <2>2. /\ sender'.vseq = v.vseq
        /\ sender'.aseq = IF sound THEN sender.aseq + 1 ELSE sender.aseq
        /\ sender'.made = IF picture THEN NewEncoder.id ELSE sender.made
        /\ sender'.config = IF picture /\ NewEncoder.n = 0 THEN NewEncoder.id ELSE sender.config
    BY <1>4, <1>5 DEF Senders
  <2>3. sender'.vseq \in Nat /\ sender'.aseq \in Nat /\ sender'.made \in Nat /\ sender'.config \in Nat
    BY <1>5, <1>6, <1>11, <2>2
  <2>4. sender'.up \in BOOLEAN /\ sender'.paused \in BOOLEAN /\ sender'.failed \in BOOLEAN
    BY <1>5, <2>1 DEF Senders
  <2>5. QED
    BY <2>1, <2>2, <2>3, <2>4 DEF Senders
<1>15. HostTyped'
    BY <1>1, <1>2, <1>14, NewEncoderTyped, NewTyped DEF HostTyped, Encoders
<1>16. GameTyped'
  <2> DEFINE f == IF picture THEN game.frames - 1 ELSE game.frames
             a == IF sound THEN game.audio - 1 ELSE game.audio
  <2>1. f \in Nat /\ a \in Nat
    BY <1>1, <1>2 DEF GameTyped
  <2>2. game' = [game EXCEPT !.frames = f, !.audio = a]
    BY <1>2
  <2> HIDE DEF f, a
  <2>3. GameTyped /\ [game EXCEPT !.frames = f].frames = f
    BY <1>1 DEF GameTyped
  <2>4. QED
    BY <2>1, <2>2, <2>3 DEF GameTyped
<1>17. QED
    BY <1>13, <1>15, <1>16

LEMMA HostStepTyped ==
    ASSUME Typed, HostSteps
    PROVE  Typed'
<1>1. GameTyped /\ HostTyped /\ LinkTyped /\ RelayTyped /\ RemoteTyped /\ JitterTyped
    BY DEF Typed
<1>2. notes \in Seq({"paused", "resumed"}) /\ <<>> \in Seq({"paused", "resumed"})
    BY <1>1 DEF RelayTyped
<1>3. sender.aseq \in Nat /\ sender.vseq \in Nat /\ sender.config \in Nat
    BY <1>1 DEF HostTyped, Senders
<1>4. CASE Submit
    BY <1>1, <1>4, UnchangedTyped DEF Typed, Submit, HostTyped, remoteVars
<1>5. CASE WorkerTakes
    BY <1>1, <1>5, UnchangedTyped DEF Typed, WorkerTakes, HostTyped, remoteVars
<1>6. CASE WorkerEncodes
  <2>1. GameTyped'
    BY <1>1, <1>6 DEF WorkerEncodes, GameTyped
  <2>2. HostTyped'
    BY <1>1, <1>6, NewEncoderTyped, NewTyped DEF WorkerEncodes, HostTyped, Encoders, Senders
  <2>3. QED
    BY <1>1, <1>6, <2>1, <2>2, UnchangedTyped DEF Typed, WorkerEncodes, remoteVars
<1>7. CASE WorkerFails
  <2>1. GameTyped'
    BY <1>1, <1>7 DEF WorkerFails, GameTyped
  <2>2. HostTyped'
    BY <1>1, <1>7 DEF WorkerFails, HostTyped, Senders
  <2>3. QED
    BY <1>1, <1>7, <2>1, <2>2, UnchangedTyped DEF Typed, WorkerFails, remoteVars
<1>8. CASE HostNotices
  <2>1. HostTyped' /\ LinkTyped' /\ notes' = <<>>
    BY <1>1, <1>8, HostLosesTyped DEF HostNotices
  <2>2. QED
    BY <1>1, <1>2, <1>8, <2>1, UnchangedTyped DEF Typed, HostNotices, RelayTyped, remoteVars
<1>9. CASE EncoderFailed
  <2>1. HostTyped' /\ LinkTyped' /\ notes' = <<>>
    BY <1>1, <1>9, HostLosesTyped DEF EncoderFailed
  <2>2. RelayTyped'
    BY <1>2, <1>9, <2>1, ClosedTyped DEF EncoderFailed
  <2>3. GameTyped'
    BY <1>1, <1>9 DEF EncoderFailed, GameTyped
  <2>4. QED
    BY <1>1, <1>9, <2>1, <2>2, <2>3, UnchangedTyped DEF Typed, EncoderFailed, remoteVars
<1>10. CASE PumpVideo
    BY <1>1, <1>10, PumpVideoTyped, UnchangedTyped DEF Typed, PumpVideo, remoteVars
<1>11. CASE SendAudio
  <2>1. Audio(sender.aseq + 1) \in Message
    BY <1>3, MessagesMade
  <2>2. LinkTyped'
    BY <1>1, <1>11, <2>1, LinkKept DEF SendAudio
  <2>3. GameTyped'
    BY <1>1, <1>11 DEF SendAudio, GameTyped
  <2>4. HostTyped'
    BY <1>1, <1>11 DEF SendAudio, HostTyped, Senders
  <2>5. QED
    BY <1>1, <1>11, <2>2, <2>3, <2>4, UnchangedTyped DEF Typed, SendAudio, remoteVars
<1>12. CASE SendPong
  <2>1. LinkTyped'
    BY <1>1, <1>12, MessagesMade, LinkKept DEF SendPong
  <2>2. GameTyped'
    BY <1>1, <1>12 DEF SendPong, GameTyped
  <2>3. QED
    BY <1>1, <1>12, <2>1, <2>2, UnchangedTyped DEF Typed, SendPong, remoteVars
<1>13. CASE SendTerminal
  <2>1. LinkTyped'
    BY <1>1, <1>13, MessagesMade, LinkKept DEF SendTerminal
  <2>2. GameTyped'
    BY <1>1, <1>13 DEF SendTerminal, GameTyped
  <2>3. QED
    BY <1>1, <1>13, <2>1, <2>2, UnchangedTyped DEF Typed, SendTerminal, remoteVars
<1>14. CASE PumpHost
    BY <1>1, <1>14, PumpHostTyped, UnchangedTyped DEF Typed, PumpHost, remoteVars
<1>15. CASE HostPauses
  <2>1. HostTyped'
    BY <1>1, <1>15 DEF HostPauses, HostTyped, Senders
  <2>2. Tail(notes) \in Seq({"paused", "resumed"})
    BY <1>2, <1>15 DEF HostPauses
  <2>3. RelayTyped'
    BY <1>1, <1>15, <2>2 DEF HostPauses, RelayTyped
  <2>4. QED
    BY <1>1, <1>15, <2>1, <2>3, UnchangedTyped DEF Typed, HostPauses, remoteVars
<1>16. CASE HostResumes
  <2>1. CASE HostLoses /\ Closed
    <3>1. HostTyped' /\ LinkTyped' /\ notes' = <<>>
      BY <1>1, <2>1, HostLosesTyped
    <3>2. RelayTyped'
      BY <1>2, <2>1, <3>1, ClosedTyped
    <3>3. QED
      BY <1>1, <1>16, <3>1, <3>2, UnchangedTyped DEF Typed, HostResumes, remoteVars
  <2>2. CASE PrepareResume /\ notes' = Tail(notes) /\ UNCHANGED relay
    <3>1. Config(sender.config, sender.vseq + 1) \in Message
      BY <1>3, MessagesMade
    <3>2. LinkTyped'
      BY <1>1, <2>2, <3>1, LinkKept DEF PrepareResume
    <3>3. Tail(notes) \in Seq({"paused", "resumed"})
      BY <1>2, <1>16 DEF HostResumes
    <3>4. RelayTyped'
      BY <1>1, <2>2, <3>3 DEF RelayTyped
    <3>5. [sender EXCEPT !.paused = FALSE, !.vseq = sender.vseq + 1]
            \in Senders
          /\ [sender EXCEPT !.paused = FALSE, !.vseq = sender.vseq + 1].made = sender.made
      <4>1. sender \in Senders /\ sender.vseq + 1 \in Nat /\ FALSE \in BOOLEAN
        BY <1>1, <1>3 DEF HostTyped
      <4>2. QED
        BY <4>1, SenderResumed, Zenon
    <3>6. HostTyped'
      BY <1>1, <2>2, <3>5 DEF PrepareResume, Stopped, HostTyped
    <3>7. QED
      BY <1>1, <1>16, <3>2, <3>4, <3>6, UnchangedTyped DEF Typed, HostResumes, remoteVars
  <2>3. QED
    BY <1>16, <2>1, <2>2 DEF HostResumes
<1>17. QED
    BY <1>4, <1>5, <1>6, <1>7, <1>8, <1>9, <1>10, <1>11, <1>12, <1>13, <1>14, <1>15, <1>16
    DEF HostSteps

LEMMA RelayStepTyped ==
    ASSUME Typed, RelaySteps
    PROVE  Typed'
<1>1. GameTyped /\ HostTyped /\ LinkTyped /\ RelayTyped /\ RemoteTyped /\ JitterTyped
    BY DEF Typed
<1>2. /\ notes \in Seq({"paused", "resumed"})
      /\ relay \in [link : {"up", "held", "down"}, to : QueueRec, torn : BOOLEAN, replayed : BOOLEAN]
      /\ relay.to \in QueueRec /\ Len(relay.to.queue) <= QueueCap /\ Len(relay.to.queue) \in Nat
    BY <1>1 DEF RelayTyped, QueueRec
<1>3. QueueCap \in Nat
    BY MediaAssumption
<1>4. ASSUME NEW q \in QueueRec, Len(q.queue) <= QueueCap, relay' = [relay EXCEPT !.to = q],
             UNCHANGED notes
      PROVE  RelayTyped'
    BY <1>1, <1>4 DEF RelayTyped
<1>5. CASE RelayReads
  <2>1. pipe \in Seq(Message) /\ pipe # <<>> /\ pipe' = Tail(pipe) /\ Len(pipe) <= MaxWire
        /\ MaxWire \in Nat
    BY <1>1, <1>5, MediaAssumption DEF RelayReads, LinkTyped
  <2>2. Head(pipe) \in Message /\ Tail(pipe) \in Seq(Message) /\ Len(Tail(pipe)) <= MaxWire
    BY <2>1
  <2>3. LinkTyped'
    BY <1>1, <1>5, <2>1, <2>2 DEF RelayReads, LinkTyped
  <2>4. RelayTyped'
    <3> DEFINE m == Head(pipe)
    <3>1. CASE Closed
      BY <1>2, <1>5, <3>1, ClosedTyped DEF RelayReads
    <3>2. CASE relay' = [link |-> "down", to |-> NewQueue, torn |-> FALSE, replayed |-> TRUE]
      BY <1>2, <1>5, <3>2, NewTyped DEF RelayReads, RelayTyped
    <3>3. CASE \E aged \in 0..Len(relay.to.queue) :
                  relay' = [relay EXCEPT !.to =
                     [Appended(Pruned(@, aged), m) EXCEPT
                        !.last = IF Video(m) THEN m.seq ELSE relay.to.last]]
      <4>1. PICK aged \in 0..Len(relay.to.queue) :
                  relay' = [relay EXCEPT !.to =
                     [Appended(Pruned(@, aged), m) EXCEPT
                        !.last = IF Video(m) THEN m.seq ELSE relay.to.last]]
        BY <3>3
      <4> DEFINE p == Pruned(relay.to, aged)
                 a == Appended(p, m)
                 q == [a EXCEPT !.last = IF Video(m) THEN m.seq ELSE relay.to.last]
      <4>2. p \in QueueRec /\ Len(p.queue) <= Len(relay.to.queue)
        BY <1>2, <4>1, PrunedTyped
      <4>3. a \in QueueRec /\ Len(a.queue) <= Len(p.queue) + 1
        BY <2>2, <4>2, AppendedTyped
      <4>4. Video(m) => m.seq \in Nat
        BY <2>2, VideoKinds
      <4>5. relay' = [relay EXCEPT !.to = q]
        BY <4>1
      <4> HIDE DEF m, p, a
      <4>6. q \in QueueRec /\ q.queue = a.queue
        BY <1>2, <4>3, <4>4 DEF QueueRec
      <4>7. Len(p.queue) \in Nat /\ Len(a.queue) \in Nat
        BY <4>2, <4>3 DEF QueueRec
      <4>8. Len(q.queue) <= QueueCap
        BY <1>2, <1>3, <1>5, <4>2, <4>3, <4>6, <4>7 DEF RelayReads
      <4> HIDE DEF q
      <4>9. QED
        BY <1>4, <1>5, <4>5, <4>6, <4>8 DEF RelayReads
    <3>4. QED
      BY <1>5, <3>1, <3>2, <3>3 DEF RelayReads
  <2>5. QED
    BY <1>1, <1>5, <2>3, <2>4, UnchangedTyped DEF Typed, RelayReads, remoteVars
<1>6. CASE RelayPrunes
  <2>1. PICK aged \in 1..Len(relay.to.queue) : relay' = [relay EXCEPT !.to = Pruned(@, aged)]
    BY <1>6 DEF RelayPrunes
  <2>2. Pruned(relay.to, aged) \in QueueRec /\ Len(Pruned(relay.to, aged).queue) <= Len(relay.to.queue)
    BY <1>2, <2>1, PrunedTyped
  <2>3. Len(Pruned(relay.to, aged).queue) <= QueueCap
    BY <1>2, <1>3, <2>2 DEF QueueRec
  <2>4. RelayTyped'
    BY <1>4, <1>6, <2>1, <2>2, <2>3 DEF RelayPrunes
  <2>5. QED
    BY <1>1, <1>6, <2>4, UnchangedTyped DEF Typed, RelayPrunes, remoteVars
<1>7. CASE RelayBegins
  <2> DEFINE q == [relay.to EXCEPT !.begun = TRUE]
  <2>1. q \in QueueRec /\ q.queue = relay.to.queue
    BY <1>2 DEF QueueRec
  <2>2. relay' = [relay EXCEPT !.to = q]
    BY <1>7 DEF RelayBegins
  <2> HIDE DEF q
  <2>3. RelayTyped'
    BY <1>2, <1>4, <1>7, <2>1, <2>2 DEF RelayBegins
  <2>4. QED
    BY <1>1, <1>7, <2>3, UnchangedTyped DEF Typed, RelayBegins, remoteVars
<1>8. CASE RemoteLeaves
  <2>1. RemoteTyped' /\ JitterTyped' /\ RelayTyped'
    BY <1>1, <1>8, RemoteLosesTyped, KeepsHostTyped DEF RemoteLeaves
  <2>2. GameTyped'
    BY <1>1, <1>8 DEF RemoteLeaves, GameTyped
  <2>3. QED
    BY <1>1, <1>8, <2>1, <2>2, UnchangedTyped DEF Typed, RemoteLeaves
<1>9. CASE RemoteNotices
  <2>1. RemoteTyped' /\ JitterTyped'
    BY <1>1, <1>9, RemoteLosesTyped DEF RemoteNotices
  <2>2. QED
    BY <1>1, <1>9, <2>1, UnchangedTyped DEF Typed, RemoteNotices
<1>10. CASE HostLeaves
  <2>1. RelayTyped'
    BY <1>2, <1>10, ClosedTyped DEF HostLeaves
  <2>2. GameTyped'
    BY <1>1, <1>10 DEF HostLeaves, GameTyped
  <2>3. QED
    BY <1>1, <1>10, <2>1, <2>2, UnchangedTyped DEF Typed, HostLeaves, remoteVars
<1>11. CASE Resume
  <2>1. Append(notes, "resumed") \in Seq({"paused", "resumed"})
    BY <1>2
  <2>2. [relay EXCEPT !.link = "up"]
          \in [link : {"up", "held", "down"}, to : QueueRec, torn : BOOLEAN, replayed : BOOLEAN]
    BY <1>2
  <2>3. [relay EXCEPT !.link = "up", !.to = NewQueue]
          \in [link : {"up", "held", "down"}, to : QueueRec, torn : BOOLEAN, replayed : BOOLEAN]
        /\ [relay EXCEPT !.link = "up", !.to = NewQueue].to = NewQueue
    BY <2>2, NewTyped
  <2>4. RelayTyped'
    BY <1>11, <2>1, <2>3, NewTyped DEF Resume, RelayTyped
  <2>5. RemoteTyped'
    BY <1>1, <1>11 DEF Resume, RemoteTyped
  <2>6. QED
    BY <1>1, <1>11, <2>4, <2>5, UnchangedTyped DEF Typed, Resume
<1>12. CASE Pair
  <2>1. RelayTyped'
    BY <1>2, <1>12, NewTyped DEF Pair, RelayTyped
  <2>2. sender.made \in Nat /\ sender \in Senders
    BY <1>1 DEF HostTyped, Senders
  <2>3. /\ [sender EXCEPT !.up = TRUE, !.paused = FALSE] \in Senders
        /\ [sender EXCEPT !.up = TRUE, !.paused = FALSE].made = sender.made
    BY <2>2 DEF Senders
  <2>4. HostTyped'
    BY <1>1, <1>12, <2>3 DEF Pair, HostTyped
  <2>5. RemoteTyped'
    BY <1>1, <1>12 DEF Pair, RemoteTyped
  <2>6. QED
    BY <1>1, <1>12, <2>1, <2>4, <2>5, UnchangedTyped DEF Typed, Pair
<1>13. QED
    BY <1>5, <1>6, <1>7, <1>8, <1>9, <1>10, <1>11, <1>12 DEF RelaySteps

\* What the jitter buffer is given, and what it starts with.
LEMMA PushedTyped ==
    ASSUME JitterTyped, NEW seq \in Nat, jitter' = PushedTo(jitter, seq)
    PROVE  JitterTyped'
<1>1. /\ jitter \in [held : SUBSET Nat, next : Nat] /\ IsFiniteSet(jitter.held)
      /\ Cardinality(jitter.held) <= JitterSlots /\ Cardinality(jitter.held) \in Nat
      /\ jitter.next \in Nat /\ jitter.next # 0 => \A s \in jitter.held : s >= jitter.next
    BY FS_CardinalityType DEF JitterTyped, NothingStranded
<1>2. CASE jitter' = jitter
    BY <1>2, UnchangedTyped
<1>3. CASE /\ ~(jitter.next # 0 /\ seq < jitter.next) /\ Cardinality(jitter.held) < JitterSlots
           /\ jitter' = [jitter EXCEPT !.held = @ \cup {seq}]
  <2>1. /\ jitter' \in [held : SUBSET Nat, next : Nat]
        /\ jitter'.held = jitter.held \cup {seq} /\ jitter'.next = jitter.next
    BY <1>1, <1>3
  <2>2. /\ IsFiniteSet(jitter.held \cup {seq})
        /\ Cardinality(jitter.held \cup {seq}) <= Cardinality(jitter.held) + 1
        /\ Cardinality(jitter.held \cup {seq}) \in Nat
    <3>1. /\ IsFiniteSet(jitter.held \cup {seq})
          /\ Cardinality(jitter.held \cup {seq})
               = IF seq \in jitter.held THEN Cardinality(jitter.held) ELSE Cardinality(jitter.held) + 1
      BY <1>1, FS_AddElement
    <3>2. QED
      BY <1>1, <3>1
  <2>3. Cardinality(jitter.held \cup {seq}) <= JitterSlots
    BY <1>1, <1>3, <2>2, MediaAssumption
  <2>4. jitter'.next # 0 => \A s \in jitter'.held : s >= jitter'.next
    BY <1>1, <1>3, <2>1
  <2>5. QED
    BY <2>1, <2>2, <2>3, <2>4 DEF JitterTyped, NothingStranded
<1>4. JitterSlots \in Nat
    BY MediaAssumption
<1>5. QED
    BY <1>1, <1>2, <1>3, <1>4 DEF PushedTo

LEMMA StartsAtEarliest ==
    ASSUME JitterTyped, jitter.held # {}
    PROVE  StartsAt(jitter) \in Nat /\ \A s \in jitter.held : StartsAt(jitter) <= s
<1>1. jitter.held \in SUBSET Nat
    BY DEF JitterTyped
<1>2. \E m \in jitter.held : \A k \in jitter.held : m <= k
    BY <1>1, LeastNat
<1>3. QED
    BY <1>1, <1>2 DEF StartsAt, Earliest

LEMMA PlayedTyped ==
    ASSUME JitterTyped, RemotePlays
    PROVE  JitterTyped'
<1> DEFINE next == IF jitter.next = 0 THEN StartsAt(jitter) ELSE jitter.next
<1>1. /\ jitter \in [held : SUBSET Nat, next : Nat] /\ IsFiniteSet(jitter.held)
      /\ Cardinality(jitter.held) <= JitterSlots /\ jitter.held # {}
      /\ jitter.next \in Nat /\ jitter.next # 0 => \A s \in jitter.held : s >= jitter.next
    BY DEF JitterTyped, NothingStranded, RemotePlays
<1>2. next \in Nat /\ \A s \in jitter.held : next <= s
    BY <1>1, StartsAtEarliest
<1>3. jitter' = [held |-> jitter.held \ {next}, next |-> next + 1]
    BY DEF RemotePlays
<1> HIDE DEF next
<1>4. IsFiniteSet(jitter.held \ {next}) /\ Cardinality(jitter.held \ {next}) <= Cardinality(jitter.held)
      /\ Cardinality(jitter.held) \in Nat /\ Cardinality(jitter.held \ {next}) \in Nat
    BY <1>1, FS_Subset, FS_CardinalityType
<1>5. Cardinality(jitter.held \ {next}) <= JitterSlots
    BY <1>1, <1>4, MediaAssumption
<1>6. \A s \in jitter.held \ {next} : s >= next + 1
    BY <1>1, <1>2
<1>7. QED
    BY <1>1, <1>2, <1>3, <1>4, <1>5, <1>6 DEF JitterTyped, NothingStranded

\* What a decoder may be after a frame.
LEMMA DecodesTyped ==
    ASSUME GameTyped, NEW d \in Decoders, NEW m \in Message, m.k = "frame", NEW e \in Decodes(d, m)
    PROVE  e \in Decoders \cup {None}
<1>1. m.enc \in Nat /\ m.n \in Nat
    BY DEF Message, Notices
<1>2. Decodable(d, m) \in BOOLEAN
    BY DEF Decodable, Key
<1>3. [d EXCEPT !.broken = TRUE] \in Decoders
    BY DEF Decoders
<1>4. Decoded(d, m) \in Decoders
  <2>1. /\ Decoded(d, m) = [i \in {"k", "config", "enc", "n", "broken"} |-> Decoded(d, m)[i]]
        /\ Decoded(d, m).k = "decoder" /\ Decoded(d, m).config = d.config /\ Decoded(d, m).enc = m.enc
        /\ Decoded(d, m).n = m.n /\ Decoded(d, m).broken = ~Decodable(d, m)
    BY <1>2 DEF Decoded, Decoders
  <2>2. QED
    BY <1>1, <1>2, <2>1 DEF Decoders
<1>5. game.codec \in {"openh264", "videotoolbox", "mediafoundation"}
    BY DEF GameTyped
<1>6. e \in {Decoded(d, m), None, [d EXCEPT !.broken = TRUE]}
    BY <1>5 DEF Decodes, OpenH264Decode, VideoToolboxDecode, MediaFoundationDecode
<1>7. QED
    BY <1>3, <1>4, <1>6

LEMMA RemoteStepTyped ==
    ASSUME Typed, RemoteSteps
    PROVE  Typed'
<1>1. GameTyped /\ HostTyped /\ LinkTyped /\ RelayTyped /\ RemoteTyped /\ JitterTyped
    BY DEF Typed
<1>2. /\ relay \in [link : {"up", "held", "down"}, to : QueueRec, torn : BOOLEAN, replayed : BOOLEAN]
      /\ relay.to \in QueueRec /\ Len(relay.to.queue) <= QueueCap /\ relay.to.queue \in Seq(Message)
      /\ QueueCap \in Nat /\ DecodeCap \in Nat
    BY <1>1, MediaAssumption DEF RelayTyped, QueueRec
<1>3. /\ packets \in Seq(Message) /\ Len(packets) <= DecodeCap
      /\ remote \in [up : BOOLEAN, pc : {"pump", "play"}, slot : Notices \cup {"none"}, over : BOOLEAN]
      /\ dec \in Decoders \cup {None} /\ failed \in BOOLEAN
    BY <1>1 DEF RemoteTyped
<1>4. CASE RemoteFails
  <2>1. RemoteTyped' /\ JitterTyped' /\ RelayTyped'
    BY <1>1, <1>4, RemoteLosesTyped, KeepsHostTyped DEF RemoteFails
  <2>2. QED
    BY <1>1, <1>4, <2>1, UnchangedTyped DEF Typed, RemoteFails
<1>5. CASE RemoteReceives
  <2> DEFINE m == Head(relay.to.queue)
  <2>1. HasMessage /\ ~CannotTake /\ Receives(m) /\ remote.up
    BY <1>5 DEF RemoteReceives
  <2>2. m \in Message /\ Tail(relay.to.queue) \in Seq(Message) /\ Len(Tail(relay.to.queue)) <= QueueCap
    BY <1>2, <2>1 DEF HasMessage
  <2>3. Video(m) => Len(packets) < DecodeCap
    BY <1>2, <1>3, <2>1 DEF CannotTake, DecodeFull
  <2> HIDE DEF m
  <2>4. RelayTyped'
    <3>1. /\ relay' = [relay EXCEPT !.to.queue = Tail(relay.to.queue), !.to.begun = FALSE]
          /\ notes' = notes
      BY <2>1 DEF Receives, m
    <3>2. /\ relay'.to = [queue |-> Tail(relay.to.queue), begun |-> FALSE, wait |-> relay.to.wait,
                          last |-> relay.to.last]
          /\ relay'.link = relay.link /\ relay'.torn = relay.torn /\ relay'.replayed = relay.replayed
          /\ relay' = [link |-> relay'.link, to |-> relay'.to, torn |-> relay'.torn,
                       replayed |-> relay'.replayed]
      BY <1>2, <3>1 DEF QueueRec
    <3>3. relay'.to \in QueueRec /\ relay'.to.queue = Tail(relay.to.queue)
      BY <1>2, <2>2, <3>2 DEF QueueRec
    <3>4. QED
      BY <1>1, <1>2, <2>2, <3>1, <3>2, <3>3 DEF RelayTyped
  <2>5. JitterTyped'
    <3>1. CASE m.k = "config"
      BY <2>1, <3>1, NewTyped DEF Receives, JitterTyped, NothingStranded
    <3>2. CASE m.k = "audio"
      <4>1. m.seq \in Nat
        BY <2>2, <3>2 DEF Message, Notices
      <4>2. QED
        BY <1>1, <2>1, <3>2, <4>1, PushedTyped DEF Receives
    <3>3. CASE m.k # "config" /\ m.k # "audio"
      BY <1>1, <2>1, <3>3, UnchangedTyped DEF Receives
    <3>4. QED
      BY <3>1, <3>2, <3>3
  <2>6. packets' \in Seq(Message) /\ Len(packets') <= DecodeCap
    <3>1. CASE Video(m)
      <4>1. packets' = Append(packets, m)
        BY <2>1, <3>1 DEF Receives, Enqueued
      <4>2. Len(packets') = Len(packets) + 1 /\ Len(packets) \in Nat /\ packets' \in Seq(Message)
        BY <1>3, <2>2, <4>1
      <4>3. QED
        BY <1>2, <2>3, <3>1, <4>2
    <3>2. CASE ~Video(m)
      BY <1>3, <2>1, <3>2 DEF Receives
    <3>3. QED
      BY <3>1, <3>2
  <2>7. RemoteTyped'
    <3>1. /\ remote' = [remote EXCEPT !.pc = PhaseAfter(m),
                                      !.slot = IF m.k \in Notices THEN m.k ELSE remote.slot]
          /\ dec' = dec /\ failed' = failed
      BY <2>1 DEF Receives
    <3>2. remote.slot = "none"
      BY <1>1, <2>1 DEF HasMessage, RemoteTyped
    <3>3. /\ remote'.pc = IF m.k \in Notices THEN "play" ELSE "pump"
          /\ remote'.slot = IF m.k \in Notices THEN m.k ELSE "none"
          /\ remote'.up = remote.up /\ remote'.over = remote.over
          /\ remote' = [up |-> remote'.up, pc |-> remote'.pc, slot |-> remote'.slot,
                        over |-> remote'.over]
      BY <1>3, <3>1, <3>2 DEF PhaseAfter
    <3>4. /\ remote' \in [up : BOOLEAN, pc : {"pump", "play"}, slot : Notices \cup {"none"}, over : BOOLEAN]
          /\ remote'.slot # "none" => remote'.pc = "play"
      BY <1>3, <3>3
    <3>5. QED
      BY <1>3, <2>1, <2>6, <3>1, <3>3, <3>4 DEF RemoteTyped
  <2>8. QED
    BY <1>1, <2>1, <2>4, <2>5, <2>7, UnchangedTyped DEF Typed, Receives
<1>6. CASE RemotePlays
  <2>1. JitterTyped'
    BY <1>1, <1>6, PlayedTyped
  <2>2. RemoteTyped'
    BY <1>1, <1>6 DEF RemotePlays, RemoteTyped
  <2>3. QED
    BY <1>1, <1>6, <2>1, <2>2, UnchangedTyped DEF Typed, RemotePlays
<1>7. CASE RemoteShows
  <2>1. remote' = [remote EXCEPT !.pc = "pump", !.slot = "none",
                                 !.over = remote.over \/ remote.slot = "terminal"]
    BY <1>7 DEF RemoteShows
  <2>2. (remote.over \/ remote.slot = "terminal") \in BOOLEAN
    OBVIOUS
  <2>3. /\ remote'.up = remote.up /\ remote'.pc = "pump" /\ remote'.slot = "none"
        /\ remote'.over \in BOOLEAN
        /\ remote' = [up |-> remote'.up, pc |-> remote'.pc, slot |-> remote'.slot,
                      over |-> remote'.over]
    BY <1>3, <2>1, <2>2
  <2>4. remote' \in [up : BOOLEAN, pc : {"pump", "play"}, slot : Notices \cup {"none"}, over : BOOLEAN]
    BY <1>3, <2>3
  <2>5. RemoteTyped'
    BY <1>1, <1>3, <1>7, <2>3, <2>4 DEF RemoteShows, RemoteTyped
  <2>6. QED
    BY <1>1, <1>7, <2>5, UnchangedTyped DEF Typed, RemoteShows
<1>8. CASE DecodeNext
  <2> DEFINE m == Head(packets)
  <2>1. m \in Message /\ Tail(packets) \in Seq(Message) /\ Len(Tail(packets)) <= DecodeCap
        /\ <<>> \in Seq(Message) /\ Len(<<>>) <= DecodeCap /\ remote.up
    BY <1>2, <1>3, <1>8 DEF DecodeNext
  <2>2. \/ m.k = "config" /\ dec' = NewDecoder(m.enc) /\ packets' = Tail(packets) /\ failed' = FALSE
        \/ m.k = "frame" /\ dec = None /\ dec' = dec /\ packets' = Tail(packets) /\ failed' = FALSE
        \/ /\ m.k = "frame" /\ dec # None
           /\ dec' \in Decodes(dec, m)
           /\ failed' = (dec' = None)
           /\ packets' = IF failed' THEN <<>> ELSE Tail(packets)
    BY <1>8 DEF DecodeNext
  <2> HIDE DEF m
  <2>3. dec' \in Decoders \cup {None}
    <3>1. CASE m.k = "config" /\ dec' = NewDecoder(m.enc)
      BY <2>1, <3>1 DEF Message, Notices, NewDecoder, Decoders
    <3>2. CASE dec' = dec
      BY <1>3, <3>2
    <3>3. CASE m.k = "frame" /\ dec # None /\ dec' \in Decodes(dec, m)
      BY <1>1, <1>3, <2>1, <3>3, DecodesTyped
    <3>4. QED
      BY <2>2, <3>1, <3>2, <3>3
  <2>4. failed' \in BOOLEAN /\ packets' \in Seq(Message) /\ Len(packets') <= DecodeCap
    BY <2>1, <2>2
  <2>5. RemoteTyped'
    BY <1>1, <1>8, <2>1, <2>3, <2>4 DEF DecodeNext, RemoteTyped
  <2>6. QED
    BY <1>1, <1>8, <2>5, UnchangedTyped DEF Typed, DecodeNext
<1>9. QED
    BY <1>4, <1>5, <1>6, <1>7, <1>8 DEF RemoteSteps

LEMMA TypedKept ==
    ASSUME Typed, [Next]_vars
    PROVE  Typed'
<1>1. CASE HostSteps
    BY <1>1, HostStepTyped
<1>2. CASE RelaySteps
    BY <1>2, RelayStepTyped
<1>3. CASE RemoteSteps
    BY <1>3, RemoteStepTyped
<1>4. CASE UNCHANGED vars
    BY <1>4, UnchangedTyped DEF Typed, vars, remoteVars
<1>5. QED
    BY <1>1, <1>2, <1>3, <1>4 DEF Next, HostSteps, RelaySteps, RemoteSteps

LEMMA InitTyped ==
    ASSUME Init
    PROVE  Typed
<1>1. Len(<<>>) = 0 /\ {MaxWire, DecodeCap, QueueCap, JitterSlots} \subseteq Nat
    BY MediaAssumption
<1>2. GameTyped
  <2>1. PICK g \in Games :
          game = [path |-> g.path, codec |-> g.codec, gop |-> g.gop, frames |-> g.frames,
                  audio |-> g.audio, pongs |-> g.pongs, cuts |-> g.cuts, told |-> FALSE, left |-> FALSE]
    BY DEF Init
  <2>2. QED
    BY <2>1, MediaAssumption DEF GameTyped
<1>3. HostTyped /\ LinkTyped
  <2>1. sender = [up |-> TRUE, paused |-> FALSE, failed |-> FALSE, made |-> 0, config |-> 0, vseq |-> 0,
                  aseq |-> 0]
        /\ enc = None /\ worker = "off" /\ input = FALSE /\ output = None /\ conn = None /\ pipe = <<>>
    BY DEF Init
  <2>2. sender \in Senders
    BY <2>1 DEF Senders
  <2>3. HostTyped
    BY <2>1, <2>2 DEF HostTyped
  <2>4. pipe \in Seq(Message) /\ Len(pipe) <= MaxWire
    BY <1>1, <2>1
  <2>5. QED
    BY <2>1, <2>3, <2>4 DEF LinkTyped
<1>4. RelayTyped
    BY <1>1, NewTyped DEF Init, RelayTyped
<1>5. RemoteTyped
  <2>1. remote = [up |-> TRUE, pc |-> "pump", slot |-> "none", over |-> FALSE]
        /\ packets = <<>> /\ dec = None /\ failed = FALSE
    BY DEF Init
  <2>2. remote \in [up : BOOLEAN, pc : {"pump", "play"}, slot : Notices \cup {"none"}, over : BOOLEAN]
        /\ remote.slot = "none" /\ remote.up
    BY <2>1
  <2>3. packets \in Seq(Message) /\ Len(packets) <= DecodeCap
    BY <1>1, <2>1
  <2>4. QED
    BY <2>1, <2>2, <2>3 DEF RemoteTyped
<1>6. JitterTyped
    BY NewTyped DEF Init, JitterTyped, NothingStranded
<1>7. QED
    BY <1>2, <1>3, <1>4, <1>5, <1>6 DEF Typed

LEMMA AlwaysTyped == Spec => []Typed
    BY InitTyped, TypedKept, PTL DEF Spec

LEMMA TypedIsTypeOK == Typed => TypeOK /\ NothingStranded
    BY DEF Typed, HostTyped, LinkTyped, RelayTyped, RemoteTyped, JitterTyped, TypeOK, Encoders

\* A notice of the Host stays in the Remote's slot until it is taken, or the connection is lost.
THEOREM TheNoticeIsTaken == Spec => NoticeIsTaken
<1>1. ASSUME Typed, [Next]_vars
      PROVE  [remote.slot # "none" => remote'.slot \in {"none", remote.slot}]_vars
  <2>1. RemoteTyped
    BY <1>1 DEF Typed
  <2>2. remote \in [up : BOOLEAN, pc : {"pump", "play"}, slot : Notices \cup {"none"}, over : BOOLEAN]
        /\ (remote.slot # "none" => remote.pc = "play")
    BY <2>1 DEF RemoteTyped
  <2>3. SUFFICES ASSUME remote.slot # "none", Next, remote' # remote
                 PROVE  remote'.slot \in {"none", remote.slot}
    BY <1>1 DEF vars, remoteVars
  <2>4. CASE RemoteLoses
    BY <2>1, <2>4, RemoteLosesTyped
  <2>5. CASE Resume \/ Pair
    BY <2>2, <2>5 DEF Resume, Pair
  <2>6. CASE RemoteReceives
    BY <2>2, <2>3, <2>6 DEF RemoteReceives, HasMessage
  <2>7. CASE RemotePlays \/ RemoteShows
    BY <2>2, <2>7 DEF RemotePlays, RemoteShows
  <2>8. CASE \/ Submit \/ WorkerTakes \/ WorkerEncodes \/ WorkerFails \/ HostNotices \/ EncoderFailed
             \/ PumpVideo \/ SendAudio \/ SendPong \/ SendTerminal \/ PumpHost \/ HostPauses
             \/ HostResumes \/ RelayReads \/ RelayPrunes \/ RelayBegins \/ HostLeaves \/ DecodeNext
    BY <2>3, <2>8 DEF Submit, WorkerTakes, WorkerEncodes, WorkerFails, HostNotices, EncoderFailed,
        PumpVideo, SendAudio, SendPong, SendTerminal, PumpHost, HostPauses, HostResumes, RelayReads,
        RelayPrunes, RelayBegins, HostLeaves, DecodeNext, remoteVars
  <2>9. QED
    BY <2>3, <2>4, <2>5, <2>6, <2>7, <2>8 DEF Next, RemoteLeaves, RemoteNotices, RemoteFails
<1>2. QED
    BY <1>1, AlwaysTyped, PTL DEF Spec, NoticeIsTaken

-----------------------------------------------------------------------------
(* The invariant of a Game Boy's picture *)

\* What the Remote has or will be given by the relay; what the relay has yet to read.
Given == Videos(packets) \cup Videos(relay.to.queue)
UnreadIn(p, c) == Videos(p) \cup VideosIn(c)
Unread == UnreadIn(pipe, conn)

\* The next video message the Host is going to send, if that is certain.
ComingOf(o, e, seq) ==
    IF o # None THEN {IF o.config THEN Config(o.enc, seq + 1) ELSE FrameOf(o.enc, o.n, seq + 1)}
    ELSE IF e # None /\ e.n > 0 THEN {FrameOf(e.id, e.n + 1, seq + 1)} ELSE {}
Coming == ComingOf(output, enc, sender.vseq)

\* What is queued is in the order of its numbers, and what is written in the order it was made.
Queued ==
    /\ Increasing(packets) /\ Increasing(relay.to.queue)
    /\ \A a \in Videos(packets), b \in Videos(relay.to.queue) : a.seq < b.seq
InOrder(p, c) == Growing(p) /\ (Video(c) => \A m \in Videos(p) : Before(m, c))

\* The thread takes no picture while a frame it made waits to be sent.
EncoderOk ==
    /\ output # None => /\ enc # None /\ output.enc = enc.id /\ output.n = enc.n
                        /\ output.config => output.n = 1
    /\ worker = "busy" => output = None

LinksOk ==
    /\ relay.link # "down" => sender.up
    /\ relay.link = "up" => remote.up
    /\ relay.link = "held" => ~remote.up
    /\ relay.link # "up" => relay.to = NewQueue
    /\ ~sender.up => enc = None /\ output = None /\ worker = "off" /\ conn = None /\ pipe = <<>>

DecoderOk == ~failed /\ (dec # None => ~dec.broken)

StreamOk ==
    IF relay.link = "down" THEN Decodables(Given, Given, dec)
    ELSE /\ Stream(Given, Unread, Coming, dec, relay.to.last, relay.to.wait)
         /\ Numbered(Given, Unread, Coming, sender.vseq, relay.to.last)

\* Where no configuration is on its way to a Remote that needs one, the Host is going to send it.
ConfigComes ==
    relay.link = "up" /\ ~relay.torn /\ dec = None /\ (\A m \in Given \cup Unread : ~IsConfig(m))
      => \/ enc = None \/ enc.n = 0
         \/ output # None /\ output.config
         \/ \E i \in 1..Len(notes) : notes[i] = "resumed"

GbOk == LinksOk /\ EncoderOk /\ DecoderOk /\ Queued /\ InOrder(pipe, conn) /\ StreamOk /\ ConfigComes

LEMMA GameKept ==
    ASSUME Typed, [Next]_vars
    PROVE  game'.gop = game.gop /\ game'.path = game.path
<1>1. game \in [path : {"gb", "n64"}, codec : {"openh264", "videotoolbox", "mediafoundation"},
              gop : Nat \ {0}, frames : Nat, audio : Nat, pongs : Nat, cuts : Nat,
              told : BOOLEAN, left : BOOLEAN]
    BY DEF Typed, GameTyped
<1>2. CASE UNCHANGED game
    BY <1>2
<1>3. CASE \/ WorkerFails \/ RemoteLeaves \/ HostLeaves \/ SendAudio \/ SendPong
    BY <1>1, <1>3 DEF WorkerFails, RemoteLeaves, HostLeaves, SendAudio, SendPong
<1>4. CASE WorkerEncodes
    BY <1>1, <1>4 DEF WorkerEncodes
<1>5. CASE EncoderFailed
    BY <1>1, <1>5 DEF EncoderFailed
<1>6. CASE SendTerminal
    BY <1>1, <1>6 DEF SendTerminal
<1>7. CASE PumpHost
    BY <1>1, <1>7 DEF PumpHost
<1>8. CASE UNCHANGED vars
    BY <1>8 DEF vars
<1>9. QED
    BY <1>2, <1>3, <1>4, <1>5, <1>6, <1>7, <1>8 DEF Next, Submit, WorkerTakes, HostNotices, PumpVideo,
        HostPauses, HostResumes, RelayReads, RelayPrunes, RelayBegins, RemoteNotices, Resume, Pair,
        RemoteFails, RemoteReceives, Receives, RemotePlays, RemoteShows, DecodeNext

\* What is a delta stays one.
LEMMA StreamLater ==
    ASSUME NEW H, NEW U, NEW C, NEW d, NEW last, NEW wait, game'.gop = game.gop
    PROVE  /\ Stream(H, U, C, d, last, wait) => Stream(H, U, C, d, last, wait)'
           /\ Decodables(H, U, d) => Decodables(H, U, d)'
<1>1. \A m : Delta(m)' = Delta(m)
    BY DEF Delta, Key
<1>2. Decodables(H, U, d) => Decodables(H, U, d)'
    BY <1>1 DEF Decodables, OneEncoder, DecodersOwn, AfterItsFrame, Chained, Ready, Decodable, Key
<1>3. Stream(H, U, C, d, last, wait) => Stream(H, U, C, d, last, wait)'
    BY <1>1 DEF Stream, Joins, Decodables, OneEncoder, DecodersOwn, AfterItsFrame, Chained, Parted,
        NoneMissing, First, Doomed, Ready, Decodable, Key
<1>4. QED
    BY <1>2, <1>3

LEMMA SetsOk ==
    ASSUME Typed
    PROVE  /\ VideoSet(Videos(packets)) /\ VideoSet(Videos(relay.to.queue)) /\ VideoSet(Given)
           /\ VideoSet(Unread) /\ VideoSet(Coming) /\ \A c1, c2 \in Coming : c1 = c2
           /\ packets \in Seq(Message) /\ relay.to.queue \in Seq(Message) /\ relay.to \in QueueRec
           /\ pipe \in Seq(Message) /\ conn \in Message \cup {None}
           /\ relay.to.last \in Nat /\ relay.to.wait \in BOOLEAN /\ sender.vseq \in Nat
           /\ dec \in Decoders \cup {None}
<1>1. HostTyped /\ LinkTyped /\ RelayTyped /\ RemoteTyped
    BY DEF Typed
<1>2. /\ packets \in Seq(Message) /\ relay.to \in QueueRec /\ relay.to.queue \in Seq(Message)
      /\ relay.to.last \in Nat /\ relay.to.wait \in BOOLEAN
      /\ pipe \in Seq(Message) /\ conn \in Message \cup {None} /\ dec \in Decoders \cup {None}
    BY <1>1 DEF LinkTyped, RelayTyped, RemoteTyped, QueueRec
<1>3. /\ sender.vseq \in Nat /\ enc \in Encoders \cup {None} /\ output \in Outputs \cup {None}
    BY <1>1 DEF HostTyped, Senders
<1>4. ASSUME NEW s \in Seq(Message) PROVE VideoSet(Videos(s))
    BY VideosOf DEF VideoSet
<1>5. VideoSet(VideosIn(conn))
    BY <1>2, MessageKinds DEF VideoSet, VideosIn
<1>6. VideoSet(Coming)
  <2>1. ASSUME NEW m \in Coming PROVE m \in Message
    <3>1. CASE output # None
      BY <1>3, <3>1, MessagesMade DEF Coming, ComingOf, Outputs
    <3>2. CASE output = None
      BY <1>3, <3>2, MessagesMade DEF Coming, ComingOf, Encoders
    <3>3. QED
      BY <3>1, <3>2
  <2>2. \A m \in Coming : Video(m)
    BY DEF Coming, ComingOf, Config, FrameOf, Video
  <2>3. QED
    BY <2>1, <2>2 DEF VideoSet
<1>7. \A c1, c2 \in Coming : c1 = c2
    BY DEF Coming, ComingOf
<1>8. VideoSet(Given) /\ VideoSet(Unread)
    BY <1>2, <1>4, <1>5 DEF VideoSet, Given, Unread, UnreadIn
<1>9. QED
    BY <1>2, <1>3, <1>4, <1>6, <1>7, <1>8

\* What becomes of a message put on the connection.
LEMMA SendsInOrder ==
    ASSUME NEW c, c.conn \in Message \cup {None}, c.pipe \in Seq(Message), Len(c.pipe) <= MaxWire,
           c = [conn |-> c.conn, pipe |-> c.pipe], NEW m \in Message, NEW s \in Sends(c, m),
           InOrder(c.pipe, c.conn)
    PROVE  \/ s.conn = c.conn /\ s.pipe = c.pipe /\ ~s.sent /\ c.conn # None
           \/ /\ UnreadIn(s.pipe, s.conn) = UnreadIn(c.pipe, c.conn) \cup VideosIn(m)
              /\ (Video(m) => \A u \in UnreadIn(c.pipe, c.conn) : Before(u, m))
                   => InOrder(s.pipe, s.conn)
<1> DEFINE pip == c.pipe
           con == c.conn
<1>1. pip \in Seq(Message) /\ con \in Message \cup {None} /\ ~Video(None) /\ VideosIn(None) = {}
    BY MessageKinds DEF VideosIn
<1>2. Growing(pip) /\ (Video(con) => \A x \in Videos(pip) : Before(x, con))
    BY DEF InOrder
<1>3. UnreadIn(pip, con) = Videos(pip) \cup VideosIn(con)
    BY DEF UnreadIn
<1>4. Video(con) => con \in VideosIn(con)
    BY DEF VideosIn
<1>5. \/ s.conn = con /\ s.pipe = pip /\ ~s.sent /\ con # None
      \/ con = None /\ s.pipe = pip /\ s.conn = m
      \/ con = None /\ s.pipe = Append(pip, m) /\ s.conn = None
      \/ con # None /\ s.pipe = Append(pip, con) /\ s.conn = m
      \/ con # None /\ s.pipe = Append(Append(pip, con), m) /\ s.conn = None
      \/ s.conn = con /\ s.pipe = pip /\ ~s.sent /\ con = None
    BY SendsTyped
<1>6. con = None => s.conn = m \/ s.pipe = Append(pip, m)
  <2>1. SUFFICES ASSUME con = None PROVE s.conn = m \/ s.pipe = Append(pip, m)
    OBVIOUS
  <2>2. PICK f \in Flushes([c EXCEPT !.conn = m]) :
           s = [conn |-> f.conn, pipe |-> f.pipe, sent |-> f.conn = None]
    BY <2>1 DEF Sends
  <2>3. [c EXCEPT !.conn = m].conn = m /\ [c EXCEPT !.conn = m].pipe = pip
        /\ [c EXCEPT !.conn = m] = [conn |-> m, pipe |-> pip]
    OBVIOUS
  <2>4. \/ f = [c EXCEPT !.conn = m]
        \/ f = [[c EXCEPT !.conn = m] EXCEPT !.conn = None, !.pipe = Append(pip, m)]
    BY <2>2, <2>3 DEF Flushes
  <2>5. CASE f = [c EXCEPT !.conn = m]
    BY <2>2, <2>3, <2>5
  <2>6. CASE f = [[c EXCEPT !.conn = m] EXCEPT !.conn = None, !.pipe = Append(pip, m)]
    <3> DEFINE w == Append(pip, m)
    <3>1. f = [[conn |-> m, pipe |-> pip] EXCEPT !.conn = None, !.pipe = w]
      BY <2>3, <2>6
    <3> HIDE DEF w, pip
    <3>2. f.pipe = w
      BY <3>1
    <3>3. QED
      BY <2>2, <3>2 DEF w
  <2>7. QED
    BY <2>4, <2>5, <2>6
<1> HIDE DEF pip, con
<1>7. CASE con = None /\ s.pipe = pip /\ s.conn = m
    BY <1>1, <1>2, <1>3, <1>7 DEF UnreadIn, InOrder, pip, con
<1>8. CASE con = None /\ s.pipe = Append(pip, m) /\ s.conn = None
  <2>1. /\ Videos(Append(pip, m)) = Videos(pip) \cup VideosIn(m)
        /\ (Video(m) => \A x \in Videos(pip) : Before(x, m)) => Growing(Append(pip, m))
    BY <1>1, <1>2, VideosAppend
  <2>2. QED
    BY <1>1, <1>2, <1>3, <1>8, <2>1 DEF UnreadIn, InOrder, pip, con
<1>9. ASSUME con # None
      PROVE  /\ Videos(Append(pip, con)) = Videos(pip) \cup VideosIn(con)
             /\ Growing(Append(pip, con)) /\ Append(pip, con) \in Seq(Message)
    BY <1>1, <1>2, <1>9, VideosAppend
<1>10. CASE con # None /\ s.pipe = Append(pip, con) /\ s.conn = m
    BY <1>3, <1>9, <1>10 DEF UnreadIn, InOrder, pip, con
<1>11. CASE con # None /\ s.pipe = Append(Append(pip, con), m) /\ s.conn = None
  <2>1. /\ Videos(Append(Append(pip, con), m)) = Videos(Append(pip, con)) \cup VideosIn(m)
        /\ (Video(m) => \A x \in Videos(Append(pip, con)) : Before(x, m))
             => Growing(Append(Append(pip, con), m))
    <3> DEFINE q == Append(pip, con)
    <3>1. q \in Seq(Message) /\ Growing(q)
      BY <1>9, <1>11
    <3> HIDE DEF q
    <3>2. /\ Videos(Append(q, m)) = Videos(q) \cup VideosIn(m)
          /\ (Video(m) => \A x \in Videos(q) : Before(x, m)) => Growing(Append(q, m))
      BY <3>1, VideosAppend
    <3>3. QED
      BY <3>2 DEF q
  <2>2. QED
    BY <1>1, <1>3, <1>9, <1>11, <2>1 DEF UnreadIn, InOrder, pip, con
<1>12. CASE s.conn = con /\ s.pipe = pip /\ ~s.sent /\ con # None
    BY <1>12 DEF pip, con
<1>13. CASE s.conn = con /\ s.pipe = pip /\ ~s.sent /\ con = None
  <2>1. None # m
    BY MessageKinds
  <2>2. pip # Append(pip, m)
    <3>1. Len(Append(pip, m)) = Len(pip) + 1 /\ Len(pip) \in Nat
      BY <1>1
    <3>2. QED
      BY <3>1
  <2>3. QED
    BY <1>6, <1>13, <2>1, <2>2
<1>14. QED
    BY <1>5, <1>7, <1>8, <1>10, <1>11, <1>12, <1>13

-----------------------------------------------------------------------------
(* The Host's steps *)

\* A step of the Host leaves what the relay and the Remote have.
LEMMA OnlyHost ==
    ASSUME GbOk, game'.gop = game.gop, UNCHANGED <<relay, packets, dec, failed>>,
           relay.link # "down" =>
              /\ Stream(Given, Unread', Coming', dec, relay.to.last, relay.to.wait)
              /\ Numbered(Given, Unread', Coming', sender'.vseq, relay.to.last),
           InOrder(pipe', conn')
    PROVE  DecoderOk' /\ Queued' /\ InOrder(pipe, conn)' /\ StreamOk'
<1>1. Given' = Given
    BY DEF Given
<1>2. DecoderOk' /\ Queued'
    BY DEF GbOk, DecoderOk, Queued
<1>3. InOrder(pipe, conn)'
    BY DEF InOrder
<1>4. CASE relay.link = "down"
  <2>1. Decodables(Given', Given', dec')
    BY <1>1, <1>4 DEF GbOk, StreamOk
  <2>2. Decodables(Given, Given, dec)'
    BY <2>1, StreamLater
  <2>3. QED
    BY <1>2, <1>3, <1>4, <2>2 DEF StreamOk
<1>5. CASE relay.link # "down"
  <2>1. Stream(Given', Unread', Coming', dec', relay'.to.last, relay'.to.wait)
    BY <1>1, <1>5
  <2>2. Stream(Given, Unread, Coming, dec, relay.to.last, relay.to.wait)'
    BY <2>1, StreamLater
  <2>3. Numbered(Given, Unread, Coming, sender.vseq, relay.to.last)'
    BY <1>1, <1>5
  <2>4. QED
    BY <1>2, <1>3, <1>5, <2>2, <2>3 DEF StreamOk
<1>6. QED
    BY <1>4, <1>5

\* ... and nothing that is on its way changes.
LEMMA SameStream ==
    ASSUME GbOk, game'.gop = game.gop, UNCHANGED <<relay, packets, dec, failed, pipe, conn>>,
           Coming' = Coming, sender'.vseq = sender.vseq
    PROVE  DecoderOk' /\ Queued' /\ InOrder(pipe, conn)' /\ StreamOk'
<1>1. Unread' = Unread
    BY DEF Unread
<1>2. InOrder(pipe', conn')
    BY DEF GbOk
<1>3. QED
    BY <1>1, <1>2, OnlyHost DEF GbOk, StreamOk

\* The Host loses its connection; the link is down.
LEMMA HostLost ==
    ASSUME Typed, GbOk, game'.gop = game.gop, HostLoses, relay'.link = "down", relay'.to = NewQueue,
           UNCHANGED <<remote, packets, dec, failed>>
    PROVE  GbOk'
<1>1. sender'.up = FALSE /\ enc' = None /\ output' = None /\ worker' = "off" /\ conn' = None /\ pipe' = <<>>
    BY DEF HostLoses, Stopped, Typed, HostTyped, Senders
<1>2. LinksOk' /\ EncoderOk' /\ ConfigComes' /\ DecoderOk'
    BY <1>1 DEF LinksOk, EncoderOk, ConfigComes, DecoderOk, GbOk
<1>3. InOrder(pipe, conn)'
    BY <1>1, VideosOfNone, MessageKinds DEF InOrder
<1>4. /\ VideoSet(Videos(packets)) /\ VideoSet(Videos(relay.to.queue)) /\ VideoSet(Unread)
      /\ VideoSet(Coming) /\ relay.to.last \in Nat
    BY SetsOk
<1>5. Queued
    BY DEF GbOk
<1>6. Given' = Videos(packets)
    BY VideosOfNone, NewTyped DEF Given
<1>7. Queued'
    BY <1>5, VideosOfNone, NewTyped DEF Queued
<1>8. Decodables(Videos(packets), Videos(packets), dec)
  <2>1. CASE relay.link = "down"
    <3>1. Given = Videos(packets)
      BY <2>1, VideosOfNone, NewTyped DEF GbOk, LinksOk, Given
    <3>2. QED
      BY <2>1, <3>1 DEF GbOk, StreamOk
  <2>2. CASE relay.link # "down"
    <3>1. Stream(Videos(packets) \cup Videos(relay.to.queue), Unread, Coming, dec, relay.to.last,
                 relay.to.wait)
      BY <2>2 DEF GbOk, StreamOk, Given
    <3>2. \A p \in Videos(packets), q \in Videos(relay.to.queue) : p.seq < q.seq
      BY <1>5 DEF Queued
    <3>3. QED
      BY <1>4, <3>1, <3>2, DownKeeps
  <2>3. QED
    BY <2>1, <2>2
<1>9. Decodables(Given, Given, dec)'
    BY <1>6, <1>8, StreamLater
<1>10. StreamOk'
    BY <1>9 DEF StreamOk
<1>11. QED
    BY <1>2, <1>3, <1>7, <1>10 DEF GbOk

\* A message that is no video is put on the connection.
LEMMA OtherSent ==
    ASSUME Typed, GbOk, game'.gop = game.gop, UNCHANGED <<relay, packets, dec, failed>>,
           NEW m \in Message, ~Video(m), NEW s \in Sends(Link, m), Written(s),
           Coming' = Coming, sender'.vseq = sender.vseq
    PROVE  DecoderOk' /\ Queued' /\ InOrder(pipe, conn)' /\ StreamOk' /\ Unread' = Unread
<1>1. LinkTyped /\ InOrder(pipe, conn)
    BY DEF Typed, GbOk
<1>2. Link.conn = conn /\ Link.pipe = pipe /\ Link = [conn |-> Link.conn, pipe |-> Link.pipe]
    BY DEF Link
<1>3. \/ s.conn = conn /\ s.pipe = pipe
      \/ /\ UnreadIn(s.pipe, s.conn) = Unread \cup VideosIn(m)
         /\ InOrder(s.pipe, s.conn)
    BY <1>1, <1>2, SendsInOrder DEF LinkTyped, Unread
<1>4. VideosIn(m) = {}
    BY DEF VideosIn
<1>5. Unread' = Unread /\ InOrder(pipe', conn')
    BY <1>1, <1>3, <1>4 DEF Written, Unread
<1>6. QED
    BY <1>5, OnlyHost DEF GbOk, StreamOk

\* The frame published is put on the connection.
LEMMA PumpFrameKeeps ==
    ASSUME HostTyped, EncoderOk, output # None, NEW c, c.conn \in Message \cup {None},
           c.pipe \in Seq(Message), Len(c.pipe) <= MaxWire, InOrder(c.pipe, c.conn), c.vseq \in Nat,
           VideoSet(UnreadIn(c.pipe, c.conn)),
           NEW H, VideoSet(H), NEW d, NEW last \in Nat, NEW wait,
           Stream(H, UnreadIn(c.pipe, c.conn), {FrameOf(output.enc, output.n, c.vseq + 1)}, d, last, wait),
           Numbered(H, UnreadIn(c.pipe, c.conn), {FrameOf(output.enc, output.n, c.vseq + 1)}, c.vseq, last),
           PumpFrame(c), enc' = enc
    PROVE  /\ Stream(H, Unread', Coming', d, last, wait)
           /\ Numbered(H, Unread', Coming', sender'.vseq, last)
           /\ InOrder(pipe', conn') /\ UnreadIn(c.pipe, c.conn) \subseteq Unread'
           /\ output' # None => ~output'.config /\ output'.enc = output.enc /\ output'.n = output.n
<1> DEFINE f == FrameOf(output.enc, output.n, c.vseq + 1)
           U == UnreadIn(c.pipe, c.conn)
           l == [conn |-> c.conn, pipe |-> c.pipe]
<1>1. /\ output \in Outputs /\ output.enc \in Nat /\ output.n \in Nat /\ output.n >= 1
      /\ enc # None /\ output.enc = enc.id /\ output.n = enc.n /\ sender \in Senders
    BY DEF HostTyped, Outputs, EncoderOk
<1>2. f \in Message /\ Video(f) /\ VideoSet({f}) /\ VideosIn(f) = {f} /\ f.k = "frame"
      /\ f.enc = output.enc /\ f.n = output.n /\ f.seq = c.vseq + 1
    BY <1>1, MessagesMade DEF FrameOf, Video, VideoSet, VideosIn
<1>3. l.conn = c.conn /\ l.pipe = c.pipe /\ l = [conn |-> l.conn, pipe |-> l.pipe]
    OBVIOUS
<1>4. PICK s \in Sends(l, f) :
         /\ Written(s)
         /\ sender' = [sender EXCEPT !.config = c.config, !.vseq = IF s.sent THEN c.vseq + 1 ELSE c.vseq]
         /\ output' = IF s.sent THEN None ELSE [output EXCEPT !.config = FALSE]
    BY DEF PumpFrame
<1>5. Stream(H, U, {f}, d, last, wait) /\ Numbered(H, U, {f}, c.vseq, last) /\ VideoSet(U)
      /\ InOrder(l.pipe, l.conn) /\ U = UnreadIn(l.pipe, l.conn)
    OBVIOUS
<1> HIDE DEF f, l, U
<1>6. s.sent \in BOOLEAN
    BY <1>2, <1>3, <1>4, SendsTyped
<1>7. /\ Stream(H, U \cup {f}, {f}, d, last, wait) /\ Numbered(H, U \cup {f}, {f}, c.vseq, last)
      /\ \A u \in U : Before(u, f)
    BY <1>2, <1>5, AcceptKeeps
<1>8. \/ s.conn = l.conn /\ s.pipe = l.pipe /\ ~s.sent
      \/ UnreadIn(s.pipe, s.conn) = U \cup {f} /\ InOrder(s.pipe, s.conn)
  <2>1. /\ l.conn \in Message \cup {None} /\ l.pipe \in Seq(Message) /\ Len(l.pipe) <= MaxWire
        /\ l = [conn |-> l.conn, pipe |-> l.pipe] /\ InOrder(l.pipe, l.conn)
    BY <1>3, <1>5
  <2>2. \/ s.conn = l.conn /\ s.pipe = l.pipe /\ ~s.sent /\ l.conn # None
        \/ /\ UnreadIn(s.pipe, s.conn) = UnreadIn(l.pipe, l.conn) \cup VideosIn(f)
           /\ (Video(f) => \A u \in UnreadIn(l.pipe, l.conn) : Before(u, f))
                => InOrder(s.pipe, s.conn)
    BY <1>2, <1>4, <2>1, SendsInOrder
  <2>3. QED
    BY <1>2, <1>5, <1>7, <2>2
<1>9. Unread' = UnreadIn(s.pipe, s.conn) /\ pipe' = s.pipe /\ conn' = s.conn
    BY <1>4 DEF Unread, Written
<1>10. CASE s.sent
  <2>1. Unread' = U \cup {f} /\ InOrder(pipe', conn')
    BY <1>8, <1>9, <1>10
  <2>2. sender'.vseq = c.vseq + 1 /\ output' = None
    BY <1>1, <1>4, <1>10 DEF Senders
  <2> DEFINE g == FrameOf(enc.id, enc.n + 1, c.vseq + 2)
  <2>3. Coming' = {g}
    BY <1>1, <2>2 DEF Coming, ComingOf
  <2>4. g \in Message /\ VideoSet({g}) /\ g.k = "frame" /\ g.seq = c.vseq + 2 /\ g.enc = f.enc
        /\ Needs(f, g)
    <3>1. enc.id \in Nat /\ enc.n + 1 \in Nat /\ enc.n + 1 >= 1 /\ c.vseq + 2 \in Nat /\ c.vseq + 2 >= 1
      BY <1>1
    <3>2. g \in Message
      BY <3>1, MessagesMade
    <3>3. g.k = "frame" /\ g.seq = c.vseq + 2 /\ g.enc = enc.id /\ g.n = enc.n + 1
      BY DEF FrameOf
    <3>4. Video(g)
      BY <3>3 DEF Video
    <3> HIDE DEF g
    <3>5. VideoSet({g})
      BY <3>2, <3>4 DEF VideoSet
    <3>6. QED
      BY <1>1, <1>2, <3>2, <3>3, <3>5 DEF Needs
  <2> HIDE DEF g
  <2>5. Stream(H, U \cup {f}, {g}, d, last, wait) /\ Numbered(H, U \cup {f}, {g}, c.vseq + 1, last)
    BY <1>2, <1>5, <2>4, SentKeeps
  <2>6. QED
    BY <2>1, <2>2, <2>3, <2>5 DEF U
<1>11. CASE ~s.sent
  <2>1. sender'.vseq = c.vseq /\ output' = [output EXCEPT !.config = FALSE]
    BY <1>1, <1>4, <1>11 DEF Senders
  <2>2. output' # None /\ ~output'.config /\ output'.enc = output.enc /\ output'.n = output.n
    BY <1>1, <2>1, NewTyped DEF Outputs
  <2>3. Coming' = {f}
    BY <2>1, <2>2 DEF Coming, ComingOf, f
  <2>4. \/ Unread' = U /\ InOrder(pipe', conn')
        \/ Unread' = U \cup {f} /\ InOrder(pipe', conn')
    BY <1>5, <1>8, <1>9
  <2>5. QED
    BY <1>5, <1>7, <2>1, <2>2, <2>3, <2>4 DEF U
<1>12. QED
    BY <1>6, <1>10, <1>11

LEMMA PumpVideoKeeps ==
    ASSUME Typed, GbOk, game'.gop = game.gop, PumpVideo
    PROVE  GbOk'
<1>1. HostTyped /\ LinkTyped /\ EncoderOk /\ InOrder(pipe, conn) /\ output # None /\ relay.link # "down"
      /\ UNCHANGED <<game, enc, worker, input, relay, notes, remote, packets, dec, failed>> /\ sender.up
    BY DEF Typed, GbOk, PumpVideo, Sending, remoteVars
<1> DEFINE d == dec
           last == relay.to.last
           wait == relay.to.wait
<1>2. /\ VideoSet(Given) /\ VideoSet(Unread) /\ VideoSet(Coming) /\ last \in Nat /\ sender.vseq \in Nat
      /\ conn \in Message \cup {None} /\ pipe \in Seq(Message) /\ Len(pipe) <= MaxWire
    BY <1>1, SetsOk DEF LinkTyped
<1>3. /\ Stream(Given, Unread, Coming, d, last, wait)
      /\ Numbered(Given, Unread, Coming, sender.vseq, last)
    BY <1>1 DEF GbOk, StreamOk
<1>4. /\ output \in Outputs /\ output.enc \in Nat /\ output.n \in Nat /\ output.n >= 1
      /\ enc # None /\ output.enc = enc.id /\ output.n = enc.n /\ output.config \in BOOLEAN
      /\ (output.config => output.n = 1) /\ sender \in Senders /\ worker # "busy" /\ sender.config \in Nat
    BY <1>1 DEF HostTyped, Outputs, EncoderOk, Senders
<1>5. /\ Unread = UnreadIn(pipe, conn)
      /\ Link.conn = conn /\ Link.pipe = pipe /\ Link = [conn |-> Link.conn, pipe |-> Link.pipe]
    BY DEF Unread, Link
\* What is left to show.
<1>6. ASSUME \/ /\ Stream(Given, Unread', Coming', d, last, wait)
                /\ Numbered(Given, Unread', Coming', sender'.vseq, last)
                /\ InOrder(pipe', conn') /\ Unread \subseteq Unread'
                /\ output.config => \E m \in Unread' : IsConfig(m)
                /\ output' # None => ~output'.config /\ output'.enc = output.enc /\ output'.n = output.n
                /\ sender'.up = sender.up
             \/ UNCHANGED <<pipe, conn, output, sender>>
      PROVE  GbOk'
  <2>1. DecoderOk' /\ Queued' /\ InOrder(pipe, conn)' /\ StreamOk'
    <3>1. CASE UNCHANGED <<pipe, conn, output, sender>>
      BY <1>1, <3>1, SameStream DEF Coming
    <3>2. CASE /\ Stream(Given, Unread', Coming', d, last, wait)
               /\ Numbered(Given, Unread', Coming', sender'.vseq, last)
               /\ InOrder(pipe', conn')
      BY <1>1, <3>2, OnlyHost
    <3>3. QED
      BY <1>6, <3>1, <3>2
  <2>2. sender'.up = sender.up
    BY <1>6
  <2>3. LinksOk'
    BY <1>1, <2>2 DEF GbOk, LinksOk
  <2>4. EncoderOk'
    BY <1>1, <1>4, <1>6 DEF EncoderOk
  <2>5. ConfigComes'
    <3>1. SUFFICES ASSUME relay'.link = "up", ~relay'.torn, dec' = None,
                          \A m \in Given' \cup Unread' : ~IsConfig(m),
                          ~(output' # None /\ output'.config)
                   PROVE  \E i \in 1..Len(notes') : notes'[i] = "resumed"
      BY DEF ConfigComes
    <3>2. Given' = Given
      BY <1>1 DEF Given
    <3>3. Unread \subseteq Unread' /\ ~output.config
      BY <1>1, <1>4, <1>6, <3>1 DEF Unread
    <3>4. QED
      BY <1>1, <1>4, <3>1, <3>2, <3>3 DEF GbOk, ConfigComes
  <2>6. QED
    BY <2>1, <2>3, <2>4, <2>5 DEF GbOk
<1>7. CASE output.config
  <2> DEFINE b == Config(output.enc, sender.vseq + 1)
  <2>1. b \in Message /\ Video(b) /\ VideoSet({b}) /\ VideosIn(b) = {b} /\ IsConfig(b)
        /\ b.enc = output.enc /\ b.seq = sender.vseq + 1
    <3>1. b \in Message
      BY <1>2, <1>4, MessagesMade
    <3>2. QED
      BY <3>1 DEF Config, Video, VideoSet, VideosIn, IsConfig
  <2>2. Coming = {b}
    BY <1>1, <1>7 DEF Coming, ComingOf
  <2>3. PICK s \in Sends(Link, b) :
              IF s.sent
              THEN PumpFrame([conn |-> s.conn, pipe |-> s.pipe, vseq |-> sender.vseq + 1,
                              config |-> output.enc])
              ELSE Written(s) /\ UNCHANGED <<sender, output>>
    BY <1>7 DEF PumpVideo
  <2> HIDE DEF b
  <2>4. /\ s.conn \in Message \cup {None} /\ s.pipe \in Seq(Message) /\ Len(s.pipe) <= MaxWire
        /\ s.sent \in BOOLEAN
    BY <1>1, <2>1, <2>3, LinkKept
  <2>5. /\ Stream(Given, Unread \cup {b}, {b}, d, last, wait)
        /\ Numbered(Given, Unread \cup {b}, {b}, sender.vseq, last)
        /\ \A u \in Unread : Before(u, b)
    BY <1>2, <1>3, <2>1, <2>2, AcceptKeeps
  <2>6. \/ s.conn = conn /\ s.pipe = pipe /\ ~s.sent
        \/ UnreadIn(s.pipe, s.conn) = Unread \cup {b} /\ InOrder(s.pipe, s.conn)
    <3>1. \/ s.conn = Link.conn /\ s.pipe = Link.pipe /\ ~s.sent /\ Link.conn # None
          \/ /\ UnreadIn(s.pipe, s.conn) = UnreadIn(Link.pipe, Link.conn) \cup VideosIn(b)
             /\ (Video(b) => \A u \in UnreadIn(Link.pipe, Link.conn) : Before(u, b))
                  => InOrder(s.pipe, s.conn)
      BY <1>1, <1>2, <1>5, <2>1, <2>3, SendsInOrder
    <3>2. QED
      BY <1>5, <2>1, <2>5, <3>1
  <2>7. CASE ~s.sent
    <3>1. UNCHANGED <<sender, output>> /\ pipe' = s.pipe /\ conn' = s.conn
      BY <2>3, <2>7 DEF Written
    <3>2. Coming' = {b}
      BY <1>1, <2>2, <3>1 DEF Coming
    <3>3. CASE s.conn = conn /\ s.pipe = pipe
      BY <1>6, <3>1, <3>3
    <3>4. CASE UnreadIn(s.pipe, s.conn) = Unread \cup {b} /\ InOrder(s.pipe, s.conn)
      <4>1. Unread' = Unread \cup {b}
        BY <3>1, <3>4 DEF Unread
      <4>2. /\ Stream(Given, Unread', Coming', d, last, wait)
            /\ Numbered(Given, Unread', Coming', sender'.vseq, last)
            /\ InOrder(pipe', conn')
        BY <2>5, <3>1, <3>2, <3>4, <4>1
      \* The configuration is on its way: nothing else is to be shown of it.
      <4>3. DecoderOk' /\ Queued' /\ InOrder(pipe, conn)' /\ StreamOk'
        BY <1>1, <4>2, OnlyHost
      <4>4. LinksOk' /\ EncoderOk'
        BY <1>1, <3>1 DEF GbOk, LinksOk, EncoderOk
      <4>5. ConfigComes'
        BY <1>1, <2>1, <4>1 DEF ConfigComes
      <4>6. QED
        BY <4>3, <4>4, <4>5 DEF GbOk
    <3>5. QED
      BY <2>6, <3>3, <3>4
  <2>8. CASE s.sent
    <3> DEFINE c == [conn |-> s.conn, pipe |-> s.pipe, vseq |-> sender.vseq + 1, config |-> output.enc]
               f == FrameOf(output.enc, output.n, sender.vseq + 2)
    <3>1. PumpFrame(c)
      BY <2>3, <2>8
    <3>2. c.conn = s.conn /\ c.pipe = s.pipe /\ c.vseq = sender.vseq + 1
      OBVIOUS
    <3>3. UnreadIn(s.pipe, s.conn) = Unread \cup {b} /\ InOrder(s.pipe, s.conn)
      BY <2>6, <2>8
    <3>4. f = FrameOf(output.enc, output.n, c.vseq + 1)
      BY <1>2, <3>2
    <3>5. /\ f \in Message /\ VideoSet({f}) /\ f.k = "frame" /\ f.seq = sender.vseq + 2
          /\ f.enc = b.enc /\ ~Delta(f)
      <4>1. f \in Message /\ f.n = 1
        BY <1>2, <1>4, <1>7, MessagesMade DEF FrameOf
      <4>2. Key(1)
        <5>1. game.gop \in Nat \ {0}
          BY DEF Typed, GameTyped
        <5>2. QED
          BY <5>1 DEF Key
      <4>3. f.k = "frame" /\ f.seq = sender.vseq + 2 /\ f.enc = b.enc /\ Video(f)
        BY <2>1 DEF FrameOf, Video
      <4> HIDE DEF f
      <4>4. QED
        BY <4>1, <4>2, <4>3 DEF VideoSet, Delta
    <3> HIDE DEF c, f
    <3>6. /\ Stream(Given, Unread \cup {b}, {f}, d, last, wait)
          /\ Numbered(Given, Unread \cup {b}, {f}, sender.vseq + 1, last)
      BY <1>2, <1>3, <2>1, <2>2, <3>5, SentKeeps
    <3>7. VideoSet(Unread \cup {b})
      BY <1>2, <2>1 DEF VideoSet
    <3>8. /\ Stream(Given, Unread', Coming', d, last, wait)
          /\ Numbered(Given, Unread', Coming', sender'.vseq, last)
          /\ InOrder(pipe', conn') /\ Unread \cup {b} \subseteq Unread'
          /\ output' # None => ~output'.config /\ output'.enc = output.enc /\ output'.n = output.n
      <4>1. c.vseq \in Nat
        BY <1>2, <3>2
      <4>2. /\ UnreadIn(c.pipe, c.conn) = Unread \cup {b} /\ InOrder(c.pipe, c.conn)
            /\ c.conn \in Message \cup {None} /\ c.pipe \in Seq(Message) /\ Len(c.pipe) <= MaxWire
        BY <2>4, <3>2, <3>3
      <4>3. /\ Stream(Given, UnreadIn(c.pipe, c.conn), {FrameOf(output.enc, output.n, c.vseq + 1)},
                      d, last, wait)
            /\ Numbered(Given, UnreadIn(c.pipe, c.conn), {FrameOf(output.enc, output.n, c.vseq + 1)},
                        c.vseq, last)
            /\ VideoSet(UnreadIn(c.pipe, c.conn))
        BY <3>2, <3>4, <3>6, <3>7, <4>2
      <4>4. QED
        BY <1>1, <1>2, <3>1, <4>1, <4>2, <4>3, PumpFrameKeeps
    <3>9. sender'.up = sender.up
      BY <1>4, <3>1 DEF PumpFrame, Senders
    <3>10. QED
      BY <1>6, <2>1, <3>8, <3>9
  <2>9. QED
    BY <2>4, <2>7, <2>8
<1>8. CASE ~output.config
  <2> DEFINE c == [conn |-> conn, pipe |-> pipe, vseq |-> sender.vseq, config |-> sender.config]
  <2>1. PumpFrame(c)
    BY <1>8 DEF PumpVideo
  <2>2. c.conn = conn /\ c.pipe = pipe /\ c.vseq = sender.vseq
    OBVIOUS
  <2>3. Coming = {FrameOf(output.enc, output.n, c.vseq + 1)}
    BY <1>1, <1>8, <2>2 DEF Coming, ComingOf
  <2> HIDE DEF c
  <2>4. /\ Stream(Given, Unread', Coming', d, last, wait)
        /\ Numbered(Given, Unread', Coming', sender'.vseq, last)
        /\ InOrder(pipe', conn') /\ Unread \subseteq Unread'
        /\ output' # None => ~output'.config /\ output'.enc = output.enc /\ output'.n = output.n
    BY <1>1, <1>2, <1>3, <1>5, <2>1, <2>2, <2>3, PumpFrameKeeps
  <2>5. sender'.up = sender.up
    BY <1>4, <2>1 DEF PumpFrame, Senders
  <2>6. QED
    BY <1>6, <1>8, <2>4, <2>5
<1>9. QED
  BY <1>4, <1>7, <1>8

\* The thread gives a frame, or none.
LEMMA WorkerEncodesKeeps ==
    ASSUME Typed, GbOk, game'.gop = game.gop, WorkerEncodes
    PROVE  GbOk'
<1>1. /\ worker = "busy" /\ worker' = "idle" /\ sender' = [sender EXCEPT !.made = NewEncoder.id]
      /\ UNCHANGED <<input, conn, pipe, relay, notes, remote, packets, dec, failed>>
      /\ output = None /\ sender.up
    BY DEF WorkerEncodes, GbOk, EncoderOk, LinksOk, remoteVars
<1>2. HostTyped /\ sender \in Senders /\ sender'.up = sender.up /\ sender'.vseq = sender.vseq
      /\ enc \in Encoders \cup {None}
    BY <1>1 DEF Typed, HostTyped, Senders
<1>3. /\ NewEncoder \in Encoders /\ NewEncoder # None /\ NewEncoder.n \in Nat /\ NewEncoder.id \in Nat
      /\ enc # None => NewEncoder = enc
      /\ enc = None => NewEncoder.n = 0
    BY <1>2, NewEncoderTyped DEF NewEncoder, Encoders
<1>4. /\ VideoSet(Given) /\ VideoSet(Unread) /\ relay.to.last \in Nat /\ sender.vseq \in Nat
      /\ InOrder(pipe, conn) /\ Unread' = Unread
    BY <1>1, SetsOk DEF GbOk, Unread
<1>5. LinksOk'
    BY <1>1, <1>2 DEF GbOk, LinksOk
<1>6. CASE /\ output' = Encoded(NewEncoder) /\ enc' = [NewEncoder EXCEPT !.n = @ + 1]
  <2>1. /\ output' # None /\ output'.enc = NewEncoder.id /\ output'.n = NewEncoder.n + 1
        /\ output'.config = (NewEncoder.n = 0)
        /\ enc' # None /\ enc'.id = NewEncoder.id /\ enc'.n = NewEncoder.n + 1
    BY <1>2, <1>3, <1>6, NewEncoderTyped, NewTyped DEF Encoded
  <2>2. EncoderOk'
    <3>1. output'.config => output'.n = 1
      <4>1. CASE NewEncoder.n = 0
        <5>1. output'.n = 1
          BY <2>1, <4>1
        <5>2. QED
          BY <5>1
      <4>2. CASE NewEncoder.n # 0
        <5>1. ~output'.config
          BY <2>1, <4>2, Zenon
        <5>2. QED
          BY <5>1
      <4>3. QED
        BY <4>1, <4>2
    <3>2. QED
      BY <1>1, <2>1, <3>1 DEF EncoderOk
  <2>3. DecoderOk' /\ Queued' /\ InOrder(pipe, conn)' /\ StreamOk'
    <3>1. CASE NewEncoder.n = 0
      <4> DEFINE b == Config(NewEncoder.id, sender.vseq + 1)
      <4>1. Coming = {}
        BY <1>1, <1>3, <3>1 DEF Coming, ComingOf
      <4>2. Coming' = {b}
        BY <1>2, <2>1, <3>1 DEF Coming, ComingOf
      <4>3. VideoSet({b}) /\ IsConfig(b) /\ b.seq = sender.vseq + 1
        <5>1. b \in Message
          BY <1>3, <1>4, MessagesMade
        <5>2. b.k = "config" /\ b.seq = sender.vseq + 1
          BY DEF Config
        <5> HIDE DEF b
        <5>3. QED
          BY <5>1, <5>2 DEF VideoSet, Video, IsConfig
      <4> HIDE DEF b
      <4>4. relay.link # "down" =>
               /\ Stream(Given, Unread, {b}, dec, relay.to.last, relay.to.wait)
               /\ Numbered(Given, Unread, {b}, sender.vseq, relay.to.last)
        BY <1>4, <4>1, <4>3, EncodeKeeps DEF GbOk, StreamOk
      <4>5. relay.link # "down" =>
               /\ Stream(Given, Unread', Coming', dec, relay.to.last, relay.to.wait)
               /\ Numbered(Given, Unread', Coming', sender'.vseq, relay.to.last)
        BY <1>2, <1>4, <4>2, <4>4
      <4>6. InOrder(pipe', conn')
        BY <1>1, <1>4
      <4>7. QED
        BY <1>1, <4>5, <4>6, OnlyHost
    <3>2. CASE NewEncoder.n # 0
      <4>1. enc # None /\ NewEncoder = enc /\ enc.n > 0
        BY <1>2, <1>3, <3>2
      <4>2. Coming' = {FrameOf(enc.id, enc.n + 1, sender.vseq + 1)}
        BY <1>2, <2>1, <3>2, <4>1 DEF Coming, ComingOf
      <4>3. Coming = {FrameOf(enc.id, enc.n + 1, sender.vseq + 1)}
        BY <1>1, <4>1 DEF Coming, ComingOf
      <4>4. QED
        BY <1>1, <1>2, <4>2, <4>3, SameStream
    <3>3. QED
      BY <3>1, <3>2
  <2>4. ConfigComes'
    BY <1>1, <1>3, <1>4, <2>1 DEF GbOk, ConfigComes, Given
  <2>5. QED
    BY <1>5, <2>2, <2>3, <2>4 DEF GbOk
<1>7. CASE enc' = NewEncoder /\ UNCHANGED output
  <2>1. Coming' = Coming
    <3>1. CASE enc = None
      <4>1. Coming = {}
        BY <1>1, <3>1 DEF Coming, ComingOf
      <4>2. ~(NewEncoder.n > 0)
        BY <1>3, <3>1
      <4>3. Coming' = {}
        BY <1>1, <1>7, <4>2 DEF Coming, ComingOf
      <4>4. QED
        BY <4>1, <4>3
    <3>2. CASE enc # None
      BY <1>2, <1>3, <1>7, <3>2 DEF Coming
    <3>3. QED
      BY <3>1, <3>2
  <2>2. DecoderOk' /\ Queued' /\ InOrder(pipe, conn)' /\ StreamOk'
    BY <1>1, <1>2, <2>1, SameStream
  <2>3. EncoderOk'
    BY <1>1, <1>7 DEF EncoderOk
  <2>4. ConfigComes'
    BY <1>1, <1>3, <1>4, <1>7 DEF GbOk, ConfigComes, Given
  <2>5. QED
    BY <1>5, <2>2, <2>3, <2>4 DEF GbOk
<1>8. QED
    BY <1>6, <1>7 DEF WorkerEncodes

\* The Host is told to resume: its configuration is stored again, the encoder is a new one.
LEMMA PrepareResumeKeeps ==
    ASSUME Typed, GbOk, game'.gop = game.gop, sender.up, relay.link # "down", PrepareResume,
           UNCHANGED <<relay, remote, packets, dec, failed>>
    PROVE  GbOk'
<1> DEFINE b == Config(sender.config, sender.vseq + 1)
<1>1. HostTyped /\ LinkTyped /\ sender \in Senders /\ sender.config \in Nat
    BY DEF Typed, HostTyped, Senders
<1>2. /\ worker' = "off" /\ output' = None /\ enc' = None
      /\ sender'.up = sender.up /\ sender'.vseq = sender.vseq + 1
    BY <1>1 DEF PrepareResume, Stopped, Senders
<1>3. /\ VideoSet(Given) /\ VideoSet(Unread) /\ VideoSet(Coming) /\ relay.to.last \in Nat
      /\ sender.vseq \in Nat /\ InOrder(pipe, conn)
    BY SetsOk DEF GbOk
<1>4. PICK s \in Sends(Link, b) : Written(s)
    BY DEF PrepareResume
<1>5. /\ b \in Message /\ Video(b) /\ VideoSet({b}) /\ VideosIn(b) = {b} /\ IsConfig(b)
      /\ b.seq = sender.vseq + 1
  <2>1. b \in Message
    BY <1>1, <1>3, MessagesMade
  <2>2. b.k = "config" /\ b.seq = sender.vseq + 1
    BY DEF Config
  <2> HIDE DEF b
  <2>3. QED
    BY <2>1, <2>2 DEF VideoSet, Video, IsConfig, VideosIn
<1> HIDE DEF b
<1>6. Link.conn = conn /\ Link.pipe = pipe /\ Link = [conn |-> Link.conn, pipe |-> Link.pipe]
    BY DEF Link
<1>7. \/ s.conn = conn /\ s.pipe = pipe
      \/ /\ UnreadIn(s.pipe, s.conn) = Unread \cup {b}
         /\ (\A u \in Unread : Before(u, b)) => InOrder(s.pipe, s.conn)
  <2>1. /\ Link.conn \in Message \cup {None} /\ Link.pipe \in Seq(Message) /\ Len(Link.pipe) <= MaxWire
        /\ InOrder(Link.pipe, Link.conn)
    BY <1>1, <1>3, <1>6 DEF LinkTyped
  <2>2. \/ s.conn = Link.conn /\ s.pipe = Link.pipe /\ ~s.sent /\ Link.conn # None
        \/ /\ UnreadIn(s.pipe, s.conn) = UnreadIn(Link.pipe, Link.conn) \cup VideosIn(b)
           /\ (Video(b) => \A u \in UnreadIn(Link.pipe, Link.conn) : Before(u, b))
                => InOrder(s.pipe, s.conn)
    BY <1>4, <1>5, <1>6, <2>1, SendsInOrder
  <2>3. UnreadIn(Link.pipe, Link.conn) = Unread
    BY <1>6 DEF Unread
  <2>4. QED
    BY <1>5, <1>6, <2>2, <2>3
<1>8. /\ Stream(Given, Unread, Coming, dec, relay.to.last, relay.to.wait)
      /\ Numbered(Given, Unread, Coming, sender.vseq, relay.to.last)
    BY DEF GbOk, StreamOk
<1>9. Unread' = UnreadIn(s.pipe, s.conn) /\ pipe' = s.pipe /\ conn' = s.conn
    BY <1>4 DEF Unread, Written
<1>10. \A u \in Unread : Before(u, b)
  <2>1. PICK V : V = Unread
    OBVIOUS
  <2>2. V = Unread \/ V = Unread \cup {b}
    BY <2>1
  <2>3. /\ Stream(Given, V, {}, dec, relay.to.last, relay.to.wait)
        /\ Numbered(Given, V, {}, sender.vseq + 1, relay.to.last)
        /\ \A u \in Unread : Before(u, b)
    BY <1>3, <1>5, <1>8, <2>2, ResumeKeeps
  <2>4. QED
    BY <2>3
<1>11. (Unread' = Unread \/ Unread' = Unread \cup {b}) /\ InOrder(pipe', conn')
  <2>1. UnreadIn(pipe, conn) = Unread
    BY DEF Unread
  <2>2. QED
    BY <1>3, <1>7, <1>9, <1>10, <2>1
<1>12. Coming' = {}
    BY <1>2 DEF Coming, ComingOf
<1>13. /\ Stream(Given, Unread', {}, dec, relay.to.last, relay.to.wait)
       /\ Numbered(Given, Unread', {}, sender.vseq + 1, relay.to.last)
    BY <1>3, <1>5, <1>8, <1>11, ResumeKeeps
<1>14. DecoderOk' /\ Queued' /\ InOrder(pipe, conn)' /\ StreamOk'
    BY <1>2, <1>11, <1>12, <1>13, OnlyHost
<1>15. LinksOk' /\ EncoderOk' /\ ConfigComes'
    BY <1>2 DEF GbOk, LinksOk, EncoderOk, ConfigComes
<1>16. QED
    BY <1>14, <1>15 DEF GbOk

LEMMA HostStepKeeps ==
    ASSUME Typed, Gb, GbOk, game'.gop = game.gop, HostSteps
    PROVE  GbOk'
<1>1. HostTyped /\ LinkTyped /\ RelayTyped /\ sender \in Senders /\ notes \in Seq({"paused", "resumed"})
    BY DEF Typed, HostTyped, RelayTyped
<1>2. LinksOk /\ EncoderOk /\ ConfigComes
    BY DEF GbOk
<1>3. CASE Submit
  <2>1. UNCHANGED <<relay, notes, remote, packets, dec, failed, pipe, conn, sender, enc, output>>
        /\ sender.up /\ (worker' = worker \/ worker' = "idle")
    BY <1>3 DEF Submit, Sending, remoteVars
  <2>2. DecoderOk' /\ Queued' /\ InOrder(pipe, conn)' /\ StreamOk'
    BY <2>1, SameStream DEF Coming
  <2>3. LinksOk' /\ EncoderOk' /\ ConfigComes'
    BY <1>2, <2>1 DEF LinksOk, EncoderOk, ConfigComes, Given, Unread
  <2>4. QED
    BY <2>2, <2>3 DEF GbOk
<1>4. CASE WorkerTakes
  <2>1. UNCHANGED <<relay, notes, remote, packets, dec, failed, pipe, conn, sender, enc, output>>
        /\ sender.up /\ output = None
    BY <1>2, <1>4 DEF WorkerTakes, LinksOk, remoteVars
  <2>2. DecoderOk' /\ Queued' /\ InOrder(pipe, conn)' /\ StreamOk'
    BY <2>1, SameStream DEF Coming
  <2>3. LinksOk' /\ EncoderOk' /\ ConfigComes'
    BY <1>2, <2>1 DEF LinksOk, EncoderOk, ConfigComes, Given, Unread
  <2>4. QED
    BY <2>2, <2>3 DEF GbOk
<1>5. CASE WorkerEncodes
    BY <1>5, WorkerEncodesKeeps
<1>6. CASE WorkerFails
  <2>1. UNCHANGED <<relay, notes, remote, packets, dec, failed, pipe, conn, enc, output>>
        /\ worker' = "dead" /\ worker = "busy"
        /\ sender'.up = sender.up /\ sender'.vseq = sender.vseq
    BY <1>1, <1>6 DEF WorkerFails, Senders, remoteVars
  <2>2. Coming' = Coming
    BY <2>1 DEF Coming
  <2>3. DecoderOk' /\ Queued' /\ InOrder(pipe, conn)' /\ StreamOk'
    BY <2>1, <2>2, SameStream
  <2>4. LinksOk' /\ EncoderOk' /\ ConfigComes'
    BY <1>2, <2>1 DEF LinksOk, EncoderOk, ConfigComes, Given, Unread
  <2>5. QED
    BY <2>3, <2>4 DEF GbOk
<1>7. CASE HostNotices
    BY <1>2, <1>7, HostLost DEF HostNotices, LinksOk, remoteVars
<1>8. CASE EncoderFailed
    BY <1>8, HostLost DEF EncoderFailed, Closed, remoteVars
<1>9. CASE PumpVideo
    BY <1>9, PumpVideoKeeps
<1>10. ASSUME NEW m \in Message, ~Video(m), NEW s \in Sends(Link, m), Written(s), sender.up,
              UNCHANGED <<enc, worker, output, relay, notes, remote, packets, dec, failed>>,
              sender'.up = sender.up, sender'.vseq = sender.vseq
       PROVE  GbOk'
  <2>1. Coming' = Coming
    BY <1>10 DEF Coming
  <2>2. DecoderOk' /\ Queued' /\ InOrder(pipe, conn)' /\ StreamOk' /\ Unread' = Unread
    BY <1>10, <2>1, OtherSent
  <2>3. LinksOk' /\ EncoderOk' /\ ConfigComes'
    BY <1>2, <1>10, <2>2 DEF LinksOk, EncoderOk, ConfigComes, Given
  <2>4. QED
    BY <2>2, <2>3 DEF GbOk
<1>11. CASE SendAudio
  <2>1. Audio(sender.aseq + 1) \in Message /\ ~Video(Audio(sender.aseq + 1))
    BY <1>1, MessagesMade DEF Senders, Audio, Video
  <2>2. sender'.up = sender.up /\ sender'.vseq = sender.vseq /\ sender.up
    BY <1>1, <1>11 DEF SendAudio, Senders, Sending
  <2>3. QED
    BY <1>10, <1>11, <2>1, <2>2 DEF SendAudio, remoteVars
<1>12. CASE SendPong
  <2>1. Notice("pong") \in Message /\ ~Video(Notice("pong"))
    BY MessagesMade DEF Notice, Video
  <2>2. QED
    BY <1>10, <1>12, <2>1 DEF SendPong, Sending, hostVars, remoteVars
<1>13. CASE SendTerminal
  <2>1. Notice("terminal") \in Message /\ ~Video(Notice("terminal"))
    BY MessagesMade DEF Notice, Video
  <2>2. QED
    BY <1>10, <1>13, <2>1 DEF SendTerminal, Sending, hostVars, remoteVars
<1>14. CASE PumpHost
    BY <1>14 DEF PumpHost
<1>15. CASE HostPauses
  <2>1. UNCHANGED <<relay, remote, packets, dec, failed, pipe, conn, enc, output, worker>>
        /\ notes # <<>> /\ Head(notes) = "paused" /\ notes' = Tail(notes)
        /\ sender'.up = sender.up /\ sender'.vseq = sender.vseq
    BY <1>1, <1>15 DEF HostPauses, Senders, remoteVars
  <2>2. Coming' = Coming
    BY <2>1 DEF Coming
  <2>3. DecoderOk' /\ Queued' /\ InOrder(pipe, conn)' /\ StreamOk'
    BY <2>1, <2>2, SameStream
  <2>4. ASSUME NEW i \in 1..Len(notes), notes[i] = "resumed"
        PROVE  \E j \in 1..Len(notes') : notes'[j] = "resumed"
    <3>1. i # 1
      BY <1>1, <2>1, <2>4
    <3>2. i - 1 \in 1..Len(Tail(notes)) /\ Tail(notes)[i - 1] = notes[i]
      BY <1>1, <2>1, <2>4, <3>1
    <3>3. QED
      BY <2>1, <2>4, <3>2
  <2>5. Given' = Given /\ Unread' = Unread
    BY <2>1 DEF Given, Unread
  <2>6. LinksOk' /\ EncoderOk'
    BY <1>2, <2>1 DEF LinksOk, EncoderOk
  <2>7. ConfigComes'
    BY <1>2, <2>1, <2>4, <2>5 DEF ConfigComes
  <2>8. QED
    BY <2>3, <2>6, <2>7 DEF GbOk
<1>16. CASE HostResumes
  <2>1. CASE HostLoses /\ Closed
    BY <1>16, <2>1, HostLost DEF HostResumes, Closed, remoteVars
  <2>2. CASE PrepareResume /\ UNCHANGED relay
    BY <1>16, <2>2, PrepareResumeKeeps DEF HostResumes, Sending, remoteVars
  <2>3. QED
    BY <1>16, <2>1, <2>2 DEF HostResumes
<1>17. QED
    BY <1>3, <1>4, <1>5, <1>6, <1>7, <1>8, <1>9, <1>11, <1>12, <1>13, <1>14, <1>15, <1>16
    DEF HostSteps

-----------------------------------------------------------------------------
(* The relay's steps *)

\* Steps that leave the Host, and the link, as they are.
LEMMA OnlyRelay ==
    ASSUME Typed, GbOk, game'.gop = game.gop, relay.link = "up", relay'.link = "up",
           relay'.torn = relay.torn, remote'.up = remote.up,
           UNCHANGED <<sender, enc, worker, output, conn, notes, dec, failed>>,
           Queued', InOrder(pipe', conn'),
           Stream(Given', Unread', Coming, dec, relay'.to.last, relay'.to.wait),
           Numbered(Given', Unread', Coming, sender.vseq, relay'.to.last),
           \A m \in Given \cup Unread : IsConfig(m) => \E c \in Given' \cup Unread' : IsConfig(c)
    PROVE  GbOk'
<1>1. Coming' = Coming
    BY DEF Coming
<1>2. LinksOk' /\ EncoderOk' /\ DecoderOk' /\ InOrder(pipe, conn)'
    BY DEF GbOk, LinksOk, EncoderOk, DecoderOk, InOrder
<1>3. ConfigComes'
  <2>1. SUFFICES ASSUME ~relay.torn, dec = None, \A m \in Given' \cup Unread' : ~IsConfig(m)
                 PROVE  \/ enc = None \/ enc.n = 0
                        \/ output # None /\ output.config
                        \/ \E i \in 1..Len(notes) : notes[i] = "resumed"
    BY DEF ConfigComes
  <2>2. \A m \in Given \cup Unread : ~IsConfig(m)
    BY <2>1
  <2>3. QED
    BY <2>1, <2>2 DEF GbOk, ConfigComes
<1>4. Stream(Given, Unread, Coming, dec, relay.to.last, relay.to.wait)'
  <2>1. Stream(Given', Unread', Coming', dec', relay'.to.last, relay'.to.wait)
    BY <1>1
  <2>2. QED
    BY <2>1, StreamLater
<1>5. StreamOk'
  <2>1. Numbered(Given, Unread, Coming, sender.vseq, relay.to.last)'
    BY <1>1
  <2>2. QED
    BY <1>4, <2>1 DEF StreamOk
<1>6. QED
    BY <1>2, <1>3, <1>5 DEF GbOk

\* The relay closes the link.
LEMMA RelayDown ==
    ASSUME Typed, GbOk, game'.gop = game.gop, relay.link # "down", relay'.link = "down",
           relay'.to = NewQueue, UNCHANGED <<sender, enc, worker, output, remote, packets, dec, failed>>,
           InOrder(pipe', conn')
    PROVE  GbOk'
<1>1. LinksOk' /\ EncoderOk' /\ DecoderOk' /\ ConfigComes' /\ InOrder(pipe, conn)'
    BY DEF GbOk, LinksOk, EncoderOk, DecoderOk, ConfigComes, InOrder
<1>2. /\ VideoSet(Videos(packets)) /\ VideoSet(Videos(relay.to.queue)) /\ VideoSet(Unread)
      /\ VideoSet(Coming) /\ relay.to.last \in Nat
    BY SetsOk
<1>3. Queued
    BY DEF GbOk
<1>4. Given' = Videos(packets)
    BY VideosOfNone, NewTyped DEF Given
<1>5. Queued'
    BY <1>3, VideosOfNone, NewTyped DEF Queued
<1>6. Decodables(Videos(packets), Videos(packets), dec)
  <2>1. Stream(Videos(packets) \cup Videos(relay.to.queue), Unread, Coming, dec, relay.to.last,
               relay.to.wait)
    BY DEF GbOk, StreamOk, Given
  <2>2. \A p \in Videos(packets), q \in Videos(relay.to.queue) : p.seq < q.seq
    BY <1>3 DEF Queued
  <2>3. QED
    BY <1>2, <2>1, <2>2, DownKeeps
<1>7. Decodables(Given, Given, dec)'
    BY <1>4, <1>6, StreamLater
<1>8. StreamOk'
    BY <1>7 DEF StreamOk
<1>9. QED
    BY <1>1, <1>5, <1>8 DEF GbOk

\* The Remote has gone, and its Host is kept.
LEMMA RemoteGone ==
    ASSUME Typed, Gb, GbOk, game'.gop = game.gop, relay.link = "up", RemoteLoses, KeepsHost,
           UNCHANGED <<hostVars, conn, pipe>>
    PROVE  GbOk'
<1>1. /\ relay'.link = "held" /\ relay'.to = NewQueue
      /\ UNCHANGED <<sender, enc, worker, output, conn, pipe>>
    BY DEF KeepsHost, hostVars
<1>2. remote'.up = FALSE /\ packets' = <<>> /\ dec' = None /\ failed' = FALSE
    BY DEF RemoteLoses, Typed, RemoteTyped
<1>3. LinksOk' /\ EncoderOk' /\ DecoderOk' /\ ConfigComes'
    BY <1>1, <1>2 DEF GbOk, LinksOk, EncoderOk, DecoderOk, ConfigComes
<1>4. InOrder(pipe, conn)'
    BY <1>1 DEF GbOk, InOrder
<1>5. Given' = {} /\ Unread' = Unread /\ Coming' = Coming
    BY <1>1, <1>2, VideosOfNone, NewTyped DEF Given, Unread, Coming
<1>6. Queued'
  <2>1. packets' = <<>> /\ relay'.to.queue = <<>>
    BY <1>1, <1>2, NewTyped
  <2>2. QED
    BY <2>1, VideosOfNone DEF Queued
<1>7. VideoSet(Given) /\ VideoSet(Unread) /\ VideoSet(Coming) /\ relay.to.last \in Nat
      /\ sender.vseq \in Nat
    BY SetsOk
<1>8. /\ Stream(Given, Unread, Coming, dec, relay.to.last, relay.to.wait)
      /\ Numbered(Given, Unread, Coming, sender.vseq, relay.to.last)
    BY DEF GbOk, StreamOk
<1>9. Stream({}, Unread, Coming, None, 0, FALSE)
    BY <1>7, <1>8, FreshKeeps
<1>10. Numbered({}, Unread, Coming, sender.vseq, 0)
    BY <1>7, <1>8 DEF Numbered
<1>11. Stream(Given, Unread, Coming, dec, relay.to.last, relay.to.wait)'
  <2>1. Stream(Given', Unread', Coming', dec', relay'.to.last, relay'.to.wait)
    BY <1>1, <1>2, <1>5, <1>9, NewTyped
  <2>2. QED
    BY <2>1, StreamLater
<1>12. Numbered(Given, Unread, Coming, sender.vseq, relay.to.last)'
    BY <1>1, <1>5, <1>10, NewTyped
<1>13. StreamOk'
    BY <1>1, <1>11, <1>12 DEF StreamOk
<1>14. QED
    BY <1>3, <1>4, <1>6, <1>13 DEF GbOk

\* What the relay's queue is after a message has been appended.
LEMMA AppendedIs ==
    ASSUME NEW q \in QueueRec, NEW m \in Message
    PROVE  /\ q.wait /\ Delta(m) => Appended(q, m) = q
           /\ q.wait /\ KeyFrame(m) /\ ~Delta(m) =>
                Appended(q, m).queue = Append(Superseded(q).queue, m) /\ ~Appended(q, m).wait
           /\ ~(q.wait /\ Delta(m)) /\ ~(q.wait /\ KeyFrame(m)) =>
                Appended(q, m).queue = Append(q.queue, m) /\ Appended(q, m).wait = q.wait
<1>1. ASSUME NEW b \in QueueRec, NEW s, NEW w
      PROVE  [b EXCEPT !.queue = s, !.wait = w].queue = s /\ [b EXCEPT !.queue = s, !.wait = w].wait = w
    BY QueueMade
<1>2. Superseded(q) \in QueueRec
    BY SupersededTyped
<1>3. q.wait \in BOOLEAN
    BY DEF QueueRec
<1>4. CASE q.wait /\ Delta(m)
    BY <1>4 DEF Appended
<1>5. CASE q.wait /\ KeyFrame(m) /\ ~Delta(m)
  <2> DEFINE b == Superseded(q)
             s == Append(b.queue, m)
             w == b.wait /\ ~KeyFrame(m)
  <2>1. Appended(q, m) = [b EXCEPT !.queue = s, !.wait = w]
    BY <1>5 DEF Appended
  <2>2. ~w
    BY <1>5
  <2> HIDE DEF s, w
  <2>3. Appended(q, m).queue = s /\ Appended(q, m).wait = w
    BY <1>1, <1>2, <2>1
  <2>4. QED
    BY <1>5, <2>2, <2>3 DEF s
<1>6. CASE ~(q.wait /\ Delta(m)) /\ ~(q.wait /\ KeyFrame(m))
  <2> DEFINE s == Append(q.queue, m)
             w == q.wait /\ ~KeyFrame(m)
  <2>1. Appended(q, m) = [q EXCEPT !.queue = s, !.wait = w]
    BY <1>6 DEF Appended
  <2>2. w = q.wait
    BY <1>3, <1>6, Zenon
  <2> HIDE DEF s, w
  <2>3. Appended(q, m).queue = s /\ Appended(q, m).wait = w
    BY <1>1, <2>1
  <2>4. QED
    BY <1>6, <2>2, <2>3 DEF s
<1>7. QED
    BY <1>4, <1>5, <1>6

\* What the relay has queued is pruned.
LEMMA QueuePruned ==
    ASSUME Typed, GbOk, relay.link = "up", NEW aged \in Nat
    PROVE  LET p == Pruned(relay.to, aged)
               G == Videos(packets) \cup Videos(p.queue)
           IN  /\ p \in QueueRec /\ p.last = relay.to.last /\ p.begun = relay.to.begun
               /\ Increasing(p.queue) /\ Videos(p.queue) \subseteq Videos(relay.to.queue)
               /\ Stream(G, Unread, Coming, dec, relay.to.last, p.wait)
               /\ Numbered(G, Unread, Coming, sender.vseq, relay.to.last)
               /\ \A c \in Given : IsConfig(c) => c \in G
<1> DEFINE p == Pruned(relay.to, aged)
           P == Videos(packets)
           Q == Videos(relay.to.queue)
           R == Videos(p.queue)
<1>1. /\ VideoSet(P) /\ VideoSet(Q) /\ VideoSet(Unread) /\ VideoSet(Coming)
      /\ relay.to \in QueueRec /\ relay.to.last \in Nat /\ relay.to.wait \in BOOLEAN
    BY SetsOk
<1>2. Increasing(relay.to.queue) /\ \A a \in P, b \in Q : a.seq < b.seq
    BY DEF GbOk, Queued
<1>3. /\ Stream(P \cup Q, Unread, Coming, dec, relay.to.last, relay.to.wait)
      /\ Numbered(P \cup Q, Unread, Coming, sender.vseq, relay.to.last)
    BY DEF GbOk, StreamOk, Given
<1>4. p \in QueueRec /\ Increasing(p.queue) /\ PrunedOk(relay.to, p) /\ p.wait \in BOOLEAN
    BY <1>1, <1>2, PrunedKeeps DEF QueueRec
<1>5. Given = P \cup Q
    BY DEF Given
<1> HIDE DEF p
<1>6. /\ p.last = relay.to.last /\ p.begun = relay.to.begun /\ R \subseteq Q
      /\ \A m \in Q : ~Delta(m) => m \in R
      /\ \A a \in Q, b \in R : Delta(b) /\ a.seq + 1 = b.seq => a \in R
      /\ relay.to.wait => p.wait
      /\ ~p.wait => \A a \in Q : (\A x \in Q : x.seq <= a.seq) => a \in R
    BY <1>4 DEF PrunedOk
<1> HIDE DEF P, Q, R
<1>7. Stream(P \cup R, Unread, Coming, dec, relay.to.last, p.wait)
  <2>1. CASE p.wait
    <3>1. CASE relay.to.wait
      <4>1. Stream(P \cup Q, Unread, Coming, dec, relay.to.last, TRUE)
        BY <1>1, <1>3, <3>1, Zenon
      <4>2. (TRUE => TRUE) /\ ~(~TRUE)
        OBVIOUS
      <4>3. Stream(P \cup R, Unread, Coming, dec, relay.to.last, TRUE)
        BY <1>1, <1>2, <1>6, <4>1, <4>2, PruneKeeps
      <4>4. QED
        BY <1>4, <2>1, <4>3, Zenon
    <3>2. CASE ~relay.to.wait
      <4>1. Stream(P \cup Q, Unread, Coming, dec, relay.to.last, FALSE)
        BY <1>1, <1>3, <3>2, Zenon
      <4>2. (FALSE => TRUE) /\ ~(~TRUE)
        OBVIOUS
      <4>3. Stream(P \cup R, Unread, Coming, dec, relay.to.last, TRUE)
        BY <1>1, <1>2, <1>6, <4>1, <4>2, PruneKeeps
      <4>4. QED
        BY <1>4, <2>1, <4>3, Zenon
    <3>3. QED
      BY <3>1, <3>2
  <2>2. CASE ~p.wait
    <3>1. Stream(P \cup Q, Unread, Coming, dec, relay.to.last, FALSE)
      BY <1>1, <1>3, <1>6, <2>2, Zenon
    <3>2. \A a \in Q : (\A x \in Q : x.seq <= a.seq) => a \in R
      BY <1>6, <2>2
    <3>3. Stream(P \cup R, Unread, Coming, dec, relay.to.last, FALSE)
      BY <1>1, <1>2, <1>6, <3>1, <3>2, PruneKeeps
    <3>4. QED
      BY <1>4, <2>2, <3>3, Zenon
  <2>3. QED
    BY <2>1, <2>2
<1>8. Numbered(P \cup R, Unread, Coming, sender.vseq, relay.to.last)
    BY <1>3, <1>6 DEF Numbered
<1>9. \A c \in Given : IsConfig(c) => c \in P \cup R
  <2>1. \A c \in Q : IsConfig(c) => ~Delta(c)
    BY <1>1, SetKinds
  <2>2. QED
    BY <1>5, <1>6, <2>1
<1>10. QED
    BY <1>4, <1>6, <1>7, <1>8, <1>9 DEF p, P, R, Q

\* What is true when a video message m has been read, and taken or dropped: q is the queue before it.
ReadOrDropped(P, q, m, V, C, d) ==
    LET a == Appended(q, m)
        G == P \cup Videos(a.queue)
    IN  /\ Stream(G, V, C, d, m.seq, a.wait)
        /\ Increasing(a.queue) /\ \A x \in P, y \in Videos(a.queue) : x.seq < y.seq
        /\ Videos(a.queue) \subseteq Videos(q.queue) \cup {m}
        /\ \A c \in P \cup Videos(q.queue) \cup {m} : IsConfig(c) => \E x \in G : IsConfig(x)

LEMMA VideoAppended ==
    ASSUME NEW P, VideoSet(P), NEW U, VideoSet(U), NEW C, VideoSet(C), NEW q \in QueueRec,
           VideoSet(Videos(q.queue)), Increasing(q.queue),
           \A a \in P, b \in Videos(q.queue) : a.seq < b.seq,
           NEW d, NEW last \in Nat, Stream(P \cup Videos(q.queue), U, C, d, last, q.wait),
           NEW m \in U, last < m.seq, NEW V, Remains(U, m, V), \A c \in C : Before(m, c)
    PROVE  ReadOrDropped(P, q, m, V, C, d)
<1> DEFINE a == Appended(q, m)
           R == Videos(q.queue)
<1>1. /\ m \in Message /\ Video(m) /\ VideosIn(m) = {m} /\ q.wait \in BOOLEAN /\ m.seq \in Nat
      /\ q.queue \in Seq(Message)
      /\ Delta(m) => ~KeyFrame(m) /\ ~IsConfig(m)
      /\ KeyFrame(m) => ~IsConfig(m) /\ ~Delta(m)
    BY VideoKinds DEF VideoSet, VideosIn, QueueRec
<1>2. \A x \in P \cup R : x.seq \in Nat /\ x.seq < m.seq
  <2>1. \A x \in P \cup R : x.seq <= last
    BY DEF Stream, Parted
  <2>2. \A x \in P \cup R : x.seq \in Nat
    BY SetKinds
  <2>3. QED
    BY <1>1, <2>1, <2>2
<1>3. VideoSet(P \cup R)
    BY DEF VideoSet
<1>4. CASE q.wait /\ Delta(m)
  <2>1. a = q
    BY <1>4, AppendedIs, <1>1
  <2>2. Stream(P \cup R, U, C, d, last, TRUE)
    BY <1>1, <1>4, Zenon
  <2>3. Stream(P \cup R, V, C, d, m.seq, TRUE)
    BY <1>3, <1>4, <2>2, DropKeeps
  <2>4. Stream(P \cup R, V, C, d, m.seq, q.wait)
    BY <1>1, <1>4, <2>3, Zenon
  <2>5. QED
    BY <1>1, <1>4, <2>1, <2>4 DEF ReadOrDropped
<1>5. CASE q.wait /\ KeyFrame(m)
  <2> DEFINE s == Superseded(q)
             S == Videos(s.queue)
  <2>1. a.queue = Append(s.queue, m) /\ ~a.wait
    BY <1>1, <1>5, AppendedIs
  <2>2. s \in QueueRec /\ Increasing(s.queue) /\ SupersededOk(q, s)
    BY SupersededKeeps
  <2>3. /\ S \subseteq R
        /\ \A c \in R : IsConfig(c) => \E x \in S : IsConfig(x) /\ c.seq <= x.seq
        /\ \A x \in S : IsConfig(x) \/ \A y \in R : x.seq <= y.seq
    BY <2>2 DEF SupersededOk
  <2>4. Stream(P \cup R, U, C, d, last, TRUE)
    BY <1>1, <1>5, Zenon
  <2> HIDE DEF S, R, s
  <2>5. Stream(P \cup S, U, C, d, last, TRUE)
    BY <1>3, <2>3, <2>4, SupersedeKeeps DEF R
  <2>6. VideoSet(P \cup S)
    BY <1>3, <2>3 DEF VideoSet
  <2>7. ~(TRUE /\ Delta(m)) /\ (FALSE <=> TRUE /\ ~KeyFrame(m))
    BY <1>1, <1>5
  <2>8. Stream((P \cup S) \cup {m}, V, C, d, m.seq, FALSE)
    BY <2>5, <2>6, <2>7, ReadKeeps
  <2>9. s.queue \in Seq(Message)
    BY <2>2 DEF QueueRec
  <2>10. \A x \in S : x.seq < m.seq
    BY <1>2, <2>3
  <2>11. Videos(a.queue) = S \cup {m} /\ Increasing(a.queue)
    BY <1>1, <2>1, <2>2, <2>9, <2>10, VideosAppend DEF S
  <2>12. P \cup Videos(a.queue) = (P \cup S) \cup {m}
    BY <2>11
  <2>13. a.wait = FALSE
    <3>1. a \in QueueRec
      BY <1>1, AppendedTyped
    <3>2. QED
      BY <2>1, <3>1 DEF QueueRec
  <2>14. Stream(P \cup Videos(a.queue), V, C, d, m.seq, a.wait)
    BY <2>8, <2>12, <2>13
  <2>15. \A x \in P, y \in Videos(a.queue) : x.seq < y.seq
    BY <1>2, <2>3, <2>11 DEF R
  <2>16. \A c \in P \cup R \cup {m} : IsConfig(c) => \E x \in P \cup Videos(a.queue) : IsConfig(x)
    BY <1>1, <1>5, <2>3, <2>11
  <2>17. QED
    BY <2>3, <2>11, <2>14, <2>15, <2>16 DEF R, ReadOrDropped
<1>6. CASE ~(q.wait /\ Delta(m)) /\ ~(q.wait /\ KeyFrame(m))
  <2>1. a.queue = Append(q.queue, m) /\ a.wait = q.wait
    BY <1>1, <1>6, AppendedIs
  <2>2. q.wait <=> q.wait /\ ~KeyFrame(m)
    BY <1>6
  <2>3. Stream((P \cup R) \cup {m}, V, C, d, m.seq, q.wait)
    <3> HIDE DEF R
    <3>1. CASE q.wait
      <4>1. Stream(P \cup R, U, C, d, last, TRUE)
        BY <1>1, <3>1, Zenon DEF R
      <4>2. ~Delta(m) /\ ~KeyFrame(m)
        BY <1>6, <3>1
      <4>3. ~(TRUE /\ Delta(m)) /\ (TRUE <=> TRUE /\ ~KeyFrame(m))
        BY <4>2
      <4>4. Stream((P \cup R) \cup {m}, V, C, d, m.seq, TRUE)
        BY <1>3, <4>1, <4>3, ReadKeeps
      <4>5. QED
        BY <1>1, <3>1, <4>4, Zenon
    <3>2. CASE ~q.wait
      <4>1. Stream(P \cup R, U, C, d, last, FALSE)
        BY <1>1, <3>2, Zenon DEF R
      <4>2. ~(FALSE /\ Delta(m)) /\ (FALSE <=> FALSE /\ ~KeyFrame(m))
        OBVIOUS
      <4>3. Stream((P \cup R) \cup {m}, V, C, d, m.seq, FALSE)
        BY <1>3, <4>1, <4>2, ReadKeeps
      <4>4. QED
        BY <1>1, <3>2, <4>3, Zenon
    <3>3. QED
      BY <3>1, <3>2
  <2>4. Videos(a.queue) = R \cup {m} /\ Increasing(a.queue)
    <3>1. Video(m) => \A x \in Videos(q.queue) : x.seq < m.seq
      BY <1>2
    <3>2. QED
      BY <1>1, <2>1, <3>1, VideosAppend
  <2>5. P \cup Videos(a.queue) = (P \cup R) \cup {m}
    BY <2>4
  <2>6. Stream(P \cup Videos(a.queue), V, C, d, m.seq, a.wait)
    BY <2>1, <2>3, <2>5
  <2>7. \A x \in P, y \in Videos(a.queue) : x.seq < y.seq
    BY <1>2, <2>4
  <2>8. QED
    BY <2>4, <2>6, <2>7 DEF ReadOrDropped
<1>7. QED
    BY <1>4, <1>5, <1>6

\* What remains when the relay has read the first message.
LEMMA ReadRemains ==
    ASSUME Typed, GbOk, relay.link = "up", pipe # <<>>, pipe' = Tail(pipe), conn' = conn
    PROVE  LET m == Head(pipe)
           IN  /\ m \in Message /\ InOrder(pipe', conn')
               /\ ~Video(m) => Unread' = Unread
               /\ Video(m) => /\ m \in Unread /\ Remains(Unread, m, Unread')
                              /\ \A c \in Coming : Before(m, c)
                              /\ m.seq <= sender.vseq + 1
<1> DEFINE m == Head(pipe)
<1>1. /\ pipe \in Seq(Message) /\ VideoSet(Unread) /\ VideoSet(Coming) /\ sender.vseq \in Nat
    BY SetsOk
<1>2. Growing(pipe) /\ (Video(conn) => \A x \in Videos(pipe) : Before(x, conn))
    BY DEF GbOk, InOrder
<1>3. /\ m \in Message /\ Videos(pipe) = Videos(Tail(pipe)) \cup VideosIn(m) /\ Growing(Tail(pipe))
      /\ Video(m) => \A x \in Videos(Tail(pipe)) : Before(m, x)
    BY <1>1, <1>2, VideosTail
<1>4. Unread = Videos(pipe) \cup VideosIn(conn) /\ Unread' = Videos(Tail(pipe)) \cup VideosIn(conn)
    BY DEF Unread, UnreadIn
<1> HIDE DEF m
<1>5. InOrder(pipe', conn')
    BY <1>2, <1>3 DEF InOrder
<1>6. CASE ~Video(m)
  <2>1. VideosIn(m) = {}
    BY <1>6 DEF VideosIn
  <2>2. QED
    BY <1>3, <1>4, <1>5, <1>6, <2>1 DEF m
<1>7. CASE Video(m)
  <2>1. VideosIn(m) = {m} /\ \A x \in VideosIn(conn) : x = conn /\ Video(conn)
    BY <1>7 DEF VideosIn
  <2>2. m \in Unread /\ m \in Videos(pipe)
    BY <1>3, <1>4, <2>1
  <2>3. Remains(Unread, m, Unread')
    BY <1>2, <1>3, <1>4, <1>7, <2>1, <2>2 DEF Remains
  <2>4. Numbered(Given, Unread, Coming, sender.vseq, relay.to.last)
    BY DEF GbOk, StreamOk
  <2>5. m.seq \in Nat
    BY <1>1, <2>2, SetKinds
  <2>6. /\ m.seq <= sender.vseq + 1 /\ (m.seq = sender.vseq + 1 => m \in Coming)
        /\ \A c \in Coming : c.seq = sender.vseq + 1
    BY <2>2, <2>4 DEF Numbered
  <2>7. \A c1, c2 \in Coming : c1 = c2
    BY SetsOk
  <2>8. \A c \in Coming : Before(m, c)
    <3>1. CASE m.seq = sender.vseq + 1
      BY <2>6, <2>7, <3>1 DEF Before
    <3>2. CASE m.seq < sender.vseq + 1
      BY <2>6, <3>2 DEF Before
    <3>3. QED
      BY <1>1, <2>5, <2>6, <3>1, <3>2
  <2>9. QED
    BY <1>3, <1>5, <1>7, <2>2, <2>3, <2>6, <2>8 DEF m
<1>8. QED
    BY <1>6, <1>7

LEMMA RelayReadsKeeps ==
    ASSUME Typed, GbOk, game'.gop = game.gop, RelayReads
    PROVE  GbOk'
<1> DEFINE m == Head(pipe)
<1>1. /\ relay.link = "up" /\ pipe # <<>> /\ pipe' = Tail(pipe)
      /\ UNCHANGED <<sender, enc, worker, output, conn, notes, remote, packets, dec, failed>>
    BY DEF RelayReads, hostVars, remoteVars
<1>2. /\ m \in Message /\ InOrder(pipe', conn')
      /\ ~Video(m) => Unread' = Unread
      /\ Video(m) => /\ m \in Unread /\ Remains(Unread, m, Unread')
                     /\ \A c \in Coming : Before(m, c)
                     /\ m.seq <= sender.vseq + 1
    BY <1>1, ReadRemains
<1>3. RelayTyped /\ relay.to \in QueueRec /\ relay.to.last \in Nat /\ dec \in Decoders \cup {None}
      /\ VideoSet(Unread) /\ VideoSet(Coming) /\ VideoSet(Videos(packets)) /\ packets \in Seq(Message)
    BY SetsOk DEF Typed
<1>4. \/ relay'.link = "down" /\ relay'.to = NewQueue
      \/ /\ ~(Video(m) /\ m.seq <= relay.to.last)
         /\ \E aged \in 0..Len(relay.to.queue) :
              relay' = [relay EXCEPT !.to =
                 [Appended(Pruned(relay.to, aged), m) EXCEPT
                    !.last = IF Video(m) THEN m.seq ELSE relay.to.last]]
    BY DEF RelayReads, Closed
<1> HIDE DEF m
<1>5. CASE relay'.link = "down" /\ relay'.to = NewQueue
    BY <1>1, <1>2, <1>5, RelayDown
<1>6. CASE /\ ~(Video(m) /\ m.seq <= relay.to.last)
           /\ \E aged \in 0..Len(relay.to.queue) :
                relay' = [relay EXCEPT !.to =
                   [Appended(Pruned(relay.to, aged), m) EXCEPT
                      !.last = IF Video(m) THEN m.seq ELSE relay.to.last]]
  <2>1. PICK aged \in 0..Len(relay.to.queue) :
                relay' = [relay EXCEPT !.to =
                   [Appended(Pruned(relay.to, aged), m) EXCEPT
                      !.last = IF Video(m) THEN m.seq ELSE relay.to.last]]
    BY <1>6
  <2> DEFINE p == Pruned(relay.to, aged)
             P == Videos(packets)
             R == Videos(p.queue)
             a == Appended(p, m)
             A == Videos(a.queue)
             last == IF Video(m) THEN m.seq ELSE relay.to.last
  <2>2. /\ p \in QueueRec /\ p.last = relay.to.last /\ Increasing(p.queue)
        /\ R \subseteq Videos(relay.to.queue)
        /\ Stream(P \cup R, Unread, Coming, dec, relay.to.last, p.wait)
        /\ Numbered(P \cup R, Unread, Coming, sender.vseq, relay.to.last)
        /\ \A c \in Given : IsConfig(c) => c \in P \cup R
    <3>1. aged \in Nat
      BY <1>3, <2>1 DEF QueueRec
    <3>2. QED
      BY <1>1, <3>1, QueuePruned
  <2>3. a \in QueueRec
    BY <1>2, <2>2, AppendedTyped
  <2>4. relay' = [relay EXCEPT !.to = [a EXCEPT !.last = last]]
    BY <2>1
  <2> HIDE DEF p, a, last
  <2>5. relay'.link = "up" /\ relay'.torn = relay.torn /\ relay'.to = [a EXCEPT !.last = last]
    BY <1>1, <1>3, <2>4 DEF RelayTyped
  <2>6. relay'.to.queue = a.queue /\ relay'.to.wait = a.wait /\ relay'.to.last = last
    BY <2>3, <2>5 DEF QueueRec
  <2>7. \A x \in P, y \in Videos(relay.to.queue) : x.seq < y.seq
    BY DEF GbOk, Queued
  <2>8. Increasing(packets)
    BY DEF GbOk, Queued
  <2>9. Given' = P \cup A
    BY <1>1, <2>6 DEF Given
  <2>10. p.queue \in Seq(Message) /\ p.wait \in BOOLEAN
    BY <2>2 DEF QueueRec
  <2>11. VideoSet(R)
    BY <2>10, VideosOf DEF VideoSet
  <2>12. /\ Stream(P \cup A, Unread', Coming, dec, last, a.wait)
         /\ Numbered(P \cup A, Unread', Coming, sender.vseq, last)
         /\ Increasing(a.queue) /\ \A x \in P, y \in A : x.seq < y.seq
         /\ \A c \in Given \cup Unread : IsConfig(c) => \E x \in (P \cup A) \cup Unread' : IsConfig(x)
    <3>1. CASE Video(m)
      <4>1. last = m.seq
        BY <3>1 DEF last
      <4>2. m.seq \in Nat /\ relay.to.last < m.seq /\ m \in Unread
        <5>1. m \in Unread /\ m.seq \in Nat
          BY <1>2, <1>3, <3>1, SetKinds
        <5>2. ~(m.seq <= relay.to.last)
          BY <1>6, <3>1
        <5>3. QED
          BY <1>3, <5>1, <5>2
      <4>3. \A x \in P, y \in R : x.seq < y.seq
        BY <2>2, <2>7
      <4>4. Remains(Unread, m, Unread') /\ \A c \in Coming : Before(m, c)
        BY <1>2, <3>1
      <4> HIDE DEF P
      <4>5. /\ Stream(P \cup A, Unread', Coming, dec, m.seq, a.wait)
            /\ Increasing(a.queue) /\ \A x \in P, y \in A : x.seq < y.seq
            /\ A \subseteq R \cup {m}
            /\ \A c \in P \cup R \cup {m} : IsConfig(c) => \E x \in P \cup A : IsConfig(x)
        <5>1. VideoSet(P) /\ VideoSet(Unread) /\ VideoSet(Coming) /\ relay.to.last \in Nat
          BY <1>3 DEF P
        <5>2. /\ p \in QueueRec /\ Increasing(p.queue) /\ VideoSet(Videos(p.queue))
              /\ \A x \in P, y \in Videos(p.queue) : x.seq < y.seq
              /\ Stream(P \cup Videos(p.queue), Unread, Coming, dec, relay.to.last, p.wait)
          BY <2>2, <2>11, <4>3
        <5>3. ReadOrDropped(P, p, m, Unread', Coming, dec)
          <6> HIDE DEF R, A
          <6>1. QED
            BY <4>2, <4>4, <5>1, <5>2, VideoAppended
        <5>4. QED
          BY <5>3 DEF a, ReadOrDropped
      <4>6. Unread' \subseteq Unread /\ \A u \in Unread : u \in Unread' \/ u = m
        BY <4>4 DEF Remains
      <4>7. Numbered(P \cup A, Unread', Coming, sender.vseq, m.seq)
        BY <1>2, <2>2, <3>1, <4>2, <4>5, <4>6 DEF Numbered
      <4>8. \A c \in Given \cup Unread : IsConfig(c) => \E x \in (P \cup A) \cup Unread' : IsConfig(x)
        BY <2>2, <4>5, <4>6
      <4>9. QED
        BY <4>1, <4>5, <4>7, <4>8
    <3>2. CASE ~Video(m)
      <4>1. last = relay.to.last /\ Unread' = Unread
        BY <1>2, <3>2 DEF last
      <4>2. ~Delta(m) /\ ~KeyFrame(m)
        BY <1>2, <3>2, MessageKinds
      <4>3. a.queue = Append(p.queue, m) /\ a.wait = p.wait
        BY <1>2, <2>2, <4>2, AppendedIs DEF a
      <4>4. VideosIn(m) = {}
        BY <3>2 DEF VideosIn
      <4>5. A = R /\ Increasing(a.queue)
        <5>1. p.queue \in Seq(Message) /\ m \in Message /\ Increasing(p.queue)
          BY <1>2, <2>2, <2>10
        <5>2. /\ Videos(Append(p.queue, m)) = Videos(p.queue) \cup VideosIn(m)
              /\ Increasing(Append(p.queue, m))
          BY <3>2, <5>1, VideosAppend
        <5>3. QED
          BY <4>3, <4>4, <5>2
      <4>6. QED
        BY <2>2, <2>7, <4>1, <4>3, <4>5
    <3>3. QED
      BY <3>1, <3>2
  <2>13. Queued'
    BY <1>1, <2>6, <2>8, <2>12 DEF Queued
  <2>14. remote'.up = remote.up
    BY <1>1
  <2>15. /\ Stream(Given', Unread', Coming, dec, relay'.to.last, relay'.to.wait)
         /\ Numbered(Given', Unread', Coming, sender.vseq, relay'.to.last)
         /\ \A c \in Given \cup Unread : IsConfig(c) => \E x \in Given' \cup Unread' : IsConfig(x)
    BY <2>6, <2>9, <2>12
  <2> HIDE DEF P, R, A
  <2>16. QED
    BY <1>1, <1>2, <2>5, <2>13, <2>14, <2>15, OnlyRelay
<1>7. QED
    BY <1>4, <1>5, <1>6

LEMMA RelayStepKeeps ==
    ASSUME Typed, Gb, GbOk, game'.gop = game.gop, RelaySteps
    PROVE  GbOk'
<1>1. /\ relay \in [link : {"up", "held", "down"}, to : QueueRec, torn : BOOLEAN, replayed : BOOLEAN]
      /\ notes \in Seq({"paused", "resumed"})
      /\ RemoteTyped /\ relay.to \in QueueRec
      /\ sender \in Senders /\ sender.vseq \in Nat
    BY DEF Typed, RelayTyped, HostTyped, Senders
<1>2. LinksOk /\ EncoderOk /\ DecoderOk /\ Queued /\ InOrder(pipe, conn) /\ StreamOk /\ ConfigComes
    BY DEF GbOk
<1>3. CASE RelayReads
    BY <1>3, RelayReadsKeeps
<1>4. ASSUME NEW q \in QueueRec, relay' = [relay EXCEPT !.to = q], relay.link = "up",
             UNCHANGED <<sender, enc, worker, output, conn, pipe, notes, remote, packets, dec, failed>>,
             Increasing(q.queue), Videos(q.queue) \subseteq Videos(relay.to.queue),
             q.last = relay.to.last,
             Stream(Videos(packets) \cup Videos(q.queue), Unread, Coming, dec, relay.to.last, q.wait),
             Numbered(Videos(packets) \cup Videos(q.queue), Unread, Coming, sender.vseq, relay.to.last),
             \A c \in Given : IsConfig(c) => c \in Videos(packets) \cup Videos(q.queue)
      PROVE  GbOk'
  <2>1. relay'.link = "up" /\ relay'.torn = relay.torn /\ relay'.to = q
    BY <1>1, <1>4
  <2>2. Given' = Videos(packets) \cup Videos(q.queue) /\ Unread' = Unread
    BY <1>4, <2>1 DEF Given, Unread
  <2>3. Queued'
    BY <1>2, <1>4, <2>1 DEF Queued
  <2>4. InOrder(pipe', conn') /\ remote'.up = remote.up
    BY <1>2, <1>4
  <2>5. /\ Stream(Given', Unread', Coming, dec, relay'.to.last, relay'.to.wait)
        /\ Numbered(Given', Unread', Coming, sender.vseq, relay'.to.last)
        /\ \A m \in Given \cup Unread : IsConfig(m) => \E c \in Given' \cup Unread' : IsConfig(c)
    BY <1>4, <2>1, <2>2
  <2>6. QED
    BY <1>4, <2>1, <2>3, <2>4, <2>5, OnlyRelay
<1>5. CASE RelayPrunes
  <2>1. PICK aged \in 1..Len(relay.to.queue) : relay' = [relay EXCEPT !.to = Pruned(relay.to, aged)]
    BY <1>5 DEF RelayPrunes
  <2> DEFINE p == Pruned(relay.to, aged)
  <2>2. aged \in Nat /\ relay.link = "up"
    BY <1>5, <2>1 DEF RelayPrunes
  <2>3. /\ p \in QueueRec /\ p.last = relay.to.last
        /\ Increasing(p.queue) /\ Videos(p.queue) \subseteq Videos(relay.to.queue)
        /\ Stream(Videos(packets) \cup Videos(p.queue), Unread, Coming, dec, relay.to.last, p.wait)
        /\ Numbered(Videos(packets) \cup Videos(p.queue), Unread, Coming, sender.vseq, relay.to.last)
        /\ \A c \in Given : IsConfig(c) => c \in Videos(packets) \cup Videos(p.queue)
    BY <2>2, QueuePruned
  <2>4. relay' = [relay EXCEPT !.to = p]
    BY <2>1
  <2> HIDE DEF p
  <2>5. UNCHANGED <<sender, enc, worker, output, conn, pipe, notes, remote, packets, dec, failed>>
    BY <1>5 DEF RelayPrunes, hostVars, remoteVars
  <2>6. QED
    BY <1>4, <2>2, <2>3, <2>4, <2>5
<1>6. CASE RelayBegins
  <2> DEFINE q == [relay.to EXCEPT !.begun = TRUE]
  <2>1. /\ q \in QueueRec /\ q.queue = relay.to.queue /\ q.last = relay.to.last
        /\ q.wait = relay.to.wait
    BY <1>1 DEF QueueRec
  <2>2. relay' = [relay EXCEPT !.to = q] /\ relay.link = "up"
        /\ UNCHANGED <<sender, enc, worker, output, conn, pipe, notes, remote, packets, dec, failed>>
    BY <1>6 DEF RelayBegins, hostVars, remoteVars
  <2> HIDE DEF q
  <2>3. /\ Increasing(q.queue) /\ Videos(q.queue) \subseteq Videos(relay.to.queue)
        /\ Stream(Videos(packets) \cup Videos(q.queue), Unread, Coming, dec, relay.to.last, q.wait)
        /\ Numbered(Videos(packets) \cup Videos(q.queue), Unread, Coming, sender.vseq, relay.to.last)
        /\ \A c \in Given : IsConfig(c) => c \in Videos(packets) \cup Videos(q.queue)
    BY <1>2, <2>1, <2>2 DEF Queued, StreamOk, Given
  <2>4. QED
    BY <1>4, <2>1, <2>2, <2>3
<1>7. CASE RemoteLeaves
    BY <1>7, RemoteGone DEF RemoteLeaves
<1>8. CASE RemoteNotices
  <2>1. /\ relay.link = "down" /\ packets' = <<>> /\ dec' = None /\ failed' = FALSE
        /\ UNCHANGED <<sender, enc, worker, output, conn, pipe, relay, notes>>
    BY <1>8 DEF RemoteNotices, RemoteLoses, hostVars
  <2>2. relay.to = NewQueue
    BY <1>2, <2>1 DEF LinksOk
  <2>3. LinksOk' /\ EncoderOk' /\ DecoderOk' /\ ConfigComes' /\ InOrder(pipe, conn)'
    BY <1>2, <2>1 DEF LinksOk, EncoderOk, DecoderOk, ConfigComes, InOrder
  <2>4. packets' = <<>> /\ relay'.to.queue = <<>>
    BY <2>1, <2>2, NewTyped
  <2>5. Queued' /\ Given' = {}
    BY <2>4, VideosOfNone DEF Queued, Given
  <2>6. Decodables({}, {}, None)
    BY NothingStreams DEF Stream
  <2>7. Decodables(Given, Given, dec)'
    BY <2>1, <2>5, <2>6, StreamLater
  <2>8. StreamOk'
    BY <2>1, <2>7 DEF StreamOk
  <2>9. QED
    BY <2>3, <2>5, <2>8 DEF GbOk
<1>9. CASE HostLeaves
  <2>1. relay.link # "down" /\ relay'.link = "down" /\ relay'.to = NewQueue
        /\ UNCHANGED <<sender, enc, worker, output, conn, pipe, remote, packets, dec, failed>>
    BY <1>9 DEF HostLeaves, Closed, hostVars, remoteVars
  <2>2. InOrder(pipe', conn')
    BY <1>2, <2>1
  <2>3. QED
    BY <2>1, <2>2, RelayDown
<1>10. CASE Resume
  <2>1. /\ relay.link = "held" /\ ~remote.up /\ remote'.up = TRUE /\ relay.to = NewQueue
        /\ notes' = Append(notes, "resumed")
        /\ UNCHANGED <<sender, enc, worker, output, conn, pipe, packets, dec, failed>>
    BY <1>1, <1>2, <1>10 DEF Resume, LinksOk, RemoteTyped, hostVars
  <2>2. relay'.link = "up" /\ relay'.to = relay.to
    <3>1. relay' = [[relay EXCEPT !.link = "up"] EXCEPT !.to = NewQueue]
      BY <1>10 DEF Resume
    <3>2. /\ [relay EXCEPT !.link = "up"].link = "up"
          /\ [relay EXCEPT !.link = "up"]
                \in [link : {"up", "held", "down"}, to : QueueRec, torn : BOOLEAN, replayed : BOOLEAN]
      BY <1>1
    <3>3. QED
      BY <2>1, <3>1, <3>2
  <2>3. packets = <<>> /\ dec = None
    BY <1>1, <2>1 DEF RemoteTyped
  <2>4. LinksOk' /\ EncoderOk' /\ DecoderOk' /\ Queued' /\ InOrder(pipe, conn)'
    BY <1>2, <2>1, <2>2 DEF LinksOk, EncoderOk, DecoderOk, Queued, InOrder
  <2>5. \E i \in 1..Len(notes') : notes'[i] = "resumed"
    <3>1. Len(notes') = Len(notes) + 1 /\ Len(notes) \in Nat /\ notes'[Len(notes) + 1] = "resumed"
      BY <1>1, <2>1
    <3>2. QED
      BY <3>1
  <2>6. ConfigComes'
    BY <2>5 DEF ConfigComes
  <2>7. Given' = Given /\ Unread' = Unread /\ Coming' = Coming
    BY <2>1, <2>2 DEF Given, Unread, Coming
  <2>8. /\ Stream(Given, Unread, Coming, dec, relay.to.last, relay.to.wait)
        /\ Numbered(Given, Unread, Coming, sender.vseq, relay.to.last)
    BY <1>2, <2>1 DEF StreamOk
  <2>9. Stream(Given', Unread', Coming', dec', relay'.to.last, relay'.to.wait)
    BY <2>1, <2>2, <2>7, <2>8
  <2>10. Stream(Given, Unread, Coming, dec, relay.to.last, relay.to.wait)'
    BY <2>9, StreamLater
  <2>11. Numbered(Given, Unread, Coming, sender.vseq, relay.to.last)'
    BY <2>1, <2>2, <2>7, <2>8
  <2>12. StreamOk'
    BY <2>2, <2>10, <2>11 DEF StreamOk
  <2>13. QED
    BY <2>4, <2>6, <2>12 DEF GbOk
<1>11. CASE Pair
  <2>1. /\ relay'.link = "up" /\ relay'.to = NewQueue /\ ~remote.up /\ ~sender.up
        /\ UNCHANGED <<enc, worker, output, conn, pipe, packets, dec, failed>>
    BY <1>11 DEF Pair
  <2>2. enc = None /\ output = None /\ worker = "off" /\ conn = None /\ pipe = <<>>
        /\ packets = <<>> /\ dec = None
    BY <1>1, <1>2, <2>1 DEF LinksOk, RemoteTyped
  <2>3. sender'.up = TRUE /\ sender'.vseq \in Nat /\ remote'.up = TRUE
    BY <1>1, <1>11 DEF Pair, Senders, RemoteTyped
  <2>4. LinksOk' /\ EncoderOk' /\ DecoderOk' /\ ConfigComes' /\ InOrder(pipe, conn)'
    BY <1>2, <2>1, <2>2, <2>3 DEF LinksOk, EncoderOk, DecoderOk, ConfigComes, InOrder
  <2>5. packets' = <<>> /\ relay'.to.queue = <<>> /\ pipe' = <<>> /\ conn' = None
    BY <2>1, <2>2, NewTyped
  <2>6. VideosIn(None) = {}
    BY MessageKinds DEF VideosIn
  <2>7. Queued' /\ Given' = {} /\ Unread' = {} /\ Coming' = {}
    BY <2>1, <2>2, <2>5, <2>6, VideosOfNone DEF Queued, Given, Unread, UnreadIn, Coming, ComingOf
  <2>8. Stream(Given', Unread', Coming', dec', relay'.to.last, relay'.to.wait)
    BY <2>1, <2>2, <2>7, NothingStreams, NewTyped
  <2>9. Stream(Given, Unread, Coming, dec, relay.to.last, relay.to.wait)'
    BY <2>8, StreamLater
  <2>10. Numbered(Given, Unread, Coming, sender.vseq, relay.to.last)'
    BY <2>1, <2>3, <2>7, NothingStreams, NewTyped
  <2>11. StreamOk'
    BY <2>1, <2>9, <2>10 DEF StreamOk
  <2>12. QED
    BY <2>4, <2>7, <2>11 DEF GbOk
<1>12. QED
    BY <1>3, <1>5, <1>6, <1>7, <1>8, <1>9, <1>10, <1>11 DEF RelaySteps

-----------------------------------------------------------------------------
(* The Remote's steps *)

LEMMA RemoteReceivesKeeps ==
    ASSUME Typed, GbOk, game'.gop = game.gop, RemoteReceives
    PROVE  GbOk'
<1> DEFINE q == relay.to.queue
           m == Head(q)
<1>1. /\ relay.link = "up" /\ q # <<>>
      /\ relay' = [relay EXCEPT !.to.queue = Tail(q), !.to.begun = FALSE]
      /\ packets' = IF Video(m) THEN Append(packets, m) ELSE packets
      /\ UNCHANGED <<sender, enc, worker, output, conn, pipe, notes, dec, failed>>
    BY DEF RemoteReceives, HasMessage, Receives, Enqueued, hostVars
<1>2. remote'.up = remote.up
  <2>1. /\ remote' = [remote EXCEPT !.pc = PhaseAfter(m),
                                    !.slot = IF m.k \in Notices THEN m.k ELSE remote.slot]
    BY DEF RemoteReceives, Receives
  <2>2. QED
    BY <2>1 DEF Typed, RemoteTyped
<1>3. /\ relay \in [link : {"up", "held", "down"}, to : QueueRec, torn : BOOLEAN, replayed : BOOLEAN]
      /\ relay.to \in QueueRec /\ q \in Seq(Message) /\ packets \in Seq(Message)
    BY SetsOk DEF Typed, RelayTyped
<1>4. Increasing(packets) /\ Increasing(q) /\ \A a \in Videos(packets), b \in Videos(q) : a.seq < b.seq
    BY DEF GbOk, Queued
<1>5. /\ relay'.link = "up" /\ relay'.torn = relay.torn /\ relay'.to.queue = Tail(q)
      /\ relay'.to.last = relay.to.last /\ relay'.to.wait = relay.to.wait
    BY <1>1, <1>3 DEF QueueRec
<1>6. /\ m \in Message /\ Videos(q) = Videos(Tail(q)) \cup VideosIn(m) /\ Increasing(Tail(q))
      /\ Video(m) => \A x \in Videos(Tail(q)) : m.seq < x.seq
    BY <1>1, <1>3, <1>4, VideosTail
<1> HIDE DEF m
<1>7. Queued' /\ Videos(packets') \cup Videos(Tail(q)) = Videos(packets) \cup Videos(q)
  <2>1. CASE Video(m)
    <3>1. VideosIn(m) = {m} /\ packets' = Append(packets, m)
      BY <1>1, <2>1 DEF VideosIn
    <3>2. \A x \in Videos(packets) : x.seq < m.seq
      BY <1>4, <1>6, <3>1
    <3>3. Videos(packets') = Videos(packets) \cup {m} /\ Increasing(packets')
      <4>1. /\ Videos(Append(packets, m)) = Videos(packets) \cup VideosIn(m)
            /\ Increasing(Append(packets, m))
        BY <1>3, <1>4, <1>6, <3>2, VideosAppend
      <4>2. QED
        BY <3>1, <4>1
    <3>4. \A a \in Videos(packets'), b \in Videos(Tail(q)) : a.seq < b.seq
      BY <1>4, <1>6, <2>1, <3>3
    <3>5. QED
      BY <1>5, <1>6, <3>1, <3>3, <3>4 DEF Queued
  <2>2. CASE ~Video(m)
    <3>1. VideosIn(m) = {} /\ packets' = packets
      BY <1>1, <2>2 DEF VideosIn
    <3>2. QED
      BY <1>4, <1>5, <1>6, <3>1 DEF Queued
  <2>3. QED
    BY <2>1, <2>2
<1>8. Given' = Given /\ Unread' = Unread
    BY <1>1, <1>5, <1>7 DEF Given, Unread
<1>9. /\ Stream(Given', Unread', Coming, dec, relay'.to.last, relay'.to.wait)
      /\ Numbered(Given', Unread', Coming, sender.vseq, relay'.to.last)
      /\ \A x \in Given \cup Unread : IsConfig(x) => \E c \in Given' \cup Unread' : IsConfig(c)
    BY <1>1, <1>5, <1>8 DEF GbOk, StreamOk
<1>10. InOrder(pipe', conn')
    BY <1>1 DEF GbOk
<1>11. QED
    BY <1>1, <1>2, <1>5, <1>7, <1>9, <1>10, OnlyRelay

\* What a decoder makes of a frame it can decode.
LEMMA DecodesDecodable ==
    ASSUME GameTyped, NEW d \in Decoders, NEW f, Decodable(d, f), NEW e \in Decodes(d, f)
    PROVE  e = Decoded(d, f) /\ e # None /\ ~e.broken
<1>1. e = Decoded(d, f)
    BY DEF GameTyped, Decodes, OpenH264Decode, VideoToolboxDecode, MediaFoundationDecode
<1>2. Decoded(d, f).k = "decoder" /\ Decoded(d, f).broken = ~Decodable(d, f)
    BY DEF Decoded, Decoders
<1>3. e # None
    BY <1>1, <1>2 DEF None
<1>4. ~e.broken
    BY <1>1, <1>2, Zenon
<1>5. QED
    BY <1>1, <1>3, <1>4

LEMMA DecodeNextKeeps ==
    ASSUME Typed, GbOk, game'.gop = game.gop, DecodeNext
    PROVE  GbOk'
<1> DEFINE m == Head(packets)
           T == Tail(packets)
           Q == Videos(relay.to.queue)
           G == Videos(T) \cup Q
<1>1. /\ packets # <<>> /\ ~failed
      /\ UNCHANGED <<sender, enc, worker, output, conn, pipe, relay, notes, remote>>
      /\ \/ m.k = "config" /\ dec' = NewDecoder(m.enc) /\ packets' = T /\ failed' = FALSE
         \/ m.k = "frame" /\ dec = None /\ dec' = dec /\ packets' = T /\ failed' = FALSE
         \/ /\ m.k = "frame" /\ dec # None
            /\ dec' \in Decodes(dec, m)
            /\ failed' = (dec' = None)
            /\ packets' = IF failed' THEN <<>> ELSE T
    BY DEF DecodeNext, hostVars
<1>2. /\ VideoSet(Given) /\ VideoSet(Unread) /\ VideoSet(Coming) /\ VideoSet(Videos(packets)) /\ VideoSet(Q)
      /\ packets \in Seq(Message) /\ dec \in Decoders \cup {None} /\ relay.to.last \in Nat
      /\ GameTyped
    BY SetsOk DEF Typed
<1>3. /\ Increasing(packets) /\ Increasing(relay.to.queue)
      /\ \A a \in Videos(packets), b \in Q : a.seq < b.seq
    BY DEF GbOk, Queued
<1>4. /\ m \in Message /\ Videos(packets) = Videos(T) \cup VideosIn(m) /\ Increasing(T)
      /\ Video(m) => \A x \in Videos(T) : m.seq < x.seq
    BY <1>1, <1>2, <1>3, VideosTail
<1> HIDE DEF m, T, Q
<1>5. Video(m) /\ (IsConfig(m) <=> m.k = "config") /\ (m.k = "frame" <=> ~IsConfig(m))
    BY <1>1 DEF Video, IsConfig
<1>6. VideosIn(m) = {m} /\ Given = Videos(packets) \cup Q
    BY <1>5 DEF VideosIn, Given, Q
<1>7. /\ m \in Given /\ (\A x \in G : m.seq < x.seq) /\ m \notin G /\ Given = G \cup {m}
  <2>1. m \in Videos(packets) /\ Given = G \cup {m}
    BY <1>4, <1>6
  <2>2. \A x \in G : m.seq < x.seq
    BY <1>3, <1>4, <1>5, <2>1
  <2>3. m.seq \in Nat
    BY <1>4, <1>5, VideoKinds
  <2>4. QED
    BY <2>1, <2>2, <2>3
<1> HIDE DEF G
<1>8. G = Given \ {m} /\ \A x \in Given : x # m => m.seq < x.seq
    BY <1>7
<1>9. ~IsConfig(m) /\ dec # None => Decodable(dec, m)
  <2>1. CASE relay.link = "down"
    <3>1. PICK R : R = {}
      OBVIOUS
    <3>2. Decodables(Given, Given \cup R, dec)
      <4>1. Given \cup R = Given
        BY <3>1
      <4>2. QED
        BY <2>1, <4>1 DEF GbOk, StreamOk
    <3>3. VideoSet(R) /\ \A h \in Given, u \in R : Before(h, u)
      BY <3>1 DEF VideoSet
    <3>4. /\ IsConfig(m) => Decodables(Given \ {m}, (Given \ {m}) \cup R, NewDecoder(m.enc))
          /\ ~IsConfig(m) /\ dec = None => Decodables(Given \ {m}, (Given \ {m}) \cup R, None)
          /\ ~IsConfig(m) /\ dec # None =>
                Decodable(dec, m) /\ Decodables(Given \ {m}, (Given \ {m}) \cup R, Decoded(dec, m))
      BY <1>2, <1>7, <1>8, <3>2, <3>3, DecodeKeeps
    <3>5. QED
      BY <3>4
  <2>2. CASE relay.link # "down"
    <3>1. Stream(Given, Unread, Coming, dec, relay.to.last, relay.to.wait)
      BY <2>2 DEF GbOk, StreamOk
    <3>2. SUFFICES ASSUME ~IsConfig(m), dec # None PROVE Decodable(dec, m)
      OBVIOUS
    <3>3. PICK e : e = Decoded(dec, m)
      OBVIOUS
    <3>4. /\ Stream(Given \ {m}, Unread, Coming, e, relay.to.last, relay.to.wait)
          /\ ~IsConfig(m) /\ dec # None => Decodable(dec, m)
      BY <1>2, <1>7, <1>8, <3>1, <3>2, <3>3, DecodeStreams
    <3>5. QED
      BY <3>2, <3>4
  <2>3. QED
    BY <2>1, <2>2
<1>10. /\ failed' = FALSE /\ packets' = T /\ (dec' # None => ~dec'.broken)
       /\ \/ IsConfig(m) /\ dec' = NewDecoder(m.enc) /\ dec' # None
          \/ ~IsConfig(m) /\ dec = None /\ dec' = None
          \/ ~IsConfig(m) /\ dec # None /\ dec' = Decoded(dec, m) /\ dec' # None
  <2>1. CASE m.k = "config" /\ dec' = NewDecoder(m.enc) /\ packets' = T /\ failed' = FALSE
    BY <1>5, <2>1 DEF NewDecoder, None
  <2>2. CASE m.k = "frame" /\ dec = None /\ dec' = dec /\ packets' = T /\ failed' = FALSE
    BY <1>5, <2>2
  <2>3. CASE /\ m.k = "frame" /\ dec # None
             /\ dec' \in Decodes(dec, m)
             /\ failed' = (dec' = None)
             /\ packets' = IF failed' THEN <<>> ELSE T
    <3>1. dec' = Decoded(dec, m) /\ dec' # None /\ ~dec'.broken
      BY <1>2, <1>5, <1>9, <2>3, DecodesDecodable
    <3>2. QED
      BY <1>5, <2>3, <3>1
  <2>4. QED
    BY <1>1, <2>1, <2>2, <2>3
<1>11. Given' = G /\ Unread' = Unread /\ Coming' = Coming
    BY <1>1, <1>10 DEF Given, Unread, Coming, G, Q
<1>12. LinksOk' /\ EncoderOk' /\ DecoderOk' /\ InOrder(pipe, conn)'
    BY <1>1, <1>10 DEF GbOk, LinksOk, EncoderOk, DecoderOk, InOrder
<1>13. Queued'
    BY <1>1, <1>3, <1>4, <1>10 DEF Queued, Q
<1>14. ConfigComes'
  <2>1. SUFFICES ASSUME relay.link = "up", ~relay.torn, dec' = None,
                        \A x \in Given' \cup Unread' : ~IsConfig(x)
                 PROVE  \/ enc = None \/ enc.n = 0
                        \/ output # None /\ output.config
                        \/ \E i \in 1..Len(notes) : notes[i] = "resumed"
    BY <1>1 DEF ConfigComes
  <2>2. ~IsConfig(m) /\ dec = None
    BY <1>10, <2>1
  <2>3. \A x \in Given \cup Unread : ~IsConfig(x)
    BY <1>7, <1>11, <2>1, <2>2
  <2>4. QED
    BY <2>1, <2>2, <2>3 DEF GbOk, ConfigComes
<1>15. StreamOk'
  <2>1. CASE relay.link = "down"
    <3>1. Decodables(Given, Given \cup {}, dec) /\ VideoSet({})
      BY <2>1 DEF GbOk, StreamOk, VideoSet
    <3>2. \A h \in Given, u \in {} : Before(h, u)
      OBVIOUS
    <3>3. /\ IsConfig(m) => Decodables(Given \ {m}, (Given \ {m}) \cup {}, NewDecoder(m.enc))
          /\ ~IsConfig(m) /\ dec = None => Decodables(Given \ {m}, (Given \ {m}) \cup {}, None)
          /\ ~IsConfig(m) /\ dec # None => Decodables(Given \ {m}, (Given \ {m}) \cup {}, Decoded(dec, m))
      BY <1>2, <1>7, <1>8, <3>1, <3>2, DecodeKeeps
    <3>4. G \cup {} = G
      OBVIOUS
    <3>5. Decodables(G, G, dec')
      BY <1>8, <1>10, <3>3, <3>4
    <3>6. Decodables(Given, Given, dec)'
      BY <1>11, <3>5, StreamLater
    <3>7. QED
      BY <1>1, <2>1, <3>6 DEF StreamOk
  <2>2. CASE relay.link # "down"
    <3>1. /\ Stream(Given, Unread, Coming, dec, relay.to.last, relay.to.wait)
          /\ Numbered(Given, Unread, Coming, sender.vseq, relay.to.last)
      BY <2>2 DEF GbOk, StreamOk
    <3>2. PICK e : e = dec'
      OBVIOUS
    <3>3. \/ IsConfig(m) /\ e = NewDecoder(m.enc)
          \/ ~IsConfig(m) /\ dec = None /\ e = None
          \/ ~IsConfig(m) /\ dec # None /\ e = Decoded(dec, m)
      BY <1>10, <3>2
    <3>4. Stream(Given \ {m}, Unread, Coming, e, relay.to.last, relay.to.wait)
      BY <1>2, <1>7, <1>8, <3>1, <3>3, DecodeStreams
    <3>5. Stream(Given', Unread', Coming', dec', relay'.to.last, relay'.to.wait)
      BY <1>1, <1>8, <1>11, <3>2, <3>4
    <3>6. Stream(Given, Unread, Coming, dec, relay.to.last, relay.to.wait)'
      BY <3>5, StreamLater
    <3>7. Numbered(Given, Unread, Coming, sender.vseq, relay.to.last)'
      BY <1>1, <1>8, <1>11, <3>1 DEF Numbered
    <3>8. QED
      BY <1>1, <2>2, <3>6, <3>7 DEF StreamOk
  <2>3. QED
    BY <2>1, <2>2
<1>16. QED
    BY <1>12, <1>13, <1>14, <1>15 DEF GbOk

LEMMA RemoteStepKeeps ==
    ASSUME Typed, Gb, GbOk, game'.gop = game.gop, RemoteSteps
    PROVE  GbOk'
<1>1. ASSUME UNCHANGED <<sender, enc, worker, output, conn, pipe, relay, notes, packets, dec, failed>>,
             remote'.up = remote.up
      PROVE  GbOk'
  <2>1. Coming' = Coming /\ sender'.vseq = sender.vseq
    BY <1>1 DEF Coming
  <2>2. DecoderOk' /\ Queued' /\ InOrder(pipe, conn)' /\ StreamOk'
    BY <1>1, <2>1, SameStream
  <2>3. LinksOk' /\ EncoderOk' /\ ConfigComes'
    BY <1>1 DEF GbOk, LinksOk, EncoderOk, ConfigComes, Given, Unread
  <2>4. QED
    BY <2>2, <2>3 DEF GbOk
<1>2. CASE RemoteFails
  <2>1. ~failed
    BY DEF GbOk, DecoderOk
  <2>2. relay.link = "up"
    BY <1>2, <2>1 DEF RemoteFails, CannotTake, HasMessage
  <2>3. QED
    BY <1>2, <2>2, RemoteGone DEF RemoteFails
<1>3. CASE RemoteReceives
    BY <1>3, RemoteReceivesKeeps
<1>4. CASE RemotePlays
    BY <1>1, <1>4 DEF RemotePlays, hostVars, Typed, RemoteTyped
<1>5. CASE RemoteShows
  <2>1. remote' = [remote EXCEPT !.pc = "pump", !.slot = "none",
                                 !.over = remote.over \/ remote.slot = "terminal"]
        /\ UNCHANGED <<sender, enc, worker, output, conn, pipe, relay, notes, packets, dec, failed>>
    BY <1>5 DEF RemoteShows, hostVars
  <2>2. remote'.up = remote.up
    BY <2>1 DEF Typed, RemoteTyped
  <2>3. QED
    BY <1>1, <2>1, <2>2
<1>6. CASE DecodeNext
    BY <1>6, DecodeNextKeeps
<1>7. QED
    BY <1>2, <1>3, <1>4, <1>5, <1>6 DEF RemoteSteps

-----------------------------------------------------------------------------
(* The theorems *)

LEMMA StreamBegins ==
    ASSUME Init
    PROVE  GbOk
<1>1. /\ sender.up = TRUE /\ sender.vseq = 0 /\ enc = None /\ output = None /\ worker = "off"
      /\ conn = None /\ pipe = <<>> /\ relay.link = "up" /\ relay.to = NewQueue /\ remote.up = TRUE
      /\ packets = <<>> /\ dec = None /\ failed = FALSE
    BY DEF Init
<1>2. relay.to.queue = <<>> /\ relay.to.last = 0 /\ relay.to.wait = FALSE
    BY <1>1, NewTyped
<1>3. VideosIn(None) = {} /\ ~Video(None)
    BY MessageKinds DEF VideosIn
<1>4. Given = {} /\ Unread = {} /\ Coming = {}
    BY <1>1, <1>2, <1>3, VideosOfNone DEF Given, Unread, UnreadIn, Coming, ComingOf
<1>5. LinksOk /\ EncoderOk /\ DecoderOk /\ ConfigComes
    BY <1>1 DEF LinksOk, EncoderOk, DecoderOk, ConfigComes
<1>6. Queued /\ InOrder(pipe, conn)
    BY <1>1, <1>2, <1>3, VideosOfNone DEF Queued, InOrder
<1>7. StreamOk
    BY <1>1, <1>2, <1>4, NothingStreams DEF StreamOk
<1>8. QED
    BY <1>5, <1>6, <1>7 DEF GbOk

LEMMA StreamIsKept ==
    ASSUME Typed, Gb => GbOk, [Next]_vars
    PROVE  Gb' => GbOk'
<1>1. game'.gop = game.gop /\ game'.path = game.path
    BY GameKept
<1>2. SUFFICES ASSUME Gb PROVE GbOk'
    BY <1>1 DEF Gb
<1>3. GbOk
    BY <1>2
<1>4. CASE HostSteps
    BY <1>1, <1>2, <1>3, <1>4, HostStepKeeps
<1>5. CASE RelaySteps
    BY <1>1, <1>2, <1>3, <1>5, RelayStepKeeps
<1>6. CASE RemoteSteps
    BY <1>1, <1>2, <1>3, <1>6, RemoteStepKeeps
<1>7. CASE UNCHANGED vars
  <2>1. UNCHANGED <<sender, enc, worker, output, conn, pipe, relay, notes, remote, packets, dec, failed>>
    BY <1>7 DEF vars, hostVars, remoteVars
  <2>2. Coming' = Coming /\ sender'.vseq = sender.vseq
    BY <2>1 DEF Coming
  <2>3. DecoderOk' /\ Queued' /\ InOrder(pipe, conn)' /\ StreamOk'
    BY <1>1, <1>3, <2>1, <2>2, SameStream
  <2>4. LinksOk' /\ EncoderOk' /\ ConfigComes'
    BY <1>3, <2>1 DEF GbOk, LinksOk, EncoderOk, ConfigComes, Given, Unread
  <2>5. QED
    BY <2>3, <2>4 DEF GbOk
<1>8. QED
    BY <1>4, <1>5, <1>6, <1>7 DEF Next, HostSteps, RelaySteps, RemoteSteps

LEMMA AlwaysStreams == Spec => [](Typed /\ (Gb => GbOk))
<1>1. Init => (Gb => GbOk)
    BY StreamBegins
<1>2. Typed /\ (Gb => GbOk) /\ [Next]_vars => (Gb => GbOk)'
    BY StreamIsKept DEF Gb
<1>3. QED
    BY <1>1, <1>2, AlwaysTyped, PTL DEF Spec

\* Every buffer within its bound, nothing left behind in the jitter buffer, and a Game Boy Remote's
\* decoder given only frames it can decode: for every game, queue, buffer and number of connections
\* cut (host_encode_worker_main, MediaForwardQueue, decode_worker_main, integral_audio_jitter_push).
THEOREM TheStreamIsWhole == Spec => []StreamIsWhole
<1>1. Typed /\ (Gb => GbOk) => StreamIsWhole
    BY TypedIsTypeOK DEF StreamIsWhole, PictureIsWhole, GbOk, DecoderOk
<1>2. QED
    BY <1>1, AlwaysStreams, PTL

LEMMA ConfigIsSeen ==
    ASSUME Typed, Gb => GbOk
    PROVE  ConfigIsOnItsWay
<1> DEFINE ofConfig(m) == m.k = "config"
           onItsWay == \/ ofConfig(conn) \/ \E i \in 1..Len(pipe) : ofConfig(pipe[i])
                       \/ \E i \in 1..Len(relay.to.queue) : ofConfig(relay.to.queue[i])
                       \/ \E i \in 1..Len(packets) : ofConfig(packets[i])
<1>1. SUFFICES ASSUME Gb, relay.link = "up", ~relay.torn, dec = None, ~onItsWay
               PROVE  \/ enc = None \/ enc.n = 0
                      \/ output # None /\ output.config
                      \/ \E i \in 1..Len(notes) : notes[i] = "resumed"
    BY DEF ConfigIsOnItsWay
<1>2. /\ packets \in Seq(Message) /\ relay.to.queue \in Seq(Message) /\ pipe \in Seq(Message)
    BY SetsOk
<1>3. ASSUME NEW s \in Seq(Message), \A i \in 1..Len(s) : ~ofConfig(s[i])
      PROVE  \A m \in Videos(s) : ~IsConfig(m)
    BY <1>3, VideosOf DEF IsConfig
<1>4. \A m \in Given \cup Unread : ~IsConfig(m)
    BY <1>1, <1>2, <1>3 DEF Given, Unread, UnreadIn, VideosIn, IsConfig
<1>5. QED
    BY <1>1, <1>4 DEF GbOk, ConfigComes

\* A Game Boy Remote without a decoder is given one: a configuration is on its way, or comes with the
\* next frame, or the Host has yet to be told to resume (prepare_video_resume, pump_host_video_output).
THEOREM AConfigurationComes == Spec => []ConfigIsOnItsWay
    BY AlwaysStreams, ConfigIsSeen, PTL
=============================================================================
