---------------------------- MODULE ClientConfig ----------------------------
(* What the client keeps on the player's disk: its config files             *)
(* (c_client/client_config.c), every save of which reads the file and       *)
(* writes it whole, and the remembered login with its password in the       *)
(* system's credential store (client_account.c, credential_store.c, the     *)
(* login screen of client_app.c).                                           *)
(*                                                                          *)
(* The base file has the login and the window; the user's own file, which   *)
(* is taken after the login, the rest. There is one user name (a bound); a  *)
(* credential is of a server and the user. A section is a value.            *)
EXTENDS Integers, Sequences, FiniteSets

CONSTANTS
    Servers,      \* URLs of servers
    Passwords,    \* passwords: positive numbers
    NoKeys,       \* the keys section of a file that has none
    StoredKeys,   \* that of a file that was there before
    MaxDelay,     \* most ticks of the infrared release delay (256)
    MaxFaults,    \* calls that fail (a bound)
    MaxChanges    \* passwords changed from elsewhere and saves of other sections, together (a bound)

VARIABLES
    cfg,      \* the config files
    store,    \* the credential store: the user's password of each server
    accounts, \* the user's account on each server
    form,     \* LoginState, and the screen
    accepted, \* history: the password that the server took last from this client
    spent     \* faults, changes and saves so far

configVars == <<cfg, store, accounts, form, accepted, spent>>

NoServer == ""
NoPassword == 0
Sections == {"login", "local", "window", "keys", "slots", "sgb"}
Missing == [there |-> FALSE]

ASSUME ConfigAssumption ==
    /\ NoServer \notin Servers /\ NoPassword \notin Passwords
    /\ MaxDelay \in Nat /\ MaxFaults \in Nat /\ MaxChanges \in Nat

-----------------------------------------------------------------------------
(* The config file                                                          *)

\* What is read of a file that is not there, or of a section that it has not.
Defaults ==
    [login |-> [server |-> NoServer, remember |-> FALSE, named |-> FALSE],
     local |-> [selected |-> 0, delay |-> 0], window |-> 0, keys |-> NoKeys,
     slots |-> 0, sgb |-> 1]

\* A file that cannot be opened is read as one that is not there: the callers drop the error.
load_config_file(f, fails) == IF f.there /\ ~fails THEN f.is ELSE Defaults
Contents(f) == load_config_file(f, FALSE)

\* The calls of a save that can fail: the file is read, opened once more for the Super Game
\* Boy, and written.
SaveFails == {"read", "sgb", "config"}

integral_config_sgb_enabled(f, bad) == load_config_file(f, "sgb" \in bad).sgb

\* What a save puts beside the section that it is of.
Kept(f, bad) ==
    [load_config_file(f, "read" \in bad) EXCEPT !.sgb = integral_config_sgb_enabled(f, bad)]

\* The name of the user is written only for a login that is remembered. The file is
\* written beside the old one and takes its place (replace_file), or stays as it was.
save_config_file(c) ==
    [there |-> TRUE,
     is |-> [c EXCEPT !.login.named = c.login.named /\ c.login.remember]]

integral_config_save_login(f, v, bad) == save_config_file([Kept(f, bad) EXCEPT !.login = v])
integral_config_save_local(f, v, bad) == save_config_file([Kept(f, bad) EXCEPT !.local = v])
integral_config_save_window(f, v, bad) == save_config_file([Kept(f, bad) EXCEPT !.window = v])

\* Mutant of integral_config_save_keys: the ROM slots are not read before they are written.
SaveKeysForgetsSlots(f, v, bad) ==
    save_config_file([Kept(f, bad) EXCEPT !.keys = v, !.slots = Defaults.slots])

integral_config_save_keys(f, v, bad) == save_config_file([Kept(f, bad) EXCEPT !.keys = v])

integral_config_save_rom_slots(f, v, bad) == save_config_file([Kept(f, bad) EXCEPT !.slots = v])
integral_config_save_sgb(f, v, bad) == save_config_file([Kept(f, bad) EXCEPT !.sgb = v])

ConfigInit ==
    /\ LET old == [login |-> Defaults.login, local |-> Defaults.local, window |-> 1,
                   keys |-> StoredKeys, slots |-> 1, sgb |-> 0] IN
       \E f \in {Missing, [there |-> TRUE, is |-> old]} : cfg = [base |-> f, user |-> f]
    /\ store = [s \in Servers |-> NoPassword]
    /\ accounts = [s \in Servers |-> [pass |-> CHOOSE p \in Passwords : TRUE, must |-> FALSE]]
    /\ form = [server |-> NoServer, named |-> FALSE, pass |-> NoPassword, remember |-> FALSE,
               at |-> "login"]
    /\ accepted = NoPassword
    /\ spent = [faults |-> 0, changes |-> 0, saves |-> 0]

\* Of the calls of a step the ones in bad fail.
Spend(bad) ==
    /\ spent.faults + Cardinality(bad) <= MaxFaults
    /\ spent' = [spent EXCEPT !.faults = @ + Cardinality(bad)]

-----------------------------------------------------------------------------
(* The login                                                                *)

\* The client starts (app_state_init, load_login_config): a remembered password is taken
\* from the store, and the login counts as remembered only if that worked.
load_login_config ==
    /\ \E bad \in SUBSET {"read", "load"} :
         LET l == load_config_file(cfg["base"], "read" \in bad).login
             loaded == /\ l.remember /\ l.named /\ l.server # NoServer /\ "load" \notin bad
                       /\ store[l.server] # NoPassword
         IN  /\ Spend(bad)
             /\ form' = [server |-> l.server, named |-> l.named, remember |-> loaded,
                         pass |-> IF loaded THEN store[l.server] ELSE NoPassword, at |-> "login"]
    /\ UNCHANGED <<cfg, store, accounts, accepted>>

\* save_login_form_config of the form.
FormSection(w) == [server |-> w.server, remember |-> w.remember, named |-> w.named /\ w.remember]
SaveForm(w, bad) ==
    cfg' = IF "config" \in bad THEN cfg
           ELSE [cfg EXCEPT !["base"] = integral_config_save_login(@, FormSection(w), bad)]

\* The user name and the password are typed.
handle_text_input ==
    /\ form.at = "login"
    /\ \E p \in Passwords : form' = [form EXCEPT !.named = TRUE, !.pass = p]
    /\ UNCHANGED <<cfg, store, accounts, accepted, spent>>

\* Another server: the form is saved at once.
EditServer ==
    /\ form.at = "login"
    /\ \E s \in Servers \ {form.server}, bad \in SUBSET SaveFails :
         /\ Spend(bad)
         /\ form' = [form EXCEPT !.server = s]
         /\ SaveForm(form', bad)
    /\ UNCHANGED <<store, accounts, accepted>>

\* handle_login_key, remembering switched: the credential of the server and the user in the
\* form goes first, and if it cannot be deleted the login stays remembered.
ToggleRemember ==
    /\ form.at = "login"
    /\ \E bad \in SUBSET (SaveFails \cup {"delete"}) :
         LET deletes == form.remember /\ form.server # NoServer /\ form.named
             stays == "delete" \in bad
         IN  /\ stays => deletes /\ bad = {"delete"}
             /\ Spend(bad)
             /\ form' = IF stays THEN form ELSE [form EXCEPT !.remember = ~@]
             /\ store' = IF deletes /\ ~stays THEN [store EXCEPT ![form.server] = NoPassword]
                         ELSE store
             /\ IF stays THEN UNCHANGED cfg ELSE SaveForm(form', bad)
    /\ UNCHANGED <<accounts, accepted>>

\* Mutant of StaysRemembered: whether the password was stored is not looked at.
RemembersAnyway(keep, bad) == keep

\* save_authenticated_login: a login is remembered if its password could be stored.
StaysRemembered(keep, bad) == keep /\ "store" \notin bad

\* submit_login, authenticate_login and save_authenticated_login: a login that the server
\* takes. One that must change its password is not remembered and its credential goes; one
\* whose password cannot be stored is not remembered.
submit_login ==
    /\ form.at = "login" /\ form.server # NoServer /\ form.named
    /\ LET account == accounts[form.server]
           keep == form.remember /\ ~account.must
       IN  /\ form.pass = account.pass
           /\ \E bad \in SUBSET (SaveFails \cup {"store", "delete"}) :
                /\ "store" \in bad => keep
                /\ "delete" \in bad => account.must
                /\ Spend(bad)
                /\ store' = [store EXCEPT ![form.server] =
                               IF keep /\ "store" \notin bad THEN form.pass
                               ELSE IF account.must /\ "delete" \notin bad THEN NoPassword ELSE @]
                /\ SaveForm([form EXCEPT !.remember = StaysRemembered(keep, bad)], bad)
                /\ form' = [form EXCEPT !.remember = StaysRemembered(@, bad),
                                        !.at = IF account.must THEN "change" ELSE "menu"]
    /\ accepted' = form.pass
    /\ UNCHANGED accounts

\* change_account_password: the server has the new password; if its answer is lost the
\* player stays where he is. The file is saved only when the password was stored.
change_account_password ==
    /\ form.at = "change"
    /\ \E p \in Passwords :
         /\ accounts' = [accounts EXCEPT ![form.server] = [pass |-> p, must |-> FALSE]]
         /\ \/ UNCHANGED <<cfg, store, form, accepted, spent>>
            \/ \E bad \in (SUBSET SaveFails) \cup {{"store"}} :
                 /\ bad # {} => form.remember
                 /\ Spend(bad)
                 /\ store' = IF form.remember /\ "store" \notin bad
                             THEN [store EXCEPT ![form.server] = p] ELSE store
                 /\ IF form.remember /\ "store" \notin bad THEN SaveForm(form, bad) ELSE UNCHANGED cfg
                 /\ form' = [form EXCEPT !.pass = IF form.remember THEN p ELSE @, !.at = "menu"]
                 /\ accepted' = p

\* The password is changed from elsewhere, by the player or by an administrator, after
\* whom it must be changed again.
ChangedElsewhere ==
    /\ spent.changes + spent.saves < MaxChanges
    /\ \E s \in Servers, p \in Passwords, must \in BOOLEAN :
           accounts' = [accounts EXCEPT ![s] = [pass |-> p, must |-> must]]
    /\ spent' = [spent EXCEPT !.changes = @ + 1]
    /\ UNCHANGED <<cfg, store, form, accepted>>

-----------------------------------------------------------------------------
(* The other sections                                                       *)

\* A section of a file is saved, unless it cannot be written.
SaveOther(f, saved, bad) ==
    /\ spent.changes + spent.saves < MaxChanges
    /\ spent.faults + Cardinality(bad) <= MaxFaults
    /\ spent' = [spent EXCEPT !.faults = @ + Cardinality(bad), !.saves = @ + 1]
    /\ cfg' = IF "config" \in bad THEN cfg ELSE [cfg EXCEPT ![f] = saved]
    /\ UNCHANGED <<store, accounts, form, accepted>>

User == Contents(cfg["user"])

\* The local section as the caller reads it, which can fail too, before it saves the half that
\* it changes.
integral_config_load_local(bad) == load_config_file(cfg["user"], "own" \in bad).local

\* integral_rom_cycle_gb and clear_local_slot: the selection in memory, and the delay of
\* the file.
SelectRom ==
    /\ form.at = "menu"
    /\ \E v \in {0, 1}, bad \in SUBSET (SaveFails \cup {"own"}) :
         LET local == [integral_config_load_local(bad) EXCEPT !.selected = v] IN
         SaveOther("user", integral_config_save_local(cfg["user"], local, bad), bad)

\* The delay of the options screen, one up or down from what the screen was opened with or
\* has saved, and the selection of the file.
adjust_ir_release_delay_option ==
    /\ form.at = "menu"
    /\ \E v \in 0..MaxDelay, bad \in SUBSET (SaveFails \cup {"own"}) :
         LET local == [integral_config_load_local(bad) EXCEPT !.delay = v] IN
         SaveOther("user", integral_config_save_local(cfg["user"], local, bad), bad)

\* As the options screen has it: what it was opened with or has saved, switched.
toggle_sgb_option ==
    /\ form.at = "menu"
    /\ \E v \in {0, 1}, bad \in SUBSET {"read", "config"} :
         SaveOther("user", integral_config_save_sgb(cfg["user"], v, bad), bad)

SaveRomSlots ==
    /\ form.at = "menu"
    /\ \E v \in {0, 1}, bad \in SUBSET SaveFails :
         SaveOther("user", integral_config_save_rom_slots(cfg["user"], v, bad), bad)

\* The size of the window, whatever the screen.
SaveWindow ==
    \E v \in {0, 1}, bad \in SUBSET SaveFails :
        SaveOther("base", integral_config_save_window(cfg["base"], v, bad), bad)

LoginNext ==
    \/ load_login_config \/ handle_text_input \/ EditServer \/ ToggleRemember
    \/ submit_login \/ change_account_password \/ ChangedElsewhere
    \/ SelectRom \/ adjust_ir_release_delay_option \/ toggle_sgb_option \/ SaveRomSlots
    \/ SaveWindow

LoginSpec == ConfigInit /\ [][LoginNext]_configVars

-----------------------------------------------------------------------------
\* A save of one section leaves what was in every other, in a file that was there and in
\* one that was not, and each half of the local section the other: the save_ functions of
\* client_config.c read what they do not save. They do not look whether they could: where a
\* call fails the other sections may be lost, but to nothing else than their defaults.
SectionsAreKept ==
    [][\A f \in {"base", "user"} :
         LET was == Contents(cfg[f])
             now == Contents(cfg'[f])
             changed == {s \in Sections : now[s] # was[s]}
         IN  /\ Cardinality({s \in changed : now[s] # Defaults[s]}) <= 1
             /\ spent'.faults = spent.faults =>
                  /\ Cardinality(changed) <= 1
                  /\ now.local.selected # was.local.selected =>
                         now.local.delay = was.local.delay]_cfg

\* A player who is in is remembered, if the file says so, with the password that the
\* server took from him: whatever was stored before, changed from elsewhere or demanded
\* to be changed, when of the calls that read, store, delete and save one fails
\* (save_authenticated_login, change_account_password).
RememberedIsTrue ==
    LET l == Contents(cfg["base"]).login IN
    form.at = "menu" /\ l.remember /\ l.named /\ l.server = form.server =>
        store[l.server] \in {NoPassword, accepted}
=============================================================================
