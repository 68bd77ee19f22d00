----------------------------- MODULE SaveCommit -----------------------------
(***************************************************************************)
(* The save commit journal of the server (sqlite_assets.py and the         *)
(* save_upload_requests, save_records and save_locks tables behind it),    *)
(* for one SAV.  Handler threads carry an upload from the HTTP request to  *)
(* the answer; each database transaction, each file read and each file     *)
(* replacement is a step of its own, and a fault may end a handler between *)
(* any two of them.  A process crash is a fault of every busy handler:     *)
(* nothing else is volatile.  Bytes stand for their SHA-256.               *)
(***************************************************************************)
EXTENDS Naturals, Sequences, FiniteSets

CONSTANTS
    Workers,            \* handler threads of the HTTP server
    Routes,             \* ways of writing the SAV that are in use
    ClientKeys,         \* request ids chosen by clients
    Bodies,             \* SAV contents
    InitialBody,        \* contents of the SAV at revision 1
    BackupGenerations,  \* backups kept by _prune_backups
    FreshBodies,        \* TRUE: no upload repeats the bytes of an earlier revision
    MaxRevision,        \* bound: no request expects MaxRevision or more
    MaxFence,           \* bound: game sessions started on the SAV
    MaxLogins,          \* bound: times the user logs in
    MaxFaults           \* bound: handlers lost to an exception or a crash

ASSUME SaveCommitAssumption ==
    /\ Routes \subseteq {"UPLOAD", "SINGLE", "ADMIN", "PAIR"}
    /\ InitialBody \in Bodies
    /\ BackupGenerations \in Nat \ {0}
    /\ FreshBodies \in BOOLEAN
    /\ MaxRevision \in Nat \ {0}
    /\ MaxFence \in Nat
    /\ MaxLogins \in Nat \ {0}
    /\ MaxFaults \in Nat

VARIABLES
    record,      \* the save_records row: [rev, sha]
    journal,     \* save_upload_requests: request key -> row
    file,        \* bytes of current.sav
    candidates,  \* request keys whose save_upload_candidates file exists
    backups,     \* revision -> bytes of backup_<revision>.sav
    login,       \* the user's current auth session
    game,        \* the user's game session lock that binds the SAV: [mode, token, login]
    fence,       \* last fencing token issued
    lock,        \* the save_locks row: [owner, live], owner 0 when there is none
    worker,      \* what each handler thread is doing
    faults,      \* handlers lost so far
    versions,    \* history: the bytes of every revision the metadata has had
    answers      \* history: the success answers sent to requesters

vars == <<record, journal, file, candidates, backups, login, game, fence, lock,
          worker, faults, versions, answers>>

durable == <<record, journal, file, candidates, backups>>
sessions == <<login, game, fence, lock>>

Revisions == 1..MaxRevision
Logins == 1..MaxLogins
NoGame == [mode |-> "NONE", token |-> 0, login |-> 0]

\* Who a request speaks for; all of it is part of the identity a PREPARED
\* request must repeat.  UNLOCKED carries the auth session, LOCAL the fencing
\* token of the game session, PAIR the owner of the save lock.
Authority == [mode : {"UNLOCKED", "LOCAL", "SINGLE", "ADMIN", "PAIR"},
              token : 0..(MaxFence + MaxLogins)]
Single == [mode |-> "SINGLE", token |-> 0]
Admin == [mode |-> "ADMIN", token |-> 0]

\* Server-made request ids spell out who writes what on which revision.
DerivedKeys == [auth : Authority, exp : Revisions, body : Bodies]
DerivedKey(a, e, b) == [auth |-> a, exp |-> e, body |-> b]
Keys == ClientKeys \cup DerivedKeys

Row == [state : {"PREPARED", "COMMITTED"}, exp : Revisions, base : Bodies,
        body : Bodies, auth : Authority]

Idle == [pc |-> "idle"]
WorkSteps == {"waiting", "hash", "prepare", "inspect", "backup", "stage",
              "replace", "commit", "prune"}
Work == [pc : WorkSteps, key : Keys, exp : Revisions, body : Bodies,
         auth : Authority, base : Bodies]
AdminWork == [pc : {"admin"}, body : Bodies]

Holds(t, k) == worker[t].pc \notin {"idle", "admin", "waiting"} /\ worker[t].key = k
Goto(t, step) == worker' = [worker EXCEPT ![t].pc = step]
Finish(t) == worker' = [worker EXCEPT ![t] = Idle]
Prepared(k) == k \in DOMAIN journal /\ journal[k].state = "PREPARED"
SameLock(a) == lock.live /\ lock.owner = a.token

Extend(f, k, v) == [x \in DOMAIN f \cup {k} |-> IF x = k THEN v ELSE f[x]]

Init ==
    /\ record = [rev |-> 1, sha |-> InitialBody]
    /\ journal = [k \in {} |-> 0]
    /\ file = InitialBody
    /\ candidates = {}
    /\ backups = [n \in {} |-> InitialBody]
    /\ login = 1
    /\ game = NoGame
    /\ fence = 0
    /\ lock = [owner |-> 0, live |-> FALSE]
    /\ worker = [t \in Workers |-> Idle]
    /\ faults = 0
    /\ versions = <<InitialBody>>
    /\ answers = {}

-----------------------------------------------------------------------------
(* Game sessions and the save lock, as far as an upload can tell. *)

LogIn ==
    /\ login < MaxLogins
    /\ login' = login + 1
    /\ UNCHANGED <<durable, game, fence, lock, worker, faults, versions, answers>>

StartGame(mode) ==
    /\ game.mode = "NONE"
    /\ fence < MaxFence
    /\ fence' = fence + 1
    /\ game' = [mode |-> mode, token |-> fence + 1, login |-> login]
    /\ UNCHANGED <<durable, login, lock, worker, faults, versions, answers>>

\* Stopped, released with its run, or its lease ran out.
EndGame ==
    /\ game.mode # "NONE"
    /\ game' = NoGame
    /\ UNCHANGED <<durable, login, fence, lock, worker, faults, versions, answers>>

\* A link session locks the SAV under its own id; an expired lock is removed first.
LockSave ==
    /\ game.mode = "LINK"
    /\ lock.live => lock.owner = game.token
    /\ lock' = [owner |-> game.token, live |-> TRUE]
    /\ UNCHANGED <<durable, login, game, fence, worker, faults, versions, answers>>

LeaseExpires ==
    /\ lock.live
    /\ lock' = [lock EXCEPT !.live = FALSE]
    /\ UNCHANGED <<durable, login, game, fence, worker, faults, versions, answers>>

UnlockSave ==
    /\ lock.owner # 0
    /\ lock' = [owner |-> 0, live |-> FALSE]
    /\ UNCHANGED <<durable, login, game, fence, worker, faults, versions, answers>>

-----------------------------------------------------------------------------
(* Arrival of a request: what the route checks before the commit service. *)

\* The bodies a request may carry on revision e.
NewBodies == IF FreshBodies THEN Bodies \ {versions[n] : n \in DOMAIN versions}
                            ELSE Bodies

Enqueue(t, k, e, b, a) ==
    /\ e < MaxRevision
    /\ worker' = [worker EXCEPT ![t] =
         [pc |-> "waiting", key |-> k, exp |-> e, body |-> b, auth |-> a, base |-> b]]
    /\ UNCHANGED <<durable, sessions, faults, versions, answers>>

\* authorize_normal_save_upload: a live game session that binds the SAV lends its
\* fence to its own auth session, and without one the upload is unlocked.
MayUpload == game.mode = "NONE" \/ (game.mode = "LOCAL" /\ game.login = login)
UploadAuthority ==
    IF game.mode = "NONE" THEN [mode |-> "UNLOCKED", token |-> login]
                          ELSE [mode |-> "LOCAL", token |-> game.token]

\* PUT /saves/{id} with a request id, first sent or sent again.
Upload(t, k, e, b) ==
    /\ worker[t] = Idle
    /\ MayUpload
    /\ e <= record.rev
    /\ b \in NewBodies \/ k \in DOMAIN journal
    /\ Enqueue(t, k, e, b, UploadAuthority)

\* PUT /saves/{id} without one: the server makes the id from the request.
UploadUnkeyed(t, e, b) ==
    /\ worker[t] = Idle
    /\ MayUpload
    /\ e <= record.rev
    /\ b \in NewBodies
    /\ Enqueue(t, DerivedKey(Single, e, b), e, b, Single)

\* POST /admin/saves/{id}/replace drops whatever lock is left, then reads the
\* revision it will replace.
AdminUnlock(t, b) ==
    /\ worker[t] = Idle
    /\ game.mode = "NONE"
    /\ b \in NewBodies
    /\ lock' = [owner |-> 0, live |-> FALSE]
    /\ worker' = [worker EXCEPT ![t] = [pc |-> "admin", body |-> b]]
    /\ UNCHANGED <<durable, login, game, fence, faults, versions, answers>>

AdminReplace(t) ==
    LET b == worker[t].body IN
    /\ worker[t].pc = "admin"
    /\ IF record.rev < MaxRevision
       THEN Enqueue(t, DerivedKey(Admin, record.rev, b), record.rev, b, Admin)
       ELSE Finish(t) /\ UNCHANGED <<durable, sessions, faults, versions, answers>>

\* commit_locked: the pair commit of the link session that owns the lock.
PairCommit(t, e, b) ==
    LET a == [mode |-> "PAIR", token |-> lock.owner] IN
    /\ worker[t] = Idle
    /\ lock.live
    /\ record.rev = e
    /\ b \in NewBodies
    /\ Enqueue(t, DerivedKey(a, e, b), e, b, a)

-----------------------------------------------------------------------------
(* SaveCommitService.commit, under the lock of its request key. *)

\* Mutant: a reused request id is recognised by its revision alone.
SameRevision(row, w) == row.exp = w.exp

SameRequest(row, w) == row.exp = w.exp /\ row.body = w.body

Answer(t, rev, sha, replay) ==
    answers' = answers \cup
        {[key |-> worker[t].key, exp |-> worker[t].exp, body |-> worker[t].body,
          rev |-> rev, sha |-> sha, replay |-> replay]}

\* Mutant: the receipt is built from the row as it is now.
ReceiptOfCurrentRow(row) == [rev |-> record.rev + 1, sha |-> record.sha]

\* A COMMITTED journal row answers for itself, whoever asks with the same payload.
CommittedReceipt(row) == [rev |-> row.exp + 1, sha |-> row.body]

ReadJournal(t) ==
    LET w == worker[t] IN
    /\ w.pc = "waiting"
    /\ \A u \in Workers : ~Holds(u, w.key)
    /\ IF w.key \notin DOMAIN journal
       THEN /\ IF record.rev = w.exp
               THEN worker' = [worker EXCEPT ![t] = [@ EXCEPT !.pc = "hash", !.base = record.sha]]
               ELSE Finish(t)
            /\ UNCHANGED answers
       ELSE LET row == journal[w.key]
                receipt == CommittedReceipt(row) IN
            CASE row.state = "COMMITTED" /\ SameRequest(row, w) ->
                   Finish(t) /\ Answer(t, receipt.rev, receipt.sha, TRUE)
              [] row.state = "PREPARED" /\ SameRequest(row, w) /\ row.auth = w.auth ->
                   /\ worker' = [worker EXCEPT ![t] = [@ EXCEPT !.pc = "inspect", !.base = row.base]]
                   /\ UNCHANGED answers
              [] OTHER -> Finish(t) /\ UNCHANGED answers
    /\ UNCHANGED <<durable, sessions, faults, versions>>

HashFile(t) ==
    /\ worker[t].pc = "hash"
    /\ IF file = worker[t].base THEN Goto(t, "prepare") ELSE Finish(t)
    /\ UNCHANGED <<durable, sessions, faults, versions, answers>>

\* prepare_save_upload's guards: revision and bytes as read, and the save lock.
MayPrepare(w) ==
    /\ record = [rev |-> w.exp, sha |-> w.base]
    /\ IF w.auth.mode = "PAIR" THEN SameLock(w.auth) ELSE ~lock.live

PrepareUpload(t) ==
    LET w == worker[t] IN
    /\ w.pc = "prepare"
    /\ IF MayPrepare(w)
       THEN /\ journal' = Extend(journal, w.key,
                 [state |-> "PREPARED", exp |-> w.exp, base |-> w.base,
                  body |-> w.body, auth |-> w.auth])
            /\ Goto(t, "inspect")
       ELSE Finish(t) /\ UNCHANGED journal
    /\ UNCHANGED <<record, file, candidates, backups, sessions, faults, versions, answers>>

-----------------------------------------------------------------------------
(* _finish_prepared: backup, candidate, atomic replace, metadata. *)

ValidBackup(e, base) == e \in DOMAIN backups /\ backups[e] = base

\* Mutant: whatever is on disk is replaced.
InspectNothing(t) ==
    /\ worker[t].pc = "inspect"
    /\ Goto(t, IF file = worker[t].body THEN "commit" ELSE "backup")
    /\ UNCHANGED <<durable, sessions, faults, versions, answers>>

\* Mutant: a file that was already replaced is taken for a conflict.
InspectBaseOnly(t) ==
    /\ worker[t].pc = "inspect"
    /\ IF file = worker[t].base THEN Goto(t, "backup") ELSE Finish(t)
    /\ UNCHANGED <<durable, sessions, faults, versions, answers>>

Inspect(t) ==
    LET w == worker[t] IN
    /\ w.pc = "inspect"
    /\ CASE file = w.base -> Goto(t, "backup")
         [] file # w.base /\ file = w.body /\ ValidBackup(w.exp, w.base) -> Goto(t, "commit")
         [] OTHER -> Finish(t)
    /\ UNCHANGED <<durable, sessions, faults, versions, answers>>

\* Mutant: the new bytes are backed up, not the old ones.
BackupOfCandidate(t) ==
    /\ worker[t].pc = "backup"
    /\ backups' = Extend(backups, worker[t].exp, worker[t].body)
    /\ Goto(t, "stage")
    /\ UNCHANGED <<record, journal, file, candidates, sessions, faults, versions, answers>>

\* The backup is a fresh read of the file, not the bytes that were hashed.
WriteBackup(t) ==
    LET w == worker[t] IN
    /\ w.pc = "backup"
    /\ IF w.exp \notin DOMAIN backups
       THEN backups' = Extend(backups, w.exp, file) /\ Goto(t, "stage")
       ELSE /\ IF ValidBackup(w.exp, w.base) THEN Goto(t, "stage") ELSE Finish(t)
            /\ UNCHANGED backups
    /\ UNCHANGED <<record, journal, file, candidates, sessions, faults, versions, answers>>

WriteCandidate(t) ==
    /\ worker[t].pc = "stage"
    /\ candidates' = candidates \cup {worker[t].key}
    /\ Goto(t, "replace")
    /\ UNCHANGED <<record, journal, file, backups, sessions, faults, versions, answers>>

ReplaceFile(t) ==
    /\ worker[t].pc = "replace"
    /\ file' = worker[t].body
    /\ candidates' = candidates \ {worker[t].key}
    /\ Goto(t, "commit")
    /\ UNCHANGED <<record, journal, backups, sessions, faults, versions, answers>>

\* commit_prepared_save_upload: already there, advance by one, or conflict.
Applied(row) == record = [rev |-> row.exp + 1, sha |-> row.body]

\* Mutant: the metadata update does not compare the revision it replaces.
ApplicableToAny(row) == record.rev < MaxRevision

\* Mutant: it compares the bytes, but not the revision.
ApplicableToBytes(row) == record.rev < MaxRevision /\ record.sha = row.base

Applicable(row) == record = [rev |-> row.exp, sha |-> row.base]

CommitMetadata(t) ==
    LET w == worker[t]
        row == journal[w.key]
        advance == row.state = "PREPARED" /\ ~Applied(row) /\ Applicable(row) IN
    /\ w.pc = "commit"
    /\ IF row.state = "COMMITTED" \/ Applied(row) \/ advance
       THEN /\ journal' = [journal EXCEPT ![w.key].state = "COMMITTED"]
            /\ record' = IF advance THEN [rev |-> record.rev + 1, sha |-> row.body]
                                    ELSE record
            /\ versions' = IF advance THEN Append(versions, row.body) ELSE versions
            /\ Goto(t, "prune")
       ELSE Finish(t) /\ UNCHANGED <<journal, record, versions>>
    /\ UNCHANGED <<file, candidates, backups, sessions, faults, answers>>

\* _prune_backups keeps the newest generations; the answer carries the row as it
\* now is.
Newest == {n \in DOMAIN backups :
             Cardinality({m \in DOMAIN backups : m > n}) < BackupGenerations}

PruneAndAnswer(t) ==
    /\ worker[t].pc = "prune"
    /\ backups' = [n \in Newest |-> backups[n]]
    /\ Answer(t, record.rev, record.sha, FALSE)
    /\ Finish(t)
    /\ UNCHANGED <<record, journal, file, candidates, sessions, faults, versions>>

\* An exception or the end of the process: the key's lock goes with the handler.
Fault(t) ==
    /\ worker[t] # Idle
    /\ faults < MaxFaults
    /\ faults' = faults + 1
    /\ Finish(t)
    /\ UNCHANGED <<durable, sessions, versions, answers>>

-----------------------------------------------------------------------------
Arrive(t) ==
    \E e \in Revisions, b \in Bodies :
        \/ "UPLOAD" \in Routes /\ \E k \in ClientKeys : Upload(t, k, e, b)
        \/ "SINGLE" \in Routes /\ UploadUnkeyed(t, e, b)
        \/ "ADMIN" \in Routes /\ e = record.rev /\ AdminUnlock(t, b)
        \/ "PAIR" \in Routes /\ PairCommit(t, e, b)

Serve(t) ==
    \/ AdminReplace(t)
    \/ ReadJournal(t)
    \/ HashFile(t)
    \/ PrepareUpload(t)
    \/ Inspect(t)
    \/ WriteBackup(t)
    \/ WriteCandidate(t)
    \/ ReplaceFile(t)
    \/ CommitMetadata(t)
    \/ PruneAndAnswer(t)

SessionStep ==
    \/ LogIn
    \/ \E mode \in {"LOCAL", "LINK"} : StartGame(mode)
    \/ EndGame
    \/ LockSave
    \/ LeaseExpires
    \/ UnlockSave

Next == SessionStep \/ \E t \in Workers : Arrive(t) \/ Serve(t) \/ Fault(t)

Spec == Init /\ [][Next]_vars

\* A handler that started runs on; a client sends a request that is still
\* PREPARED again until it is answered.
Resend(k) ==
    /\ Prepared(k)
    /\ \E t \in Workers : Upload(t, k, journal[k].exp, journal[k].body)

Fairness ==
    /\ \A t \in Workers : WF_vars(Serve(t))
    /\ \A k \in ClientKeys : SF_vars(Resend(k))

FairSpec == Spec /\ Fairness

-----------------------------------------------------------------------------
(* Properties. *)

\* The rows, files and handler states are well formed (sqlite_assets.py).
TypeOK ==
    /\ record \in [rev : Revisions, sha : Bodies]
    /\ DOMAIN journal \subseteq Keys /\ journal \in [DOMAIN journal -> Row]
    /\ file \in Bodies
    /\ candidates \subseteq Keys
    /\ DOMAIN backups \subseteq Revisions /\ backups \in [DOMAIN backups -> Bodies]
    /\ login \in Logins
    /\ game \in [mode : {"NONE", "LOCAL", "LINK"}, token : 0..MaxFence, login : 0..MaxLogins]
    /\ fence \in 0..MaxFence
    /\ lock \in [owner : 0..MaxFence, live : BOOLEAN]
    /\ worker \in [Workers -> {Idle} \cup AdminWork \cup Work]
    /\ faults \in 0..MaxFaults
    /\ versions \in Seq(Bodies)
    /\ answers \subseteq [key : Keys, exp : Revisions, body : Bodies,
                           rev : Revisions, sha : Bodies, replay : BOOLEAN]

\* No lost update: however uploads of one SAV interleave, crash and are retried,
\* two requests that were both committed on the same revision carried the same
\* bytes, and those bytes are what the next revision recorded.
OneWinnerPerRevision ==
    \A k \in DOMAIN journal :
        journal[k].state = "COMMITTED" =>
            /\ journal[k].exp < Len(versions)
            /\ versions[journal[k].exp + 1] = journal[k].body

\* The metadata is the newest revision of the history.
RecordIsNewest == record = [rev |-> Len(versions), sha |-> versions[Len(versions)]]

\* Nothing acknowledged is undone: the requester of a success answer has its own
\* bytes recorded as the revision after the one it expected, whatever crashed, was
\* retried or was refused since.
AcknowledgedIsApplied ==
    \A a \in answers : a.exp < Len(versions) /\ versions[a.exp + 1] = a.body

\* Every replay of a request id gives the result of its own commit, also when the
\* SAV has moved on since ("A committed receipt is read-only").
ReplayIsOwnResult ==
    \A a \in answers : a.replay => a.rev = a.exp + 1 /\ a.sha = a.body

\* The first answer too: it is what a replay of the same request returns
\* (test_commit_and_response_loss_replay_advance_revision_once).
AnswerIsOwnResult ==
    \A a \in answers : a.rev = a.exp + 1 /\ a.sha = a.body

\* The docstring's "recoverable ... replace": the bytes on disk are those of the
\* metadata, or those of a PREPARED request on exactly this revision whose base
\* is kept as a backup, so that finishing it makes the two agree.
Recoverable ==
    \/ file = record.sha
    \/ \E k \in DOMAIN journal :
          /\ Applicable(journal[k])
          /\ journal[k].state = "PREPARED"
          /\ journal[k].body = file
          /\ ValidBackup(record.rev, record.sha)

\* A kept backup holds the bytes of the revision it is named after.
BackupsAreVersions ==
    \A n \in DOMAIN backups : n <= Len(versions) /\ backups[n] = versions[n]

\* Bytes that only a retry can finish: the SAV answers no download until then.
Unreadable(k) ==
    /\ Prepared(k)
    /\ Applicable(journal[k])
    /\ file # record.sha /\ file = journal[k].body
RetryAuthorized(k) == Prepared(k) /\ MayUpload /\ journal[k].auth = UploadAuthority

\* Retries finish what a fault interrupted, as long as the client can still
\* speak with the authority it prepared the request under.
RetryRestoresTheSave ==
    \A k \in ClientKeys : Unreadable(k) ~> (file = record.sha \/ ~RetryAuthorized(k))

\* What the recovery test of test_sqlite_assets.py promises for a prepared request
\* ("recovered without request replay"): the SAV becomes readable again.
SaveIsRestored == [](file # record.sha => <>(file = record.sha))

\* Seen from outside, the journal is a store that applies each request at most
\* once, to the revision the request expected.
AppliedAt == [k \in {j \in DOMAIN journal : journal[j].state = "COMMITTED"} |->
                journal[k].exp + 1]
Store == INSTANCE VersionedSave WITH
            rev <- record.rev, value <- record.sha, appliedAt <- AppliedAt
ImplementsVersionedSave == Store!Spec

\* Every row, file and handler has a value of its kind (TypeOK); the SAV's bytes are those
\* of the metadata or of an open request, backups are bytes the SAV once had, and every
\* answer is the request's own result (SaveCommitService).
StoreIsSound == TypeOK /\ Recoverable /\ BackupsAreVersions /\ AnswerIsOwnResult
=============================================================================
