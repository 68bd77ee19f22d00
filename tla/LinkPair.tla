------------------------------ MODULE LinkPair ------------------------------
(***************************************************************************)
(* One Trade between two players: the link session, the pair journal that  *)
(* commits both SAVs (sessions.py), the part of the fixed-Host control     *)
(* plane that ends a Trade, and the handlers that meet there (api.py):     *)
(* finish and receipt, manifest polls, cancel and leave, the lifecycle     *)
(* sweeper, startup recovery and the ROM replacement that settles what is  *)
(* left.  Every row is written by one transaction, and handlers interleave *)
(* between transactions; only what stands in a row is taken as one step:   *)
(* the two staged files, the locks of both players when they are released, *)
(* and the row reads that follow each other before a write.  SaveCommit is *)
(* used through what it promises: a SAV advances from the revision a       *)
(* request expected, at most once.                                         *)
(***************************************************************************)
EXTENDS Naturals, FiniteSets

CONSTANTS
    Handlers,     \* request threads
    Sweeper,      \* the lifecycle thread
    Payloads,     \* bytes a Trade can leave in a SAV
    Finishes,     \* bound: candidate pairs the Host finishes with
    Requests,     \* bound: the requests that arrive, a subset of AllRequests
    MaxRevision,  \* bound: newest revision of a SAV
    MaxFaults     \* bound: handlers lost to an exception, and restarts

Players == {"a", "b"}
Candidates == [Players -> {"old"} \cup Payloads]
AllRequests == {"finish", "receipt", "poll", "cancel", "leave", "read", "settle"}

ASSUME LinkPairAssumption ==
    /\ Sweeper \notin Handlers
    /\ Payloads \cap {"old", "other", "none"} = {}
    /\ Finishes \subseteq Candidates
    /\ Requests \subseteq AllRequests
    /\ MaxRevision \in Nat \ {0, 1}
    /\ MaxFaults \in Nat

VARIABLES
    status,   \* link_sessions.status
    due,      \* the session's deadline has passed
    run,      \* deadline of its game run: the session's, an older one, or passed
    game,     \* game session lock per player
    lock,     \* save lock per player: [owner, live]
    control,  \* fixed-Host session: [state, finish, receipt, result]
    temp,     \* staged candidates of both players
    journal,  \* link save commit journal: [state, pair, result]
    save,     \* per player: metadata [rev, sha] and the bytes of the file
    uploads,  \* PREPARED save_upload_requests of pair commits
    worker,   \* what each thread is doing
    faults,   \* faults so far
    traded    \* history: COMMITTED save_upload_requests of pair commits

vars == <<status, due, run, game, lock, control, temp, journal, save, uploads, worker,
          faults, traded>>

session == <<status, due, run, game, lock>>
saves == <<save, uploads, traded>>

Threads == Handlers \cup {Sweeper}
Bytes == {"old", "other"} \cup Payloads
Revisions == 1..MaxRevision
NoFiles == [p \in Players |-> "none"]

LeaveStatuses == {"CREATED", "RUNNING"}
Running == LeaveStatuses \cup {"FINALIZING"}
Terminal == {"COMPLETED", "FAILED", "CANCELLED", "EXPIRED"}
Statuses == Running \cup {"RECOVERING"} \cup Terminal

Pairs == [base : [Players -> Revisions], changed : SUBSET Players, sha : Candidates,
          done : BOOLEAN]
NoPair == [base |-> [p \in Players |-> 1], changed |-> {}, sha |-> [p \in Players |-> "old"],
           done |-> FALSE]
Results == [rev : [Players -> 1..(MaxRevision + 1)], changed : SUBSET Players]
NoResult == [rev |-> [p \in Players |-> 1], changed |-> {}]
Keys == [player : Players, owner : {"LINK", "SETTLE"}, exp : Revisions, body : Bytes]

Idle == [pc |-> "idle", role |-> "LINK", seen |-> "CREATED", target |-> "CREATED",
         side |-> "a", pair |-> NoPair, result |-> NoResult, cand |-> NoFiles,
         fresh |-> FALSE, next |-> "idle"]

Steps == {"idle", "stage", "submit", "reconcile", "read", "rewrite", "prepare", "committing",
          "reread", "side", "upload", "replace", "record", "committed", "complete",
          "leave", "transition", "deadline", "extend", "release", "clean", "abort",
          "judge", "drop", "dropped", "settled", "unlock"}
Work == [pc : Steps, role : {"LINK", "SETTLE"}, seen : Statuses, target : Statuses,
         side : Players, pair : Pairs, result : Results, cand : Candidates \cup {NoFiles},
         fresh : BOOLEAN, next : Steps]

Goto(t, step) == worker' = [worker EXCEPT ![t].pc = step]

\* A handler that gives up: settling releases its own locks on the way out.
Stop(t) ==
    worker' = [worker EXCEPT ![t] =
        IF @.role = "SETTLE" /\ @.pc # "unlock" THEN [@ EXCEPT !.pc = "unlock"] ELSE Idle]

\* A handler that needs nothing of what it read any more.
Turn(t, step) == worker' = [worker EXCEPT ![t] =
    [Idle EXCEPT !.pc = step, !.role = worker[t].role, !.seen = worker[t].seen]]

\* What a handler does after a transition or a refused reconciliation, if anything.
Continue(t) == IF worker[t].next = "idle" THEN Stop(t) ELSE Goto(t, worker[t].next)

Init ==
    /\ status = "CREATED"
    /\ due = FALSE
    /\ run = "SAME"
    /\ game = [p \in Players |-> "LIVE"]
    /\ lock = [p \in Players |-> [owner |-> "LINK", live |-> TRUE]]
    /\ control = [state |-> "OPEN", finish |-> NoFiles, receipt |-> "NONE", result |-> NoResult]
    /\ temp = NoFiles
    /\ journal = [state |-> "NONE", pair |-> NoPair, result |-> NoResult]
    /\ save = [p \in Players |-> [rev |-> 1, sha |-> "old", file |-> "old"]]
    /\ uploads = {}
    /\ worker = [t \in Threads |-> Idle]
    /\ faults = 0
    /\ traded = {}

-----------------------------------------------------------------------------
(* Leases, deadlines and what other requests do to a SAV. *)

\* The player's game session lock holds for this session's run: it is LIVE while
\* heartbeats renew it, and HELD until the deadline once the session is FINALIZING.
RunLive == run = "OLD" \/ (run = "SAME" /\ ~due)
Active(p) == game[p] \in {"LIVE", "HELD"} /\ RunLive

GameLeaseLapses(p) ==
    /\ game[p] = "LIVE"
    /\ game' = [game EXCEPT ![p] = "LAPSED"]
    /\ UNCHANGED <<status, due, run, lock, control, temp, journal, saves, worker, faults>>

\* Save locks are renewed by heartbeats before FINALIZING and never after.
SaveLeaseLapses(p) ==
    /\ lock[p].live
    /\ lock[p].owner = "SETTLE" => \A t \in Threads : worker[t].role # "SETTLE"
    /\ lock' = [lock EXCEPT ![p].live = FALSE]
    /\ UNCHANGED <<status, due, run, game, control, temp, journal, saves, worker, faults>>

\* The five minutes of a settlement that died with the process.
SettleLeaseLapses ==
    /\ \A t \in Threads : worker[t].role # "SETTLE"
    /\ \E p \in Players : game[p] = "SETTLE"
    /\ game' = [p \in Players |-> IF game[p] = "SETTLE" THEN "NONE" ELSE game[p]]
    /\ UNCHANGED <<status, due, run, lock, control, temp, journal, saves, worker, faults>>

DeadlinePasses ==
    /\ status \in Running
    /\ ~due
    /\ due' = TRUE
    /\ run' = IF run = "OLD" THEN "PASSED" ELSE run
    /\ UNCHANGED <<status, game, lock, control, temp, journal, saves, worker, faults>>

\* A new deadline of the session has not reached its run yet.
OldDeadlinePasses ==
    /\ run = "OLD"
    /\ run' = "PASSED"
    /\ UNCHANGED <<status, due, game, lock, control, temp, journal, saves, worker, faults>>

\* A normal upload or an admin replacement, as far as it can reach this SAV.
Bound(p) == game[p] = "SETTLE" \/ Active(p)

Upload(p) ==
    /\ ~Bound(p)
    /\ ~lock[p].live
    /\ save[p].file = save[p].sha
    /\ save[p].rev < MaxRevision
    /\ save' = [save EXCEPT ![p] = [rev |-> @.rev + 1, sha |-> "other", file |-> "other"]]
    /\ UNCHANGED <<session, control, temp, journal, uploads, worker, faults, traded>>

-----------------------------------------------------------------------------
(* The control plane: tickets connect the two runtimes, finish and receipt     *)
(* end the Trade.                                                              *)

\* A relay ticket moves the session to RUNNING.
IssueTicket(t) ==
    /\ worker[t] = Idle
    /\ control.state = "OPEN"
    /\ status = "CREATED"
    /\ worker' = [worker EXCEPT ![t] = [Idle EXCEPT !.pc = "transition", !.target = "RUNNING"]]
    /\ UNCHANGED <<session, control, temp, journal, saves, faults>>

\* Both tickets are used, at first or after a pause.
Connect ==
    /\ control.state = "OPEN"
    /\ status # "CREATED"
    /\ control' = [control EXCEPT !.state = "RUNNING"]
    /\ UNCHANGED <<session, temp, journal, saves, worker, faults>>

Disconnect ==
    /\ control.state = "RUNNING"
    /\ control' = [control EXCEPT !.state = "OPEN"]
    /\ UNCHANGED <<session, temp, journal, saves, worker, faults>>

PauseExpires ==
    /\ control.state = "OPEN"
    /\ status # "CREATED"
    /\ control' = [control EXCEPT !.state = "ABORTED"]
    /\ UNCHANGED <<session, temp, journal, saves, worker, faults>>

\* POST host-finish: a finish that is already recorded must be repeated exactly.
HostFinish(t, cand) ==
    /\ worker[t] = Idle
    /\ control.state # "FINISHED"
    /\ control.finish \in {NoFiles, cand}
    /\ worker' = [worker EXCEPT ![t] = [Idle EXCEPT !.pc = "stage", !.cand = cand]]
    /\ UNCHANGED <<session, control, temp, journal, saves, faults>>

\* Mutant of HeldBy: a lock whose lease ran out still counts.
HeldByLapsed(owner, p) == lock[p].owner = owner

HeldBy(owner, p) == lock[p] = [owner |-> owner, live |-> TRUE]

\* stage_gb_runtime_fixed_host_candidates: on the revisions the Trade started from.
MayStage(cand) ==
    /\ status \notin Terminal
    /\ \A p \in Players : Active(p) /\ HeldBy("LINK", p) /\ save[p].rev = 1
    /\ journal.state \in {"NONE", "COMMITTED"} \/ journal.pair.sha = cand

Stage(t) ==
    /\ worker[t].pc = "stage"
    /\ IF MayStage(worker[t].cand)
       THEN temp' = worker[t].cand /\ Goto(t, "submit")
       ELSE Stop(t) /\ UNCHANGED temp
    /\ UNCHANGED <<session, control, journal, saves, faults>>

SubmitFinish(t) ==
    LET cand == worker[t].cand IN
    /\ worker[t].pc = "submit"
    /\ IF control.state = "FINISHED" /\ control.finish = cand
       THEN Turn(t, "reconcile") /\ UNCHANGED control
       ELSE IF control.state \in {"RUNNING", "FINALIZING"} /\ control.finish \in {NoFiles, cand}
       THEN /\ control' = [control EXCEPT !.state = "FINALIZING", !.finish = cand]
            /\ Turn(t, "reconcile")
       ELSE Stop(t) /\ UNCHANGED control
    /\ UNCHANGED <<session, temp, journal, saves, faults>>

\* POST terminal-receipt: checked against the finish when there is one.
Receipt(t, match) ==
    /\ worker[t] = Idle
    /\ control.receipt \in {"NONE", match}
    /\ \/ control.state = "FINISHED" /\ control.receipt = match /\ UNCHANGED control
       \/ /\ control.state \in {"RUNNING", "FINALIZING"}
          /\ control.finish # NoFiles => match = "MATCH"
          /\ control' = [control EXCEPT !.state = "FINALIZING", !.receipt = match]
    /\ worker' = [worker EXCEPT ![t] = [Idle EXCEPT !.pc = "reconcile"]]
    /\ UNCHANGED <<session, temp, journal, saves, faults>>

\* GET manifest, and the heartbeats that sync a room's SAVs.
Poll(t) ==
    /\ worker[t] = Idle
    /\ worker' = [worker EXCEPT ![t] = [Idle EXCEPT !.pc = "reconcile"]]
    /\ UNCHANGED <<session, control, temp, journal, saves, faults>>

AbortedControl == IF control.state = "FINISHED" THEN control
                                                ELSE [control EXCEPT !.state = "ABORTED"]

-----------------------------------------------------------------------------
(* LinkSessionManager.transition: the status row, then locks, then files. *)

Allowed(from) ==
    CASE from = "CREATED"    -> {"RUNNING", "COMPLETED", "FAILED", "CANCELLED", "EXPIRED"}
      [] from = "RUNNING"    -> {"FINALIZING", "COMPLETED", "FAILED", "CANCELLED", "EXPIRED"}
      [] from = "FINALIZING" -> Terminal \cup {"RECOVERING"}
      [] from = "RECOVERING" -> Terminal
      [] OTHER               -> {}

LinkLocksDropped == [p \in Players |-> IF lock[p].owner = "LINK"
                                       THEN [owner |-> "NONE", live |-> FALSE] ELSE lock[p]]
LinkGamesDropped == [p \in Players |-> IF game[p] = "SETTLE" THEN game[p] ELSE "NONE"]

\* RUNNING and FINALIZING start a new deadline of the session.
Transition(t) ==
    LET w == worker[t] IN
    /\ w.pc = "transition"
    /\ IF w.target = status \/ w.target \notin Allowed(status)
       THEN /\ IF w.target # status THEN Stop(t)
               ELSE IF status \in Terminal THEN Turn(t, "release") ELSE Continue(t)
            /\ UNCHANGED <<status, due, run>>
       ELSE /\ status' = w.target
            /\ IF w.target \in {"RUNNING", "FINALIZING"}
               THEN due' = FALSE /\ run' = (IF RunLive THEN "OLD" ELSE "PASSED") /\ Goto(t, "deadline")
               ELSE Turn(t, "release") /\ UNCHANGED <<due, run>>
    /\ UNCHANGED <<game, lock, control, temp, journal, saves, faults>>

\* The run gets the session's deadline, and FINALIZING keeps the game leases that are
\* still there, lapsed or not, until then.
SetRunDeadline(t) ==
    /\ worker[t].pc = "deadline"
    /\ run' = "SAME"
    /\ IF worker[t].target = "FINALIZING" THEN Goto(t, "extend") ELSE Stop(t)
    /\ UNCHANGED <<status, due, game, lock, control, temp, journal, saves, faults>>

ExtendLeases(t) ==
    /\ worker[t].pc = "extend"
    /\ game' = [p \in Players |-> IF game[p] \in {"LIVE", "LAPSED"} THEN "HELD" ELSE game[p]]
    /\ Continue(t)
    /\ UNCHANGED <<status, due, run, lock, control, temp, journal, saves, faults>>

Release(t) ==
    /\ worker[t].pc = "release"
    /\ lock' = LinkLocksDropped
    /\ game' = LinkGamesDropped
    /\ Goto(t, "clean")
    /\ UNCHANGED <<status, due, run, control, temp, journal, saves, faults>>

Clean(t) ==
    /\ worker[t].pc = "clean"
    /\ temp' = NoFiles
    /\ IF t = Sweeper THEN Goto(t, "abort") ELSE Stop(t)
    /\ UNCHANGED <<session, control, journal, saves, faults>>

\* POST cancel and a changed ROOM selection abort the control plane in any state,
\* and cancel the session on the status they read before.  A stopped game and a stale
\* presence are a Poll and then this, a heartbeat that finds the control plane aborted
\* is this.
Cancel(t) ==
    /\ worker[t] = Idle
    /\ control' = AbortedControl
    /\ worker' = IF status \in LeaveStatuses
                 THEN [worker EXCEPT ![t] = [Idle EXCEPT !.pc = "transition", !.target = "CANCELLED"]]
                 ELSE worker
    /\ UNCHANGED <<session, temp, journal, saves, faults>>

\* Leaving the room aborts the control plane and syncs the SAVs before the session is
\* cancelled, unless that has moved it on.
Leave(t) ==
    /\ worker[t] = Idle
    /\ control' = AbortedControl
    /\ worker' = IF status \in LeaveStatuses
                 THEN [worker EXCEPT ![t] = [Idle EXCEPT !.pc = "reconcile", !.next = "leave"]]
                 ELSE worker
    /\ UNCHANGED <<session, temp, journal, saves, faults>>

LeaveSession(t) ==
    /\ worker[t].pc = "leave"
    /\ IF status \in LeaveStatuses
       THEN worker' = [worker EXCEPT ![t] = [Idle EXCEPT !.pc = "transition", !.target = "CANCELLED"]]
       ELSE Stop(t)
    /\ UNCHANGED <<session, control, temp, journal, saves, faults>>

\* Reading the session, and stopping the game of one that is FINALIZING, expire it
\* when its deadline has passed; only the sweeper aborts the control plane then.
ReadSession(t) ==
    /\ worker[t] = Idle
    /\ status = "FINALIZING" /\ due
    /\ worker' = [worker EXCEPT ![t] = [Idle EXCEPT !.pc = "transition", !.target = "EXPIRED"]]
    /\ UNCHANGED <<session, control, temp, journal, saves, faults>>

\* Mutant of SweepTarget: the deadline of FINALIZING is not watched.
SweepTargetKeepsFinalizing(g) ==
    LET held == RunLive /\ \A p \in Players : g[p] \in {"LIVE", "HELD"} IN
    CASE status = "RUNNING" /\ (due \/ ~held) -> "FINALIZING"
      [] status = "CREATED" /\ ~held          -> "CANCELLED"
      [] OTHER                                -> status

\* reconcile_session_lifecycle: lapsed game leases go first, then the session.
SweepTarget(g) ==
    LET held == RunLive /\ \A p \in Players : g[p] \in {"LIVE", "HELD"} IN
    CASE status = "FINALIZING" /\ due         -> "EXPIRED"
      [] status = "RUNNING" /\ (due \/ ~held) -> "FINALIZING"
      [] status = "CREATED" /\ ~held          -> "CANCELLED"
      [] OTHER                                -> status

Sweep ==
    LET kept == [p \in Players |-> IF game[p] = "SETTLE" \/ Active(p)
                                   THEN game[p] ELSE "NONE"]
        target == SweepTarget(kept)
        step == IF target # status THEN "transition"
                ELSE IF status = "RECOVERING" THEN "abort" ELSE "idle" IN
    /\ worker[Sweeper] = Idle
    /\ game' = kept
    /\ worker' = IF step = "idle" THEN worker
                 ELSE [worker EXCEPT ![Sweeper] = [Idle EXCEPT !.pc = step, !.target = target]]
    /\ UNCHANGED <<status, due, run, lock, control, temp, journal, saves, faults>>

AbortControl(t) ==
    /\ worker[t].pc = "abort"
    /\ control' = AbortedControl
    /\ Stop(t)
    /\ UNCHANGED <<session, temp, journal, saves, faults>>

-----------------------------------------------------------------------------
(* reconcile_gb_runtime_fixed_host_trade and commit_changed_staged_saves.      *)

ReadyToCommit == control.finish # NoFiles /\ control.receipt = "MATCH"

Reconcile(t) ==
    /\ worker[t].pc = "reconcile"
    /\ CASE ~ReadyToCommit -> Continue(t)
         [] ReadyToCommit /\ status = "RUNNING" ->
              worker' = [worker EXCEPT ![t] = [@ EXCEPT !.pc = "transition", !.target = "FINALIZING",
                                                        !.next = "read", !.seen = "FINALIZING"]]
         [] ReadyToCommit /\ status = "FINALIZING" ->
              worker' = [worker EXCEPT ![t] = [@ EXCEPT !.pc = "read", !.seen = "FINALIZING"]]
         [] ReadyToCommit /\ status = "COMPLETED" /\ journal.state = "COMMITTED" ->
              worker' = [worker EXCEPT ![t] = [@ EXCEPT !.pc = "complete", !.seen = "COMPLETED",
                                                        !.result = journal.result]]
         [] OTHER -> Continue(t)
    /\ UNCHANGED <<session, control, temp, journal, saves, faults>>

Changed == {p \in Players : temp[p] # save[p].sha}
CurrentRevisions == [p \in Players |-> save[p].rev]
StagedPair == [base |-> CurrentRevisions, changed |-> Changed, sha |-> temp,
               done |-> FALSE]

Start(t, step, pair, result) ==
    worker' = [worker EXCEPT ![t] =
        [@ EXCEPT !.pc = step, !.pair = pair, !.result = result, !.fresh = TRUE, !.next = "idle"]]

\* The checks and reads before the pair journal is written.
ReadStaged(t) ==
    /\ worker[t].pc = "read"
    /\ CASE journal.state = "COMMITTED" /\ status = "COMPLETED" ->
              worker' = [worker EXCEPT ![t] = [@ EXCEPT !.pc = "complete", !.next = "idle",
                                                        !.result = journal.result]]
         [] status \notin {"RUNNING", "FINALIZING"} \/ temp = NoFiles
              \/ (\E p \in Players : ~Active(p)) -> Stop(t)
         [] OTHER ->
              IF journal.state = "COMMITTED" /\ journal.pair.sha = temp /\ Changed = {}
              THEN Start(t, "rewrite", journal.pair, [rev |-> CurrentRevisions, changed |-> {}])
              ELSE IF journal.state \notin {"NONE", "COMMITTED"}
              THEN Start(t, "committing", journal.pair, NoResult)
              ELSE IF \A p \in Players : HeldBy("LINK", p)
              THEN Start(t, "prepare", StagedPair, NoResult)
              ELSE Stop(t)
    /\ UNCHANGED <<session, control, temp, journal, saves, faults>>

\* Mutant of WriteJournal: the row version is not compared.
WriteJournalBlind(t, state, result, step) ==
    /\ journal' = [state |-> state, result |-> result,
                   pair |-> [worker[t].pair EXCEPT !.done = @ \/ state = "COMMITTED"]]
    /\ worker' = [worker EXCEPT ![t] = [@ EXCEPT !.pc = "reread", !.next = step,
                                                 !.result = result, !.fresh = FALSE]]

\* A journal write carries the row version this handler read: any other write
\* in between makes it fail.  The row is read again after it.
WriteJournal(t, state, result, step) ==
    IF worker[t].fresh
    THEN /\ journal' = [state |-> state, result |-> result,
                        pair |-> [worker[t].pair EXCEPT !.done = @ \/ state = "COMMITTED"]]
         /\ worker' = [u \in Threads |->
              IF u = t THEN [worker[t] EXCEPT !.pc = "reread", !.next = step,
                                              !.result = result, !.fresh = FALSE]
                       ELSE [worker[u] EXCEPT !.fresh = FALSE]]
    ELSE Stop(t) /\ UNCHANGED journal

Reread(t) ==
    /\ worker[t].pc = "reread"
    /\ worker' = [worker EXCEPT ![t] =
         IF @.next \in {"committing", "side"}
         THEN [@ EXCEPT !.pc = worker[t].next, !.next = "idle", !.pair = journal.pair, !.fresh = TRUE]
         ELSE [@ EXCEPT !.pc = worker[t].next, !.next = "idle", !.pair = NoPair, !.side = "a"]]
    /\ UNCHANGED <<session, control, temp, journal, saves, faults>>

\* A pair whose SAVs already carry the staged bytes is reported as unchanged.
RewriteResult(t) ==
    /\ worker[t].pc = "rewrite"
    /\ WriteJournal(t, "COMMITTED", worker[t].result, "complete")
    /\ UNCHANGED <<session, control, temp, saves, faults>>

PreparePair(t) ==
    /\ worker[t].pc = "prepare"
    /\ WriteJournal(t, "PREPARED", NoResult, "committing")
    /\ UNCHANGED <<session, control, temp, saves, faults>>

StartCommitting(t) ==
    /\ worker[t].pc = "committing"
    /\ WriteJournal(t, "COMMITTING", journal.result, "side")
    /\ UNCHANGED <<session, control, temp, saves, faults>>

\* Mutant of NextSide: player B's side is forgotten.
NextSideForgotten(t) == Goto(t, "committed")

\* Player A's side is committed before player B's.
NextSide(t) ==
    worker' = [worker EXCEPT ![t] =
        IF @.side = "a" THEN [@ EXCEPT !.pc = "side", !.side = "b"]
                        ELSE [@ EXCEPT !.pc = "committed"]]

CommitSide(t) ==
    LET w == worker[t]
        p == w.side
        body == w.pair.sha[p]
        base == w.pair.base[p]
        applied == save[p] = [rev |-> base + 1, sha |-> body, file |-> body] IN
    /\ w.pc = "side"
    /\ IF w.pair.done
       THEN NextSide(t)
       ELSE IF w.role = "LINK" /\ temp[p] # body
       THEN Stop(t)
       ELSE IF p \in w.pair.changed /\ save[p].rev = base
       THEN IF HeldBy(w.role, p) THEN Goto(t, "upload") ELSE Stop(t)
       ELSE IF (IF p \in w.pair.changed THEN applied ELSE save[p].rev = base)
       THEN NextSide(t)
       ELSE Stop(t)
    /\ UNCHANGED <<session, control, temp, journal, saves, faults>>

UploadKey(t) == [player |-> worker[t].side, owner |-> worker[t].role,
                 exp |-> worker[t].pair.base[worker[t].side],
                 body |-> worker[t].pair.sha[worker[t].side]]

Uploading(t) == worker[t].pc \in {"replace", "record"}

\* commit_locked and the save commit journal: prepare on the expected revision,
\* under the lock of the owner and one handler per request.
PrepareUpload(t) ==
    LET p == worker[t].side
        key == UploadKey(t) IN
    /\ worker[t].pc = "upload"
    /\ \A u \in Threads : Uploading(u) => UploadKey(u) # key
    /\ IF key \in traded
       THEN NextSide(t) /\ UNCHANGED uploads
       ELSE IF key \in uploads
       THEN Goto(t, "replace") /\ UNCHANGED uploads
       ELSE IF save[p].rev = key.exp /\ save[p].file = save[p].sha /\ HeldBy(key.owner, p)
       THEN uploads' = uploads \cup {key} /\ Goto(t, "replace")
       ELSE Stop(t) /\ UNCHANGED uploads
    /\ UNCHANGED <<session, control, temp, journal, save, traded, faults>>

ReplaceFile(t) ==
    LET p == worker[t].side
        key == UploadKey(t) IN
    /\ worker[t].pc = "replace"
    /\ IF save[p].file = key.body \/ (save[p].file = save[p].sha /\ save[p].rev = key.exp)
       THEN save' = [save EXCEPT ![p].file = key.body] /\ Goto(t, "record")
       ELSE Stop(t) /\ UNCHANGED save
    /\ UNCHANGED <<session, control, temp, journal, uploads, traded, faults>>

Recorded(p, key) == [save[p] EXCEPT !.rev = key.exp + 1, !.sha = key.body]

RecordUpload(t) ==
    LET p == worker[t].side
        key == UploadKey(t) IN
    /\ worker[t].pc = "record"
    /\ IF key \in traded
       THEN NextSide(t) /\ UNCHANGED saves
       ELSE IF key \in uploads
               /\ (save[p].rev = key.exp \/ (save[p].rev = key.exp + 1 /\ save[p].sha = key.body))
       THEN /\ save' = [save EXCEPT ![p] = Recorded(p, key)]
            /\ uploads' = uploads \ {key}
            /\ traded' = traded \cup {key}
            /\ NextSide(t)
       ELSE Stop(t) /\ UNCHANGED saves
    /\ UNCHANGED <<session, control, temp, journal, faults>>

PairResult(pair) ==
    [rev |-> [p \in Players |-> pair.base[p] + (IF p \in pair.changed THEN 1 ELSE 0)],
     changed |-> pair.changed]

CommitPair(t) ==
    /\ worker[t].pc = "committed"
    /\ WriteJournal(t, "COMMITTED", PairResult(worker[t].pair),
                    IF worker[t].role = "SETTLE" THEN "settled" ELSE "complete")
    /\ UNCHANGED <<session, control, temp, saves, faults>>

\* control.complete, and then the session itself.
Complete(t) ==
    LET w == worker[t] IN
    /\ w.pc = "complete"
    /\ IF control.state = "FINALIZING" \/ (control.state = "FINISHED" /\ control.result = w.result)
       THEN /\ control' = [control EXCEPT !.state = "FINISHED", !.result = w.result]
            /\ IF w.seen = "COMPLETED" THEN Stop(t)
               ELSE worker' = [worker EXCEPT ![t] = [Idle EXCEPT !.pc = "transition",
                                                                 !.target = "COMPLETED"]]
       ELSE Stop(t) /\ UNCHANGED control
    /\ UNCHANGED <<session, temp, journal, saves, faults>>

-----------------------------------------------------------------------------
(* settle_save_replacement: a ROM replacement retires the session, under game  *)
(* and save locks of its own.                                                  *)

NeedsSettling == status \notin Terminal \/ journal.state \notin {"NONE", "COMMITTED", "ABORTED"}

Settle(t) ==
    /\ worker[t] = Idle
    /\ NeedsSettling
    /\ \A p \in Players : ~Bound(p) /\ ~lock[p].live
    /\ game' = [p \in Players |-> "SETTLE"]
    /\ lock' = [p \in Players |-> [owner |-> "SETTLE", live |-> TRUE]]
    /\ worker' = [worker EXCEPT ![t] = [Idle EXCEPT !.pc = "judge", !.role = "SETTLE"]]
    /\ UNCHANGED <<status, due, run, control, temp, journal, saves, faults>>

\* Mutant of Retire: the session completes whatever became of its pair.
RetireCompleted(t, seen, target) ==
    worker' = [worker EXCEPT ![t] =
        [@ EXCEPT !.pc = IF seen \in Terminal THEN "clean" ELSE "transition",
                  !.seen = seen, !.target = "COMPLETED"]]

\* The session ends with its pair, unless it had ended before.
Retire(t, seen, target) ==
    worker' = [worker EXCEPT ![t] =
        [@ EXCEPT !.pc = IF seen \in Terminal THEN "clean" ELSE "transition",
                  !.seen = seen, !.target = target]]

\* The file decides whether a side was applied; metadata that an interrupted upload
\* left behind is finished first.
AppliedFile(p) == p \in journal.pair.changed /\ save[p].file = journal.pair.sha[p]
Interrupted(p) == {key \in uploads : key.player = p /\ key.body = save[p].file
                                     /\ key.exp = save[p].rev}
\* Mutant of Finished: metadata that is complete already is advanced again.
FinishedAgain(p) == IF AppliedFile(p) THEN [save[p] EXCEPT !.rev = @ + 1, !.sha = save[p].file]
                                      ELSE save[p]

Finished(p) == IF AppliedFile(p) /\ save[p].rev = journal.pair.base[p] /\ Interrupted(p) # {}
               THEN [save[p] EXCEPT !.rev = @ + 1, !.sha = save[p].file] ELSE save[p]
Valid(p) ==
    /\ Finished(p).sha = save[p].file
    /\ Finished(p).rev = journal.pair.base[p] + (IF AppliedFile(p) THEN 1 ELSE 0)

\* Sides are judged in order, and an invalid one ends the settlement.
Judged == IF Valid("a") THEN Players ELSE {"a"}
\* Mutant of NothingApplied: one side that was not applied is enough.
SomethingNotApplied == \E p \in Players : ~AppliedFile(p)

NothingApplied == \A p \in Players : ~AppliedFile(p)
FinishedKeys == UNION {Interrupted(p) : p \in {q \in Judged : Finished(q) # save[q]}}
Completable(p) == AppliedFile(p) \/ p \notin journal.pair.changed \/ temp[p] = journal.pair.sha[p]

Judge(t) ==
    LET settle(step) == worker' = [worker EXCEPT ![t] =
            [@ EXCEPT !.pc = step, !.seen = status, !.pair = journal.pair, !.fresh = TRUE]] IN
    /\ worker[t].pc = "judge"
    /\ IF journal.state \in {"NONE", "COMMITTED", "ABORTED"}
       THEN /\ Retire(t, status, IF journal.state = "COMMITTED" THEN "COMPLETED" ELSE "CANCELLED")
            /\ UNCHANGED saves
       ELSE /\ save' = [p \in Players |-> IF p \in Judged THEN Finished(p) ELSE save[p]]
            /\ uploads' = uploads \ FinishedKeys
            /\ traded' = traded \cup FinishedKeys
            /\ CASE ~(\A p \in Players : Valid(p)) -> Stop(t)
                 [] (\A p \in Players : Valid(p)) /\ NothingApplied -> settle("drop")
                 [] OTHER -> IF \A p \in Players : Completable(p) THEN settle("side") ELSE Stop(t)
    /\ UNCHANGED <<session, control, temp, journal, faults>>

\* Nothing was applied: the journal is aborted and its prepared uploads forgotten.
DropPair(t) ==
    LET pair == worker[t].pair IN
    /\ worker[t].pc = "drop"
    /\ IF worker[t].fresh
       THEN /\ WriteJournal(t, "ABORTED", NoResult, "dropped")
            /\ uploads' = {key \in uploads : key.exp # pair.base[key.player]}
       ELSE Stop(t) /\ UNCHANGED <<journal, uploads>>
    /\ UNCHANGED <<session, control, temp, save, traded, faults>>

RetireSettled(t) ==
    /\ worker[t].pc \in {"dropped", "settled"}
    /\ Retire(t, worker[t].seen, IF worker[t].pc = "settled" THEN "COMPLETED" ELSE "CANCELLED")
    /\ UNCHANGED <<session, control, temp, journal, saves, faults>>

Unlock(t) ==
    /\ worker[t].pc = "unlock"
    /\ lock' = [p \in Players |-> IF lock[p].owner = "SETTLE"
                                  THEN [owner |-> "NONE", live |-> FALSE] ELSE lock[p]]
    /\ game' = [p \in Players |-> IF game[p] = "SETTLE" THEN "NONE" ELSE game[p]]
    /\ Stop(t)
    /\ UNCHANGED <<status, due, run, control, temp, journal, saves, faults>>

-----------------------------------------------------------------------------
(* An exception ends one handler; a restart ends all of them, and startup      *)
(* recovery closes what was active.                                            *)

Fault(t) ==
    /\ worker[t] # Idle
    /\ faults < MaxFaults
    /\ faults' = faults + 1
    /\ Stop(t)
    /\ UNCHANGED <<session, control, temp, journal, saves>>

Recovered == CASE status = "FINALIZING"      -> "RECOVERING"
               [] status \in LeaveStatuses -> "FAILED"
               [] OTHER                    -> status

Restart ==
    /\ faults < MaxFaults
    /\ faults' = faults + 1
    /\ worker' = [t \in Threads |-> Idle]
    /\ status' = Recovered
    /\ IF status \in Running
       THEN lock' = LinkLocksDropped /\ game' = LinkGamesDropped
       ELSE UNCHANGED <<lock, game>>
    /\ temp' = IF status \in LeaveStatuses THEN NoFiles ELSE temp
    /\ control' = IF control.state = "RUNNING" THEN [control EXCEPT !.state = "OPEN"] ELSE control
    /\ UNCHANGED <<due, run, journal, saves>>

-----------------------------------------------------------------------------
Arrive(t) ==
    \/ IssueTicket(t)
    \/ "finish" \in Requests /\ \E cand \in Finishes : HostFinish(t, cand)
    \/ "receipt" \in Requests /\ \E match \in {"MATCH", "OTHER"} : Receipt(t, match)
    \/ "poll" \in Requests /\ Poll(t)
    \/ "cancel" \in Requests /\ Cancel(t)
    \/ "leave" \in Requests /\ Leave(t)
    \/ "read" \in Requests /\ ReadSession(t)
    \/ "settle" \in Requests /\ Settle(t)

Serve(t) ==
    \/ Stage(t) \/ SubmitFinish(t) \/ Reconcile(t)
    \/ ReadStaged(t) \/ Reread(t) \/ RewriteResult(t) \/ PreparePair(t) \/ StartCommitting(t)
    \/ CommitSide(t) \/ PrepareUpload(t) \/ ReplaceFile(t) \/ RecordUpload(t)
    \/ CommitPair(t) \/ Complete(t)
    \/ Transition(t) \/ SetRunDeadline(t) \/ ExtendLeases(t) \/ Release(t) \/ Clean(t)
    \/ AbortControl(t) \/ LeaveSession(t)
    \/ Judge(t) \/ DropPair(t) \/ RetireSettled(t) \/ Unlock(t)

Environment ==
    \/ \E p \in Players : GameLeaseLapses(p) \/ SaveLeaseLapses(p) \/ Upload(p)
    \/ SettleLeaseLapses
    \/ DeadlinePasses \/ OldDeadlinePasses
    \/ Connect \/ Disconnect \/ PauseExpires

Next ==
    \/ Environment
    \/ \E t \in Handlers : Arrive(t)
    \/ Sweep
    \/ \E t \in Threads : Serve(t) \/ Fault(t)
    \/ Restart

Spec == Init /\ [][Next]_vars

\* Time passes, the sweeper runs every few seconds, and a handler that started
\* runs on.
Fairness ==
    /\ WF_vars(DeadlinePasses)
    /\ WF_vars(Sweep)
    /\ \A t \in Threads : WF_vars(Serve(t))

FairSpec == Spec /\ Fairness

-----------------------------------------------------------------------------
(* Properties. *)

\* The rows and handler states are well formed (sessions.py,
\* gb_runtime_fixed_host_sessions.py).
TypeOK ==
    /\ status \in Statuses
    /\ due \in BOOLEAN
    /\ run \in {"SAME", "OLD", "PASSED"}
    /\ game \in [Players -> {"LIVE", "LAPSED", "HELD", "NONE", "SETTLE"}]
    /\ lock \in [Players -> [owner : {"LINK", "SETTLE", "NONE"}, live : BOOLEAN]]
    /\ control \in [state : {"OPEN", "RUNNING", "FINALIZING", "FINISHED", "ABORTED"},
                    finish : Candidates \cup {NoFiles},
                    receipt : {"NONE", "MATCH", "OTHER"}, result : Results]
    /\ temp \in Candidates \cup {NoFiles}
    /\ journal \in [state : {"NONE", "PREPARED", "COMMITTING", "COMMITTED", "ABORTED"},
                    pair : Pairs, result : Results]
    /\ save \in [Players -> [rev : Revisions, sha : Bytes, file : Bytes]]
    /\ worker \in [Threads -> Work]
    /\ uploads \subseteq Keys /\ traded \subseteq Keys
    /\ faults \in 0..MaxFaults

TradedPlayers == {key.player : key \in traded}

\* No reader sees one side of a Trade: GET /saves is refused while the journal is
\* COMMITTING, and whenever it is not, both SAVs the pair changes carry the Trade
\* or neither does.
NoHalfPairIsServed ==
    journal.state # "COMMITTING" => TradedPlayers \in {{}, journal.pair.changed}

\* The Trade is applied to the very revisions it was played from, by whichever
\* handler or settlement gets there, so that it overwrites nothing a player did
\* with the SAV in the meantime.
TradeAppliesToItsBase == \A key \in traded : key.exp = 1

\* A committed pair is whole: once the journal records both sides as committed, every
\* changed side has been advanced beyond its base revision.
CommittedPairIsWhole ==
    journal.pair.done =>
        \A p \in journal.pair.changed : save[p].rev > journal.pair.base[p]

\* Both sides of a pair go together, for who reads during the commit and after it.
PairIsWhole == TypeOK /\ NoHalfPairIsServed /\ CommittedPairIsWhole

\* Nobody is told that a Trade is over before it is: the control plane says FINISHED
\* and the session COMPLETED only once the journal has recorded both sides as committed,
\* through a commit, a retry or a settlement.
AnnouncedIsCommitted ==
    control.state = "FINISHED" \/ status = "COMPLETED" => journal.pair.done

\* A committed pair is final: no handler that read the journal before puts another pair
\* in its place, or gives it up.
CommittedPairIsFinal ==
    [][journal.pair.done => journal'.pair = journal.pair /\ journal'.state # "ABORTED"]_vars

\* Every session is over in the end, or waits in RECOVERING for a settlement: no
\* lease, deadline or lost handler keeps two players locked into a Trade.
EverySessionEnds == status \in Running ~> status \notin Running

\* docs/API.md: a Trade that expires, is cut off or completes on one side only
\* updates no SAV.  A session that ended has applied both sides or none.
EndedTradeIsWhole ==
    status \in Terminal /\ (\A t \in Threads : worker[t] = Idle) =>
        TradedPlayers \in {{}, journal.pair.changed}

\* "No persistent save was advanced": a pair that a settlement gave up changed no SAV.
AbortedPairChangedNothing == journal.state = "ABORTED" => traded = {}

\* "fixed Host finish is immutable": both SAVs carry the candidates of the finish that
\* the control plane recorded.
CommittedIsTheFinish ==
    \A key \in traded : key.body = control.finish[key.player]

\* "Finish an acknowledged Trade pair, including restart recovery.": a Trade whose
\* finish and receipt match when the server restarts is finished.
AcknowledgedTradeRecovers ==
    status = "RECOVERING" /\ ReadyToCommit ~> control.state = "FINISHED"
=============================================================================
