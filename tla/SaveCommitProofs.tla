-------------------------- MODULE SaveCommitProofs --------------------------
(***************************************************************************)
(* Proofs about SaveCommit: type correctness, no lost update, what success *)
(* answers promise, and that the journal implements VersionedSave, for     *)
(* every number of handlers, client keys, bodies, sessions and faults.     *)
(***************************************************************************)
EXTENDS SaveCommit, TLAPS

\* Handlers that hold the lock of their request key.
Busy(t) == worker[t].pc \notin {"idle", "admin", "waiting"}

\* No request names the last revision of the model or a later one.
BoundedRequests ==
    /\ \A k \in DOMAIN journal : journal[k].exp < MaxRevision
    /\ \A t \in Workers : worker[t].pc \in WorkSteps => worker[t].exp < MaxRevision

\* request_lock and exclusive_lock: one handler per request key.
OneHandlerPerKey ==
    \A t, u \in Workers :
        Busy(t) /\ Busy(u) /\ worker[t].key = worker[u].key => t = u

\* What a handler past ReadJournal knows of its journal row.
HandlerHasRow ==
    \A t \in Workers :
        /\ worker[t].pc \in {"hash", "prepare"} => worker[t].key \notin DOMAIN journal
        /\ worker[t].pc \in {"inspect", "backup", "stage", "replace", "commit", "prune"} =>
              /\ worker[t].key \in DOMAIN journal
              /\ journal[worker[t].key].exp = worker[t].exp
              /\ journal[worker[t].key].body = worker[t].body
        /\ worker[t].pc = "prune" => journal[worker[t].key].state = "COMMITTED"

\* The inductive invariant.
Inv ==
    /\ TypeOK
    /\ BoundedRequests
    /\ OneHandlerPerKey
    /\ HandlerHasRow
    /\ versions # <<>>
    /\ RecordIsNewest
    /\ OneWinnerPerRevision
    /\ AcknowledgedIsApplied
    /\ ReplayIsOwnResult
-----------------------------------------------------------------------------
(* Facts about handlers. *)

\* A handler in a working step carries a request (its record is in Work).
LEMMA WorkingHandler ==
    ASSUME TypeOK, NEW t \in Workers, worker[t].pc \in WorkSteps
    PROVE  worker[t] \in Work
BY DEF TypeOK, Idle, AdminWork, Work, WorkSteps

\* The steps of a handler that holds its key, as WorkSteps lists them.
LEMMA BusyHandler ==
    ASSUME TypeOK, NEW t \in Workers
    PROVE  /\ worker[t].pc \in WorkSteps \cup {"idle", "admin"}
           /\ Busy(t) => worker[t].pc \in WorkSteps
BY DEF TypeOK, Idle, AdminWork, Work, WorkSteps, Busy

-----------------------------------------------------------------------------
(* The invariant holds initially, and every step preserves it. *)

LEMMA InitInv == Init => Inv
<1> SUFFICES ASSUME Init PROVE Inv
    OBVIOUS
<1> USE SaveCommitAssumption
<1>1. TypeOK
    BY DEF Init, TypeOK, Revisions, Logins, NoGame, Row, AdminWork
<1>2. BoundedRequests /\ OneHandlerPerKey /\ HandlerHasRow
    BY DEF Init, BoundedRequests, OneHandlerPerKey, HandlerHasRow, Busy, Idle, WorkSteps
<1>3. versions # <<>> /\ RecordIsNewest
    BY DEF Init, RecordIsNewest
<1>4. OneWinnerPerRevision /\ AcknowledgedIsApplied /\ ReplayIsOwnResult
    BY DEF Init, OneWinnerPerRevision, AcknowledgedIsApplied, ReplayIsOwnResult
<1>5. QED
    BY <1>1, <1>2, <1>3, <1>4 DEF Inv

\* Sessions and save locks come and go without touching the journal.
LEMMA SessionInv ==
    ASSUME Inv, SessionStep
    PROVE  Inv'
<1> USE SaveCommitAssumption DEF Inv, durable
<1>1. UNCHANGED <<durable, worker, versions, answers>>
    BY DEF SessionStep, LogIn, StartGame, EndGame, LockSave, LeaseExpires, UnlockSave
<1>2. TypeOK'
  <2>1. CASE LogIn
    BY <2>1 DEF LogIn, TypeOK, Logins
  <2>2. ASSUME NEW mode \in {"LOCAL", "LINK"}, StartGame(mode)
        PROVE  TypeOK'
    BY <2>2 DEF StartGame, TypeOK, Logins
  <2>3. CASE EndGame
    BY <2>3 DEF EndGame, TypeOK, NoGame
  <2>4. CASE LockSave
    BY <2>4 DEF LockSave, TypeOK
  <2>5. CASE LeaseExpires
    BY <2>5 DEF LeaseExpires, TypeOK
  <2>6. CASE UnlockSave
    BY <2>6 DEF UnlockSave, TypeOK
  <2>7. QED
    BY <2>1, <2>2, <2>3, <2>4, <2>5, <2>6 DEF SessionStep
<1>3. (BoundedRequests /\ OneHandlerPerKey /\ HandlerHasRow)'
    BY <1>1 DEF BoundedRequests, OneHandlerPerKey, HandlerHasRow, Busy
<1>4. (versions # <<>> /\ RecordIsNewest /\ OneWinnerPerRevision)'
    BY <1>1 DEF RecordIsNewest, OneWinnerPerRevision
<1>5. (AcknowledgedIsApplied /\ ReplayIsOwnResult)'
    BY <1>1 DEF AcknowledgedIsApplied, ReplayIsOwnResult
<1>6. QED
    BY <1>2, <1>3, <1>4, <1>5

\* A handler that stops, or has only just received its request, disturbs nothing.
LEMMA HandlerRests ==
    ASSUME Inv, NEW t \in Workers, NEW w \in {Idle} \cup AdminWork \cup Work,
           w.pc \in {"idle", "admin", "waiting"},
           w.pc = "waiting" => w.exp < MaxRevision,
           worker' = [worker EXCEPT ![t] = w],
           UNCHANGED <<record, journal, versions, answers>>
    PROVE  /\ (BoundedRequests /\ OneHandlerPerKey /\ HandlerHasRow)'
           /\ (versions # <<>> /\ RecordIsNewest /\ OneWinnerPerRevision)'
           /\ (AcknowledgedIsApplied /\ ReplayIsOwnResult)'
<1> USE DEF Inv
<1>1. /\ worker'[t] = w
      /\ \A u \in Workers : u # t => worker'[u] = worker[u]
    BY DEF TypeOK
<1>2. BoundedRequests'
    BY <1>1 DEF BoundedRequests, WorkSteps
<1>3. OneHandlerPerKey'
    BY <1>1 DEF OneHandlerPerKey, Busy
<1>4. HandlerHasRow'
    BY <1>1 DEF HandlerHasRow
<1>5. (versions # <<>> /\ RecordIsNewest /\ OneWinnerPerRevision)'
    BY DEF RecordIsNewest, OneWinnerPerRevision
<1>6. (AcknowledgedIsApplied /\ ReplayIsOwnResult)'
    BY DEF AcknowledgedIsApplied, ReplayIsOwnResult
<1>7. QED
    BY <1>2, <1>3, <1>4, <1>5, <1>6

\* A handler that moves on with a journal row it has disturbs nothing either.
LEMMA HandlerGoes ==
    ASSUME Inv, NEW t \in Workers, NEW step \in {"backup", "stage", "replace", "commit"},
           worker[t].pc \in {"inspect", "backup", "stage", "replace"},
           Goto(t, step),
           UNCHANGED <<record, journal, versions, answers>>
    PROVE  /\ worker' \in [Workers -> {Idle} \cup AdminWork \cup Work]
           /\ (BoundedRequests /\ OneHandlerPerKey /\ HandlerHasRow)'
           /\ (versions # <<>> /\ RecordIsNewest /\ OneWinnerPerRevision)'
           /\ (AcknowledgedIsApplied /\ ReplayIsOwnResult)'
<1> USE DEF Inv
<1>0. worker[t] \in Work
    BY WorkingHandler DEF WorkSteps
<1>1. \A u \in Workers : u # t => worker'[u] = worker[u]
    BY DEF TypeOK, Goto
<1>2. /\ worker'[t] \in Work
      /\ worker'[t].pc = step
      /\ worker'[t].key = worker[t].key
      /\ worker'[t].exp = worker[t].exp
      /\ worker'[t].body = worker[t].body
  <2>1. worker'[t] = [worker[t] EXCEPT !.pc = step]
    BY DEF TypeOK, Goto
  <2>2. QED
    BY <1>0, <2>1 DEF Work, WorkSteps
<1>3. worker' \in [Workers -> {Idle} \cup AdminWork \cup Work]
    BY <1>1, <1>2 DEF TypeOK, Goto
<1>4. BoundedRequests'
    BY <1>1, <1>2 DEF BoundedRequests, WorkSteps
<1>5. OneHandlerPerKey'
    BY <1>1, <1>2 DEF OneHandlerPerKey, Busy
<1>6. HandlerHasRow'
    BY <1>1, <1>2 DEF HandlerHasRow
<1>7. (versions # <<>> /\ RecordIsNewest /\ OneWinnerPerRevision)'
    BY DEF RecordIsNewest, OneWinnerPerRevision
<1>8. (AcknowledgedIsApplied /\ ReplayIsOwnResult)'
    BY DEF AcknowledgedIsApplied, ReplayIsOwnResult
<1>9. QED
    BY <1>3, <1>4, <1>5, <1>6, <1>7, <1>8

\* A request that joins the queue of its key.
LEMMA EnqueueInv ==
    ASSUME Inv, NEW t \in Workers, NEW k \in Keys, NEW e \in Revisions,
           NEW b \in Bodies, NEW a \in Authority, Enqueue(t, k, e, b, a)
    PROVE  Inv'
<1> DEFINE w == [pc |-> "waiting", key |-> k, exp |-> e, body |-> b,
                 auth |-> a, base |-> b]
<1>1. w \in Work /\ w.pc = "waiting" /\ w.exp < MaxRevision
    BY DEF Enqueue, Work, WorkSteps
<1>2. /\ worker' = [worker EXCEPT ![t] = w]
      /\ UNCHANGED <<record, journal, versions, answers>>
    BY DEF Enqueue, durable
<1> HIDE DEF w
<1>3. TypeOK'
    BY <1>1, <1>2 DEF Enqueue, TypeOK, Inv, durable, sessions
<1>4. QED
    BY <1>1, <1>2, <1>3, HandlerRests DEF Inv

\* A handler that gives up, or is lost.
LEMMA FinishInv ==
    ASSUME Inv, NEW t \in Workers, Finish(t),
           UNCHANGED <<durable, sessions, versions, answers>>,
           faults' \in 0..MaxFaults
    PROVE  Inv'
<1>1. TypeOK'
    BY DEF Finish, TypeOK, Inv, durable, sessions
<1>2. Idle.pc = "idle"
    BY DEF Idle
<1>3. UNCHANGED <<record, journal, versions, answers>>
    BY DEF durable
<1>4. QED
    BY <1>1, <1>2, <1>3, HandlerRests DEF Inv, Finish

LEMMA ArriveInv ==
    ASSUME Inv, NEW t \in Workers, Arrive(t)
    PROVE  Inv'
<1> USE SaveCommitAssumption
<1>1. PICK e \in Revisions, b \in Bodies :
        \/ \E k \in ClientKeys : Upload(t, k, e, b)
        \/ UploadUnkeyed(t, e, b)
        \/ AdminUnlock(t, b)
        \/ PairCommit(t, e, b)
    BY DEF Arrive
<1>2. ASSUME NEW k \in ClientKeys, Upload(t, k, e, b)
      PROVE  Inv'
  <2>1. UploadAuthority \in Authority
      BY DEF Inv, TypeOK, UploadAuthority, Authority, Logins
  <2>2. QED
      BY <1>2, <2>1, EnqueueInv DEF Upload, Keys
<1>3. CASE UploadUnkeyed(t, e, b)
  <2>1. Single \in Authority
      BY DEF Single, Authority
  <2>2. DerivedKey(Single, e, b) \in Keys
      BY <2>1 DEF DerivedKey, DerivedKeys, Keys
  <2>3. QED
      BY <1>3, <2>1, <2>2, EnqueueInv DEF UploadUnkeyed
<1>4. CASE AdminUnlock(t, b)
  <2> DEFINE w == [pc |-> "admin", body |-> b]
  <2>1. w \in AdminWork /\ w.pc = "admin"
      BY DEF AdminWork
  <2>2. /\ worker' = [worker EXCEPT ![t] = w]
        /\ UNCHANGED <<record, journal, versions, answers>>
      BY <1>4 DEF AdminUnlock, durable
  <2> HIDE DEF w
  <2>3. TypeOK'
      BY <1>4, <2>1, <2>2 DEF AdminUnlock, TypeOK, Inv, durable
  <2>4. QED
      BY <2>1, <2>2, <2>3, HandlerRests DEF Inv
<1>5. CASE PairCommit(t, e, b)
  <2> DEFINE a == [mode |-> "PAIR", token |-> lock.owner]
  <2>1. a \in Authority
      BY DEF Inv, TypeOK, Authority
  <2>2. DerivedKey(a, e, b) \in Keys
      BY <2>1 DEF DerivedKey, DerivedKeys, Keys
  <2>3. QED
      BY <1>5, <2>1, <2>2, EnqueueInv DEF PairCommit
<1>6. QED
    BY <1>1, <1>2, <1>3, <1>4, <1>5

LEMMA AdminReplaceInv ==
    ASSUME Inv, NEW t \in Workers, AdminReplace(t)
    PROVE  Inv'
<1> DEFINE b == worker[t].body
<1>1. b \in Bodies /\ record.rev \in Revisions
    BY DEF AdminReplace, Inv, TypeOK, Idle, Work, WorkSteps, AdminWork
<1>2. Admin \in Authority
    BY SaveCommitAssumption DEF Admin, Authority
<1>3. DerivedKey(Admin, record.rev, b) \in Keys
    BY <1>1, <1>2 DEF DerivedKey, DerivedKeys, Keys
<1>4. CASE record.rev < MaxRevision
    BY <1>1, <1>2, <1>3, <1>4, EnqueueInv DEF AdminReplace
<1>5. CASE ~(record.rev < MaxRevision)
  <2>1. Finish(t) /\ UNCHANGED <<durable, sessions, faults, versions, answers>>
      BY <1>5 DEF AdminReplace
  <2>2. QED
      BY <2>1, FinishInv DEF Inv, TypeOK
<1>6. QED
    BY <1>4, <1>5

-----------------------------------------------------------------------------
(* SaveCommitService.commit. *)

\* The row that ReadJournal finds, and the answer it gives for a COMMITTED one.
LEMMA ReplayInv ==
    ASSUME Inv, NEW t \in Workers, worker[t].pc = "waiting", Finish(t),
           worker[t].key \in DOMAIN journal,
           journal[worker[t].key].state = "COMMITTED",
           SameRequest(journal[worker[t].key], worker[t]),
           Answer(t, CommittedReceipt(journal[worker[t].key]).rev,
                     CommittedReceipt(journal[worker[t].key]).sha, TRUE),
           UNCHANGED <<durable, sessions, faults, versions>>
    PROVE  Inv'
<1> DEFINE a == [key |-> worker[t].key, exp |-> worker[t].exp, body |-> worker[t].body,
                 rev |-> worker[t].exp + 1, sha |-> worker[t].body, replay |-> TRUE]
<1>1. worker[t] \in Work
    BY WorkingHandler DEF WorkSteps, Inv
<1>2. worker[t].exp < MaxRevision
    BY DEF Inv, BoundedRequests, WorkSteps
<1>3. answers' = answers \cup {a}
    BY DEF SameRequest, CommittedReceipt, Answer
<1>4. a \in [key : Keys, exp : Revisions, body : Bodies,
             rev : Revisions, sha : Bodies, replay : BOOLEAN]
    BY <1>1, <1>2, SaveCommitAssumption DEF Work, Revisions
<1>5. /\ a.exp < Len(versions) /\ versions[a.exp + 1] = a.body
      /\ a.rev = a.exp + 1 /\ a.sha = a.body
    BY DEF Inv, OneWinnerPerRevision, SameRequest
<1> HIDE DEF a
<1>6. TypeOK'
    BY <1>3, <1>4 DEF Inv, TypeOK, Finish, durable, sessions
<1>7. (AcknowledgedIsApplied /\ ReplayIsOwnResult)'
    BY <1>3, <1>5 DEF Inv, AcknowledgedIsApplied, ReplayIsOwnResult
<1>8. /\ \A u \in Workers : u # t => worker'[u] = worker[u]
      /\ worker'[t] = Idle
    BY DEF Finish, Inv, TypeOK
<1>9. (BoundedRequests /\ OneHandlerPerKey /\ HandlerHasRow)'
    BY <1>8 DEF Inv, BoundedRequests, OneHandlerPerKey, HandlerHasRow, Busy, Idle,
                WorkSteps, durable
<1>10. (versions # <<>> /\ RecordIsNewest /\ OneWinnerPerRevision)'
    BY DEF Inv, RecordIsNewest, OneWinnerPerRevision, durable
<1>11. QED
    BY <1>6, <1>7, <1>9, <1>10 DEF Inv

\* A handler that takes its key and goes on to hash the file or to finish its row.
LEMMA TakeKeyInv ==
    ASSUME Inv, NEW t \in Workers, NEW w \in Work, w.pc \in {"hash", "inspect"},
           w.key = worker[t].key, w.exp = worker[t].exp, w.body = worker[t].body,
           worker[t].pc = "waiting",
           \A u \in Workers : ~Holds(u, worker[t].key),
           worker' = [worker EXCEPT ![t] = w],
           w.pc = "hash" => w.key \notin DOMAIN journal,
           w.pc = "inspect" => /\ w.key \in DOMAIN journal
                               /\ SameRequest(journal[w.key], w),
           UNCHANGED <<durable, sessions, faults, versions, answers>>
    PROVE  Inv'
<1> USE DEF Inv
<1>1. worker[t] \in Work
    BY WorkingHandler DEF WorkSteps
<1>2. \A u \in Workers : u # t => worker'[u] = worker[u]
    BY DEF TypeOK
<1>3. worker'[t] = w
    BY DEF TypeOK
<1>4. TypeOK'
    BY <1>2, <1>3 DEF TypeOK, durable, sessions
<1>5. BoundedRequests'
    BY <1>2, <1>3 DEF BoundedRequests, WorkSteps, durable
<1>6. OneHandlerPerKey'
  <2>1. \A u \in Workers : Busy(u) => worker[u].key # worker[t].key
    BY DEF Busy, Holds
  <2>2. SUFFICES ASSUME NEW u \in Workers, NEW v \in Workers, Busy(u)', Busy(v)',
                        worker'[u].key = worker'[v].key
                 PROVE  u = v
    BY DEF OneHandlerPerKey
  <2>3. CASE u # t /\ v # t
    BY <1>2, <2>2, <2>3 DEF OneHandlerPerKey, Busy
  <2>4. CASE u = t /\ v # t
    BY <1>2, <1>3, <2>1, <2>2, <2>4 DEF Busy
  <2>5. CASE u # t /\ v = t
    BY <1>2, <1>3, <2>1, <2>2, <2>5 DEF Busy
  <2>6. QED
    BY <2>3, <2>4, <2>5
<1>7. HandlerHasRow'
    BY <1>2, <1>3 DEF HandlerHasRow, SameRequest, durable
<1>8. (versions # <<>> /\ RecordIsNewest /\ OneWinnerPerRevision)'
    BY DEF RecordIsNewest, OneWinnerPerRevision, durable
<1>9. (AcknowledgedIsApplied /\ ReplayIsOwnResult)'
    BY DEF AcknowledgedIsApplied, ReplayIsOwnResult
<1>10. QED
    BY <1>4, <1>5, <1>6, <1>7, <1>8, <1>9

LEMMA ReadJournalInv ==
    ASSUME Inv, NEW t \in Workers, ReadJournal(t)
    PROVE  Inv'
<1> DEFINE row == journal[worker[t].key]
<1>0. worker[t] \in Work
    BY WorkingHandler DEF ReadJournal, WorkSteps, Inv
<1>1. /\ worker[t].pc = "waiting"
      /\ \A u \in Workers : ~Holds(u, worker[t].key)
      /\ UNCHANGED <<durable, sessions, faults, versions>>
    BY DEF ReadJournal
<1>2. faults \in 0..MaxFaults /\ record.sha \in Bodies
    BY DEF Inv, TypeOK
<1>3. CASE worker[t].key \notin DOMAIN journal
  <2>1. CASE record.rev = worker[t].exp
    <3> DEFINE w == [worker[t] EXCEPT !.pc = "hash", !.base = record.sha]
    <3>1. worker' = [worker EXCEPT ![t] = w] /\ UNCHANGED answers
      BY <1>3, <2>1 DEF ReadJournal
    <3>2. /\ w \in Work /\ w.pc = "hash"
          /\ w.key = worker[t].key /\ w.exp = worker[t].exp /\ w.body = worker[t].body
      BY <1>0, <1>2, <3>1 DEF Work, WorkSteps
    <3> HIDE DEF w
    <3>3. QED
      BY <1>1, <1>3, <3>1, <3>2, TakeKeyInv
  <2>2. CASE record.rev # worker[t].exp
    BY <1>1, <1>2, <1>3, <2>2, FinishInv DEF ReadJournal
  <2>3. QED
    BY <2>1, <2>2
<1>4. CASE worker[t].key \in DOMAIN journal
  <2>1. row.base \in Bodies
    BY <1>4 DEF Inv, TypeOK, Row
  <2>2. CASE row.state = "COMMITTED" /\ SameRequest(row, worker[t])
    BY <1>1, <1>4, <2>2, ReplayInv DEF ReadJournal
  <2>3. CASE row.state = "PREPARED" /\ SameRequest(row, worker[t]) /\ row.auth = worker[t].auth
    <3> DEFINE w == [worker[t] EXCEPT !.pc = "inspect", !.base = row.base]
    <3>1. worker' = [worker EXCEPT ![t] = w] /\ UNCHANGED answers
      BY <1>4, <2>3 DEF ReadJournal
    <3>2. /\ w \in Work /\ w.pc = "inspect"
          /\ w.key = worker[t].key /\ w.exp = worker[t].exp /\ w.body = worker[t].body
      BY <1>0, <2>1 DEF Work, WorkSteps
    <3> HIDE DEF w
    <3>3. SameRequest(journal[w.key], w)
      BY <2>3, <3>2 DEF SameRequest
    <3>4. QED
      BY <1>1, <1>4, <3>1, <3>2, <3>3, TakeKeyInv
  <2>4. CASE /\ ~(row.state = "COMMITTED" /\ SameRequest(row, worker[t]))
             /\ ~(row.state = "PREPARED" /\ SameRequest(row, worker[t])
                                        /\ row.auth = worker[t].auth)
    BY <1>1, <1>2, <1>4, <2>4, FinishInv DEF ReadJournal
  <2>5. QED
    BY <2>2, <2>3, <2>4
<1>5. QED
    BY <1>3, <1>4

LEMMA HashFileInv ==
    ASSUME Inv, NEW t \in Workers, HashFile(t)
    PROVE  Inv'
<1> USE DEF Inv
<1>1. CASE ~Goto(t, "prepare")
    BY <1>1, FinishInv DEF HashFile, TypeOK
<1>2. CASE Goto(t, "prepare")
  <2>1. worker[t] \in Work
    BY WorkingHandler DEF HashFile, WorkSteps
  <2>2. \A u \in Workers : u # t => worker'[u] = worker[u]
    BY <1>2 DEF TypeOK, Goto
  <2>3. /\ worker'[t] \in Work
        /\ worker'[t].pc = "prepare"
        /\ worker'[t].key = worker[t].key
        /\ worker'[t].exp = worker[t].exp
        /\ worker'[t].body = worker[t].body
    <3>1. worker'[t] = [worker[t] EXCEPT !.pc = "prepare"]
      BY <1>2 DEF TypeOK, Goto
    <3>2. QED
      BY <2>1, <3>1 DEF Work, WorkSteps
  <2>4. TypeOK'
    BY <1>2, <2>2, <2>3 DEF TypeOK, HashFile, Goto, durable, sessions
  <2>5. BoundedRequests'
    BY <2>2, <2>3 DEF HashFile, BoundedRequests, WorkSteps, durable
  <2>6. OneHandlerPerKey'
    BY <2>2, <2>3 DEF HashFile, OneHandlerPerKey, Busy
  <2>7. HandlerHasRow'
    BY <2>2, <2>3 DEF HashFile, HandlerHasRow, durable
  <2>8. (versions # <<>> /\ RecordIsNewest /\ OneWinnerPerRevision)'
    BY DEF HashFile, RecordIsNewest, OneWinnerPerRevision, durable
  <2>9. (AcknowledgedIsApplied /\ ReplayIsOwnResult)'
    BY DEF HashFile, AcknowledgedIsApplied, ReplayIsOwnResult
  <2>10. QED
    BY <2>4, <2>5, <2>6, <2>7, <2>8, <2>9
<1>3. QED
    BY <1>1, <1>2

LEMMA PrepareUploadInv ==
    ASSUME Inv, NEW t \in Workers, PrepareUpload(t)
    PROVE  Inv'
<1> USE DEF Inv
<1>1. CASE ~MayPrepare(worker[t])
  <2>1. Finish(t) /\ UNCHANGED <<durable, sessions, versions, answers, faults>>
    BY <1>1 DEF PrepareUpload, durable
  <2>2. QED
    BY <2>1, FinishInv DEF TypeOK
<1>2. CASE MayPrepare(worker[t])
  <2> DEFINE w == worker[t]
             row == [state |-> "PREPARED", exp |-> w.exp, base |-> w.base,
                     body |-> w.body, auth |-> w.auth]
  <2>1. w \in Work /\ w.pc = "prepare" /\ w.key \notin DOMAIN journal /\ w.exp < MaxRevision
    BY WorkingHandler DEF PrepareUpload, WorkSteps, HandlerHasRow, BoundedRequests
  <2>2. /\ Goto(t, "inspect")
        /\ journal' = Extend(journal, w.key, row)
        /\ UNCHANGED <<record, file, candidates, backups, sessions, faults, versions, answers>>
    BY <1>2 DEF PrepareUpload
  <2>3. \A u \in Workers : u # t => worker'[u] = worker[u]
    BY <2>2 DEF TypeOK, Goto
  <2>4. /\ worker'[t] \in Work
        /\ worker'[t].pc = "inspect"
        /\ worker'[t].key = w.key /\ worker'[t].exp = w.exp /\ worker'[t].body = w.body
    <3>1. worker'[t] = [worker[t] EXCEPT !.pc = "inspect"]
      BY <2>2 DEF TypeOK, Goto
    <3>2. QED
      BY <2>1, <3>1 DEF Work, WorkSteps
  <2>5. /\ row \in Row /\ row.exp = w.exp /\ row.body = w.body /\ row.state = "PREPARED"
    BY <2>1 DEF Row, Work
  <2> HIDE DEF row
  <2>6. /\ DOMAIN journal' = DOMAIN journal \cup {w.key}
        /\ journal'[w.key] = row
        /\ \A k \in DOMAIN journal : journal'[k] = journal[k]
        /\ journal' \in [DOMAIN journal' -> Row]
    BY <2>1, <2>2, <2>5 DEF Extend, TypeOK
  <2>7. w.key \in Keys
    BY <2>1 DEF Work
  <2>8. worker' \in [Workers -> {Idle} \cup AdminWork \cup Work]
    BY <2>2, <2>3, <2>4 DEF TypeOK, Goto
  <2>9. TypeOK'
    BY <2>2, <2>6, <2>7, <2>8 DEF TypeOK, sessions
  <2>10. BoundedRequests'
    BY <2>1, <2>3, <2>4, <2>5, <2>6 DEF BoundedRequests, WorkSteps
  <2>11. OneHandlerPerKey'
    BY <2>1, <2>3, <2>4 DEF OneHandlerPerKey, Busy
  <2>12. HandlerHasRow'
    <3> SUFFICES ASSUME NEW u \in Workers
                 PROVE  /\ worker'[u].pc \in {"hash", "prepare"} =>
                              worker'[u].key \notin DOMAIN journal'
                        /\ worker'[u].pc \in {"inspect", "backup", "stage", "replace",
                                              "commit", "prune"} =>
                              /\ worker'[u].key \in DOMAIN journal'
                              /\ journal'[worker'[u].key].exp = worker'[u].exp
                              /\ journal'[worker'[u].key].body = worker'[u].body
                        /\ worker'[u].pc = "prune" =>
                              journal'[worker'[u].key].state = "COMMITTED"
      BY DEF HandlerHasRow
    <3>1. CASE u = t
      BY <2>4, <2>5, <2>6, <3>1
    <3>2. CASE u # t
      <4>1. Busy(u) => worker[u].key # w.key
        BY <2>1, <3>2 DEF OneHandlerPerKey, Busy
      <4>2. QED
        BY <2>3, <2>6, <3>2, <4>1 DEF HandlerHasRow, Busy
    <3>3. QED
      BY <3>1, <3>2
  <2>13. (versions # <<>> /\ RecordIsNewest /\ OneWinnerPerRevision)'
    BY <2>2, <2>5, <2>6 DEF RecordIsNewest, OneWinnerPerRevision
  <2>14. (AcknowledgedIsApplied /\ ReplayIsOwnResult)'
    BY <2>2 DEF AcknowledgedIsApplied, ReplayIsOwnResult
  <2>15. QED
    BY <2>9, <2>10, <2>11, <2>12, <2>13, <2>14
<1>3. QED
    BY <1>1, <1>2

-----------------------------------------------------------------------------
(* _finish_prepared. *)

\* Files come and go without touching the journal or the metadata.
LEMMA FileStepInv ==
    ASSUME Inv, NEW t \in Workers,
           Inspect(t) \/ WriteBackup(t) \/ WriteCandidate(t) \/ ReplaceFile(t)
    PROVE  Inv'
<1> USE DEF Inv
<1>1. worker[t] \in Work
    BY WorkingHandler DEF Inspect, WriteBackup, WriteCandidate, ReplaceFile, WorkSteps
<1>2. UNCHANGED <<record, journal, sessions, faults, versions>>
    BY DEF Inspect, WriteBackup, WriteCandidate, ReplaceFile, durable
<1>3. UNCHANGED answers
    BY DEF Inspect, WriteBackup, WriteCandidate, ReplaceFile
<1>4. /\ file' \in Bodies
      /\ candidates' \subseteq Keys
      /\ DOMAIN backups' \subseteq Revisions /\ backups' \in [DOMAIN backups' -> Bodies]
  <2>1. CASE Inspect(t)
    BY <2>1 DEF Inspect, TypeOK, durable
  <2>2. CASE WriteBackup(t)
    <3>1. /\ DOMAIN Extend(backups, worker[t].exp, file) \subseteq Revisions
          /\ Extend(backups, worker[t].exp, file)
                \in [DOMAIN Extend(backups, worker[t].exp, file) -> Bodies]
      BY <1>1 DEF Extend, TypeOK, Work
    <3>2. QED
      BY <2>2, <3>1 DEF WriteBackup, TypeOK
  <2>3. CASE WriteCandidate(t)
    BY <1>1, <2>3 DEF WriteCandidate, TypeOK, Work
  <2>4. CASE ReplaceFile(t)
    BY <1>1, <2>4 DEF ReplaceFile, TypeOK, Work
  <2>5. QED
    BY <2>1, <2>2, <2>3, <2>4
<1>5. CASE Finish(t)
  <2>1. Idle.pc = "idle"
    BY DEF Idle
  <2>2. worker' = [worker EXCEPT ![t] = Idle]
    BY <1>5 DEF Finish
  <2>3. TypeOK'
    BY <1>2, <1>3, <1>4, <2>2 DEF TypeOK, sessions
  <2>4. QED
    BY <1>2, <1>3, <2>1, <2>2, <2>3, HandlerRests
<1>6. CASE ~Finish(t)
  <2>1. /\ worker[t].pc \in {"inspect", "backup", "stage", "replace"}
        /\ \E step \in {"backup", "stage", "replace", "commit"} : Goto(t, step)
    BY <1>6 DEF Inspect, WriteBackup, WriteCandidate, ReplaceFile
  <2>2. /\ worker' \in [Workers -> {Idle} \cup AdminWork \cup Work]
        /\ (BoundedRequests /\ OneHandlerPerKey /\ HandlerHasRow)'
        /\ (versions # <<>> /\ RecordIsNewest /\ OneWinnerPerRevision)'
        /\ (AcknowledgedIsApplied /\ ReplayIsOwnResult)'
    BY <1>2, <1>3, <2>1, HandlerGoes
  <2>3. TypeOK'
    BY <1>2, <1>3, <1>4, <2>2 DEF TypeOK, sessions
  <2>4. QED
    BY <2>2, <2>3
<1>7. QED
    BY <1>5, <1>6

\* commit_prepared_save_upload applies a row once, to the revision it expects.
LEMMA CommitMetadataInv ==
    ASSUME Inv, NEW t \in Workers, CommitMetadata(t)
    PROVE  Inv'
<1> USE DEF Inv
<1> DEFINE w == worker[t]
           row == journal[w.key]
           advance == row.state = "PREPARED" /\ ~Applied(row) /\ Applicable(row)
<1>1. /\ w \in Work /\ w.pc = "commit" /\ w.key \in DOMAIN journal
      /\ row.exp = w.exp /\ row.body = w.body /\ w.exp < MaxRevision
    BY WorkingHandler DEF CommitMetadata, WorkSteps, HandlerHasRow, BoundedRequests
<1>2. CASE ~(row.state = "COMMITTED" \/ Applied(row) \/ advance)
  <2>1. Finish(t) /\ UNCHANGED <<durable, sessions, versions, answers, faults>>
    BY <1>2 DEF CommitMetadata, durable
  <2>2. QED
    BY <2>1, FinishInv DEF TypeOK
<1>3. CASE row.state = "COMMITTED" \/ Applied(row) \/ advance
  <2>1. /\ journal' = [journal EXCEPT ![w.key].state = "COMMITTED"]
        /\ record' = IF advance THEN [rev |-> record.rev + 1, sha |-> row.body]
                                ELSE record
        /\ versions' = IF advance THEN Append(versions, row.body) ELSE versions
        /\ Goto(t, "prune")
        /\ UNCHANGED <<file, candidates, backups, sessions, faults, answers>>
    BY <1>3 DEF CommitMetadata
  <2>2. \A u \in Workers : u # t => worker'[u] = worker[u]
    BY <2>1 DEF TypeOK, Goto
  <2>3. /\ worker'[t] \in Work
        /\ worker'[t].pc = "prune"
        /\ worker'[t].key = w.key /\ worker'[t].exp = w.exp /\ worker'[t].body = w.body
    <3>1. worker'[t] = [worker[t] EXCEPT !.pc = "prune"]
      BY <2>1 DEF TypeOK, Goto
    <3>2. QED
      BY <1>1, <3>1 DEF Work, WorkSteps
  <2>4. row \in Row
    BY <1>1 DEF TypeOK
  <2>5. /\ DOMAIN journal' = DOMAIN journal
        /\ \A k \in DOMAIN journal : k # w.key => journal'[k] = journal[k]
        /\ journal'[w.key] \in Row
        /\ journal'[w.key].state = "COMMITTED"
        /\ journal'[w.key].exp = row.exp /\ journal'[w.key].body = row.body
    <3>1. journal'[w.key] = [row EXCEPT !.state = "COMMITTED"]
      BY <1>1, <2>1 DEF TypeOK
    <3>2. QED
      BY <1>1, <2>1, <2>4, <3>1 DEF TypeOK, Row
  <2>6. journal' \in [DOMAIN journal' -> Row]
    BY <2>1, <2>5 DEF TypeOK
  <2>7. /\ versions' \in Seq(Bodies) /\ versions' # <<>>
        /\ record' \in [rev : Revisions, sha : Bodies]
        /\ RecordIsNewest'
        /\ Len(versions') >= Len(versions)
        /\ \A n \in 1..Len(versions) : versions'[n] = versions[n]
        /\ advance => row.exp = Len(versions)
        /\ advance => Len(versions') = Len(versions) + 1
        /\ advance => versions'[Len(versions) + 1] = row.body
        /\ ~advance => versions' = versions
    <3>1. CASE advance
      BY SMTT(60), <1>1, <2>1, <2>4, <3>1, SaveCommitAssumption
         DEF TypeOK, RecordIsNewest, Applicable, Row, Revisions
    <3>2. CASE ~advance
      BY <2>1, <3>2 DEF TypeOK, RecordIsNewest
    <3>3. QED
      BY <3>1, <3>2
  <2>8. row.exp \in Nat \ {0} /\ Len(versions) \in Nat
    BY <2>4 DEF Row, Revisions, TypeOK
  <2>9. /\ row.exp < Len(versions')
        /\ versions'[row.exp + 1] = row.body
    <3>1. CASE row.state = "COMMITTED"
      BY <1>1, <2>7, <2>8, <3>1 DEF OneWinnerPerRevision
    <3>2. CASE Applied(row)
      BY <2>7, <2>8, <3>2 DEF Applied, RecordIsNewest
    <3>3. CASE advance
      BY <2>7, <2>8, <3>3
    <3>4. QED
      BY <1>3, <3>1, <3>2, <3>3
  <2>10. worker' \in [Workers -> {Idle} \cup AdminWork \cup Work]
    BY <2>1, <2>2, <2>3 DEF TypeOK, Goto
  <2>11. TypeOK'
    BY <2>1, <2>5, <2>6, <2>7, <2>10 DEF TypeOK, sessions
  <2>12. BoundedRequests'
    BY <1>1, <2>2, <2>3, <2>5 DEF BoundedRequests, WorkSteps
  <2>13. OneHandlerPerKey'
    BY <1>1, <2>2, <2>3 DEF OneHandlerPerKey, Busy
  <2>14. HandlerHasRow'
    <3> SUFFICES ASSUME NEW u \in Workers
                 PROVE  /\ worker'[u].pc \in {"hash", "prepare"} =>
                              worker'[u].key \notin DOMAIN journal'
                        /\ worker'[u].pc \in {"inspect", "backup", "stage", "replace",
                                              "commit", "prune"} =>
                              /\ worker'[u].key \in DOMAIN journal'
                              /\ journal'[worker'[u].key].exp = worker'[u].exp
                              /\ journal'[worker'[u].key].body = worker'[u].body
                        /\ worker'[u].pc = "prune" =>
                              journal'[worker'[u].key].state = "COMMITTED"
      BY DEF HandlerHasRow
    <3>1. CASE u = t
      BY <1>1, <2>3, <2>5, <3>1
    <3>2. CASE u # t
      <4>1. Busy(u) => worker[u].key # w.key
        BY <1>1, <3>2 DEF OneHandlerPerKey, Busy
      <4>2. QED
        BY <2>2, <2>5, <3>2, <4>1 DEF HandlerHasRow, Busy
    <3>3. QED
      BY <3>1, <3>2
  <2>15. OneWinnerPerRevision'
    <3> SUFFICES ASSUME NEW k \in DOMAIN journal, journal'[k].state = "COMMITTED"
                 PROVE  /\ journal'[k].exp < Len(versions')
                        /\ versions'[journal'[k].exp + 1] = journal'[k].body
      BY <2>5 DEF OneWinnerPerRevision
    <3>1. CASE k = w.key
      BY <2>5, <2>9, <3>1
    <3>2. CASE k # w.key
      <4>1. journal[k].exp \in Nat /\ Len(versions') \in Nat
        BY <2>7 DEF TypeOK, Row, Revisions
      <4>2. QED
        BY SMTT(20), <2>5, <2>7, <2>8, <3>2, <4>1 DEF OneWinnerPerRevision
    <3>3. QED
      BY <3>1, <3>2
  <2>16. AcknowledgedIsApplied'
    <3> SUFFICES ASSUME NEW a \in answers
                 PROVE  a.exp < Len(versions') /\ versions'[a.exp + 1] = a.body
      BY <2>1 DEF AcknowledgedIsApplied
    <3>1. a.exp \in Nat /\ a.exp < Len(versions) /\ versions[a.exp + 1] = a.body
          /\ Len(versions') \in Nat
      BY <2>7 DEF AcknowledgedIsApplied, TypeOK, Revisions
    <3>2. QED
      BY <2>7, <2>8, <3>1
  <2>17. ReplayIsOwnResult'
    BY <2>1 DEF ReplayIsOwnResult
  <2>18. QED
    BY <2>7, <2>11, <2>12, <2>13, <2>14, <2>15, <2>16, <2>17
<1>4. QED
    BY <1>2, <1>3

\* The first answer of a request: its row is COMMITTED by now.
LEMMA PruneAndAnswerInv ==
    ASSUME Inv, NEW t \in Workers, PruneAndAnswer(t)
    PROVE  Inv'
<1> USE DEF Inv
<1> DEFINE a == [key |-> worker[t].key, exp |-> worker[t].exp, body |-> worker[t].body,
                 rev |-> record.rev, sha |-> record.sha, replay |-> FALSE]
<1>1. worker[t] \in Work
    BY WorkingHandler DEF PruneAndAnswer, WorkSteps
<1>2. answers' = answers \cup {a}
    BY DEF PruneAndAnswer, Answer
<1>3. a \in [key : Keys, exp : Revisions, body : Bodies,
             rev : Revisions, sha : Bodies, replay : BOOLEAN]
    BY <1>1 DEF Work, TypeOK
<1>4. /\ a.exp < Len(versions) /\ versions[a.exp + 1] = a.body
      /\ a.replay = FALSE
    BY DEF PruneAndAnswer, HandlerHasRow, OneWinnerPerRevision
<1> HIDE DEF a
<1>5. /\ DOMAIN backups' \subseteq Revisions
      /\ backups' \in [DOMAIN backups' -> Bodies]
    BY DEF PruneAndAnswer, Newest, TypeOK
<1>6. UNCHANGED <<record, journal, file, candidates, sessions, faults, versions>> /\ Finish(t)
    BY DEF PruneAndAnswer
<1>7. TypeOK'
    BY <1>2, <1>3, <1>5, <1>6 DEF TypeOK, Finish, sessions
<1>8. (AcknowledgedIsApplied /\ ReplayIsOwnResult)'
    BY <1>2, <1>4, <1>6 DEF AcknowledgedIsApplied, ReplayIsOwnResult
<1>9. /\ \A u \in Workers : u # t => worker'[u] = worker[u]
      /\ worker'[t] = Idle
    BY <1>6 DEF Finish, TypeOK
<1>10. (BoundedRequests /\ OneHandlerPerKey /\ HandlerHasRow)'
    BY <1>6, <1>9 DEF BoundedRequests, OneHandlerPerKey, HandlerHasRow, Busy, Idle, WorkSteps
<1>11. (versions # <<>> /\ RecordIsNewest /\ OneWinnerPerRevision)'
    BY <1>6 DEF RecordIsNewest, OneWinnerPerRevision
<1>12. QED
    BY <1>7, <1>8, <1>10, <1>11

LEMMA FaultInv ==
    ASSUME Inv, NEW t \in Workers, Fault(t)
    PROVE  Inv'
<1>1. faults' \in 0..MaxFaults
    BY SaveCommitAssumption DEF Fault, Inv, TypeOK
<1>2. Finish(t) /\ UNCHANGED <<durable, sessions, versions, answers>>
    BY DEF Fault
<1>3. QED
    BY <1>1, <1>2, FinishInv

LEMMA NextInv == Inv /\ [Next]_vars => Inv'
<1> SUFFICES ASSUME Inv, [Next]_vars PROVE Inv'
    OBVIOUS
<1>1. CASE SessionStep
    BY <1>1, SessionInv
<1>2. ASSUME NEW t \in Workers, Arrive(t)
      PROVE  Inv'
    BY <1>2, ArriveInv
<1>3. ASSUME NEW t \in Workers, Serve(t)
      PROVE  Inv'
  <2>1. CASE AdminReplace(t)
    BY <2>1, AdminReplaceInv
  <2>2. CASE ReadJournal(t)
    BY <2>2, ReadJournalInv
  <2>3. CASE HashFile(t)
    BY <2>3, HashFileInv
  <2>4. CASE PrepareUpload(t)
    BY <2>4, PrepareUploadInv
  <2>5. CASE Inspect(t) \/ WriteBackup(t) \/ WriteCandidate(t) \/ ReplaceFile(t)
    BY <2>5, FileStepInv
  <2>6. CASE CommitMetadata(t)
    BY <2>6, CommitMetadataInv
  <2>7. CASE PruneAndAnswer(t)
    BY <2>7, PruneAndAnswerInv
  <2>8. QED
    BY <1>3, <2>1, <2>2, <2>3, <2>4, <2>5, <2>6, <2>7 DEF Serve
<1>4. ASSUME NEW t \in Workers, Fault(t)
      PROVE  Inv'
    BY <1>4, FaultInv
<1>5. CASE UNCHANGED vars
  <2>1. UNCHANGED <<durable, sessions, worker, faults, versions, answers>>
    BY <1>5 DEF vars, durable, sessions
  <2>2. TypeOK'
    BY <2>1 DEF Inv, TypeOK, durable, sessions
  <2>3. (BoundedRequests /\ OneHandlerPerKey /\ HandlerHasRow)'
    BY <2>1 DEF Inv, BoundedRequests, OneHandlerPerKey, HandlerHasRow, Busy, durable
  <2>4. (versions # <<>> /\ RecordIsNewest /\ OneWinnerPerRevision)'
    BY <2>1 DEF Inv, RecordIsNewest, OneWinnerPerRevision, durable
  <2>5. (AcknowledgedIsApplied /\ ReplayIsOwnResult)'
    BY <2>1 DEF Inv, AcknowledgedIsApplied, ReplayIsOwnResult
  <2>6. QED
    BY <2>2, <2>3, <2>4, <2>5 DEF Inv
<1>6. QED
    BY <1>1, <1>2, <1>3, <1>4, <1>5 DEF Next

LEMMA Invariance == Spec => []Inv
<1>1. QED
    BY InitInv, NextInv, PTL DEF Spec

-----------------------------------------------------------------------------
(* The theorems. *)

\* Rows, files, locks and handlers of sqlite_assets.py are well formed in every
\* reachable state, however many handlers, sessions and faults there are.
THEOREM TypeCorrectness == Spec => []TypeOK
<1>1. Inv => TypeOK
    BY DEF Inv
<1>2. QED
    BY <1>1, Invariance, PTL

\* No lost update: two requests committed on one revision carried the bytes that
\* the next revision recorded (commit_prepared_save_upload).
THEOREM NoLostUpdate == Spec => []OneWinnerPerRevision
<1>1. Inv => OneWinnerPerRevision
    BY DEF Inv
<1>2. QED
    BY <1>1, Invariance, PTL

\* A success answer stands: its bytes are the revision after the expected one.
THEOREM AcknowledgementsStand == Spec => []AcknowledgedIsApplied
<1>1. Inv => AcknowledgedIsApplied
    BY DEF Inv
<1>2. QED
    BY <1>1, Invariance, PTL

\* A replayed receipt is the result of its own commit (_committed_record).
THEOREM ReplaysAreReadOnly == Spec => []ReplayIsOwnResult
<1>1. Inv => ReplayIsOwnResult
    BY DEF Inv
<1>2. QED
    BY <1>1, Invariance, PTL

-----------------------------------------------------------------------------
(* The journal implements VersionedSave. *)

\* Steps that leave rows and metadata alone are stutters of the store.
LEMMA Stutter ==
    ASSUME UNCHANGED <<record, journal>>
    PROVE  UNCHANGED Store!vars
BY DEF AppliedAt, Store!vars

\* A PREPARED row is not yet seen by the store.
LEMMA PrepareStutters ==
    ASSUME Inv, NEW t \in Workers, PrepareUpload(t)
    PROVE  UNCHANGED Store!vars
<1>1. CASE ~MayPrepare(worker[t])
    BY <1>1, Stutter DEF PrepareUpload
<1>2. CASE MayPrepare(worker[t])
  <2> DEFINE w == worker[t]
             row == [state |-> "PREPARED", exp |-> w.exp, base |-> w.base,
                     body |-> w.body, auth |-> w.auth]
  <2>1. w.key \notin DOMAIN journal
    BY DEF PrepareUpload, Inv, HandlerHasRow
  <2>2. journal' = Extend(journal, w.key, row) /\ UNCHANGED record
    BY <1>2 DEF PrepareUpload
  <2>3. row.state = "PREPARED"
    OBVIOUS
  <2> HIDE DEF row
  <2>4. /\ DOMAIN journal' = DOMAIN journal \cup {w.key}
        /\ journal'[w.key] = row
        /\ \A k \in DOMAIN journal : journal'[k] = journal[k]
    BY <2>1, <2>2 DEF Extend
  <2>5. {j \in DOMAIN journal' : journal'[j].state = "COMMITTED"}
            = {j \in DOMAIN journal : journal[j].state = "COMMITTED"}
    BY <2>3, <2>4
  <2>6. UNCHANGED AppliedAt
    BY <2>4, <2>5 DEF AppliedAt
  <2>7. QED
    BY <2>2, <2>6 DEF Store!vars
<1>3. QED
    BY <1>1, <1>2

\* commit_prepared_save_upload is the store's Apply, its Coalesce, or a stutter.
LEMMA CommitImplements ==
    ASSUME Inv, NEW t \in Workers, CommitMetadata(t)
    PROVE  [Store!Next]_(Store!vars)
<1> DEFINE w == worker[t]
           row == journal[w.key]
           advance == row.state = "PREPARED" /\ ~Applied(row) /\ Applicable(row)
           Done == {j \in DOMAIN journal : journal[j].state = "COMMITTED"}
<1>1. /\ w \in Work /\ w.key \in DOMAIN journal
    BY WorkingHandler DEF CommitMetadata, WorkSteps, HandlerHasRow, Inv
<1>2. row \in Row /\ w.key \in Keys
    BY <1>1 DEF Inv, TypeOK, Work
<1>3. CASE ~(row.state = "COMMITTED" \/ Applied(row) \/ advance)
    BY <1>3, Stutter DEF CommitMetadata
<1>4. CASE row.state = "COMMITTED"
  <2>1. UNCHANGED record
    BY <1>4 DEF CommitMetadata
  <2>2. journal' = journal
    BY <1>1, <1>4 DEF CommitMetadata, Inv, TypeOK, Row
  <2>3. QED
    BY <2>1, <2>2, Stutter
<1>5. CASE row.state = "PREPARED" /\ (Applied(row) \/ advance)
  <2>1. /\ journal' = [journal EXCEPT ![w.key].state = "COMMITTED"]
        /\ record' = IF advance THEN [rev |-> record.rev + 1, sha |-> row.body]
                                ELSE record
    BY <1>5 DEF CommitMetadata
  <2>2. /\ DOMAIN journal' = DOMAIN journal
        /\ \A k \in DOMAIN journal : k # w.key => journal'[k] = journal[k]
        /\ journal'[w.key].state = "COMMITTED" /\ journal'[w.key].exp = row.exp
    <3>1. journal'[w.key] = [row EXCEPT !.state = "COMMITTED"]
      BY <1>1, <2>1 DEF Inv, TypeOK
    <3>2. QED
      BY <1>1, <1>2, <2>1, <3>1 DEF Inv, TypeOK, Row
  <2>3. record'.rev = row.exp + 1
    <3>1. CASE advance
      BY <2>1, <3>1 DEF Applicable
    <3>2. CASE ~advance
      BY <1>5, <2>1, <3>2 DEF Applied
    <3>3. QED
      BY <3>1, <3>2
  <2>4. w.key \notin Done
    BY <1>5
  <2>5. {j \in DOMAIN journal' : journal'[j].state = "COMMITTED"} = Done \cup {w.key}
    BY <1>1, <2>2
  <2>6. AppliedAt' = [k \in Done \cup {w.key} |->
                         IF k = w.key THEN record'.rev ELSE AppliedAt[k]]
    <3>1. AppliedAt' = [k \in Done \cup {w.key} |-> journal'[k].exp + 1]
      BY <2>5 DEF AppliedAt
    <3>2. \A k \in Done : AppliedAt[k] = journal[k].exp + 1
      BY DEF AppliedAt
    <3>3. \A k \in Done \cup {w.key} :
              journal'[k].exp + 1 = IF k = w.key THEN record'.rev ELSE AppliedAt[k]
      BY <2>2, <2>3, <2>4, <3>2
    <3>4. QED
      BY <3>1, <3>3
  <2>7. DOMAIN AppliedAt = Done
    BY DEF AppliedAt
  <2>8. Store!Record(w.key)
    BY <2>4, <2>6, <2>7 DEF Store!Record
  <2>9. CASE advance
    <3>1. Store!Apply(w.key, row.body)
      BY <2>1, <2>8, <2>9 DEF Store!Apply
    <3>2. QED
      BY <1>2, <3>1 DEF Store!Next, Row
  <2>10. CASE ~advance
    <3>1. record.rev > 1 /\ UNCHANGED record
      BY <1>2, <1>5, <2>1, <2>10 DEF Applied, Row, Revisions
    <3>2. Store!Coalesce(w.key)
      BY <2>8, <3>1 DEF Store!Coalesce
    <3>3. QED
      BY <1>2, <3>2 DEF Store!Next
  <2>11. QED
    BY <2>9, <2>10
<1>6. QED
    BY <1>2, <1>3, <1>4, <1>5 DEF Row

LEMMA StepImplements == Inv /\ [Next]_vars => [Store!Next]_(Store!vars)
<1> SUFFICES ASSUME Inv, [Next]_vars PROVE [Store!Next]_(Store!vars)
    OBVIOUS
<1>1. CASE SessionStep
    BY <1>1, Stutter DEF SessionStep, LogIn, StartGame, EndGame, LockSave, LeaseExpires,
       UnlockSave, durable
<1>2. ASSUME NEW t \in Workers, Arrive(t)
      PROVE  UNCHANGED Store!vars
    BY <1>2, Stutter DEF Arrive, Upload, UploadUnkeyed, AdminUnlock, PairCommit, Enqueue, durable
<1>3. ASSUME NEW t \in Workers, Serve(t)
      PROVE  [Store!Next]_(Store!vars)
  <2>1. CASE AdminReplace(t)
    BY <2>1, Stutter DEF AdminReplace, Enqueue, durable
  <2>2. CASE ReadJournal(t) \/ HashFile(t)
    BY <2>2, Stutter DEF ReadJournal, HashFile, durable
  <2>3. CASE PrepareUpload(t)
    BY <2>3, PrepareStutters
  <2>4. CASE Inspect(t) \/ WriteBackup(t) \/ WriteCandidate(t) \/ ReplaceFile(t)
    BY <2>4, Stutter DEF Inspect, WriteBackup, WriteCandidate, ReplaceFile, durable
  <2>5. CASE CommitMetadata(t)
    BY <2>5, CommitImplements
  <2>6. CASE PruneAndAnswer(t)
    BY <2>6, Stutter DEF PruneAndAnswer
  <2>7. QED
    BY <1>3, <2>1, <2>2, <2>3, <2>4, <2>5, <2>6 DEF Serve
<1>4. ASSUME NEW t \in Workers, Fault(t)
      PROVE  UNCHANGED Store!vars
    BY <1>4, Stutter DEF Fault, durable
<1>5. CASE UNCHANGED vars
    BY <1>5, Stutter DEF vars
<1>6. QED
    BY <1>1, <1>2, <1>3, <1>4, <1>5 DEF Next

\* Seen through the metadata row and the COMMITTED rows, every run of the journal
\* is a run of VersionedSave: each request applied at most once, to its revision.
THEOREM JournalImplementsStore == Spec => ImplementsVersionedSave
<1>1. Init => Store!Init
  <2> SUFFICES ASSUME Init PROVE Store!Init
    OBVIOUS
  <2>1. {j \in DOMAIN journal : journal[j].state = "COMMITTED"} = {}
    BY DEF Init
  <2>2. AppliedAt = [k \in {} |-> 0]
    BY <2>1 DEF AppliedAt
  <2>3. QED
    BY <2>2 DEF Init, Store!Init
<1>2. Inv /\ [Next]_vars => [Store!Next]_(Store!vars)
    BY StepImplements
<1>3. QED
    BY <1>1, <1>2, Invariance, PTL DEF Spec, ImplementsVersionedSave, Store!Spec

=============================================================================
