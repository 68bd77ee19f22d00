--------------------------- MODULE LinkPairProofs ---------------------------
(***************************************************************************)
(* Proofs about LinkPair: for every number of handlers, every payload,     *)
(* every bound and every fault, a Trade that the Host finishes with one    *)
(* pair of candidates is committed whole, on the revisions it was played   *)
(* from, once and for good, and nobody is told so before.  Settlements by  *)
(* a ROM replacement are left out: with them the model checker finds half  *)
(* pairs (README, section 13).                                             *)
(***************************************************************************)
EXTENDS LinkPair, TLAPS

\* The Host finishes with one pair of candidates, which it repeats until it is answered.
SingleFinish == \A c, d \in Finishes : c = d
NoSettlement == "settle" \notin Requests

\* That pair, the sides it changes and the journal row it becomes.
Trade == CHOOSE c \in Candidates : Finishes \subseteq {c}
TradeChanged == {p \in Players : Trade[p] # "old"}
TradePair == [base |-> [p \in Players |-> 1], changed |-> TradeChanged, sha |-> Trade,
              done |-> FALSE]
DonePair == [TradePair EXCEPT !.done = TRUE]
TradeKey(p) == [player |-> p, owner |-> "LINK", exp |-> 1, body |-> Trade[p]]
TradeKeys == {TradeKey(p) : p \in TradeChanged}

\* No settlement holds a SAV.
NoSettler == \A p \in Players : game[p] # "SETTLE" /\ lock[p].owner # "SETTLE"

\* Whatever is staged is the Trade, and only its sides are uploaded.
OnlyTheTrade ==
    /\ temp \in {NoFiles, Trade}
    /\ uploads \subseteq TradeKeys
    /\ traded \subseteq TradeKeys

\* A SAV under the session's lock is the one the Trade was played from, until the Trade
\* is applied to it; bytes of the Trade come from a committed upload.
SavesFollow ==
    \A p \in Players :
        /\ HeldBy("LINK", p) /\ TradeKey(p) \notin traded => save[p].rev = 1 /\ save[p].sha = "old"
        /\ HeldBy("LINK", p) /\ TradeKey(p) \in traded => save[p].sha = Trade[p]
        /\ save[p].sha \in Payloads => TradeKey(p) \in traded
        /\ TradeKey(p) \in traded => save[p].rev > 1

\* The journal row: the Trade's pair, with nothing applied before it is COMMITTING and
\* everything once it has been COMMITTED.
RowFollows(row, keys) ==
    /\ row.state # "ABORTED"
    /\ row.state = "NONE" => row.pair.done = FALSE
    /\ row.state # "NONE" => row.pair \in {TradePair, DonePair}
    /\ row.state \in {"NONE", "PREPARED"} => row.pair.done = FALSE /\ keys = {}
    /\ row.state = "COMMITTED" => row.pair.done
    /\ row.pair.done => keys = TradeKeys

\* What a handler knows of the row and of the sides it has been through.
PairSteps == {"rewrite", "committing", "side", "upload", "replace", "record", "committed"}
SideSteps == {"side", "upload", "replace", "record"}
SettleSteps == {"judge", "drop", "dropped", "settled", "unlock"}

KnowsPair(w, row) ==
    /\ w.pc \in PairSteps =>
          /\ row.state # "NONE"
          /\ w.pair \in {TradePair, DonePair}
          /\ w.pair.done => row.pair.done
          /\ w.fresh => w.pair = row.pair
    /\ w.pc = "prepare" => w.pair = TradePair /\ (w.fresh => row.state = "NONE")

KnowsSides(w, row, keys) ==
    /\ w.pc \in SideSteps \cup {"committed"} => row.state \in {"COMMITTING", "COMMITTED"}
    /\ w.pc \in {"upload", "replace", "record"} => w.side \in TradeChanged
    /\ w.pc \in SideSteps /\ w.side = "b" =>
          ("a" \in TradeChanged => TradeKey("a") \in keys)
    /\ w.pc = "committed" => TradeKeys \subseteq keys
    /\ w.pc \notin SideSteps \cup {"committed"} /\ ~(w.pc = "reread" /\ w.next = "complete") =>
          w.side = "a"

KnowsNext(w, row) ==
    /\ w.pc = "reread" => w.next \in {"committing", "side", "complete"}
    /\ w.pc # "reread" => w.next \in {"idle", "read", "leave"}
    /\ w.pc = "reread" /\ w.next # "complete" => row.state # "NONE"
    /\ w.pc = "reread" /\ w.next = "side" => row.state \in {"COMMITTING", "COMMITTED"}

\* A handler that announces the end of the Trade, or is about to.
Ends(w) ==
    \/ w.pc \in {"rewrite", "complete"}
    \/ w.pc = "reread" /\ w.next = "complete"
    \/ w.pc = "transition" /\ w.target = "COMPLETED"

Handler(w, row, keys) ==
    /\ w \in Work
    /\ w.role = "LINK" /\ w.pc \notin SettleSteps
    /\ w.pc \in {"stage", "submit"} => w.cand = Trade
    /\ KnowsPair(w, row)
    /\ KnowsSides(w, row, keys)
    /\ KnowsNext(w, row)
    /\ Ends(w) => row.pair.done

\* The inductive invariant.
Inv ==
    /\ TypeOK
    /\ NoSettler
    /\ OnlyTheTrade
    /\ SavesFollow
    /\ RowFollows(journal, traded)
    /\ \A t \in Threads : Handler(worker[t], journal, traded)
    /\ AnnouncedIsCommitted
-----------------------------------------------------------------------------
(* Facts about the Trade and about handlers. *)

\* There is such a pair of candidates, and the Host finishes with no other.
LEMMA TradeFact ==
    ASSUME SingleFinish
    PROVE  /\ Trade \in Candidates
           /\ \A c \in Finishes : c = Trade
           /\ \A p \in TradeChanged : Trade[p] \in Payloads
           /\ \A p \in Players \ TradeChanged : Trade[p] = "old"
           /\ TradeChanged \subseteq Players
<1>1. \E c \in Candidates : Finishes \subseteq {c}
  <2>1. CASE Finishes = {}
    <3>1. [p \in Players |-> "old"] \in Candidates
      BY DEF Candidates
    <3>2. QED
      BY <2>1, <3>1
  <2>2. CASE Finishes # {}
    BY <2>2, LinkPairAssumption DEF SingleFinish
  <2>3. QED
    BY <2>1, <2>2
<1>2. Trade \in Candidates /\ Finishes \subseteq {Trade}
  BY <1>1 DEF Trade
<1>3. QED
  BY <1>2 DEF Candidates, TradeChanged

\* The rows the Trade becomes are well formed.
LEMMA TradeTypes ==
    ASSUME SingleFinish
    PROVE  /\ TradePair \in Pairs /\ DonePair \in Pairs
           /\ TradePair.sha = Trade /\ DonePair.sha = Trade
           /\ TradePair.changed = TradeChanged /\ DonePair.changed = TradeChanged
           /\ TradePair.done = FALSE /\ DonePair.done = TRUE
           /\ \A p \in Players : TradePair.base[p] = 1 /\ DonePair.base[p] = 1
           /\ TradeKeys \subseteq Keys
<1> USE TradeFact, LinkPairAssumption
<1>1. 1 \in Revisions
  BY DEF Revisions
<1>2. TradePair \in Pairs
  BY <1>1 DEF TradePair, Pairs
<1>3. DonePair \in Pairs
  BY <1>1 DEF TradePair, DonePair, Pairs
<1>4. TradeKeys \subseteq Keys
  BY <1>1 DEF TradeKeys, TradeKey, Keys, Bytes
<1>5. QED
  BY <1>2, <1>3, <1>4 DEF TradePair, DonePair

\* Handlers at rest, and handlers on their way to the journal or away from it.
LEMMA PlainHandler ==
    ASSUME NEW w \in Work, NEW row, NEW keys, w.role = "LINK", w.side = "a",
           w.pc \notin PairSteps \cup SettleSteps \cup {"prepare", "reread"},
           w.next \in {"idle", "read", "leave"},
           w.pc \in {"stage", "submit"} => w.cand = Trade,
           Ends(w) => row.pair.done
    PROVE  Handler(w, row, keys)
BY DEF Handler, KnowsPair, KnowsSides, KnowsNext, PairSteps, SideSteps

\* A handler at rest is one of them.
LEMMA IdleHandler ==
    ASSUME NEW row, NEW keys
    PROVE  /\ Idle \in Work
           /\ Handler(Idle, row, keys)
<1>1. Idle \in Work
  <2>1. 1 \in Revisions /\ 1 \in 1..(MaxRevision + 1)
    BY LinkPairAssumption DEF Revisions
  <2>2. NoPair \in Pairs
    BY <2>1 DEF NoPair, Pairs, Candidates
  <2>3. NoResult \in Results
    BY <2>1 DEF NoResult, Results
  <2>4. QED
    BY <2>2, <2>3 DEF Idle, Work, Steps, Statuses, Running, LeaveStatuses, Terminal, Players
<1>2. QED
  BY <1>1, PlainHandler DEF Idle, PairSteps, SettleSteps, Ends

\* What a handler knows stays true when the row and the uploads move on.
LEMMA HandlerLater ==
    ASSUME NEW w, NEW row, NEW keys, NEW row2, NEW keys2, NEW v,
           Handler(w, row, keys),
           keys \subseteq keys2,
           (row2 = row /\ v = w) \/ v = [w EXCEPT !.fresh = FALSE],
           row.state # "NONE" => row2.state # "NONE",
           row.state \in {"COMMITTING", "COMMITTED"} => row2.state \in {"COMMITTING", "COMMITTED"},
           row.pair.done => row2.pair.done
    PROVE  Handler(v, row2, keys2)
<1>1. v \in Work
  BY DEF Handler, Work
<1>2. /\ v.pc = w.pc /\ v.role = w.role /\ v.cand = w.cand /\ v.pair = w.pair /\ v.side = w.side
      /\ v.next = w.next /\ v.target = w.target
      /\ v.fresh => w.fresh /\ row2 = row
  BY DEF Handler, Work
<1>3. KnowsPair(v, row2)
  BY <1>2 DEF Handler, KnowsPair
<1>4. KnowsSides(v, row2, keys2)
  BY <1>2 DEF Handler, KnowsSides
<1>5. KnowsNext(v, row2)
  BY <1>2 DEF Handler, KnowsNext
<1>6. QED
  BY <1>1, <1>2, <1>3, <1>4, <1>5 DEF Handler, Ends

\* One handler moves, and the journal does not.
LEMMA HandlerMoves ==
    ASSUME Inv, NEW t \in Threads, NEW w, Handler(w, journal, traded'),
           worker' = [worker EXCEPT ![t] = w],
           UNCHANGED journal, traded \subseteq traded'
    PROVE  /\ worker' \in [Threads -> Work]
           /\ \A u \in Threads : Handler(worker'[u], journal', traded')
<1>1. worker' \in [Threads -> Work]
  BY DEF Inv, TypeOK, Handler
<1>2. ASSUME NEW u \in Threads
      PROVE  Handler(worker'[u], journal', traded')
  <2>1. CASE u = t
    BY <2>1 DEF Inv, TypeOK
  <2>2. CASE u # t
    <3>1. worker'[u] = worker[u] /\ Handler(worker[u], journal, traded)
      BY <2>2 DEF Inv, TypeOK
    <3>2. QED
      BY <3>1, HandlerLater
  <2>3. QED
    BY <2>1, <2>2
<1>3. QED
  BY <1>1, <1>2

\* One handler gives up.
LEMMA HandlerStops ==
    ASSUME Inv, NEW t \in Threads, Stop(t), UNCHANGED journal, traded \subseteq traded'
    PROVE  /\ worker' \in [Threads -> Work]
           /\ \A u \in Threads : Handler(worker'[u], journal', traded')
<1>1. worker[t].role = "LINK"
  BY DEF Inv, Handler
<1>2. worker' = [worker EXCEPT ![t] = Idle]
  BY <1>1 DEF Stop
<1>3. Handler(Idle, journal, traded')
  BY IdleHandler
<1>4. QED
  BY <1>2, <1>3, HandlerMoves

\* One handler goes on to a step where it needs to know no more than before.
LEMMA HandlerTurns ==
    ASSUME Inv, NEW t \in Threads, NEW w \in Work, worker' = [worker EXCEPT ![t] = w],
           w.role = "LINK", w.side = "a", w.next \in {"idle", "read", "leave"},
           w.pc \in {"idle", "stage", "submit", "reconcile", "read", "transition", "deadline",
                     "extend", "release", "clean", "abort", "leave"},
           w.pc \in {"stage", "submit"} => w.cand = Trade,
           w.pc = "transition" /\ w.target = "COMPLETED" => journal.pair.done,
           UNCHANGED <<journal, saves>>
    PROVE  /\ worker' \in [Threads -> Work]
           /\ \A u \in Threads : Handler(worker'[u], journal', traded')
<1>1. Handler(w, journal, traded')
  BY PlainHandler DEF Ends, PairSteps, SettleSteps
<1>2. QED
  BY <1>1, HandlerMoves DEF saves

\* What is left to show for a step that writes neither the journal nor a SAV.
LEMMA QuietStep ==
    ASSUME Inv, UNCHANGED <<journal, saves>>,
           /\ status' \in Statuses /\ due' \in BOOLEAN /\ run' \in {"SAME", "OLD", "PASSED"}
           /\ game' \in [Players -> {"LIVE", "LAPSED", "HELD", "NONE", "SETTLE"}]
           /\ lock' \in [Players -> [owner : {"LINK", "SETTLE", "NONE"}, live : BOOLEAN]]
           /\ control' \in [state : {"OPEN", "RUNNING", "FINALIZING", "FINISHED", "ABORTED"},
                            finish : Candidates \cup {NoFiles},
                            receipt : {"NONE", "MATCH", "OTHER"}, result : Results]
           /\ temp' \in Candidates \cup {NoFiles}
           /\ worker' \in [Threads -> Work]
           /\ faults' \in 0..MaxFaults,
           NoSettler',
           temp' \in {temp, NoFiles, Trade},
           \A p \in Players : HeldBy("LINK", p)' => HeldBy("LINK", p),
           \A u \in Threads : Handler(worker'[u], journal', traded'),
           status' = "COMPLETED" => status = "COMPLETED" \/ journal.pair.done,
           control'.state = "FINISHED" => control.state = "FINISHED" \/ journal.pair.done
    PROVE  Inv'
<1> USE DEF Inv, saves
<1>1. TypeOK'
  BY DEF TypeOK
<1>2. OnlyTheTrade'
  BY DEF OnlyTheTrade
<1>3. SavesFollow'
  BY DEF SavesFollow
<1>4. RowFollows(journal, traded)'
  BY DEF RowFollows
<1>5. AnnouncedIsCommitted'
  BY DEF AnnouncedIsCommitted
<1>6. QED
  BY <1>1, <1>2, <1>3, <1>4, <1>5

-----------------------------------------------------------------------------
(* The invariant holds initially, and every step preserves it. *)

\* A session that was just created.
LEMMA InitInv ==
    ASSUME SingleFinish, Init
    PROVE  Inv
<1> USE LinkPairAssumption, TradeFact
<1>1. TypeOK
  <2>1. 1 \in Revisions /\ 1 \in 1..(MaxRevision + 1)
    BY DEF Revisions
  <2>2. NoPair \in Pairs
    BY <2>1 DEF NoPair, Pairs, Candidates
  <2>3. NoResult \in Results
    BY <2>1 DEF NoResult, Results
  <2>4. worker \in [Threads -> Work]
    BY IdleHandler DEF Init
  <2>5. save \in [Players -> [rev : Revisions, sha : Bytes, file : Bytes]]
    BY <2>1 DEF Init, Bytes
  <2>6. control \in [state : {"OPEN", "RUNNING", "FINALIZING", "FINISHED", "ABORTED"},
                     finish : Candidates \cup {NoFiles},
                     receipt : {"NONE", "MATCH", "OTHER"}, result : Results]
    BY <2>3 DEF Init
  <2>7. journal \in [state : {"NONE", "PREPARED", "COMMITTING", "COMMITTED", "ABORTED"},
                     pair : Pairs, result : Results]
    BY <2>2, <2>3 DEF Init
  <2>8. /\ game \in [Players -> {"LIVE", "LAPSED", "HELD", "NONE", "SETTLE"}]
        /\ lock \in [Players -> [owner : {"LINK", "SETTLE", "NONE"}, live : BOOLEAN]]
        /\ faults \in 0..MaxFaults
    BY DEF Init
  <2>9. QED
    BY <2>4, <2>5, <2>6, <2>7, <2>8 DEF Init, TypeOK, Statuses, Running, LeaveStatuses
<1>2. NoSettler /\ OnlyTheTrade /\ RowFollows(journal, traded)
  BY DEF Init, NoSettler, OnlyTheTrade, RowFollows, NoPair
<1>3. SavesFollow
  BY DEF Init, SavesFollow
<1>4. \A t \in Threads : Handler(worker[t], journal, traded)
  BY IdleHandler DEF Init
<1>5. AnnouncedIsCommitted
  BY DEF Init, AnnouncedIsCommitted
<1>6. QED
  BY <1>1, <1>2, <1>3, <1>4, <1>5 DEF Inv

\* Leases and deadlines run out, the runtimes connect and part.
LEMMA TimeInv ==
    ASSUME Inv,
           \/ \E p \in Players : GameLeaseLapses(p) \/ SaveLeaseLapses(p)
           \/ SettleLeaseLapses \/ DeadlinePasses \/ OldDeadlinePasses
           \/ Connect \/ Disconnect \/ PauseExpires
    PROVE  Inv'
<1> USE DEF Inv, TypeOK, session
<1>1. /\ UNCHANGED <<journal, saves, worker, status, temp, faults>>
      /\ \A u \in Threads : Handler(worker'[u], journal', traded')
  BY DEF GameLeaseLapses, SaveLeaseLapses, SettleLeaseLapses, DeadlinePasses, OldDeadlinePasses,
         Connect, Disconnect, PauseExpires, saves
<1>2. /\ due' \in BOOLEAN /\ run' \in {"SAME", "OLD", "PASSED"}
      /\ game' \in [Players -> {"LIVE", "LAPSED", "HELD", "NONE", "SETTLE"}]
      /\ lock' \in [Players -> [owner : {"LINK", "SETTLE", "NONE"}, live : BOOLEAN]]
  <2>1. CASE \E p \in Players : GameLeaseLapses(p)
    BY <2>1 DEF GameLeaseLapses
  <2>2. CASE \E p \in Players : SaveLeaseLapses(p)
    <3>1. PICK p \in Players : lock' = [lock EXCEPT ![p].live = FALSE]
      BY <2>2 DEF SaveLeaseLapses
    <3>2. /\ lock[p] \in [owner : {"LINK", "SETTLE", "NONE"}, live : BOOLEAN]
          /\ [lock[p] EXCEPT !.live = FALSE] \in [owner : {"LINK", "SETTLE", "NONE"}, live : BOOLEAN]
      BY ZenonT(40)
    <3>3. lock' \in [Players -> [owner : {"LINK", "SETTLE", "NONE"}, live : BOOLEAN]]
      BY <3>1, <3>2
    <3>4. QED
      BY <2>2, <3>3 DEF SaveLeaseLapses
  <2>3. CASE SettleLeaseLapses
    BY <2>3 DEF SettleLeaseLapses
  <2>4. CASE DeadlinePasses \/ OldDeadlinePasses \/ Connect \/ Disconnect \/ PauseExpires
    BY <2>4 DEF DeadlinePasses, OldDeadlinePasses, Connect, Disconnect, PauseExpires
  <2>5. QED
    BY <2>1, <2>2, <2>3, <2>4
<1>3. /\ control' \in [state : {"OPEN", "RUNNING", "FINALIZING", "FINISHED", "ABORTED"},
                       finish : Candidates \cup {NoFiles},
                       receipt : {"NONE", "MATCH", "OTHER"}, result : Results]
      /\ control'.state = "FINISHED" => control.state = "FINISHED"
  BY DEF GameLeaseLapses, SaveLeaseLapses, SettleLeaseLapses, DeadlinePasses, OldDeadlinePasses,
         Connect, Disconnect, PauseExpires
<1>4. NoSettler'
  BY DEF NoSettler, GameLeaseLapses, SaveLeaseLapses, SettleLeaseLapses, DeadlinePasses,
         OldDeadlinePasses, Connect, Disconnect, PauseExpires
<1>5. \A p \in Players : HeldBy("LINK", p)' => HeldBy("LINK", p)
  BY DEF HeldBy, GameLeaseLapses, SaveLeaseLapses, SettleLeaseLapses, DeadlinePasses,
         OldDeadlinePasses, Connect, Disconnect, PauseExpires
<1> QED
  BY <1>1, <1>2, <1>3, <1>4, <1>5, QuietStep

\* Another upload reaches a SAV only when the session no longer has its lock.
LEMMA UploadInv ==
    ASSUME Inv, NEW p \in Players, Upload(p)
    PROVE  Inv'
<1> USE DEF Inv
<1>1. /\ UNCHANGED <<journal, uploads, traded, worker, status, control, temp, lock, game>>
      /\ save' = [save EXCEPT ![p] = [rev |-> save[p].rev + 1, sha |-> "other", file |-> "other"]]
  BY DEF Upload, session
<1>2. TypeOK'
  <2>1. save[p].rev + 1 \in Revisions
    BY LinkPairAssumption DEF Upload, TypeOK, Revisions
  <2>2. QED
    BY <1>1, <2>1 DEF Upload, session, TypeOK, Bytes
<1>3. SavesFollow'
  <2>1. save'[p].rev = save[p].rev + 1 /\ save'[p].sha = "other" /\ save[p].rev \in Nat
    BY <1>1 DEF TypeOK, Revisions
  <2>2. \A q \in Players : q # p => save'[q] = save[q]
    BY <1>1 DEF TypeOK
  <2>3. ~HeldBy("LINK", p) /\ \A q \in Players : HeldBy("LINK", q)' <=> HeldBy("LINK", q)
    BY <1>1 DEF Upload, HeldBy
  <2>4. "other" \notin Payloads
    BY LinkPairAssumption
  <2>5. QED
    BY <1>1, <2>1, <2>2, <2>3, <2>4 DEF SavesFollow
<1>4. (NoSettler /\ OnlyTheTrade /\ RowFollows(journal, traded) /\ AnnouncedIsCommitted)'
  BY <1>1 DEF NoSettler, OnlyTheTrade, RowFollows, AnnouncedIsCommitted
<1>5. \A u \in Threads : Handler(worker'[u], journal', traded')
  BY <1>1
<1>6. QED
  BY <1>2, <1>3, <1>4, <1>5

\* Dropping the session's locks leaves no lock of the session, and takes none.
LEMMA LocksDropped ==
    ASSUME Inv, lock' = LinkLocksDropped
    PROVE  /\ lock' \in [Players -> [owner : {"LINK", "SETTLE", "NONE"}, live : BOOLEAN]]
           /\ \A p \in Players : lock'[p].owner # "SETTLE"
           /\ \A p \in Players : HeldBy("LINK", p)' => HeldBy("LINK", p)
<1> DEFINE Locks == [owner : {"LINK", "SETTLE", "NONE"}, live : BOOLEAN]
           Free == [owner |-> "NONE", live |-> FALSE]
<1>1. lock \in [Players -> Locks] /\ \A p \in Players : lock[p].owner # "SETTLE"
  BY DEF Inv, TypeOK, NoSettler
<1>2. Free \in Locks /\ Free.owner = "NONE"
  OBVIOUS
<1>3. lock' = [p \in Players |-> IF lock[p].owner = "LINK" THEN Free ELSE lock[p]]
  BY DEF LinkLocksDropped
<1>4. ASSUME NEW p \in Players
      PROVE  /\ lock'[p] \in Locks /\ lock'[p].owner # "SETTLE"
             /\ HeldBy("LINK", p)' => HeldBy("LINK", p)
  <2>1. lock'[p] = IF lock[p].owner = "LINK" THEN Free ELSE lock[p]
    BY <1>3
  <2> HIDE DEF Locks, Free
  <2>2. CASE lock[p].owner = "LINK"
    BY <1>2, <2>1, <2>2 DEF HeldBy
  <2>3. CASE lock[p].owner # "LINK"
    BY <1>1, <2>1, <2>3 DEF HeldBy
  <2>4. QED
    BY <2>2, <2>3
<1>5. QED
  BY <1>3, <1>4

\* A step of one handler that writes neither the journal nor a SAV, in the parts it may
\* write: the control plane, or the session, or the staged files.
LEMMA HandlerQuiet ==
    ASSUME Inv, UNCHANGED <<journal, saves, faults>>,
           worker' \in [Threads -> Work],
           \A u \in Threads : Handler(worker'[u], journal', traded'),
           \/ UNCHANGED <<session, temp>> /\ control' = control
           \/ /\ UNCHANGED <<session, temp>>
              /\ control' \in [state : {"OPEN", "RUNNING", "FINALIZING", "FINISHED", "ABORTED"},
                               finish : Candidates \cup {NoFiles},
                               receipt : {"NONE", "MATCH", "OTHER"}, result : Results]
              /\ control'.state = "FINISHED" => control.state = "FINISHED" \/ journal.pair.done
           \/ UNCHANGED <<session, control>> /\ temp' \in {NoFiles, Trade} \cap (Candidates \cup {NoFiles})
           \/ /\ UNCHANGED <<control, temp>>
              /\ status' \in Statuses /\ due' \in BOOLEAN /\ run' \in {"SAME", "OLD", "PASSED"}
              /\ game' \in [Players -> {"LIVE", "LAPSED", "HELD", "NONE"}]
              /\ lock' = lock \/ lock' = LinkLocksDropped
              /\ status' = "COMPLETED" => status = "COMPLETED" \/ journal.pair.done
    PROVE  Inv'
<1> USE DEF Inv
<1>1. CASE UNCHANGED <<session, temp>>
  BY <1>1, QuietStep DEF session, TypeOK, NoSettler, HeldBy
<1>2. CASE UNCHANGED <<session, control>> /\ temp' \in {NoFiles, Trade} \cap (Candidates \cup {NoFiles})
  BY <1>2, QuietStep DEF session, TypeOK, NoSettler, HeldBy
<1>3. CASE /\ UNCHANGED <<control, temp>>
           /\ status' \in Statuses /\ due' \in BOOLEAN /\ run' \in {"SAME", "OLD", "PASSED"}
           /\ game' \in [Players -> {"LIVE", "LAPSED", "HELD", "NONE"}]
           /\ lock' = lock \/ lock' = LinkLocksDropped
           /\ status' = "COMPLETED" => status = "COMPLETED" \/ journal.pair.done
  <2>1. /\ lock' \in [Players -> [owner : {"LINK", "SETTLE", "NONE"}, live : BOOLEAN]]
        /\ \A p \in Players : lock'[p].owner # "SETTLE"
        /\ \A p \in Players : HeldBy("LINK", p)' => HeldBy("LINK", p)
    <3>1. CASE lock' = lock
      BY <3>1 DEF TypeOK, NoSettler, HeldBy
    <3>2. QED
      BY <1>3, <3>1, LocksDropped
  <2>2. /\ game' \in [Players -> {"LIVE", "LAPSED", "HELD", "NONE", "SETTLE"}]
        /\ \A p \in Players : game'[p] # "SETTLE"
    BY <1>3
  <2>3. NoSettler'
    BY <2>1, <2>2 DEF NoSettler
  <2>4. QED
    BY <1>3, <2>1, <2>2, <2>3, QuietStep DEF TypeOK
<1>4. QED
  BY <1>1, <1>2, <1>3

\* Requests arrive: tickets, finish, receipt, polls, cancel, leave and reads.
LEMMA ArriveInv ==
    ASSUME SingleFinish, NoSettlement, Inv, NEW t \in Handlers, Arrive(t)
    PROVE  Inv'
<1> USE DEF Inv
<1>1. t \in Threads /\ Idle \in Work
  BY IdleHandler DEF Threads
<1>2. ASSUME NEW w \in Work, worker' = [worker EXCEPT ![t] = w],
             w.role = "LINK", w.side = "a", w.next \in {"idle", "leave"},
             \/ w.pc = "transition" /\ w.target \in {"RUNNING", "CANCELLED", "EXPIRED"}
             \/ w.pc = "stage" /\ w.cand = Trade
             \/ w.pc = "reconcile",
             UNCHANGED <<journal, saves>>
      PROVE  /\ worker' \in [Threads -> Work]
             /\ \A u \in Threads : Handler(worker'[u], journal', traded')
  BY <1>1, <1>2, HandlerTurns
<1>3. CASE IssueTicket(t)
  <2>1. [Idle EXCEPT !.pc = "transition", !.target = "RUNNING"] \in Work
    BY <1>1 DEF Work, Steps, Statuses, Running, LeaveStatuses
  <2>2. QED
    BY <1>2, <1>3, <2>1, HandlerQuiet DEF IssueTicket, Idle, session
<1>4. ASSUME NEW cand \in Finishes, HostFinish(t, cand)
      PROVE  Inv'
  <2>1. cand = Trade /\ Trade \in Candidates
    BY TradeFact
  <2>2. [Idle EXCEPT !.pc = "stage", !.cand = cand] \in Work
    BY <1>1, <2>1 DEF Work, Steps
  <2>3. QED
    BY <1>2, <1>4, <2>1, <2>2, HandlerQuiet DEF HostFinish, Idle, session
<1>5. [Idle EXCEPT !.pc = "reconcile"] \in Work
  BY <1>1 DEF Work, Steps
<1>6. ASSUME NEW match \in {"MATCH", "OTHER"}, Receipt(t, match)
      PROVE  Inv'
  <2>1. /\ control' \in [state : {"OPEN", "RUNNING", "FINALIZING", "FINISHED", "ABORTED"},
                          finish : Candidates \cup {NoFiles},
                          receipt : {"NONE", "MATCH", "OTHER"}, result : Results]
        /\ control'.state = "FINISHED" => control.state = "FINISHED"
    BY <1>6 DEF Receipt, TypeOK
  <2>2. QED
    BY <1>2, <1>5, <1>6, <2>1, HandlerQuiet DEF Receipt, Idle, session
<1>7. CASE Poll(t)
  BY <1>2, <1>5, <1>7, HandlerQuiet DEF Poll, Idle, session
<1>8. /\ AbortedControl \in [state : {"OPEN", "RUNNING", "FINALIZING", "FINISHED", "ABORTED"},
                             finish : Candidates \cup {NoFiles},
                             receipt : {"NONE", "MATCH", "OTHER"}, result : Results]
      /\ AbortedControl.state = "FINISHED" => control.state = "FINISHED"
  BY DEF AbortedControl, TypeOK
<1>9. [Idle EXCEPT !.pc = "transition", !.target = "CANCELLED"] \in Work
  BY ZenonT(40), <1>1 DEF Work, Steps, Statuses, Terminal
<1>10. CASE Cancel(t)
  <2>1. /\ worker' \in [Threads -> Work]
        /\ \A u \in Threads : Handler(worker'[u], journal', traded')
    <3>1. CASE status \in LeaveStatuses
      BY <1>2, <1>9, <1>10, <3>1 DEF Cancel, Idle
    <3>2. CASE status \notin LeaveStatuses
      BY <1>10, <3>2 DEF Cancel, TypeOK, saves
    <3>3. QED
      BY <3>1, <3>2
  <2>2. QED
    BY <1>8, <1>10, <2>1, HandlerQuiet DEF Cancel
<1>11. [Idle EXCEPT !.pc = "reconcile", !.next = "leave"] \in Work
  BY <1>1 DEF Work, Steps
<1>12. CASE Leave(t)
  <2>1. /\ worker' \in [Threads -> Work]
        /\ \A u \in Threads : Handler(worker'[u], journal', traded')
    <3>1. CASE status \in LeaveStatuses
      BY <1>2, <1>11, <1>12, <3>1 DEF Leave, Idle
    <3>2. CASE status \notin LeaveStatuses
      BY <1>12, <3>2 DEF Leave, TypeOK, saves
    <3>3. QED
      BY <3>1, <3>2
  <2>2. QED
    BY <1>8, <1>12, <2>1, HandlerQuiet DEF Leave
<1>13. CASE ReadSession(t)
  <2>1. [Idle EXCEPT !.pc = "transition", !.target = "EXPIRED"] \in Work
    BY ZenonT(40), <1>1 DEF Work, Steps, Statuses, Terminal
  <2>2. QED
    BY <1>2, <1>13, <2>1, HandlerQuiet DEF ReadSession, Idle, session
<1>14. QED
  BY <1>3, <1>4, <1>6, <1>7, <1>10, <1>12, <1>13 DEF Arrive, NoSettlement

\* The sweeper moves a session whose deadline or leases ran out.
LEMMA SweepInv ==
    ASSUME Inv, Sweep
    PROVE  Inv'
<1> USE DEF Inv
<1> DEFINE kept == [p \in Players |-> IF game[p] = "SETTLE" \/ Active(p) THEN game[p] ELSE "NONE"]
           target == SweepTarget(kept)
<1>1. Sweeper \in Threads /\ Idle \in Work
  BY IdleHandler DEF Threads
<1>2. target \in {status, "EXPIRED", "FINALIZING", "CANCELLED"} /\ target \in Statuses
  BY DEF SweepTarget, TypeOK, Statuses, Running, Terminal
<1>3. /\ game' = kept
      /\ kept \in [Players -> {"LIVE", "LAPSED", "HELD", "NONE"}]
  BY DEF Sweep, TypeOK, NoSettler
<1>4. /\ worker' \in [Threads -> Work]
      /\ \A u \in Threads : Handler(worker'[u], journal', traded')
  <2>1. \/ worker' = worker
        \/ \E w \in {[Idle EXCEPT !.pc = "transition", !.target = target],
                     [Idle EXCEPT !.pc = "abort", !.target = target]} :
              /\ worker' = [worker EXCEPT ![Sweeper] = w]
              /\ w.pc = "transition" => target # status
    BY DEF Sweep, Idle
  <2> HIDE DEF target
  <2>2. ASSUME NEW w \in {[Idle EXCEPT !.pc = "transition", !.target = target],
                          [Idle EXCEPT !.pc = "abort", !.target = target]},
               worker' = [worker EXCEPT ![Sweeper] = w],
               w.pc = "transition" => target # status
        PROVE  /\ worker' \in [Threads -> Work]
               /\ \A u \in Threads : Handler(worker'[u], journal', traded')
    <3>1. w \in Work /\ w.target = target
      BY <1>1, <1>2 DEF Work, Steps
    <3>2. /\ w.role = "LINK" /\ w.side = "a" /\ w.next = "idle" /\ w.pc \in {"transition", "abort"}
          /\ w.pc = "transition" => w.target # "COMPLETED"
      BY <1>2, <2>2, <3>1 DEF Idle
    <3>3. QED
      BY <1>1, <2>2, <3>1, <3>2, HandlerTurns DEF Sweep
  <2>3. CASE worker' = worker
    BY <2>3 DEF Sweep, TypeOK, saves
  <2>4. QED
    BY <2>1, <2>2, <2>3
<1>5. QED
  BY <1>3, <1>4, HandlerQuiet DEF Sweep, TypeOK

\* What is known of the handler that takes a step.
LEMMA Serving ==
    ASSUME Inv, NEW t \in Threads
    PROVE  /\ Handler(worker[t], journal, traded)
           /\ worker[t] \in Work /\ worker[t].role = "LINK" /\ worker[t].pc \notin SettleSteps
           /\ worker[t].pc \notin SideSteps \cup {"committed", "reread"} => worker[t].side = "a"
           /\ worker[t].pc # "reread" => worker[t].next \in {"idle", "read", "leave"}
           /\ Ends(worker[t]) => journal.pair.done
BY DEF Inv, Handler, KnowsSides, KnowsNext

\* A handler goes on as it was planned, or is done.
LEMMA HandlerContinues ==
    ASSUME Inv, NEW t \in Threads, Continue(t), UNCHANGED <<journal, saves>>,
           worker[t].pc \in {"reconcile", "transition", "extend"}
    PROVE  /\ worker' \in [Threads -> Work]
           /\ \A u \in Threads : Handler(worker'[u], journal', traded')
<1> USE Serving
<1>1. CASE worker[t].next = "idle"
  BY <1>1, HandlerStops DEF Continue, saves
<1>2. CASE worker[t].next \in {"read", "leave"}
  <2>1. [worker[t] EXCEPT !.pc = worker[t].next] \in Work
    BY <1>2 DEF Work, Steps
  <2>2. worker' = [worker EXCEPT ![t] = [worker[t] EXCEPT !.pc = worker[t].next]]
    BY <1>2 DEF Continue, Goto
  <2>3. worker[t].side = "a"
    BY DEF SideSteps
  <2>4. QED
    BY <1>2, <2>1, <2>2, <2>3, HandlerTurns DEF Work
<1>3. QED
  BY <1>1, <1>2

\* The same for a handler that needs nothing of what it has read.
LEMMA HandlerForgets ==
    ASSUME Inv, NEW t \in Threads, NEW step \in {"reconcile", "release"}, Turn(t, step),
           UNCHANGED <<journal, saves>>
    PROVE  /\ worker' \in [Threads -> Work]
           /\ \A u \in Threads : Handler(worker'[u], journal', traded')
<1> DEFINE w == [Idle EXCEPT !.pc = step, !.role = worker[t].role, !.seen = worker[t].seen]
<1>1. w \in Work
  BY Serving, IdleHandler DEF Work, Steps
<1>2. w.role = "LINK" /\ w.side = "a" /\ w.next = "idle" /\ w.pc = step
  BY Serving DEF Idle
<1>3. worker' = [worker EXCEPT ![t] = w]
  BY DEF Turn
<1>4. QED
  BY <1>1, <1>2, <1>3, HandlerTurns

\* A handler that goes on, away from the journal.
LEMMA HandlerGoes ==
    ASSUME Inv, NEW t \in Threads, UNCHANGED <<journal, saves>>,
           NEW step \in {"submit", "deadline", "extend", "clean", "abort"}, Goto(t, step),
           worker[t].pc \in {"stage", "transition", "deadline", "release", "clean"},
           step = "submit" => worker[t].pc = "stage"
    PROVE  /\ worker' \in [Threads -> Work]
           /\ \A u \in Threads : Handler(worker'[u], journal', traded')
<1> USE Serving
<1>1. [worker[t] EXCEPT !.pc = step] \in Work
  BY DEF Work, Steps
<1>2. worker[t].side = "a" /\ worker[t].next \in {"idle", "read", "leave"}
  BY DEF SideSteps
<1>3. step = "submit" => worker[t].cand = Trade
  BY DEF Handler
<1>4. QED
  BY <1>1, <1>2, <1>3, HandlerTurns DEF Goto, Work

\* The finish, before the journal: staging and recording it.
LEMMA FinishInv ==
    ASSUME SingleFinish, Inv, NEW t \in Threads, Stage(t) \/ SubmitFinish(t)
    PROVE  Inv'
<1> USE DEF Inv
<1>1. CASE Stage(t)
  <2>1. UNCHANGED <<session, control, journal, saves, faults>> /\ worker[t].pc = "stage"
    BY <1>1 DEF Stage
  <2>2. CASE MayStage(worker[t].cand)
    <3>1. temp' = worker[t].cand /\ Goto(t, "submit")
      BY <1>1, <2>2 DEF Stage
    <3>2. temp' = Trade /\ Trade \in Candidates
      BY <2>1, <3>1, Serving, TradeFact DEF Handler
    <3>3. /\ worker' \in [Threads -> Work]
          /\ \A u \in Threads : Handler(worker'[u], journal', traded')
      BY <2>1, <3>1, HandlerGoes
    <3>4. QED
      BY <2>1, <3>2, <3>3, HandlerQuiet
  <2>3. CASE ~MayStage(worker[t].cand)
    <3>1. Stop(t) /\ UNCHANGED temp
      BY <1>1, <2>3 DEF Stage
    <3>2. /\ worker' \in [Threads -> Work]
          /\ \A u \in Threads : Handler(worker'[u], journal', traded')
      BY <2>1, <3>1, HandlerStops DEF saves
    <3>3. QED
      BY <2>1, <3>1, <3>2, HandlerQuiet
  <2>4. QED
    BY <2>2, <2>3
<1>2. CASE SubmitFinish(t)
  <2>1. UNCHANGED <<session, temp, journal, saves, faults>> /\ worker[t].pc = "submit"
    BY <1>2 DEF SubmitFinish
  <2>2. worker[t].cand \in Candidates
    BY <2>1, Serving, TradeFact DEF Handler
  <2>3. /\ control' \in [state : {"OPEN", "RUNNING", "FINALIZING", "FINISHED", "ABORTED"},
                          finish : Candidates \cup {NoFiles},
                          receipt : {"NONE", "MATCH", "OTHER"}, result : Results]
        /\ control'.state = "FINISHED" => control.state = "FINISHED"
    BY <1>2, <2>2 DEF SubmitFinish, TypeOK
  <2>4. Stop(t) \/ Turn(t, "reconcile")
    BY <1>2 DEF SubmitFinish
  <2>5. /\ worker' \in [Threads -> Work]
        /\ \A u \in Threads : Handler(worker'[u], journal', traded')
    <3>1. CASE Stop(t)
      BY <2>1, <3>1, HandlerStops DEF saves
    <3>2. CASE Turn(t, "reconcile")
      BY <2>1, <3>2, HandlerForgets
    <3>3. QED
      BY <2>4, <3>1, <3>2
  <2>6. QED
    BY <2>1, <2>3, <2>5, HandlerQuiet
<1>3. QED
  BY <1>1, <1>2

\* The end of a session: its status, its run and leases, its locks and its files.
LEMMA TransitionInv ==
    ASSUME Inv, NEW t \in Threads, Transition(t)
    PROVE  Inv'
<1> USE DEF Inv
<1>1. worker[t].pc = "transition" /\ UNCHANGED <<game, lock, control, temp, journal, saves, faults>>
  BY DEF Transition
<1>2. game \in [Players -> {"LIVE", "LAPSED", "HELD", "NONE"}]
  BY DEF TypeOK, NoSettler
<1>3. /\ worker' \in [Threads -> Work]
      /\ \A u \in Threads : Handler(worker'[u], journal', traded')
  <2>1. Stop(t) \/ Turn(t, "release") \/ Continue(t) \/ Goto(t, "deadline")
    BY DEF Transition
  <2>2. CASE Stop(t)
    BY <1>1, <2>2, HandlerStops DEF saves
  <2>3. CASE Turn(t, "release")
    BY <1>1, <2>3, HandlerForgets
  <2>4. CASE Continue(t)
    BY <1>1, <2>4, HandlerContinues
  <2>5. CASE Goto(t, "deadline")
    BY <1>1, <2>5, HandlerGoes
  <2>6. QED
    BY <2>1, <2>2, <2>3, <2>4, <2>5
<1>4. /\ status' \in Statuses /\ due' \in BOOLEAN /\ run' \in {"SAME", "OLD", "PASSED"}
      /\ status' = "COMPLETED" => status = "COMPLETED" \/ worker[t].target = "COMPLETED"
  BY Serving DEF Transition, TypeOK, Work
<1>5. worker[t].target = "COMPLETED" => journal.pair.done
  BY <1>1, Serving DEF Ends
<1>6. QED
  BY <1>1, <1>2, <1>3, <1>4, <1>5, HandlerQuiet

\* The rest of it: the run's deadline and leases, the locks, the staged files, the control plane.
LEMMA ReleaseInv ==
    ASSUME Inv, NEW t \in Threads,
           \/ SetRunDeadline(t) \/ ExtendLeases(t) \/ Release(t) \/ Clean(t) \/ AbortControl(t)
           \/ LeaveSession(t)
    PROVE  Inv'
<1> USE DEF Inv
<1>0. game \in [Players -> {"LIVE", "LAPSED", "HELD", "NONE"}]
  BY DEF TypeOK, NoSettler
<1>1. CASE SetRunDeadline(t)
  <2>1. /\ worker' \in [Threads -> Work]
        /\ \A u \in Threads : Handler(worker'[u], journal', traded')
    <3>1. CASE worker[t].target = "FINALIZING"
      BY <1>1, <3>1, HandlerGoes DEF SetRunDeadline
    <3>2. CASE worker[t].target # "FINALIZING"
      BY <1>1, <3>2, HandlerStops DEF SetRunDeadline, saves
    <3>3. QED
      BY <3>1, <3>2
  <2>2. QED
    BY <1>0, <1>1, <2>1, HandlerQuiet DEF SetRunDeadline, TypeOK
<1>2. CASE ExtendLeases(t)
  <2>1. /\ worker' \in [Threads -> Work]
        /\ \A u \in Threads : Handler(worker'[u], journal', traded')
    BY <1>2, HandlerContinues DEF ExtendLeases
  <2>2. game' \in [Players -> {"LIVE", "LAPSED", "HELD", "NONE"}]
    BY <1>0, <1>2 DEF ExtendLeases
  <2>3. QED
    BY <1>2, <2>1, <2>2, HandlerQuiet DEF ExtendLeases, TypeOK
<1>3. CASE Release(t)
  <2>1. /\ worker' \in [Threads -> Work]
        /\ \A u \in Threads : Handler(worker'[u], journal', traded')
    BY <1>3, HandlerGoes DEF Release
  <2>2. game' \in [Players -> {"LIVE", "LAPSED", "HELD", "NONE"}]
    BY <1>3 DEF Release, LinkGamesDropped, NoSettler
  <2>3. QED
    BY <1>3, <2>1, <2>2, HandlerQuiet DEF Release, TypeOK
<1>4. CASE Clean(t)
  <2>1. /\ worker' \in [Threads -> Work]
        /\ \A u \in Threads : Handler(worker'[u], journal', traded')
    <3>1. CASE t = Sweeper
      BY <1>4, <3>1, HandlerGoes DEF Clean
    <3>2. CASE t # Sweeper
      BY <1>4, <3>2, HandlerStops DEF Clean, saves
    <3>3. QED
      BY <3>1, <3>2
  <2>2. QED
    BY <1>4, <2>1, HandlerQuiet DEF Clean
<1>5. CASE AbortControl(t)
  <2>1. /\ worker' \in [Threads -> Work]
        /\ \A u \in Threads : Handler(worker'[u], journal', traded')
    BY <1>5, HandlerStops DEF AbortControl, saves
  <2>2. /\ AbortedControl \in [state : {"OPEN", "RUNNING", "FINALIZING", "FINISHED", "ABORTED"},
                               finish : Candidates \cup {NoFiles},
                               receipt : {"NONE", "MATCH", "OTHER"}, result : Results]
        /\ AbortedControl.state = "FINISHED" => control.state = "FINISHED"
    BY DEF AbortedControl, TypeOK
  <2>3. QED
    BY <1>5, <2>1, <2>2, HandlerQuiet DEF AbortControl
<1>6. CASE LeaveSession(t)
  <2>1. /\ worker' \in [Threads -> Work]
        /\ \A u \in Threads : Handler(worker'[u], journal', traded')
    <3>1. CASE status \in LeaveStatuses
      <4>1. [Idle EXCEPT !.pc = "transition", !.target = "CANCELLED"] \in Work
        BY IdleHandler DEF Work, Steps, Statuses, Terminal
      <4>2. QED
        BY <1>6, <3>1, <4>1, HandlerTurns DEF LeaveSession, Idle
    <3>2. CASE status \notin LeaveStatuses
      BY <1>6, <3>2, HandlerStops DEF LeaveSession, saves
    <3>3. QED
      BY <3>1, <3>2
  <2>2. QED
    BY <1>6, <2>1, HandlerQuiet DEF LeaveSession, session
<1>7. QED
  BY <1>1, <1>2, <1>3, <1>4, <1>5, <1>6

-----------------------------------------------------------------------------
(* The journal: reading it, writing it, and committing the two sides. *)

\* A finish and a receipt that match start the commit, or report one that is over.
LEMMA ReconcileInv ==
    ASSUME Inv, NEW t \in Threads, Reconcile(t)
    PROVE  Inv'
<1> USE DEF Inv
<1> DEFINE moves == [worker[t] EXCEPT !.pc = "transition", !.target = "FINALIZING",
                                      !.next = "read", !.seen = "FINALIZING"]
           reads == [worker[t] EXCEPT !.pc = "read", !.seen = "FINALIZING"]
           repeats == [worker[t] EXCEPT !.pc = "complete", !.seen = "COMPLETED",
                                        !.result = journal.result]
<1>1. worker[t].pc = "reconcile" /\ UNCHANGED <<session, control, temp, journal, saves, faults>>
  BY DEF Reconcile
<1>2. worker[t] \in Work /\ worker[t].role = "LINK" /\ worker[t].side = "a"
      /\ worker[t].next \in {"idle", "read", "leave"}
  BY <1>1, Serving DEF SideSteps
<1>3. /\ worker' \in [Threads -> Work]
      /\ \A u \in Threads : Handler(worker'[u], journal', traded')
  <2>1. \/ Continue(t)
        \/ worker' = [worker EXCEPT ![t] = moves]
        \/ worker' = [worker EXCEPT ![t] = reads]
        \/ worker' = [worker EXCEPT ![t] = repeats] /\ journal.state = "COMMITTED"
    BY DEF Reconcile
  <2>2. CASE Continue(t)
    BY <1>1, <2>2, HandlerContinues
  <2>3. CASE worker' = [worker EXCEPT ![t] = moves]
    <3>1. moves \in Work /\ moves.role = "LINK" /\ moves.side = "a" /\ moves.next = "read"
          /\ moves.pc = "transition" /\ moves.target = "FINALIZING"
      BY ZenonT(40), <1>2 DEF Work, Steps, Statuses, Running
    <3>2. QED
      BY <1>1, <2>3, <3>1, HandlerTurns
  <2>4. CASE worker' = [worker EXCEPT ![t] = reads]
    <3>1. reads \in Work /\ reads.role = "LINK" /\ reads.side = "a" /\ reads.pc = "read"
          /\ reads.next \in {"idle", "read", "leave"}
      BY ZenonT(40), <1>2 DEF Work, Steps, Statuses, Running
    <3>2. QED
      BY <1>1, <2>4, <3>1, HandlerTurns
  <2>5. CASE worker' = [worker EXCEPT ![t] = repeats] /\ journal.state = "COMMITTED"
    <3>1. journal.result \in Results /\ journal.pair.done
      BY <2>5 DEF TypeOK, RowFollows
    <3>2. repeats \in Work /\ repeats.role = "LINK" /\ repeats.side = "a" /\ repeats.pc = "complete"
          /\ repeats.next \in {"idle", "read", "leave"}
      <4>1. "complete" \in Steps /\ "COMPLETED" \in Statuses
        BY DEF Steps, Statuses, Terminal
      <4>2. QED
        BY <1>2, <3>1, <4>1 DEF Work
    <3>3. Handler(repeats, journal, traded')
      BY <3>1, <3>2, PlainHandler DEF PairSteps, SettleSteps
    <3>4. QED
      BY <1>1, <2>5, <3>3, HandlerMoves DEF saves
  <2>6. QED
    BY <2>1, <2>2, <2>3, <2>4, <2>5
<1>4. QED
  BY <1>1, <1>3, HandlerQuiet

\* With both SAVs under the session's lock and nothing applied, the staged pair is the Trade's.
LEMMA StagedIsTrade ==
    ASSUME SingleFinish, Inv, temp = Trade, \A p \in Players : HeldBy("LINK", p)
    PROVE  /\ traded = {} => StagedPair = TradePair
           /\ traded = TradeKeys => Changed = {}
<1> USE DEF Inv
<1>1. CASE traded = {}
  <2>1. \A p \in Players : save[p].rev = 1 /\ save[p].sha = "old"
    BY <1>1 DEF SavesFollow
  <2>2. Changed = TradeChanged
    BY <2>1 DEF Changed, TradeChanged
  <2>3. CurrentRevisions = [p \in Players |-> 1]
    BY <2>1 DEF CurrentRevisions
  <2>4. StagedPair = TradePair
    BY <2>2, <2>3 DEF StagedPair, TradePair
  <2>5. CASE traded = TradeKeys
    <3>1. TradeChanged = {}
      BY <1>1, <2>5 DEF TradeKeys
    <3>2. QED
      BY <2>2, <2>4, <3>1
  <2>6. QED
    BY <2>4, <2>5
<1>2. CASE traded = TradeKeys
  <2>1. ASSUME NEW p \in Players
        PROVE  save[p].sha = Trade[p]
    <3>1. CASE p \in TradeChanged
      <4>1. TradeKey(p) \in traded
        BY <1>2, <3>1 DEF TradeKeys
      <4>2. QED
        BY <4>1 DEF SavesFollow
    <3>2. CASE p \notin TradeChanged
      <4>1. Trade[p] = "old"
        BY <3>2 DEF TradeChanged
      <4>2. TradeKey(p) \notin traded
        <5>1. \A q \in TradeChanged : TradeKey(q).player = q
          BY DEF TradeKey
        <5>2. TradeKey(p).player = p
          BY DEF TradeKey
        <5>3. QED
          BY <1>2, <3>2, <5>1, <5>2 DEF TradeKeys
      <4>3. QED
        BY <4>1, <4>2 DEF SavesFollow
    <3>3. QED
      BY <3>1, <3>2
  <2>2. Changed = {}
    BY <2>1 DEF Changed
  <2>3. CASE traded = {}
    BY <1>1, <2>2, <2>3
  <2>4. QED
    BY <2>2, <2>3
<1>3. QED
  BY <1>1, <1>2

\* The checks and reads before a journal write.
LEMMA ReadStagedInv ==
    ASSUME SingleFinish, Inv, NEW t \in Threads, ReadStaged(t)
    PROVE  Inv'
<1> USE DEF Inv
<1> DEFINE repeats == [worker[t] EXCEPT !.pc = "complete", !.next = "idle",
                                        !.result = journal.result]
           starts(step, pair, result) ==
               [worker[t] EXCEPT !.pc = step, !.pair = pair, !.result = result,
                                 !.fresh = TRUE, !.next = "idle"]
           rewritten == [rev |-> CurrentRevisions, changed |-> {}]
<1>1. worker[t].pc = "read" /\ UNCHANGED <<session, control, temp, journal, saves, faults>>
  BY DEF ReadStaged
<1>2. worker[t] \in Work /\ worker[t].role = "LINK" /\ worker[t].side = "a"
  BY <1>1, Serving DEF SideSteps
<1>3. /\ journal.result \in Results /\ journal.pair \in Pairs /\ NoResult \in Results
      /\ rewritten \in Results
  <2>1. CurrentRevisions \in [Players -> 1..(MaxRevision + 1)]
    BY LinkPairAssumption DEF CurrentRevisions, TypeOK, Revisions
  <2>2. rewritten \in Results
    BY <2>1 DEF Results
  <2>3. NoResult \in Results
    BY LinkPairAssumption DEF NoResult, Results
  <2>4. QED
    BY <2>2, <2>3 DEF TypeOK
<1>4. ASSUME NEW step \in {"rewrite", "committing", "prepare"}, NEW pair \in Pairs, NEW result \in Results
      PROVE  /\ starts(step, pair, result) \in Work
             /\ starts(step, pair, result).pc = step /\ starts(step, pair, result).pair = pair
             /\ starts(step, pair, result).role = "LINK" /\ starts(step, pair, result).side = "a"
             /\ starts(step, pair, result).next = "idle"
  BY <1>2 DEF Work, Steps
<1>5. /\ worker' \in [Threads -> Work]
      /\ \A u \in Threads : Handler(worker'[u], journal', traded')
  <2>1. \/ Stop(t)
        \/ /\ journal.state = "COMMITTED"
           /\ worker' = [worker EXCEPT ![t] = repeats]
        \/ /\ journal.state = "COMMITTED"
           /\ worker' = [worker EXCEPT ![t] = starts("rewrite", journal.pair, rewritten)]
        \/ /\ journal.state \notin {"NONE", "COMMITTED"}
           /\ worker' = [worker EXCEPT ![t] = starts("committing", journal.pair, NoResult)]
        \/ /\ journal.state \in {"NONE", "COMMITTED"} /\ temp # NoFiles
           /\ ~(journal.state = "COMMITTED" /\ journal.pair.sha = temp /\ Changed = {})
           /\ \A p \in Players : HeldBy("LINK", p)
           /\ worker' = [worker EXCEPT ![t] = starts("prepare", StagedPair, NoResult)]
    BY DEF ReadStaged, Start
  <2> HIDE DEF starts, repeats, rewritten
  <2>2. CASE Stop(t)
    BY <1>1, <2>2, HandlerStops DEF saves
  <2>3. CASE journal.state = "COMMITTED" /\ worker' = [worker EXCEPT ![t] = repeats]
    <3>1. journal.pair.done
      BY <2>3 DEF RowFollows
    <3>2. repeats \in Work /\ repeats.role = "LINK" /\ repeats.side = "a" /\ repeats.pc = "complete"
          /\ repeats.next = "idle"
      BY <1>2, <1>3 DEF Work, Steps, repeats
    <3>3. Handler(repeats, journal, traded')
      BY <3>1, <3>2, PlainHandler DEF PairSteps, SettleSteps
    <3>4. QED
      BY <1>1, <2>3, <3>3, HandlerMoves DEF saves
  <2>4. CASE /\ journal.state = "COMMITTED"
             /\ worker' = [worker EXCEPT ![t] = starts("rewrite", journal.pair, rewritten)]
    <3>1. journal.pair.done /\ journal.pair \in {TradePair, DonePair}
      BY <2>4 DEF RowFollows
    <3>2. Handler(starts("rewrite", journal.pair, rewritten), journal, traded)
      BY <1>3, <1>4, <2>4, <3>1
         DEF Handler, KnowsPair, KnowsSides, KnowsNext, PairSteps, SideSteps, SettleSteps
    <3>3. QED
      BY <1>1, <2>4, <3>2, HandlerMoves DEF saves
  <2>5. CASE /\ journal.state \notin {"NONE", "COMMITTED"}
             /\ worker' = [worker EXCEPT ![t] = starts("committing", journal.pair, NoResult)]
    <3>1. journal.pair \in {TradePair, DonePair}
      BY <2>5 DEF RowFollows
    <3>2. Handler(starts("committing", journal.pair, NoResult), journal, traded)
      BY <1>3, <1>4, <2>5, <3>1
         DEF Handler, KnowsPair, KnowsSides, KnowsNext, PairSteps, SideSteps, SettleSteps, Ends
    <3>3. QED
      BY <1>1, <2>5, <3>2, HandlerMoves DEF saves
  <2>6. CASE /\ journal.state \in {"NONE", "COMMITTED"} /\ temp # NoFiles
             /\ ~(journal.state = "COMMITTED" /\ journal.pair.sha = temp /\ Changed = {})
             /\ \A p \in Players : HeldBy("LINK", p)
             /\ worker' = [worker EXCEPT ![t] = starts("prepare", StagedPair, NoResult)]
    <3>1. temp = Trade
      BY <2>6 DEF OnlyTheTrade
    <3>2. journal.state = "NONE"
      <4>1. CASE journal.state = "COMMITTED"
        <5>1. journal.pair \in {TradePair, DonePair} /\ traded = TradeKeys
          BY <4>1 DEF RowFollows
        <5>2. journal.pair.sha = temp
          BY <3>1, <5>1, TradeTypes
        <5>3. QED
          BY <2>6, <3>1, <4>1, <5>1, <5>2, StagedIsTrade
      <4>2. QED
        BY <2>6, <4>1
    <3>3. StagedPair = TradePair /\ TradePair \in Pairs
      BY <2>6, <3>1, <3>2, StagedIsTrade, TradeTypes DEF RowFollows
    <3>4. Handler(starts("prepare", StagedPair, NoResult), journal, traded)
      BY <1>3, <1>4, <3>2, <3>3
         DEF Handler, KnowsPair, KnowsSides, KnowsNext, PairSteps, SideSteps, SettleSteps, Ends
    <3>5. QED
      BY <1>1, <2>6, <3>4, HandlerMoves DEF saves
  <2>7. QED
    BY <2>1, <2>2, <2>3, <2>4, <2>5, <2>6
<1>6. QED
  BY <1>1, <1>5, HandlerQuiet

\* A handler writes the row it read to a row of the Trade.
LEMMA JournalWritten ==
    ASSUME SingleFinish, Inv, NEW t \in Threads, worker[t].fresh,
           NEW result \in Results, NEW state \in {"PREPARED", "COMMITTING", "COMMITTED"},
           NEW step \in {"committing", "side", "complete"},
           WriteJournal(t, state, result, step),
           UNCHANGED <<session, control, temp, saves, faults>>,
           worker[t].pc \in {"rewrite", "prepare", "committing", "committed"},
           worker[t].pair \in {TradePair, DonePair},
           journal.state \in {"COMMITTING", "COMMITTED"} => state # "PREPARED",
           journal.pair.done => journal'.pair.done,
           state = "PREPARED" => worker[t].pair = TradePair /\ traded = {},
           journal'.pair.done => traded = TradeKeys,
           step = "side" => state = "COMMITTING",
           step = "complete" => state = "COMMITTED",
           step # "complete" => worker[t].side = "a"
    PROVE  Inv'
<1> USE DEF Inv
<1> DEFINE rest(u) == [worker[u] EXCEPT !.fresh = FALSE]
           goes == [worker[t] EXCEPT !.pc = "reread", !.next = step, !.result = result, !.fresh = FALSE]
           row == [state |-> state, result |-> result,
                   pair |-> [worker[t].pair EXCEPT !.done = @ \/ state = "COMMITTED"]]
<1>1. /\ journal' = row
      /\ worker' = [u \in Threads |-> IF u = t THEN goes ELSE rest(u)]
  BY DEF WriteJournal
<1>2. /\ journal'.pair \in {TradePair, DonePair}
      /\ state = "COMMITTED" => journal'.pair.done
      /\ state = "PREPARED" => journal'.pair = TradePair
  <2>1. journal'.pair = [worker[t].pair EXCEPT !.done = worker[t].pair.done \/ state = "COMMITTED"]
    BY <1>1
  <2>2. CASE worker[t].pair = TradePair
    <3>1. CASE state = "COMMITTED"
      BY <2>1, <2>2, <3>1 DEF TradePair, DonePair
    <3>2. CASE state # "COMMITTED"
      <4>1. (worker[t].pair.done \/ state = "COMMITTED") = FALSE
        BY <2>2, <3>2, TradeTypes
      <4>2. journal'.pair = [TradePair EXCEPT !.done = FALSE]
        BY <2>1, <2>2, <4>1
      <4>3. QED
        BY <3>2, <4>2 DEF TradePair
    <3>3. QED
      BY <3>1, <3>2
  <2>3. CASE worker[t].pair = DonePair
    <3>1. journal'.pair = DonePair
      BY <2>1, <2>3 DEF TradePair, DonePair
    <3>2. QED
      BY <2>3, <3>1, TradeTypes
  <2>4. QED
    BY <2>2, <2>3
<1>3. journal' \in [state : {"NONE", "PREPARED", "COMMITTING", "COMMITTED", "ABORTED"},
                    pair : Pairs, result : Results]
      /\ journal'.state = state
  <2>1. journal'.pair \in Pairs
    BY <1>2, TradeTypes
  <2>2. QED
    BY <1>1, <2>1
<1>4. RowFollows(journal', traded')
  BY <1>2, <1>3, TradeTypes DEF RowFollows, saves
<1>5. \A u \in Threads : Handler(worker'[u], journal', traded')
  <2>1. TAKE u \in Threads
  <2>2. CASE u = t
    <3>1. worker'[t] = goes
      BY <1>1
    <3>2. worker[t] \in Work /\ worker[t].role = "LINK"
      BY Serving
    <3>3. goes \in Work /\ goes.role = "LINK" /\ goes.pc = "reread" /\ goes.next = step
          /\ goes.side = worker[t].side
      BY ZenonT(40), <3>2 DEF Work, Steps
    <3>4. step # "complete" => goes.side = "a"
      BY <3>3
    <3>5. step = "complete" => journal'.pair.done
      BY <1>2
    <3>6. QED
      BY <1>3, <2>2, <3>1, <3>3, <3>4, <3>5
         DEF Handler, KnowsPair, KnowsSides, KnowsNext, PairSteps, SideSteps, SettleSteps, Ends
  <2>3. CASE u # t
    <3>1. worker'[u] = rest(u)
      BY <1>1, <2>3
    <3>2. QED
      BY <1>3, <3>1, HandlerLater DEF saves
  <2>4. QED
    BY <2>2, <2>3
<1>6. worker' \in [Threads -> Work]
  BY <1>1, <1>5 DEF Handler
<1>7. TypeOK'
  BY <1>3, <1>6 DEF TypeOK, session, saves
<1>8. (NoSettler /\ OnlyTheTrade)'
  BY DEF NoSettler, OnlyTheTrade, session, saves
<1>9. SavesFollow'
  BY DEF SavesFollow, HeldBy, session, saves
<1>10. AnnouncedIsCommitted'
  BY DEF AnnouncedIsCommitted, session
<1>11. QED
  BY <1>4, <1>5, <1>7, <1>8, <1>9, <1>10

\* The four writes of the journal: a rewritten result, PREPARED, COMMITTING, COMMITTED.
LEMMA JournalInv ==
    ASSUME SingleFinish, Inv, NEW t \in Threads,
           RewriteResult(t) \/ PreparePair(t) \/ StartCommitting(t) \/ CommitPair(t)
    PROVE  Inv'
<1> USE DEF Inv
<1>1. UNCHANGED <<session, control, temp, saves, faults>>
  BY DEF RewriteResult, PreparePair, StartCommitting, CommitPair
<1>2. NoResult \in Results /\ journal.result \in Results
  BY IdleHandler DEF TypeOK, Idle, Work
<1>3. CASE ~worker[t].fresh
  <2>1. Stop(t) /\ UNCHANGED journal
    BY <1>3 DEF RewriteResult, PreparePair, StartCommitting, CommitPair, WriteJournal
  <2>2. /\ worker' \in [Threads -> Work]
        /\ \A u \in Threads : Handler(worker'[u], journal', traded')
    BY <1>1, <2>1, HandlerStops DEF saves
  <2>3. QED
    BY <1>1, <2>1, <2>2, HandlerQuiet
<1>4. CASE worker[t].fresh
  <2>1. Handler(worker[t], journal, traded) /\ worker[t].result \in Results
    BY Serving DEF Work
  <2>2. worker[t].pc # "prepare" => worker[t].pair = journal.pair /\ journal.state # "NONE"
    BY <1>4, <2>1 DEF Handler, KnowsPair, PairSteps, RewriteResult, PreparePair, StartCommitting, CommitPair
  <2>3. CASE RewriteResult(t)
    <3>1. worker[t].pair \in {TradePair, DonePair} /\ journal.pair.done
      BY <2>1, <2>3 DEF Handler, KnowsPair, PairSteps, Ends, RewriteResult
    <3>2. traded = TradeKeys
      BY <3>1 DEF RowFollows
    <3>3. journal'.pair.done
      <4>1. journal'.pair = [worker[t].pair EXCEPT !.done = worker[t].pair.done \/ "COMMITTED" = "COMMITTED"]
        BY <1>4, <2>3 DEF RewriteResult, WriteJournal
      <4>2. journal'.pair.done = (worker[t].pair.done \/ "COMMITTED" = "COMMITTED")
        BY <3>1, <4>1 DEF TradePair, DonePair
      <4>3. QED
        BY <4>2
    <3>4. QED
      BY <1>1, <1>4, <2>1, <2>3, <3>1, <3>2, <3>3, JournalWritten DEF RewriteResult
  <2>4. CASE PreparePair(t)
    <3>1. worker[t].pair = TradePair /\ journal.state = "NONE" /\ worker[t].side = "a"
      BY <1>4, <2>1, <2>4 DEF Handler, KnowsPair, KnowsSides, SideSteps, PreparePair
    <3>2. traded = {} /\ ~journal.pair.done
      BY <3>1 DEF RowFollows
    <3>3. ~journal'.pair.done
      <4>1. (TradePair.done \/ "PREPARED" = "COMMITTED") = FALSE
        BY TradeTypes
      <4>2. journal'.pair.done = (worker[t].pair.done \/ "PREPARED" = "COMMITTED")
        BY <1>4, <2>4, <3>1 DEF PreparePair, WriteJournal, TradePair
      <4>3. QED
        BY <3>1, <4>1, <4>2
    <3>4. QED
      BY <1>1, <1>2, <1>4, <2>4, <3>1, <3>2, <3>3, JournalWritten DEF PreparePair
  <2>5. CASE StartCommitting(t)
    <3>1. worker[t].pair \in {TradePair, DonePair} /\ worker[t].pair = journal.pair /\ worker[t].side = "a"
      BY <2>1, <2>2, <2>5 DEF Handler, KnowsPair, KnowsSides, PairSteps, SideSteps, StartCommitting
    <3>2. journal'.pair.done <=> journal.pair.done
      <4>1. journal'.pair = [worker[t].pair EXCEPT !.done = worker[t].pair.done \/ "COMMITTING" = "COMMITTED"]
        BY <1>4, <2>5 DEF StartCommitting, WriteJournal
      <4>2. journal'.pair.done = (worker[t].pair.done \/ "COMMITTING" = "COMMITTED")
        BY <3>1, <4>1 DEF TradePair, DonePair
      <4>3. QED
        BY <3>1, <4>2
    <3>3. journal'.pair.done => traded = TradeKeys
      BY <3>2 DEF RowFollows
    <3>4. QED
      BY <1>1, <1>2, <1>4, <2>5, <3>1, <3>2, <3>3, JournalWritten DEF StartCommitting
  <2>6. CASE CommitPair(t)
    <3>1. /\ worker[t].pair \in {TradePair, DonePair} /\ TradeKeys \subseteq traded
          /\ worker[t].role = "LINK"
      BY <2>1, <2>6 DEF Handler, KnowsPair, KnowsSides, PairSteps, CommitPair
    <3>2. traded = TradeKeys
      BY <3>1 DEF OnlyTheTrade
    <3>3. journal'.pair.done
      <4>1. journal'.pair = [worker[t].pair EXCEPT !.done = worker[t].pair.done \/ "COMMITTED" = "COMMITTED"]
        BY <1>4, <2>6 DEF CommitPair, WriteJournal
      <4>2. journal'.pair.done = (worker[t].pair.done \/ "COMMITTED" = "COMMITTED")
        BY <3>1, <4>1 DEF TradePair, DonePair
      <4>3. QED
        BY <4>2
    <3>4. PairResult(worker[t].pair) \in Results
      <4>1. worker[t].pair.changed \in SUBSET Players /\ \A p \in Players : worker[t].pair.base[p] = 1
        BY <3>1, TradeTypes, TradeFact
      <4>2. [p \in Players |-> worker[t].pair.base[p] + (IF p \in worker[t].pair.changed THEN 1 ELSE 0)]
               \in [Players -> 1..(MaxRevision + 1)]
        BY <4>1, LinkPairAssumption
      <4>3. QED
        BY <4>1, <4>2 DEF PairResult, Results
    <3>5. QED
      BY <1>1, <1>4, <2>6, <3>1, <3>2, <3>3, <3>4, JournalWritten DEF CommitPair
  <2>7. QED
    BY <2>3, <2>4, <2>5, <2>6
<1>5. QED
  BY <1>3, <1>4

\* The row is read again after a write.
LEMMA RereadInv ==
    ASSUME SingleFinish, Inv, NEW t \in Threads, Reread(t)
    PROVE  Inv'
<1> USE DEF Inv
<1> DEFINE goes == [worker[t] EXCEPT !.pc = worker[t].next, !.next = "idle", !.pair = journal.pair,
                                     !.fresh = TRUE]
           ends == [worker[t] EXCEPT !.pc = worker[t].next, !.next = "idle", !.pair = NoPair, !.side = "a"]
<1>1. worker[t].pc = "reread" /\ UNCHANGED <<session, control, temp, journal, saves, faults>>
  BY DEF Reread
<1>2. Handler(worker[t], journal, traded) /\ worker[t] \in Work
  BY Serving
<1>3. CASE worker[t].next \in {"committing", "side"}
  <2>1. worker' = [worker EXCEPT ![t] = goes]
    BY <1>3 DEF Reread
  <2>2. /\ journal.state # "NONE" /\ worker[t].side = "a"
        /\ worker[t].next = "side" => journal.state \in {"COMMITTING", "COMMITTED"}
    BY <1>1, <1>2, <1>3 DEF Handler, KnowsSides, KnowsNext, SideSteps
  <2>3. journal.pair \in {TradePair, DonePair} /\ journal.pair \in Pairs
    BY <2>2 DEF RowFollows, TypeOK
  <2>4. goes \in Work /\ goes.role = "LINK" /\ goes.pc = worker[t].next /\ goes.next = "idle"
        /\ goes.pair = journal.pair /\ goes.side = "a"
    BY <1>2, <2>2, <2>3, Serving DEF Work, Steps
  <2>5. Handler(goes, journal, traded)
    BY <1>3, <2>2, <2>3, <2>4
       DEF Handler, KnowsPair, KnowsSides, KnowsNext, PairSteps, SideSteps, SettleSteps, Ends
  <2>6. QED
    BY <1>1, <2>1, <2>5, HandlerMoves, HandlerQuiet DEF saves
<1>4. CASE worker[t].next = "complete"
  <2>1. worker' = [worker EXCEPT ![t] = ends]
    BY <1>4 DEF Reread
  <2>2. ends \in Work /\ ends.role = "LINK" /\ ends.pc = "complete" /\ ends.next = "idle"
        /\ ends.side = "a"
    <3>1. NoPair \in Pairs
      BY IdleHandler DEF Idle, Work
    <3>2. QED
      BY <1>2, <1>4, <3>1, Serving DEF Work, Steps, Players
  <2>3. journal.pair.done
    BY <1>1, <1>4, Serving DEF Ends
  <2>4. Handler(ends, journal, traded)
    BY <2>2, <2>3, PlainHandler DEF PairSteps, SettleSteps
  <2>5. QED
    BY <1>1, <2>1, <2>4, HandlerMoves, HandlerQuiet DEF saves
<1>5. QED
  BY <1>1, <1>2, <1>3, <1>4 DEF Handler, KnowsNext

\* The control plane is told, and then the session.
LEMMA CompleteInv ==
    ASSUME Inv, NEW t \in Threads, Complete(t)
    PROVE  Inv'
<1> USE DEF Inv
<1> DEFINE ends == [Idle EXCEPT !.pc = "transition", !.target = "COMPLETED"]
<1>1. worker[t].pc = "complete" /\ UNCHANGED <<session, temp, journal, saves, faults>>
  BY DEF Complete
<1>2. journal.pair.done /\ worker[t].result \in Results
  BY <1>1, Serving DEF Ends, Work
<1>3. Stop(t) \/ worker' = [worker EXCEPT ![t] = ends]
  BY DEF Complete
<1>4. ends \in Work /\ ends.role = "LINK" /\ ends.side = "a" /\ ends.next = "idle"
      /\ ends.pc = "transition"
  BY IdleHandler DEF Idle, Work, Steps, Statuses, Terminal
<1>5. /\ worker' \in [Threads -> Work]
      /\ \A u \in Threads : Handler(worker'[u], journal', traded')
  <2>1. CASE Stop(t)
    BY <1>1, <2>1, HandlerStops DEF saves
  <2>2. CASE worker' = [worker EXCEPT ![t] = ends]
    BY <1>1, <1>2, <1>4, <2>2, HandlerTurns
  <2>3. QED
    BY <1>3, <2>1, <2>2
<1>6. control' \in [state : {"OPEN", "RUNNING", "FINALIZING", "FINISHED", "ABORTED"},
                    finish : Candidates \cup {NoFiles},
                    receipt : {"NONE", "MATCH", "OTHER"}, result : Results]
  BY <1>2 DEF Complete, TypeOK
<1>7. QED
  BY <1>1, <1>2, <1>5, <1>6, HandlerQuiet

\* A side is behind a handler that goes on to the next one.
LEMMA SideDone ==
    ASSUME SingleFinish, Inv, NEW t \in Threads, NextSide(t), UNCHANGED journal,
           traded \subseteq traded',
           worker[t].pc \in SideSteps,
           worker[t].side \in TradeChanged => TradeKey(worker[t].side) \in traded'
    PROVE  /\ worker' \in [Threads -> Work]
           /\ \A u \in Threads : Handler(worker'[u], journal', traded')
<1> DEFINE other == [worker[t] EXCEPT !.pc = "side", !.side = "b"]
           over == [worker[t] EXCEPT !.pc = "committed"]
<1>1. Handler(worker[t], journal, traded) /\ worker[t] \in Work
  BY Serving
<1>2. CASE worker[t].side = "a"
  <2>1. worker' = [worker EXCEPT ![t] = other]
    BY <1>2 DEF NextSide
  <2>2. other \in Work /\ other.pc = "side" /\ other.side = "b" /\ other.role = "LINK"
        /\ other.pair = worker[t].pair /\ other.fresh = worker[t].fresh /\ other.next = worker[t].next
    BY ZenonT(40), <1>1, Serving DEF Work, Steps, Players
  <2>3. Handler(other, journal, traded')
    BY <1>1, <1>2, <2>2
       DEF Handler, KnowsPair, KnowsSides, KnowsNext, PairSteps, SideSteps, SettleSteps, Ends
  <2>4. QED
    BY <2>1, <2>3, HandlerMoves
<1>3. CASE worker[t].side = "b"
  <2>1. worker' = [worker EXCEPT ![t] = over]
    BY <1>3 DEF NextSide
  <2>2. over \in Work /\ over.pc = "committed" /\ over.role = "LINK"
        /\ over.pair = worker[t].pair /\ over.fresh = worker[t].fresh /\ over.next = worker[t].next
    BY <1>1, Serving DEF Work, Steps
  <2>3. TradeKeys \subseteq traded'
    <3>1. "a" \in TradeChanged => TradeKey("a") \in traded'
      BY <1>1, <1>3 DEF Handler, KnowsSides
    <3>2. "b" \in TradeChanged => TradeKey("b") \in traded'
      BY <1>3
    <3>3. QED
      BY <3>1, <3>2, TradeFact DEF TradeKeys, Players
  <2>4. Handler(over, journal, traded')
    BY <1>1, <2>2, <2>3
       DEF Handler, KnowsPair, KnowsSides, KnowsNext, PairSteps, SideSteps, SettleSteps, Ends
  <2>5. QED
    BY <2>1, <2>4, HandlerMoves
<1>4. QED
  BY <1>1, <1>2, <1>3 DEF Work, Players

\* A handler that goes on to upload a side, or to its next step.
LEMMA SideGoes ==
    ASSUME Inv, NEW t \in Threads, NEW step \in {"upload", "replace", "record"}, Goto(t, step),
           UNCHANGED journal, traded \subseteq traded',
           worker[t].pc \in {"side", "upload", "replace"}, worker[t].side \in TradeChanged
    PROVE  /\ worker' \in [Threads -> Work]
           /\ \A u \in Threads : Handler(worker'[u], journal', traded')
<1> DEFINE goes == [worker[t] EXCEPT !.pc = step]
<1>1. Handler(worker[t], journal, traded) /\ worker[t] \in Work
  BY Serving
<1>2. goes \in Work /\ goes.pc = step /\ goes.side = worker[t].side /\ goes.role = "LINK"
      /\ goes.pair = worker[t].pair /\ goes.fresh = worker[t].fresh /\ goes.next = worker[t].next
  BY <1>1, Serving DEF Work, Steps
<1>3. Handler(goes, journal, traded')
  BY <1>1, <1>2
     DEF Handler, KnowsPair, KnowsSides, KnowsNext, PairSteps, SideSteps, SettleSteps, Ends
<1>4. QED
  BY <1>3, HandlerMoves DEF Goto

\* A handler looks whether its side is applied.
LEMMA CommitSideInv ==
    ASSUME SingleFinish, Inv, NEW t \in Threads, CommitSide(t)
    PROVE  Inv'
<1> USE DEF Inv
<1> DEFINE p == worker[t].side
           pair == worker[t].pair
<1>1. worker[t].pc = "side" /\ UNCHANGED <<session, control, temp, journal, saves, faults>>
  BY DEF CommitSide
<1>2. /\ pair \in {TradePair, DonePair} /\ (pair.done => traded = TradeKeys)
      /\ p \in Players /\ worker[t].role = "LINK"
  BY <1>1, Serving DEF Handler, KnowsPair, PairSteps, RowFollows, Work
<1>3. pair.sha = Trade /\ pair.changed = TradeChanged /\ pair.base[p] = 1
  BY <1>2, TradeTypes
<1>4. \/ NextSide(t) /\ (pair.done \/ p \notin pair.changed
                         \/ save[p] = [rev |-> pair.base[p] + 1, sha |-> pair.sha[p], file |-> pair.sha[p]])
      \/ Goto(t, "upload") /\ p \in pair.changed
      \/ Stop(t)
  BY DEF CommitSide
<1> HIDE DEF pair, p
<1>5. /\ worker' \in [Threads -> Work]
      /\ \A u \in Threads : Handler(worker'[u], journal', traded')
  <2>1. CASE Stop(t)
    BY <1>1, <2>1, HandlerStops DEF saves
  <2>2. CASE Goto(t, "upload") /\ p \in pair.changed
    BY <1>1, <1>3, <2>2, SideGoes DEF saves, p
  <2>3. CASE NextSide(t) /\ (pair.done \/ p \notin pair.changed
                 \/ save[p] = [rev |-> pair.base[p] + 1, sha |-> pair.sha[p], file |-> pair.sha[p]])
    <3>1. ASSUME p \in TradeChanged
          PROVE  TradeKey(p) \in traded
      <4>1. CASE pair.done
        BY <1>2, <3>1, <4>1 DEF TradeKeys
      <4>2. CASE save[p] = [rev |-> pair.base[p] + 1, sha |-> pair.sha[p], file |-> pair.sha[p]]
        <5>1. save[p].sha = Trade[p]
          BY <1>3, <4>2
        <5>2. Trade[p] \in Payloads
          BY <3>1, TradeFact
        <5>3. QED
          BY <1>2, <5>1, <5>2 DEF SavesFollow
      <4>3. QED
        BY <1>3, <2>3, <3>1, <4>1, <4>2
    <3>2. QED
      BY <1>1, <2>3, <3>1, SideDone DEF saves, p, SideSteps
  <2>4. QED
    BY <1>4, <2>1, <2>2, <2>3
<1>6. QED
  BY <1>1, <1>5, HandlerQuiet

\* The request a handler uploads is its side of the Trade.
LEMMA UploadsTrade ==
    ASSUME SingleFinish, Inv, NEW t \in Threads, worker[t].pc \in {"upload", "replace", "record"}
    PROVE  /\ UploadKey(t) = TradeKey(worker[t].side)
           /\ worker[t].side \in TradeChanged /\ worker[t].side \in Players
           /\ UploadKey(t) \in TradeKeys
           /\ journal.state \in {"COMMITTING", "COMMITTED"}
<1>1. /\ worker[t].pair \in {TradePair, DonePair} /\ worker[t].side \in TradeChanged
      /\ worker[t].role = "LINK" /\ worker[t].side \in Players
      /\ journal.state \in {"COMMITTING", "COMMITTED"}
  BY Serving, TradeFact DEF Handler, KnowsPair, KnowsSides, PairSteps, SideSteps
<1>2. worker[t].pair.sha = Trade /\ worker[t].pair.base[worker[t].side] = 1
  BY <1>1, TradeTypes
<1>3. UploadKey(t) = TradeKey(worker[t].side)
  BY <1>1, <1>2 DEF UploadKey, TradeKey
<1>4. QED
  BY <1>1, <1>3 DEF TradeKeys

\* The upload of a side is prepared, and its file replaced.
LEMMA PrepareUploadInv ==
    ASSUME SingleFinish, Inv, NEW t \in Threads, PrepareUpload(t)
    PROVE  Inv'
<1> USE DEF Inv
<1>1. worker[t].pc = "upload" /\ UNCHANGED <<session, control, temp, journal, save, traded, faults>>
  BY DEF PrepareUpload
<1>2. UploadKey(t) = TradeKey(worker[t].side) /\ UploadKey(t) \in TradeKeys
      /\ worker[t].side \in TradeChanged
  BY <1>1, UploadsTrade
<1>3. \/ NextSide(t) /\ UploadKey(t) \in traded
      \/ Goto(t, "replace")
      \/ Stop(t)
  BY DEF PrepareUpload
<1>4. /\ worker' \in [Threads -> Work]
      /\ \A u \in Threads : Handler(worker'[u], journal', traded')
  <2>1. CASE Stop(t)
    BY <1>1, <2>1, HandlerStops
  <2>2. CASE Goto(t, "replace")
    BY <1>1, <1>2, <2>2, SideGoes
  <2>3. CASE NextSide(t) /\ UploadKey(t) \in traded
    BY <1>1, <1>2, <2>3, SideDone DEF SideSteps
  <2>4. QED
    BY <1>3, <2>1, <2>2, <2>3
<1>5. uploads' \in {uploads, uploads \cup {UploadKey(t)}}
  BY DEF PrepareUpload
<1>6. uploads' \subseteq TradeKeys /\ uploads' \subseteq Keys
  BY <1>2, <1>5, TradeTypes DEF OnlyTheTrade
<1>7. TypeOK'
  BY <1>1, <1>4, <1>6 DEF TypeOK, session
<1>8. (NoSettler /\ OnlyTheTrade)'
  BY <1>1, <1>6 DEF NoSettler, OnlyTheTrade, session
<1>9. SavesFollow'
  BY <1>1 DEF SavesFollow, HeldBy, session
<1>10. (RowFollows(journal, traded) /\ AnnouncedIsCommitted)'
  BY <1>1 DEF RowFollows, AnnouncedIsCommitted, session
<1>11. QED
  BY <1>4, <1>7, <1>8, <1>9, <1>10

\* The file of a side is replaced: what its metadata says does not change.
LEMMA ReplaceFileInv ==
    ASSUME SingleFinish, Inv, NEW t \in Threads, ReplaceFile(t)
    PROVE  Inv'
<1> USE DEF Inv
<1> DEFINE p == worker[t].side
<1>1. worker[t].pc = "replace" /\ UNCHANGED <<session, control, temp, journal, uploads, traded, faults>>
  BY DEF ReplaceFile
<1>2. UploadKey(t) \in TradeKeys /\ p \in TradeChanged /\ p \in Players
  BY <1>1, UploadsTrade
<1>3. /\ worker' \in [Threads -> Work]
      /\ \A u \in Threads : Handler(worker'[u], journal', traded')
  <2>1. CASE Stop(t)
    BY <1>1, <2>1, HandlerStops
  <2>2. CASE Goto(t, "record")
    BY <1>1, <1>2, <2>2, SideGoes
  <2>3. QED
    BY <2>1, <2>2 DEF ReplaceFile
<1>4. save' = save \/ save' = [save EXCEPT ![p].file = UploadKey(t).body]
  BY DEF ReplaceFile
<1>5. /\ save' \in [Players -> [rev : Revisions, sha : Bytes, file : Bytes]]
      /\ \A q \in Players : save'[q].rev = save[q].rev /\ save'[q].sha = save[q].sha
  <2>1. UploadKey(t).body \in Bytes
    BY <1>2, TradeTypes DEF Keys
  <2>2. save \in [Players -> [rev : Revisions, sha : Bytes, file : Bytes]]
    BY DEF TypeOK
  <2> HIDE DEF p
  <2>3. QED
    BY <1>2, <1>4, <2>1, <2>2
<1>6. TypeOK'
  BY <1>1, <1>3, <1>5 DEF TypeOK, session
<1>7. (NoSettler /\ OnlyTheTrade)'
  BY <1>1 DEF NoSettler, OnlyTheTrade, session
<1>8. SavesFollow'
  BY <1>1, <1>5 DEF SavesFollow, HeldBy, session
<1>9. (RowFollows(journal, traded) /\ AnnouncedIsCommitted)'
  BY <1>1 DEF RowFollows, AnnouncedIsCommitted, session
<1>10. QED
  BY <1>3, <1>6, <1>7, <1>8, <1>9

\* The metadata advances, and the request is COMMITTED with it.
LEMMA RecordUploadInv ==
    ASSUME SingleFinish, Inv, NEW t \in Threads, RecordUpload(t)
    PROVE  Inv'
<1> USE DEF Inv
<1> DEFINE p == worker[t].side
           key == UploadKey(t)
<1>1. worker[t].pc = "record" /\ UNCHANGED <<session, control, temp, journal, faults>>
  BY DEF RecordUpload
<1>2. /\ key = TradeKey(p) /\ key \in TradeKeys /\ p \in TradeChanged /\ p \in Players
      /\ journal.state \in {"COMMITTING", "COMMITTED"}
  BY <1>1, UploadsTrade
<1>3. CASE UNCHANGED saves /\ (Stop(t) \/ (NextSide(t) /\ key \in traded))
  <2>1. /\ worker' \in [Threads -> Work]
        /\ \A u \in Threads : Handler(worker'[u], journal', traded')
    <3>1. CASE Stop(t)
      BY <1>1, <1>3, <3>1, HandlerStops DEF saves
    <3>2. CASE NextSide(t) /\ key \in traded
      BY <1>1, <1>2, <1>3, <3>2, SideDone DEF saves, SideSteps
    <3>3. QED
      BY <1>3, <3>1, <3>2
  <2>2. QED
    BY <1>1, <1>3, <2>1, HandlerQuiet
<1>4. CASE /\ key \notin traded
           /\ save' = [save EXCEPT ![p] = Recorded(p, key)]
           /\ uploads' = uploads \ {key}
           /\ traded' = traded \cup {key}
           /\ NextSide(t)
  <2>1. key.exp = 1 /\ key.body = Trade[p] /\ Trade[p] \in Bytes
    BY <1>2, TradeFact DEF TradeKey, Bytes
  <2>2. Recorded(p, key) = [save[p] EXCEPT !.rev = 2, !.sha = Trade[p]]
    BY <2>1 DEF Recorded
  <2>3. 2 \in Revisions
    BY LinkPairAssumption DEF Revisions
  <2>4. /\ Recorded(p, key) \in [rev : Revisions, sha : Bytes, file : Bytes]
        /\ Recorded(p, key).rev = 2 /\ Recorded(p, key).sha = Trade[p]
    <3>1. save[p] \in [rev : Revisions, sha : Bytes, file : Bytes]
      BY <1>2 DEF TypeOK
    <3> HIDE DEF p
    <3>2. QED
      BY <2>1, <2>2, <2>3, <3>1
  <2>5. /\ save' \in [Players -> [rev : Revisions, sha : Bytes, file : Bytes]]
        /\ save'[p] = Recorded(p, key) /\ \A q \in Players : q # p => save'[q] = save[q]
    BY <1>2, <1>4, <2>4 DEF TypeOK
  <2>6. /\ worker' \in [Threads -> Work]
        /\ \A u \in Threads : Handler(worker'[u], journal', traded')
    BY <1>1, <1>2, <1>4, SideDone DEF SideSteps
  <2>7. ~journal.pair.done
    BY <1>2, <1>4 DEF RowFollows
  <2>8. uploads' \subseteq TradeKeys /\ traded' \subseteq TradeKeys
    BY <1>2, <1>4 DEF OnlyTheTrade
  <2>9. TypeOK'
    BY <1>1, <2>5, <2>6, <2>8, TradeTypes DEF TypeOK, session
  <2>10. (NoSettler /\ OnlyTheTrade)'
    BY <1>1, <2>8 DEF NoSettler, OnlyTheTrade, session
  <2>11. SavesFollow'
    <3>1. ASSUME NEW q \in Players
          PROVE  /\ (HeldBy("LINK", q) /\ TradeKey(q) \notin traded => save[q].rev = 1 /\ save[q].sha = "old")'
                 /\ (HeldBy("LINK", q) /\ TradeKey(q) \in traded => save[q].sha = Trade[q])'
                 /\ (save[q].sha \in Payloads => TradeKey(q) \in traded)'
                 /\ (TradeKey(q) \in traded => save[q].rev > 1)'
      <4>1. HeldBy("LINK", q)' <=> HeldBy("LINK", q)
        BY <1>1 DEF HeldBy, session
      <4>2. CASE q = p
        BY <1>2, <1>4, <2>4, <2>5, <4>2
      <4>3. CASE q # p
        <5>1. TradeKey(q) # key
          BY <1>2, <4>3 DEF TradeKey
        <5>2. save'[q] = save[q] /\ (TradeKey(q) \in traded' <=> TradeKey(q) \in traded)
          BY <1>4, <2>5, <4>3, <5>1
        <5>3. QED
          BY <4>1, <5>2 DEF SavesFollow
      <4>4. QED
        BY <4>2, <4>3
    <3>2. QED
      BY <3>1 DEF SavesFollow
  <2>12. RowFollows(journal, traded)'
    BY <1>1, <1>2, <2>7 DEF RowFollows
  <2>13. AnnouncedIsCommitted'
    BY <1>1 DEF AnnouncedIsCommitted, session
  <2>14. QED
    BY <2>6, <2>9, <2>10, <2>11, <2>12, <2>13
<1>5. \/ UNCHANGED saves /\ (Stop(t) \/ (NextSide(t) /\ key \in traded))
      \/ /\ key \notin traded
         /\ save' = [save EXCEPT ![p] = Recorded(p, key)]
         /\ uploads' = uploads \ {key}
         /\ traded' = traded \cup {key}
         /\ NextSide(t)
  <2>1. CASE key \in traded
    BY <2>1 DEF RecordUpload
  <2>2. CASE key \notin traded /\ ~(key \in uploads /\ (save[p].rev = key.exp
                                    \/ (save[p].rev = key.exp + 1 /\ save[p].sha = key.body)))
    BY <2>2 DEF RecordUpload, saves
  <2>3. CASE key \notin traded /\ key \in uploads /\ (save[p].rev = key.exp
                                    \/ (save[p].rev = key.exp + 1 /\ save[p].sha = key.body))
    BY <2>3 DEF RecordUpload
  <2>4. QED
    BY <2>1, <2>2, <2>3
<1>6. QED
  BY <1>3, <1>4, <1>5

\* A fault ends one handler, a restart all of them; startup recovery closes the session.
LEMMA FaultInv ==
    ASSUME Inv, \/ \E t \in Threads : Fault(t)
                \/ Restart
    PROVE  Inv'
<1> USE DEF Inv
<1>1. ASSUME NEW t \in Threads, Fault(t)
      PROVE  Inv'
  <2>1. /\ worker' \in [Threads -> Work]
        /\ \A u \in Threads : Handler(worker'[u], journal', traded')
    BY <1>1, HandlerStops DEF Fault, saves
  <2>2. faults' \in 0..MaxFaults
    BY <1>1, LinkPairAssumption DEF Fault, TypeOK
  <2>3. QED
    BY <1>1, <2>1, <2>2, QuietStep DEF Fault, TypeOK, NoSettler, HeldBy, session
<1>2. CASE Restart
  <2>1. /\ worker' \in [Threads -> Work]
        /\ \A u \in Threads : Handler(worker'[u], journal', traded')
    BY <1>2, IdleHandler DEF Restart
  <2>2. faults' \in 0..MaxFaults
    BY <1>2, LinkPairAssumption DEF Restart, TypeOK
  <2>3. /\ status' \in Statuses
        /\ status' = "COMPLETED" => status = "COMPLETED"
    BY <1>2 DEF Restart, Recovered, TypeOK, Statuses, Running, LeaveStatuses, Terminal
  <2>4. /\ lock' \in [Players -> [owner : {"LINK", "SETTLE", "NONE"}, live : BOOLEAN]]
        /\ \A p \in Players : lock'[p].owner # "SETTLE"
        /\ \A p \in Players : HeldBy("LINK", p)' => HeldBy("LINK", p)
    <3>1. CASE status \in Running
      BY <1>2, <3>1, LocksDropped DEF Restart
    <3>2. CASE status \notin Running
      BY <1>2, <3>2 DEF Restart, TypeOK, NoSettler, HeldBy
    <3>3. QED
      BY <3>1, <3>2
  <2>5. /\ game' \in [Players -> {"LIVE", "LAPSED", "HELD", "NONE", "SETTLE"}]
        /\ \A p \in Players : game'[p] # "SETTLE"
    BY <1>2 DEF Restart, LinkGamesDropped, TypeOK, NoSettler
  <2>6. NoSettler'
    BY <2>4, <2>5 DEF NoSettler
  <2>7. temp' \in {temp, NoFiles} /\ temp' \in Candidates \cup {NoFiles}
    BY <1>2 DEF Restart, TypeOK
  <2>8. /\ control' \in [state : {"OPEN", "RUNNING", "FINALIZING", "FINISHED", "ABORTED"},
                         finish : Candidates \cup {NoFiles},
                         receipt : {"NONE", "MATCH", "OTHER"}, result : Results]
        /\ control'.state = "FINISHED" => control.state = "FINISHED"
    BY <1>2 DEF Restart, TypeOK
  <2>9. UNCHANGED <<due, run, journal, saves>>
    BY <1>2 DEF Restart
  <2>10. due' \in BOOLEAN /\ run' \in {"SAME", "OLD", "PASSED"}
    BY <2>9 DEF TypeOK
  <2>11. QED
    BY <2>1, <2>2, <2>3, <2>4, <2>5, <2>6, <2>7, <2>8, <2>9, <2>10, QuietStep
<1>3. QED
  BY <1>1, <1>2

\* Every step.
LEMMA NextInv ==
    ASSUME SingleFinish, NoSettlement, Inv, [Next]_vars
    PROVE  Inv'
<1>1. CASE UNCHANGED vars
  BY <1>1 DEF vars, session, saves, Inv, TypeOK, NoSettler, OnlyTheTrade, SavesFollow, HeldBy,
              RowFollows, AnnouncedIsCommitted
<1>2. CASE Environment
  <2>1. ASSUME NEW p \in Players, Upload(p)
        PROVE  Inv'
    BY <2>1, UploadInv
  <2>2. QED
    BY <1>2, <2>1, TimeInv DEF Environment
<1>3. CASE \E t \in Handlers : Arrive(t)
  BY <1>3, ArriveInv
<1>4. CASE Sweep
  BY <1>4, SweepInv
<1>5. ASSUME NEW t \in Threads, Serve(t)
      PROVE  Inv'
  <2>1. worker[t].pc \notin SettleSteps
    BY Serving
  <2>2. ~(Judge(t) \/ DropPair(t) \/ RetireSettled(t) \/ Unlock(t))
    BY <2>1 DEF SettleSteps, Judge, DropPair, RetireSettled, Unlock
  <2>3. CASE Stage(t) \/ SubmitFinish(t)
    BY <2>3, FinishInv
  <2>4. CASE Reconcile(t) \/ ReadStaged(t) \/ Reread(t)
    BY <2>4, ReconcileInv, ReadStagedInv, RereadInv
  <2>5. CASE RewriteResult(t) \/ PreparePair(t) \/ StartCommitting(t) \/ CommitPair(t)
    BY <2>5, JournalInv
  <2>6. CASE CommitSide(t) \/ PrepareUpload(t) \/ ReplaceFile(t) \/ RecordUpload(t)
    BY <2>6, CommitSideInv, PrepareUploadInv, ReplaceFileInv, RecordUploadInv
  <2>7. CASE Complete(t)
    BY <2>7, CompleteInv
  <2>8. CASE Transition(t) \/ SetRunDeadline(t) \/ ExtendLeases(t) \/ Release(t) \/ Clean(t)
             \/ AbortControl(t) \/ LeaveSession(t)
    BY <2>8, TransitionInv, ReleaseInv
  <2>9. QED
    BY <1>5, <2>2, <2>3, <2>4, <2>5, <2>6, <2>7, <2>8 DEF Serve
<1>6. CASE (\E t \in Threads : Fault(t)) \/ Restart
  BY <1>6, FaultInv
<1>7. QED
  BY <1>1, <1>2, <1>3, <1>4, <1>5, <1>6 DEF Next

\* A write of the journal never takes the Trade's commit back.
LEMMA DoneStays ==
    ASSUME SingleFinish, Inv, journal.pair.done, NEW t \in Threads,
           RewriteResult(t) \/ PreparePair(t) \/ StartCommitting(t) \/ CommitPair(t)
    PROVE  journal'.pair.done
<1> USE DEF Inv
<1>1. Handler(worker[t], journal, traded)
  BY Serving
<1>2. CASE ~worker[t].fresh
  BY <1>2 DEF RewriteResult, PreparePair, StartCommitting, CommitPair, WriteJournal
<1>3. CASE worker[t].fresh
  <2>1. worker[t].pc # "prepare"
    BY <1>1, <1>3 DEF Handler, KnowsPair, RowFollows
  <2>2. worker[t].pair = journal.pair /\ journal.pair \in {TradePair, DonePair}
    BY <1>1, <1>3, <2>1
       DEF Handler, KnowsPair, RowFollows, PairSteps, RewriteResult, PreparePair, StartCommitting, CommitPair
  <2>3. worker[t].pair = DonePair
    BY <2>2, TradeTypes
  <2>4. PICK state \in {"COMMITTING", "COMMITTED"} :
            journal'.pair = [worker[t].pair EXCEPT !.done = worker[t].pair.done \/ state = "COMMITTED"]
    BY <1>3, <2>1 DEF RewriteResult, PreparePair, StartCommitting, CommitPair, WriteJournal
  <2>5. journal'.pair.done = (worker[t].pair.done \/ state = "COMMITTED")
    BY <2>3, <2>4 DEF TradePair, DonePair
  <2>6. QED
    BY <2>3, <2>5, TradeTypes
<1>4. QED
  BY <1>2, <1>3

\* No other step writes the journal.
LEMMA JournalWriters ==
    ASSUME NoSettlement, Inv, [Next]_vars
    PROVE  \/ UNCHANGED journal
           \/ \E t \in Threads :
                  RewriteResult(t) \/ PreparePair(t) \/ StartCommitting(t) \/ CommitPair(t)
<1>1. ASSUME NEW t \in Threads, Serve(t)
      PROVE  \/ UNCHANGED journal
             \/ RewriteResult(t) \/ PreparePair(t) \/ StartCommitting(t) \/ CommitPair(t)
  <2>1. ~DropPair(t)
    BY Serving DEF SettleSteps, DropPair
  <2>2. CASE \/ Stage(t) \/ SubmitFinish(t) \/ Reconcile(t) \/ ReadStaged(t) \/ Reread(t)
             \/ CommitSide(t) \/ PrepareUpload(t) \/ ReplaceFile(t) \/ RecordUpload(t) \/ Complete(t)
    BY <2>2 DEF Stage, SubmitFinish, Reconcile, ReadStaged, Reread, CommitSide, PrepareUpload,
                ReplaceFile, RecordUpload, Complete
  <2>3. CASE \/ Transition(t) \/ SetRunDeadline(t) \/ ExtendLeases(t) \/ Release(t) \/ Clean(t)
             \/ AbortControl(t) \/ LeaveSession(t) \/ Judge(t) \/ RetireSettled(t) \/ Unlock(t)
    BY <2>3 DEF Transition, SetRunDeadline, ExtendLeases, Release, Clean, AbortControl, LeaveSession,
                Judge, RetireSettled, Unlock
  <2>4. QED
    BY <1>1, <2>1, <2>2, <2>3 DEF Serve
<1>2. ASSUME NEW t \in Handlers, Arrive(t)
      PROVE  UNCHANGED journal
  BY <1>2 DEF Arrive, NoSettlement, IssueTicket, HostFinish, Receipt, Poll, Cancel, Leave, ReadSession
<1>3. CASE Environment
  BY <1>3 DEF Environment, GameLeaseLapses, SaveLeaseLapses, Upload, SettleLeaseLapses,
              DeadlinePasses, OldDeadlinePasses, Connect, Disconnect, PauseExpires
<1>4. CASE Sweep \/ Restart \/ \E t \in Threads : Fault(t)
  BY <1>4 DEF Sweep, Restart, Fault
<1>5. CASE UNCHANGED vars
  BY <1>5 DEF vars
<1>6. QED
  BY <1>1, <1>2, <1>3, <1>4, <1>5 DEF Next

\* Together.
LEMMA Invariance ==
    ASSUME SingleFinish, NoSettlement
    PROVE  Spec => []Inv
<1>1. Init => Inv
  BY InitInv
<1>2. Inv /\ [Next]_vars => Inv'
  BY NextInv
<1>3. QED
  BY <1>1, <1>2, PTL DEF Spec

-----------------------------------------------------------------------------
(* The theorems. *)

\* Half a Trade is never served and a committed pair is whole: GET /saves never finds one
\* side of the Trade outside COMMITTING, and COMMITTED means that every changed SAV has
\* advanced beyond the revision the Trade was played from (sessions.py,
\* commit_changed_staged_saves).
THEOREM TradeIsWhole ==
    ASSUME SingleFinish, NoSettlement
    PROVE  Spec => []PairIsWhole
<1>1. Inv => PairIsWhole
  <2> SUFFICES ASSUME Inv PROVE PairIsWhole
    OBVIOUS
  <2> USE DEF Inv
  <2>1. NoHalfPairIsServed
    <3>1. CASE traded = {}
      BY <3>1 DEF NoHalfPairIsServed, TradedPlayers
    <3>2. CASE traded = TradeKeys /\ journal.state = "COMMITTED"
      <4>1. journal.pair.changed = TradeChanged
        BY <3>2, TradeTypes DEF RowFollows
      <4>2. \A p \in TradeChanged : TradeKey(p).player = p
        BY DEF TradeKey
      <4>3. TradedPlayers = TradeChanged
        BY <3>2, <4>2 DEF TradedPlayers, TradeKeys
      <4>4. QED
        BY <4>1, <4>3 DEF NoHalfPairIsServed
    <3>3. QED
      BY <3>1, <3>2 DEF NoHalfPairIsServed, RowFollows, TypeOK
  <2>2. CommittedPairIsWhole
    <3>1. SUFFICES ASSUME journal.pair.done, NEW p \in journal.pair.changed
                   PROVE  save[p].rev > journal.pair.base[p]
      BY DEF CommittedPairIsWhole
    <3>2. journal.pair \in {TradePair, DonePair} /\ traded = TradeKeys
      BY <3>1 DEF RowFollows
    <3>3. p \in TradeChanged /\ p \in Players /\ journal.pair.base[p] = 1
      BY <3>1, <3>2, TradeTypes, TradeFact
    <3>4. TradeKey(p) \in traded
      BY <3>2, <3>3 DEF TradeKeys
    <3>5. QED
      BY <3>3, <3>4 DEF SavesFollow
  <2>3. QED
    BY <2>1, <2>2 DEF PairIsWhole
<1>2. QED
  BY <1>1, Invariance, PTL

\* Whoever commits a side applies it to the revision the Trade was played from, so that
\* nothing a player did with the SAV in the meantime is overwritten.
THEOREM TradeOverwritesNothing ==
    ASSUME SingleFinish, NoSettlement
    PROVE  Spec => []TradeAppliesToItsBase
<1>1. Inv => TradeAppliesToItsBase
  BY DEF Inv, OnlyTheTrade, TradeKeys, TradeKey, TradeAppliesToItsBase
<1>2. QED
  BY <1>1, Invariance, PTL

\* The control plane says FINISHED and the session COMPLETED only once the journal has
\* both sides as committed.
THEOREM NothingIsAnnouncedBefore ==
    ASSUME SingleFinish, NoSettlement
    PROVE  Spec => []AnnouncedIsCommitted
<1>1. Inv => AnnouncedIsCommitted
  BY DEF Inv
<1>2. QED
  BY <1>1, Invariance, PTL

\* No handler that read the journal before its commit puts another pair in the place of a
\* committed one or gives it up: the row version refuses all that is stale.
THEOREM CommitIsFinal ==
    ASSUME SingleFinish, NoSettlement
    PROVE  Spec => CommittedPairIsFinal
<1>1. ASSUME Inv, [Next]_vars
      PROVE  journal.pair.done => journal'.pair = journal.pair /\ journal'.state # "ABORTED"
  <2> SUFFICES ASSUME journal.pair.done
               PROVE  journal'.pair = journal.pair /\ journal'.state # "ABORTED"
    OBVIOUS
  <2>1. Inv'
    BY <1>1, NextInv
  <2>2. journal'.pair.done
    BY <1>1, JournalWriters, DoneStays
  <2>3. journal.pair = DonePair
    BY <1>1, TradeTypes DEF Inv, RowFollows
  <2>4. journal'.pair = DonePair /\ journal'.state # "ABORTED"
    BY <2>1, <2>2, TradeTypes DEF Inv, RowFollows
  <2>5. QED
    BY <2>3, <2>4
<1>2. QED
  BY <1>1, Invariance, PTL DEF Spec, CommittedPairIsFinal
=============================================================================
