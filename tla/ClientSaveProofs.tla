-------------------------- MODULE ClientSaveProofs --------------------------
(***************************************************************************)
(* What is proved about ClientSave for every number of games, contents and *)
(* faults: that nothing a game has written is lost by the monitor, the     *)
(* outbox and the recovery together, and that a game starts from what was  *)
(* played before.  START is pressed when the earlier game is over and its  *)
(* monitor is done; with a launch that overlaps, the reader of an envelope *)
(* may put an older one in its place (client_save_outbox.c:175).           *)
(***************************************************************************)
EXTENDS ClientSave, FiniteSetTheorems, TLAPS

OneGameAtATime == Overlaps = FALSE

Kept == [rev : Nat, committed : Nat, body : 0..MaxSnapshot, src : Procs]
Logged == [id : Procs, rev : Nat, body : 0..MaxSnapshot]
Pointers == [src : Sessions, rev : Nat]
Launches == {"gb", "n64", "mobile"}

Servers == [rev : Nat, body : 1..MaxSnapshot, lock : Procs, log : SUBSET Logged]
Disks == [work : [Sessions -> 0..MaxSnapshot], env : Kept, ptr : SUBSET Pointers,
          mark : SUBSET Sessions, create : Procs]
Games == [kind : Launches \cup {"none"}, run : {"off", "on", "told"}, clean : BOOLEAN]
Slots == [pc : Steps, rev : Nat, last : 0..MaxSnapshot, src : Procs, keep : BOOLEAN,
          exists : BOOLEAN, entry : Kept, tries : Nat, answer : Nat, alive : BOOLEAN,
          fails : Nat, lost : BOOLEAN, final : BOOLEAN, todo : SUBSET Pointers,
          pending : BOOLEAN, kind : Launches, own : BOOLEAN]
Histories(c) ==
    [newest : [Sessions -> 0..c], base : [Sessions -> 0..MaxSnapshot], had : SUBSET (1..c),
     cut : SUBSET Sessions, foreign : BOOLEAN]

Typed ==
    /\ server \in Servers /\ disk \in Disks
    /\ game \in [Sessions -> Games] /\ proc \in [Procs -> Slots]
    /\ clock \in 1..MaxSnapshot /\ hist \in Histories(clock)

\* Every revision after the first is a content the server had not had, or a recovery record's.
Recorded(log) == {s \in Sessions : \E e \in log : e.id = s}
Counted(v, h) == v.rev <= Cardinality(h.had) + Cardinality(Recorded(v.log))

\* The server has had what it has, and what it logged was about an earlier revision.
Stored(v, h) ==
    /\ v.rev # 0 /\ v.body \in h.had
    /\ Counted(v, h)
    /\ \A e \in v.log : e.rev < v.rev /\ e.body \in h.had

\* The working file of a game is what it wrote last, or was removed, and a game that was not
\* downloaded has left nothing.
Files(d, h) ==
    /\ \A s \in Sessions :
          IF h.base[s] # 0 THEN h.newest[s] # 0 /\ d.work[s] \in {NoFile, h.newest[s]}
          ELSE /\ h.newest[s] = 0 /\ d.work[s] = NoFile /\ s \notin d.mark
               /\ \A e \in d.ptr : e.src # s
    /\ \A s \in d.mark : h.newest[s] \in h.had
    /\ d.create # 0 => h.base[d.create] = 0

\* The envelope: an open request that the server will take or has taken, or one it answered.
InLog(e, log) == [id |-> 0, rev |-> e.rev, body |-> e.body] \in log
Envelope(v, d, h) ==
    d.env # NoEntry =>
        LET e == d.env IN
        /\ d.ptr = {}
        /\ e.src \in Sessions /\ h.base[e.src] # 0 /\ e.src \notin d.mark
        /\ e.rev # 0 /\ e.rev <= v.rev /\ e.committed <= v.rev
        /\ e.body # 0 /\ e.body <= h.newest[e.src]
        /\ d.work[e.src] = h.newest[e.src]
        /\ h.newest[e.src] \in h.had => h.newest[e.src] = e.body
        /\ IF e.committed = 0
           THEN /\ InLog(e, v.log) \/ e.body \notin h.had
                /\ h.foreign \/ v.rev = (IF InLog(e, v.log) THEN e.rev + 1 ELSE e.rev)
           ELSE /\ e.body \in h.had
                /\ h.foreign \/ e.committed = v.rev

\* A recovery record is the only one, and done or still to be sent.
Pointer(v, d, h) ==
    \A e \in d.ptr :
        /\ d.ptr = {e} /\ d.env = NoEntry
        /\ e.rev <= v.rev
        /\ e.src \notin d.mark =>
              /\ d.work[e.src] = h.newest[e.src]
              /\ \/ h.foreign \/ e.rev = v.rev
                 \/ [id |-> e.src, rev |-> e.rev, body |-> h.newest[e.src]] \in v.log

World ==
    /\ Stored(server, hist) /\ Files(disk, hist)
    /\ Envelope(server, disk, hist) /\ Pointer(server, disk, hist)

\* Games are numbered as they are started.
Numbered ==
    /\ \E n \in 0..MaxSession : Started = 1..n
    /\ \A s \in Sessions : hist.base[s] # 0 => s \in Started
    /\ disk.create # 0 => disk.create \in Started
    /\ proc[Client].pc = "fetch" => proc[Client].src \in Started

\* One game at a time: its monitor, or the client, is the one process at work.
Off(s) == proc[s].pc = "off" /\ game[s].run = "off"
Alone ==
    /\ proc[Client].pc # "idle" => \A s \in Sessions : Off(s)
    /\ \A s, t \in Sessions : ~Off(s) /\ ~Off(t) => s = t
    /\ \A s \in Sessions : proc[s].pc = "off" /\ game[s].run # "off" => s \in hist.cut
    /\ \A s \in Sessions :
          hist.base[s] = 0 \/ s \in disk.mark \/ (\E e \in disk.ptr : e.src = s) =>
              game[s].run = "off"

\* process_save_inflight: the caller's entry is the envelope on the disk.
Working == {"snap", "put", "answer", "compare"}
Entry(p, r, v, d) ==
    /\ r.pc \in Working =>
        /\ r.exists = (d.env # NoEntry)
        /\ IF r.exists THEN r.entry = d.env
           ELSE /\ r.pc = "snap" /\ p # Client
                /\ r.entry = [rev |-> 0, committed |-> r.rev, body |-> r.last, src |-> 0]
        /\ r.pc \in {"put", "answer"} => r.entry.committed = 0
        /\ r.pc \in {"snap", "compare"} => r.entry.committed # 0
        /\ r.pc = "answer" /\ r.answer # 0 =>
              r.answer = r.entry.rev + 1 /\ InLog(r.entry, v.log)
        /\ r.pc = "compare" => r.rev = r.entry.committed /\ r.last = r.entry.body
    /\ r.pc \notin Working \cup {"record", "mark"} => r.entry = NoEntry

Ends == {"ended", "unstaged", "stop"}
IsRecorded(s, d) == d.env.src = s \/ \E e \in d.ptr : e.src = s

\* What the monitor of game s knows, and what it leaves when it stops.
Monitors(s, r, v, d, h, run) ==
    /\ r.pc \in {"begin", "poll", "beat"} \cup Working \cup Ends
    /\ h.base[s] # 0 /\ r.src = s /\ s \notin d.mark
    /\ d.work[s] = h.newest[s]
    /\ d.env # NoEntry => d.env.src = s
    /\ r.rev # 0 /\ r.rev <= v.rev /\ (d.env = NoEntry => h.foreign \/ r.rev = v.rev)
    /\ r.last \in h.had
    /\ d.env = NoEntry /\ h.newest[s] \in h.had => h.newest[s] = r.last
    /\ r.pc \in Ends \/ r.final \/ ~r.alive => run = "off"
    /\ r.pc \in {"unstaged", "stop"} => r.final
    /\ r.final => r.pc \notin {"poll", "beat"}
    /\ IF r.pc = "stop" THEN \A e \in d.ptr : e.src = s ELSE d.ptr = {}
    /\ r.pc = "stop" => IF r.keep THEN h.newest[s] \in h.had \/ IsRecorded(s, d)
                        ELSE h.newest[s] \in h.had /\ d.env = NoEntry /\ d.ptr = {}

\* What the client knows, from its recovery to the start of a game.
Recovering == {"begin", "replayed"} \cup Working
Knows(r, v, d, h) ==
    /\ r.pc \in {"idle", "records", "record", "mark", "lock", "fetch", "spawn"} \cup Recovering
    /\ r.pc \notin {"idle", "records", "record", "mark", "fetch"} => d.ptr = {}
    /\ r.pc \in {"records", "record", "mark", "lock", "spawn"} => d.env = NoEntry
    /\ r.pc \in Recovering =>
        /\ r.src \in Sessions /\ h.base[r.src] # 0
        /\ IF d.env # NoEntry THEN d.env.src = r.src
           ELSE r.pc = "replayed" /\ h.newest[r.src] \in h.had
    /\ r.pc = "records" => r.todo \subseteq d.ptr /\ (r.pending \/ r.todo = d.ptr)
    /\ r.pc \in {"record", "mark"} =>
        /\ r.todo = {} /\ r.src \in Sessions
        /\ d.ptr = {[src |-> r.src, rev |-> r.entry.rev]} /\ r.entry.committed = 0
    /\ r.pc = "record" => r.src \notin d.mark /\ r.entry.body = h.newest[r.src]
    /\ r.pc = "mark" => IF r.answer = 0 THEN r.src \notin d.mark
                        ELSE h.newest[r.src] \in h.had
    /\ r.pc = "fetch" => r.src \in Sessions /\ h.base[r.src] = 0 /\ r.src # d.create
    /\ r.pc = "spawn" =>
        /\ r.src \in Sessions /\ h.base[r.src] # 0 /\ r.src \notin d.mark
        /\ r.rev # 0 /\ r.rev <= v.rev /\ (h.foreign \/ r.rev = v.rev)
        /\ r.last \in h.had /\ r.last = h.newest[r.src] /\ d.work[r.src] = r.last

\* The inductive invariant.
Inv ==
    /\ Typed
    /\ World
    /\ Numbered
    /\ Alone
    /\ \A p \in Procs : Entry(p, proc[p], server, disk)
    /\ \A s \in Sessions : proc[s].pc # "off" =>
          Monitors(s, proc[s], server, disk, hist, game[s].run)
    /\ Knows(proc[Client], server, disk, hist)
    /\ NewestIsKept
-----------------------------------------------------------------------------
(* Facts about the kinds of things, and what a step of one process keeps.   *)

\* Processes are numbers, and 0 is the client.
LEMMA ProcsAreNumbers ==
    /\ Sessions \subseteq Procs /\ Procs \subseteq Nat /\ Client \in Procs /\ Client \notin Sessions
    /\ \A p \in Procs : p = Client \/ p \in Sessions
    /\ 0 \in Procs /\ 0 \notin Sessions
BY ClientSaveAssumption DEF Procs, Sessions, Client

\* A fresh slot, and the empty entry.
LEMMA FreshIsSlot ==
    /\ NoEntry \in Kept
    /\ Slot \in Slots
    /\ Slot.pc = "off" /\ Slot.entry = NoEntry /\ Slot.todo = {}
<1>1. NoEntry \in Kept
  BY ProcsAreNumbers, ClientSaveAssumption DEF NoEntry, Kept, NoFile
<1>2. Slot \in Slots
  BY <1>1, ProcsAreNumbers, ClientSaveAssumption DEF Slot, Slots, Steps, Launches, NoFile
<1> QED BY <1>1, <1>2 DEF Slot

\* A process takes a new slot, the others keep theirs.
LEMMA Moves ==
    ASSUME Typed, NEW p \in Procs, NEW r \in Slots, proc' = [proc EXCEPT ![p] = r]
    PROVE  /\ proc' \in [Procs -> Slots] /\ proc'[p] = r
           /\ \A q \in Procs : q # p => proc'[q] = proc[q]
BY DEF Typed

\* A slot that differs in its pc.
LEMMA SlotGoes ==
    ASSUME NEW r \in Slots, NEW step \in Steps
    PROVE  LET x == [r EXCEPT !.pc = step] IN
           /\ x \in Slots /\ x.pc = step
           /\ x.rev = r.rev /\ x.last = r.last /\ x.src = r.src /\ x.keep = r.keep
           /\ x.exists = r.exists /\ x.entry = r.entry /\ x.tries = r.tries
           /\ x.answer = r.answer /\ x.alive = r.alive /\ x.fails = r.fails /\ x.lost = r.lost
           /\ x.final = r.final /\ x.todo = r.todo /\ x.pending = r.pending /\ x.kind = r.kind
BY DEF Slots

\* The slot of a process that quits.
LEMMA Quits ==
    ASSUME Typed, NEW p \in Procs, Quit(p)
    PROVE  /\ proc' \in [Procs -> Slots]
           /\ \A q \in Procs : q # p => proc'[q] = proc[q]
           /\ proc'[p].pc = (IF p = Client THEN "idle" ELSE "off")
           /\ proc'[p].entry = NoEntry
<1> DEFINE step == IF p = Client THEN "idle" ELSE "off"
<1>1. step \in Steps
  BY DEF Steps
<1> DEFINE x == [Slot EXCEPT !.pc = step]
<1>2. x \in Slots /\ x.pc = step /\ x.entry = NoEntry
  BY <1>1, FreshIsSlot, SlotGoes
<1>3. proc' = [proc EXCEPT ![p] = x]
  BY DEF Quit, Set
<1> HIDE DEF x
<1> QED BY <1>2, <1>3, Moves

\* While a monitor runs the client is idle, and what other games wrote is with the server.
LEMMA UnderWay ==
    ASSUME Inv, NEW s \in Sessions, proc[s].pc # "off"
    PROVE  /\ proc[Client].pc = "idle"
           /\ Monitors(s, proc[s], server, disk, hist, game[s].run)
           /\ \A t \in Sessions : t # s => Off(t)
           /\ \A t \in Sessions : t # s /\ t \notin hist.cut /\ hist.base[t] # 0 =>
                 hist.newest[t] \in hist.had
<1>1. proc[Client].pc = "idle"
  BY DEF Inv, Alone, Off
<1>2. Monitors(s, proc[s], server, disk, hist, game[s].run)
  BY DEF Inv
<1>3. \A t \in Sessions : t # s => Off(t)
  BY DEF Inv, Alone, Off
<1>4. ASSUME NEW t \in Sessions, t # s, t \notin hist.cut, hist.base[t] # 0
      PROVE  hist.newest[t] \in hist.had
  <2>1. Finished(t)
    BY <1>3, <1>4 DEF Off, Finished
  <2>2. disk.env.src # t
    <3>1. CASE disk.env = NoEntry
      BY <3>1, ProcsAreNumbers DEF NoEntry
    <3>2. CASE disk.env # NoEntry
      BY <1>2, <1>4, <3>2 DEF Monitors
    <3> QED BY <3>1, <3>2
  <2>3. \A e \in disk.ptr : e.src # t
    BY <1>2, <1>4 DEF Monitors
  <2> QED BY <1>4, <2>1, <2>2, <2>3 DEF Inv, NewestIsKept
<1> QED BY <1>1, <1>2, <1>3, <1>4

\* A monitor takes a step.
LEMMA MonitorStep ==
    ASSUME Inv, NEW s \in Sessions, proc[s].pc # "off",
           Typed', World',
           \A q \in Procs : q # s => proc'[q] = proc[q],
           \A t \in Sessions : /\ game'[t].kind = game[t].kind
                               /\ t # s => game'[t].run = game[t].run,
           hist'.base = hist.base, hist'.newest = hist.newest,
           hist.had \subseteq hist'.had, hist.cut \subseteq hist'.cut,
           disk'.mark = disk.mark, disk'.create = disk.create,
           Entry(s, proc'[s], server', disk'),
           proc'[s].pc # "off" => Monitors(s, proc'[s], server', disk', hist', game'[s].run),
           \A e \in disk'.ptr : e.src = s /\ game'[s].run = "off",
           proc'[s].pc = "off" =>
               /\ game'[s].run = "off" \/ s \in hist'.cut
               /\ \/ s \in hist'.cut \/ hist.newest[s] \in hist'.had
                  \/ disk'.work[s] = hist.newest[s] /\ IsRecorded(s, disk')
    PROVE  Inv'
<1>1. /\ proc[Client].pc = "idle"
      /\ Monitors(s, proc[s], server, disk, hist, game[s].run)
      /\ \A t \in Sessions : t # s => Off(t)
      /\ \A t \in Sessions : t # s /\ t \notin hist.cut /\ hist.base[t] # 0 =>
            hist.newest[t] \in hist.had
  BY UnderWay
<1>2. proc'[Client] = proc[Client]
  BY ProcsAreNumbers
<1>3. Started' = Started
  BY DEF Started
<1>4. Numbered'
  BY <1>1, <1>2, <1>3 DEF Inv, Numbered
<1>5. \A t \in Sessions : t # s => proc'[t] = proc[t] /\ Off(t)'
  BY <1>1, ProcsAreNumbers DEF Off
<1>6. Alone'
  <2>1. proc'[Client].pc = "idle"
    BY <1>1, <1>2
  <2>2. \A t, u \in Sessions : ~Off(t)' /\ ~Off(u)' => t = u
    BY <1>5
  <2>3. \A t \in Sessions : proc'[t].pc = "off" /\ game'[t].run # "off" => t \in hist'.cut
    BY <1>5 DEF Off
  <2>4. ASSUME NEW t \in Sessions,
               hist'.base[t] = 0 \/ t \in disk'.mark \/ \E e \in disk'.ptr : e.src = t
        PROVE  game'[t].run = "off"
    <3>1. CASE t = s
      BY <1>1, <2>4, <3>1 DEF Monitors
    <3>2. CASE t # s
      BY <1>5, <3>2 DEF Off
    <3> QED BY <3>1, <3>2
  <2> QED BY <2>1, <2>2, <2>3, <2>4 DEF Alone
<1>7. \A p \in Procs : Entry(p, proc'[p], server', disk')
  <2>1. SUFFICES ASSUME NEW p \in Procs, p # s
                 PROVE  Entry(p, proc'[p], server', disk')
    OBVIOUS
  <2>2. proc'[p] = proc[p] /\ proc[p].pc \in {"idle", "off"}
    BY <1>1, <2>1, ProcsAreNumbers DEF Off
  <2> QED BY <2>2 DEF Inv, Entry, Working
<1>8. ASSUME NEW t \in Sessions, proc'[t].pc # "off"
      PROVE  Monitors(t, proc'[t], server', disk', hist', game'[t].run)
  <2>1. t = s
    BY <1>5, <1>8 DEF Off
  <2> QED BY <1>8, <2>1
<1>9. Knows(proc'[Client], server', disk', hist')
  BY <1>1, <1>2 DEF Knows, Recovering, Working
<1>10. NewestIsKept'
  <2>1. SUFFICES ASSUME NEW t \in Sessions, Finished(t)', hist'.newest[t] \notin hist'.had,
                        hist'.base[t] # 0
                 PROVE  disk'.work[t] = hist'.newest[t] /\ IsRecorded(t, disk')
    BY DEF NewestIsKept, IsRecorded
  <2>2. t = s
    BY <1>1, <2>1 DEF Finished
  <2> QED BY <2>1, <2>2 DEF Finished
<1> QED BY <1>4, <1>6, <1>7, <1>8, <1>9, <1>10 DEF Inv

\* The client takes a step while no game runs.
LEMMA ClientStep ==
    ASSUME Inv, \A s \in Sessions : Off(s),
           Typed', World', Numbered',
           \A s \in Sessions : proc'[s] = proc[s] /\ game'[s].run = game[s].run,
           hist.cut \subseteq hist'.cut,
           Entry(Client, proc'[Client], server', disk'),
           Knows(proc'[Client], server', disk', hist'),
           \A s \in Sessions : s \notin hist'.cut /\ hist'.base[s] # 0 =>
               \/ hist'.newest[s] \in hist'.had
               \/ disk'.work[s] = hist'.newest[s] /\ IsRecorded(s, disk')
    PROVE  Inv'
<1>1. \A s \in Sessions : Off(s)'
  BY DEF Off
<1>2. Alone'
  BY <1>1 DEF Alone, Off
<1>3. \A p \in Procs : Entry(p, proc'[p], server', disk')
  <2>1. SUFFICES ASSUME NEW s \in Sessions PROVE Entry(s, proc'[s], server', disk')
    BY ProcsAreNumbers
  <2>2. s \in Procs /\ proc'[s] = proc[s] /\ proc[s].pc = "off"
    BY ProcsAreNumbers DEF Off
  <2> QED BY <2>2 DEF Inv, Entry, Working
<1>4. \A s \in Sessions : proc'[s].pc = "off"
  BY DEF Off
<1>5. NewestIsKept'
  BY DEF NewestIsKept, Finished, IsRecorded
<1> QED BY <1>2, <1>3, <1>4, <1>5 DEF Inv

\* What is written and not with the server is recorded, when no game runs.
LEMMA AtRest ==
    ASSUME Inv, \A s \in Sessions : Off(s), NEW s \in Sessions,
           s \notin hist.cut, hist.base[s] # 0, hist.newest[s] \notin hist.had
    PROVE  disk.work[s] = hist.newest[s] /\ IsRecorded(s, disk)
<1>1. Finished(s)
  BY DEF Off, Finished
<1> QED BY <1>1 DEF Inv, NewestIsKept, IsRecorded

\* Nothing but processes moves.
LEMMA WorldStays ==
    ASSUME Inv, UNCHANGED <<server, disk, hist>>
    PROVE  World'
BY DEF Inv, World, Stored, Counted, Files, Envelope, Pointer

\* Only the slot of a monitor changes.
LEMMA OnlyMonitor ==
    ASSUME Inv, NEW s \in Sessions, proc[s].pc # "off", NEW r \in Slots,
           proc' = [proc EXCEPT ![s] = r], r.pc # "off",
           UNCHANGED <<server, disk, game, clock, hist>>,
           Entry(s, r, server, disk),
           Monitors(s, r, server, disk, hist, game[s].run)
    PROVE  Inv'
<1>1. /\ proc' \in [Procs -> Slots] /\ proc'[s] = r
      /\ \A q \in Procs : q # s => proc'[q] = proc[q]
  BY Moves, ProcsAreNumbers DEF Inv
<1>2. Typed'
  BY <1>1 DEF Inv, Typed
<1>3. World'
  BY WorldStays
<1>4. \A e \in disk'.ptr : e.src = s /\ game'[s].run = "off"
  BY UnderWay DEF Monitors, Ends
<1> QED BY <1>1, <1>2, <1>3, <1>4, MonitorStep

\* Only the slot of the client changes.
LEMMA OnlyClient ==
    ASSUME Inv, \A s \in Sessions : Off(s), NEW r \in Slots,
           proc' = [proc EXCEPT ![Client] = r], r.pc # "fetch",
           UNCHANGED <<server, disk, game, clock, hist>>,
           Entry(Client, r, server, disk),
           Knows(r, server, disk, hist)
    PROVE  Inv'
<1>1. /\ proc' \in [Procs -> Slots] /\ proc'[Client] = r
      /\ \A q \in Procs : q # Client => proc'[q] = proc[q]
  BY Moves, ProcsAreNumbers DEF Inv
<1>2. Typed'
  BY <1>1 DEF Inv, Typed
<1>3. World'
  BY WorldStays
<1>4. Numbered'
  BY <1>1 DEF Inv, Numbered, Started
<1>5. \A s \in Sessions : s \notin hist.cut /\ hist.base[s] # 0 =>
          \/ hist.newest[s] \in hist.had
          \/ disk.work[s] = hist.newest[s] /\ IsRecorded(s, disk)
  BY AtRest
<1> QED BY <1>1, <1>2, <1>3, <1>4, <1>5, ClientStep, ProcsAreNumbers

\* The client gives up with nothing but its slot changed.
LEMMA ClientQuits ==
    ASSUME Inv, \A s \in Sessions : Off(s), Quit(Client),
           UNCHANGED <<server, disk, game, clock, hist>>
    PROVE  Inv'
<1> DEFINE x == [Slot EXCEPT !.pc = "idle"]
<1>1. x \in Slots /\ x.pc = "idle" /\ x.entry = NoEntry
  BY FreshIsSlot, SlotGoes DEF Steps
<1>2. proc' = [proc EXCEPT ![Client] = x]
  BY DEF Quit, Set
<1> HIDE DEF x
<1>3. Entry(Client, x, server, disk)
  BY <1>1 DEF Entry, Working
<1>4. Knows(x, server, disk, hist)
  BY <1>1 DEF Knows, Recovering, Working
<1> QED BY <1>1, <1>2, <1>3, <1>4, OnlyClient

\* A caller of process_save_inflight knows the game it works for.
LEMMA CallerKnows ==
    ASSUME Inv, NEW p \in Procs, proc[p].pc \in {"begin"} \cup Working
    PROVE  LET s == proc[p].src IN
           /\ s \in Sessions /\ hist.base[s] # 0 /\ s \notin disk.mark
           /\ disk.work[s] = hist.newest[s] /\ disk.ptr = {}
           /\ disk.env # NoEntry => disk.env.src = s
           /\ p # Client => p = s /\ p \in Sessions /\ disk.env.src \in {0, s}
           /\ p = Client => disk.env # NoEntry /\ \A t \in Sessions : Off(t)
<1>1. CASE p = Client
  <2>1. /\ disk.ptr = {} /\ proc[p].src \in Sessions /\ hist.base[proc[p].src] # 0
        /\ disk.env # NoEntry /\ disk.env.src = proc[p].src
    BY <1>1 DEF Inv, Knows, Recovering, Working
  <2>2. \A t \in Sessions : Off(t)
    BY <1>1 DEF Inv, Alone, Working
  <2> QED BY <1>1, <2>1, <2>2 DEF Inv, World, Envelope
<1>2. CASE p \in Sessions
  <2>1. Monitors(p, proc[p], server, disk, hist, game[p].run) /\ p # Client
    BY <1>2, ProcsAreNumbers DEF Inv, Working
  <2>2. disk.env = NoEntry => disk.env.src = 0
    BY DEF NoEntry
  <2> QED BY <1>2, <2>1, <2>2 DEF Monitors, Working
<1> QED BY <1>1, <1>2, ProcsAreNumbers
-----------------------------------------------------------------------------
(* process_save_inflight.                                                   *)

\* The envelope is written or removed, nothing else.
LEMMA EnvelopeMoves ==
    ASSUME Inv, disk.ptr = {}, NEW e \in Kept, disk' = [disk EXCEPT !.env = e],
           UNCHANGED <<server, hist>>,
           e # NoEntry => Envelope(server, [disk EXCEPT !.env = e], hist)
    PROVE  /\ disk' \in Disks /\ disk'.env = e /\ disk'.ptr = {}
           /\ disk'.work = disk.work /\ disk'.mark = disk.mark /\ disk'.create = disk.create
           /\ World'
<1>1. /\ disk' \in Disks /\ disk'.env = e /\ disk'.ptr = {}
      /\ disk'.work = disk.work /\ disk'.mark = disk.mark /\ disk'.create = disk.create
  BY DEF Inv, Typed, Disks
<1>2. Stored(server, hist)'
  BY DEF Inv, World, Stored, Counted
<1>3. Files(disk, hist)'
  BY <1>1 DEF Inv, World, Files
<1>4. Envelope(server, disk, hist)'
  BY <1>1 DEF Envelope
<1>5. Pointer(server, disk, hist)'
  BY <1>1 DEF Pointer
<1> QED BY <1>1, <1>2, <1>3, <1>4, <1>5 DEF World

\* What a monitor holds when it returns from the upload.
Holds(x, e) ==
    /\ x.rev # 0 /\ x.rev <= server.rev /\ (e = NoEntry => hist.foreign \/ x.rev = server.rev)
    /\ x.last \in hist.had
    /\ e = NoEntry /\ hist.newest[x.src] \in hist.had => hist.newest[x.src] = x.last

\* The slot a caller returns with.
LEMMA ReturnIs ==
    ASSUME Typed, NEW p \in Procs, NEW x \in Slots, NEW ok \in BOOLEAN, Return(p, x, ok)
    PROVE  \E y \in Slots :
              /\ proc' = [proc EXCEPT ![p] = y]
              /\ y.pc = (IF p = Client THEN "replayed" ELSE IF ~x.final THEN "beat"
                         ELSE IF ok THEN "stop" ELSE "unstaged")
              /\ y.entry = NoEntry /\ y.src = x.src /\ y.final = x.final /\ y.alive = x.alive
              /\ y.rev = x.rev /\ y.last = x.last /\ (ok => y.keep = x.keep)
<1> DEFINE done == [x EXCEPT !.keep = @ \/ (~ok /\ x.exists), !.exists = FALSE,
                             !.entry = NoEntry, !.tries = 0, !.answer = 0]
           step == IF p = Client THEN "replayed" ELSE IF ~x.final THEN "beat"
                   ELSE IF ok THEN "stop" ELSE "unstaged"
<1>1. /\ done \in Slots
      /\ done.entry = NoEntry /\ done.src = x.src /\ done.final = x.final
      /\ done.alive = x.alive /\ done.rev = x.rev /\ done.last = x.last
      /\ (ok => done.keep = x.keep)
  BY FreshIsSlot DEF Slots
<1>2. step \in Steps
  BY DEF Steps
<1>3. x.final = done.final
  BY <1>1
<1>4. proc' = [proc EXCEPT ![p] = [done EXCEPT !.pc = step]]
  BY DEF Return, Set
<1> DEFINE y == [done EXCEPT !.pc = step]
<1> HIDE DEF done, step
<1>5. /\ y \in Slots /\ y.pc = step
      /\ y.entry = NoEntry /\ y.src = x.src /\ y.final = x.final /\ y.alive = x.alive
      /\ y.rev = x.rev /\ y.last = x.last /\ (ok => y.keep = x.keep)
  BY <1>1, <1>2, SlotGoes
<1> HIDE DEF y
<1> QED BY <1>4, <1>5 DEF step, y

\* A caller returns: the client to its replay, a monitor to its game or to its end.
LEMMA Returned ==
    ASSUME Inv, NEW p \in Procs, proc[p].pc \in Working, NEW x \in Slots, NEW ok \in BOOLEAN,
           Return(p, x, ok),
           UNCHANGED <<server, game, clock, hist>>,
           disk' \in Disks, disk'.ptr = {}, disk'.work = disk.work, disk'.mark = disk.mark,
           disk'.create = disk.create, World',
           x.src = proc[p].src, x.final = proc[p].final, x.alive = proc[p].alive,
           disk'.env # NoEntry => disk'.env.src = x.src,
           disk'.env = NoEntry => disk.env = NoEntry \/ hist.newest[x.src] \in hist.had,
           p # Client => Holds(x, disk'.env),
           x.final /\ ok => IF x.keep THEN hist.newest[x.src] \in hist.had \/ disk'.env.src = x.src
                            ELSE hist.newest[x.src] \in hist.had /\ disk'.env = NoEntry
    PROVE  Inv'
<1>1. PICK y \in Slots :
              /\ proc' = [proc EXCEPT ![p] = y]
              /\ y.pc = (IF p = Client THEN "replayed" ELSE IF ~x.final THEN "beat"
                         ELSE IF ok THEN "stop" ELSE "unstaged")
              /\ y.entry = NoEntry /\ y.src = x.src /\ y.final = x.final /\ y.alive = x.alive
              /\ y.rev = x.rev /\ y.last = x.last /\ (ok => y.keep = x.keep)
  BY ReturnIs DEF Inv
<1>2. /\ proc' \in [Procs -> Slots] /\ proc'[p] = y
      /\ \A q \in Procs : q # p => proc'[q] = proc[q]
  BY <1>1, Moves DEF Inv
<1>3. Typed'
  BY <1>2 DEF Inv, Typed
<1>4. Entry(p, y, server', disk')
  BY <1>1 DEF Entry, Working
<1>5. LET s == proc[p].src IN
           /\ s \in Sessions /\ hist.base[s] # 0 /\ s \notin disk.mark
           /\ disk.work[s] = hist.newest[s] /\ disk.ptr = {}
           /\ disk.env # NoEntry => disk.env.src = s
           /\ p # Client => p = s /\ p \in Sessions /\ disk.env.src \in {0, s}
           /\ p = Client => disk.env # NoEntry /\ \A t \in Sessions : Off(t)
  BY CallerKnows
<1>6. CASE p = Client
  <2>1. y.pc = "replayed" /\ y.src \in Sessions /\ y.src = proc[p].src
    BY <1>1, <1>5, <1>6
  <2>2. Knows(y, server', disk', hist')
    BY <1>5, <1>6, <2>1 DEF Knows, Recovering, Working
  <2>3. Numbered'
    BY <1>2, <1>6, <2>1 DEF Inv, Numbered, Started
  <2>4. ASSUME NEW s \in Sessions, s \notin hist.cut, hist.base[s] # 0,
               hist.newest[s] \notin hist.had
        PROVE  disk'.work[s] = hist.newest[s] /\ IsRecorded(s, disk')
    <3>1. disk.work[s] = hist.newest[s] /\ IsRecorded(s, disk)
      BY <1>5, <1>6, <2>4, AtRest
    <3>2. disk.env.src = s
      BY <1>5, <3>1 DEF IsRecorded
    <3>3. disk'.env # NoEntry /\ disk'.env.src = s
      BY <1>5, <1>6, <2>1, <2>4, <3>2
    <3> QED BY <3>1, <3>3 DEF IsRecorded
  <2>5. \A s \in Sessions : proc'[s] = proc[s] /\ game'[s].run = game[s].run
    BY <1>2, <1>6, ProcsAreNumbers
  <2> QED BY <1>2, <1>3, <1>4, <1>5, <1>6, <2>2, <2>3, <2>4, <2>5, ClientStep
<1>7. CASE p # Client
  <2>1. p \in Sessions /\ p = x.src /\ proc[p].pc # "off"
    BY <1>5, <1>7 DEF Working
  <2>2. Monitors(p, proc[p], server, disk, hist, game[p].run)
    BY <2>1, UnderWay
  <2>3. x.final \in BOOLEAN /\ x.keep \in BOOLEAN
    BY DEF Slots
  <2>4. y.pc \in {"beat", "stop", "unstaged"} /\ (y.pc = "beat" <=> ~y.final)
    BY <1>1, <1>7, <2>3
  <2>5. y.pc = "stop" => IF y.keep THEN hist.newest[p] \in hist.had \/ disk'.env.src = p
                         ELSE hist.newest[p] \in hist.had /\ disk'.env = NoEntry
    BY <1>1, <1>7, <2>1, <2>3
  <2>6. /\ y.rev # 0 /\ y.rev <= server.rev
        /\ (disk'.env = NoEntry => hist.foreign \/ y.rev = server.rev)
        /\ y.last \in hist.had
        /\ disk'.env = NoEntry /\ hist.newest[p] \in hist.had => hist.newest[p] = y.last
    BY <1>1, <1>7, <2>1 DEF Holds
  <2>7. y.final \/ ~y.alive => game[p].run = "off"
    BY <1>1, <2>2 DEF Monitors
  <2>8. Monitors(p, y, server', disk', hist', game'[p].run)
    BY <1>1, <1>5, <1>7, <2>1, <2>4, <2>5, <2>6, <2>7 DEF Monitors, Working, Ends, IsRecorded
  <2> QED BY <1>2, <1>3, <1>4, <2>1, <2>4, <2>8, MonitorStep
<1> QED BY <1>6, <1>7

\* The envelope on disk, or one standing for the slot's last upload.
LEMMA BeginKeeps ==
    ASSUME Inv, NEW p \in Procs, Begin(p)
    PROVE  Inv'
<1> DEFINE s == proc[p].src
           e == IF Staged THEN disk.env
                ELSE [rev |-> 0, committed |-> proc[p].rev, body |-> proc[p].last, src |-> 0]
           step == IF Staged /\ e.committed = 0 THEN "put" ELSE "snap"
           x == [proc[p] EXCEPT !.entry = e, !.exists = Staged, !.tries = 0, !.pc = step]
<1>1. /\ proc[p].pc = "begin" /\ proc' = [proc EXCEPT ![p] = x]
      /\ UNCHANGED <<server, disk, game, clock, hist>>
  BY DEF Begin, Set
<1>2. proc[p] \in Slots /\ disk.env \in Kept /\ Staged \in BOOLEAN
  BY DEF Inv, Typed, Disks, Staged
<1>3. e \in Kept /\ step \in {"put", "snap"} /\ step \in Steps
  BY <1>2, ProcsAreNumbers DEF Slots, Kept, Steps
<1>4. (Staged => e = disk.env) /\ (~Staged => step = "snap")
      /\ (~Staged => e = [rev |-> 0, committed |-> proc[p].rev, body |-> proc[p].last, src |-> 0])
  OBVIOUS
<1>5. step = "put" <=> Staged /\ e.committed = 0
  OBVIOUS
<1> HIDE DEF e, step
<1>6. /\ x \in Slots /\ x.pc = step /\ x.entry = e /\ x.exists = Staged
      /\ x.rev = proc[p].rev /\ x.last = proc[p].last /\ x.src = proc[p].src
      /\ x.keep = proc[p].keep /\ x.alive = proc[p].alive /\ x.final = proc[p].final
  BY <1>2, <1>3 DEF Slots
<1> HIDE DEF x
<1>7. /\ s \in Sessions /\ hist.base[s] # 0 /\ s \notin disk.mark
      /\ disk.work[s] = hist.newest[s] /\ disk.ptr = {}
      /\ disk.env # NoEntry => disk.env.src = s
      /\ p # Client => p = s /\ p \in Sessions /\ disk.env.src \in {0, s}
      /\ p = Client => disk.env # NoEntry /\ \A t \in Sessions : Off(t)
  BY <1>1, CallerKnows
<1>8. CASE p = Client
  <2>1. Entry(p, x, server, disk)
    BY <1>3, <1>4, <1>5, <1>6, <1>7, <1>8 DEF Entry, Working, Staged
  <2>2. Knows(x, server, disk, hist)
    BY <1>3, <1>6, <1>7, <1>8 DEF Knows, Recovering, Working
  <2>3. x.pc # "fetch"
    BY <1>3, <1>6
  <2> QED BY <1>1, <1>6, <1>7, <1>8, <2>1, <2>2, <2>3, OnlyClient
<1>9. CASE p # Client
  <2>1. proc[p].pc # "off" /\ p \in Sessions
    BY <1>1, <1>7, <1>9
  <2>2. Monitors(p, proc[p], server, disk, hist, game[p].run)
    BY <2>1, UnderWay
  <2>3. Entry(p, x, server, disk)
    <3>1. CASE Staged
      <4>1. x.exists = TRUE /\ x.entry = disk.env /\ disk.env # NoEntry
        BY <1>4, <1>6, <3>1 DEF Staged
      <4> QED BY <1>3, <1>5, <1>6, <3>1, <4>1 DEF Entry, Working
    <3>2. CASE ~Staged
      <4>1. x.exists = FALSE /\ disk.env = NoEntry
        BY <1>6, <3>2 DEF Staged
      <4>2. x.entry = [rev |-> 0, committed |-> x.rev, body |-> x.last, src |-> 0] /\ x.pc = "snap"
        BY <1>4, <1>6, <3>2
      <4>3. x.entry.committed # 0
        BY <1>6, <2>2, <4>2 DEF Monitors
      <4> QED BY <1>9, <4>1, <4>2, <4>3 DEF Entry, Working
    <3> QED BY <3>1, <3>2
  <2>4. Monitors(p, x, server, disk, hist, game[p].run)
    BY <1>1, <1>3, <1>6, <2>2 DEF Monitors, Working, Ends
  <2>5. x.pc # "off"
    BY <1>3, <1>6
  <2> QED BY <1>1, <1>6, <2>1, <2>3, <2>4, <2>5, OnlyMonitor
<1> QED BY <1>8, <1>9

\* A caller goes on with the envelope on disk.
LEMMA CallerGoes ==
    ASSUME Inv, NEW p \in Procs, proc[p].pc \in Working, NEW x \in Slots, x.pc \in Working,
           proc' = [proc EXCEPT ![p] = x],
           UNCHANGED <<game, clock>>,
           server' \in Servers, server.rev <= server'.rev,
           hist' \in Histories(clock), hist'.base = hist.base, hist'.newest = hist.newest,
           hist'.cut = hist.cut, hist'.foreign = hist.foreign, hist.had \subseteq hist'.had,
           disk' \in Disks, disk'.ptr = {}, disk'.work = disk.work, disk'.mark = disk.mark,
           disk'.create = disk.create, World',
           disk'.env # NoEntry, disk'.env.src = proc[p].src,
           x.src = proc[p].src, x.final = proc[p].final, x.alive = proc[p].alive,
           Entry(p, x, server', disk'),
           p # Client => x.rev # 0 /\ x.rev <= server'.rev /\ x.last \in hist'.had
    PROVE  Inv'
<1>1. /\ proc' \in [Procs -> Slots] /\ proc'[p] = x
      /\ \A q \in Procs : q # p => proc'[q] = proc[q]
  BY Moves DEF Inv
<1>2. Typed'
  BY <1>1 DEF Inv, Typed
<1>3. LET s == proc[p].src IN
           /\ s \in Sessions /\ hist.base[s] # 0 /\ s \notin disk.mark
           /\ disk.work[s] = hist.newest[s] /\ disk.ptr = {}
           /\ disk.env # NoEntry => disk.env.src = s
           /\ p # Client => p = s /\ p \in Sessions /\ disk.env.src \in {0, s}
           /\ p = Client => disk.env # NoEntry /\ \A t \in Sessions : Off(t)
  BY CallerKnows
<1>4. CASE p = Client
  <2>1. Knows(x, server', disk', hist')
    BY <1>3, <1>4 DEF Knows, Recovering, Working
  <2>2. Numbered'
    BY <1>1, <1>4 DEF Inv, Numbered, Started, Working
  <2>3. ASSUME NEW s \in Sessions, s \notin hist.cut, hist.base[s] # 0,
               hist.newest[s] \notin hist'.had
        PROVE  disk'.work[s] = hist.newest[s] /\ IsRecorded(s, disk')
    <3>1. disk.work[s] = hist.newest[s] /\ IsRecorded(s, disk)
      BY <1>3, <1>4, <2>3, AtRest
    <3>2. disk.env.src = s
      BY <1>3, <3>1 DEF IsRecorded
    <3> QED BY <1>3, <1>4, <3>1, <3>2 DEF IsRecorded
  <2>4. \A s \in Sessions : proc'[s] = proc[s] /\ game'[s].run = game[s].run
    BY <1>1, <1>4, ProcsAreNumbers
  <2> QED BY <1>1, <1>2, <1>3, <1>4, <2>1, <2>2, <2>3, <2>4, ClientStep
<1>5. CASE p # Client
  <2>1. p \in Sessions /\ p = x.src /\ proc[p].pc # "off" /\ x.pc # "off"
    BY <1>3, <1>5 DEF Working
  <2>2. Monitors(p, proc[p], server, disk, hist, game[p].run)
    BY <2>1, UnderWay
  <2>3. x.final \/ ~x.alive => game[p].run = "off"
    BY <2>2 DEF Monitors
  <2>4. Monitors(p, x, server', disk', hist', game'[p].run)
    BY <1>3, <1>5, <2>1, <2>3 DEF Monitors, Working, Ends
  <2> QED BY <1>1, <1>2, <2>1, <2>4, MonitorStep
<1> QED BY <1>4, <1>5

\* What a caller that looks at the working file compares it with: the last content it knows
\* the server to have had.
LEMMA SnapKnows ==
    ASSUME Inv, NEW p \in Procs, proc[p].pc = "snap"
    PROVE  LET e == proc[p].entry
               s == proc[p].src IN
           /\ e \in Kept /\ e.committed # 0 /\ e.committed <= server.rev
           /\ hist.foreign \/ e.committed = server.rev
           /\ e.body \in hist.had
           /\ hist.newest[s] \in hist.had => hist.newest[s] = e.body
           /\ proc[p].exists = (disk.env # NoEntry)
           /\ ~proc[p].exists => p # Client /\ e.committed = proc[p].rev /\ e.body = proc[p].last
<1>1. Entry(p, proc[p], server, disk) /\ proc[p] \in Slots
  BY DEF Inv, Typed
<1>2. proc[p].exists = (disk.env # NoEntry) /\ proc[p].entry.committed # 0 /\ proc[p].entry \in Kept
  BY <1>1 DEF Entry, Working, Slots
<1>3. LET s == proc[p].src IN
           /\ s \in Sessions
           /\ disk.env # NoEntry => disk.env.src = s
           /\ p # Client => p = s /\ p \in Sessions
  BY CallerKnows DEF Working
<1>4. CASE proc[p].exists
  <2>1. proc[p].entry = disk.env /\ disk.env # NoEntry /\ disk.env.src = proc[p].src
    BY <1>1, <1>2, <1>3, <1>4 DEF Entry, Working
  <2>2. Envelope(server, disk, hist)
    BY DEF Inv, World
  <2> QED BY <1>2, <1>4, <2>1, <2>2 DEF Envelope
<1>5. CASE ~proc[p].exists
  <2>1. /\ p # Client /\ disk.env = NoEntry
        /\ proc[p].entry = [rev |-> 0, committed |-> proc[p].rev, body |-> proc[p].last, src |-> 0]
    BY <1>1, <1>2, <1>5 DEF Entry, Working
  <2>2. Monitors(p, proc[p], server, disk, hist, game[p].run)
    BY <1>3, <2>1, UnderWay
  <2> QED BY <1>2, <1>3, <2>1, <2>2 DEF Monitors
<1> QED BY <1>4, <1>5

\* The latest working file becomes the next request, unless the server has it.
LEMMA SnapKeeps ==
    ASSUME Inv, NEW p \in Procs, Snap(p)
    PROVE  Inv'
<1> DEFINE s == proc[p].src
           e == proc[p].entry
           r == [proc[p] EXCEPT !.rev = e.committed]
           staged == [rev |-> r.rev, committed |-> 0, body |-> Latest(p), src |-> r.src]
<1>1. proc[p].pc = "snap" /\ UNCHANGED <<server, game, clock, hist>>
  BY DEF Snap
<1>2. /\ s \in Sessions /\ hist.base[s] # 0 /\ s \notin disk.mark
      /\ disk.work[s] = hist.newest[s] /\ disk.ptr = {}
      /\ disk.env # NoEntry => disk.env.src = s
      /\ p # Client => p = s /\ p \in Sessions /\ disk.env.src \in {0, s}
      /\ p = Client => disk.env # NoEntry /\ \A t \in Sessions : Off(t)
  BY <1>1, CallerKnows DEF Working
<1>3. /\ e \in Kept /\ e.committed # 0 /\ e.committed <= server.rev
      /\ hist.foreign \/ e.committed = server.rev
      /\ e.body \in hist.had
      /\ hist.newest[s] \in hist.had => hist.newest[s] = e.body
      /\ proc[p].exists = (disk.env # NoEntry)
      /\ ~proc[p].exists => p # Client /\ e.committed = proc[p].rev /\ e.body = proc[p].last
  BY <1>1, SnapKnows
<1>4. Latest(p) = hist.newest[s] /\ hist.newest[s] # 0
  BY <1>2 DEF Latest, Inv, World, Files
<1>5. proc[p] \in Slots /\ disk \in Disks /\ hist \in Histories(clock)
  BY DEF Inv, Typed
<1>6. /\ r \in Slots /\ r.rev = e.committed /\ r.pc = "snap" /\ r.entry = e
      /\ r.last = proc[p].last /\ r.src = s /\ r.keep = proc[p].keep
      /\ r.exists = proc[p].exists /\ r.alive = proc[p].alive /\ r.final = proc[p].final
  BY <1>1, <1>3, <1>5 DEF Slots, Kept
<1>7. hist.newest[s] \in 0..MaxSnapshot /\ hist.newest[s] <= clock /\ clock <= MaxSnapshot
  BY <1>2, <1>5, ClientSaveAssumption DEF Inv, Typed, Histories
<1> HIDE DEF s, e, r
<1>8. CASE Latest(p) = r.entry.body /\ Latest(p) # NoFile
           /\ disk' = [disk EXCEPT !.env = IF r.exists THEN NoEntry ELSE @]
           /\ Return(p, [r EXCEPT !.last = Latest(p), !.keep = FALSE, !.exists = FALSE], TRUE)
  <2> DEFINE x == [r EXCEPT !.last = Latest(p), !.keep = FALSE, !.exists = FALSE]
  <2>1. /\ x \in Slots /\ x.rev = r.rev /\ x.last = hist.newest[s] /\ x.src = s
        /\ x.keep = FALSE /\ x.alive = r.alive /\ x.final = r.final
    BY <1>4, <1>6, <1>7 DEF Slots
  <2> HIDE DEF x
  <2>2. disk' = [disk EXCEPT !.env = NoEntry]
    <3>1. CASE r.exists
      BY <1>8, <3>1
    <3>2. CASE ~r.exists
      BY <1>3, <1>5, <1>6, <1>8, <3>2 DEF Disks
    <3> QED BY <3>1, <3>2
  <2>3. /\ disk' \in Disks /\ disk'.env = NoEntry /\ disk'.ptr = {}
        /\ disk'.work = disk.work /\ disk'.mark = disk.mark /\ disk'.create = disk.create
        /\ World'
    BY <1>1, <1>2, <2>2, FreshIsSlot, EnvelopeMoves
  <2>4. hist.newest[s] \in hist.had
    BY <1>3, <1>4, <1>6, <1>8
  <2>5. Holds(x, disk'.env)
    BY <1>3, <1>6, <2>1, <2>4 DEF Holds
  <2>6. Return(p, x, TRUE) /\ proc[p].pc \in Working
    BY <1>1, <1>8 DEF x, Working
  <2>7. x.src = proc[p].src /\ x.final = proc[p].final /\ x.alive = proc[p].alive
    BY <1>6, <2>1 DEF s
  <2> QED BY <1>1, <2>1, <2>3, <2>4, <2>5, <2>6, <2>7, Returned
<1>9. CASE Latest(p) \notin {NoFile, r.entry.body}
           /\ disk' = [disk EXCEPT !.env = staged]
           /\ Set(p, [r EXCEPT !.entry = staged, !.exists = TRUE, !.pc = "put"])
  <2>1. /\ staged \in Kept /\ staged.rev = e.committed /\ staged.committed = 0
        /\ staged.body = hist.newest[s] /\ staged.src = s
    BY <1>2, <1>3, <1>4, <1>6, <1>7, ProcsAreNumbers DEF Kept
  <2> DEFINE x == [r EXCEPT !.entry = staged, !.exists = TRUE, !.pc = "put"]
  <2> HIDE DEF staged
  <2>2. /\ x \in Slots /\ x.rev = r.rev /\ x.last = r.last /\ x.src = s /\ x.pc = "put"
        /\ x.entry = staged /\ x.exists = TRUE /\ x.alive = r.alive /\ x.final = r.final
    BY <1>6, <2>1 DEF Slots, Steps
  <2> HIDE DEF x
  <2>3. hist.newest[s] \notin hist.had
    BY <1>3, <1>4, <1>6, <1>9
  <2>4. ~InLog(staged, server.log)
    BY <2>1, <2>3 DEF InLog, Inv, World, Stored
  <2>5. staged # NoEntry
    BY <1>4, <2>1 DEF NoEntry, NoFile
  <2> DEFINE d == [disk EXCEPT !.env = staged]
  <2>6. /\ d.env = staged /\ d.ptr = {} /\ d.work = disk.work /\ d.mark = disk.mark
    BY <1>2, <1>5 DEF Disks
  <2>7. Envelope(server, d, hist)
    <3> HIDE DEF d
    <3>1. server.rev \in Nat
      BY DEF Inv, Typed, Servers
    <3>2. /\ staged.src \in Sessions /\ hist.base[staged.src] # 0 /\ staged.src \notin d.mark
          /\ staged.rev # 0 /\ staged.rev <= server.rev /\ staged.committed <= server.rev
          /\ staged.body # 0 /\ staged.body <= hist.newest[staged.src]
          /\ d.work[staged.src] = hist.newest[staged.src]
      BY <1>2, <1>3, <1>4, <1>7, <2>1, <2>6, <3>1
    <3>3. /\ staged.body \notin hist.had
          /\ hist.foreign \/ server.rev = staged.rev
          /\ hist.newest[staged.src] \notin hist.had
      BY <1>3, <2>1, <2>3
    <3> QED BY <2>1, <2>4, <2>6, <3>2, <3>3 DEF Envelope
  <2>8. /\ disk' \in Disks /\ disk'.env = staged /\ disk'.ptr = {}
        /\ disk'.work = disk.work /\ disk'.mark = disk.mark /\ disk'.create = disk.create
        /\ World'
    BY <1>1, <1>2, <1>9, <2>1, <2>7, EnvelopeMoves
  <2>9. Entry(p, x, server', disk')
    BY <2>1, <2>2, <2>5, <2>8 DEF Entry, Working
  <2>10. proc' = [proc EXCEPT ![p] = x] /\ x.pc \in Working /\ proc[p].pc \in Working
    BY <1>1, <1>9, <2>2 DEF Set, x, Working
  <2>11. p # Client => x.rev # 0 /\ x.rev <= server.rev /\ x.last \in hist.had
    <3>1. ASSUME p # Client PROVE Monitors(p, proc[p], server, disk, hist, game[p].run)
      BY <1>1, <1>2, <3>1, UnderWay
    <3> QED BY <1>3, <1>6, <2>2, <3>1 DEF Monitors
  <2>12. x.src = proc[p].src /\ x.final = proc[p].final /\ x.alive = proc[p].alive
    BY <1>6, <2>2 DEF s
  <2>13. server \in Servers /\ server.rev <= server.rev
    BY DEF Inv, Typed, Servers
  <2> QED BY <1>1, <1>5, <2>1, <2>2, <2>5, <2>8, <2>9, <2>10, <2>11, <2>12, <2>13, CallerGoes
<1>10. CASE Return(p, r, FALSE) /\ UNCHANGED disk
  <2>1. World'
    BY <1>1, <1>10, WorldStays
  <2>2. ASSUME p # Client PROVE Holds(r, disk.env)
    <3>1. Monitors(p, proc[p], server, disk, hist, game[p].run) /\ p = s
      BY <1>1, <1>2, <2>2, UnderWay
    <3> QED BY <1>3, <1>6, <3>1 DEF Monitors, Holds
  <2>3. r.src = proc[p].src /\ r.final = proc[p].final /\ r.alive = proc[p].alive
    BY <1>6 DEF s
  <2>4. disk'.env # NoEntry => disk'.env.src = r.src
    BY <1>2, <1>6, <1>10
  <2> QED BY <1>1, <1>2, <1>5, <1>6, <1>10, <2>1, <2>2, <2>3, <2>4, Returned DEF Working
<1> QED BY <1>4, <1>8, <1>9, <1>10 DEF Snap, e, r, NoFile

\* Contents and recovery records are finitely many.
LEMMA CountsAreNumbers ==
    ASSUME Typed, NEW log, NEW had \in SUBSET (1..clock)
    PROVE  /\ IsFiniteSet(had) /\ Cardinality(had) \in Nat /\ Cardinality(had) <= MaxSnapshot
           /\ IsFiniteSet(Recorded(log)) /\ Cardinality(Recorded(log)) \in Nat
           /\ Cardinality(Recorded(log)) <= MaxSession
<1>1. /\ IsFiniteSet(1..MaxSnapshot) /\ Cardinality(1..MaxSnapshot) = MaxSnapshot
      /\ IsFiniteSet(Sessions) /\ Cardinality(Sessions) = MaxSession
  BY FS_Interval, ClientSaveAssumption DEF Sessions
<1>2. had \subseteq 1..MaxSnapshot
  BY ClientSaveAssumption DEF Typed
<1>3. Recorded(log) \subseteq Sessions
  BY DEF Recorded
<1> QED BY <1>1, <1>2, <1>3, FS_Subset, FS_CardinalityType

\* A request of an envelope arrives: it is one that was applied before, or its content is one
\* the server has not had.
LEMMA OpenRequestArrives ==
    ASSUME Inv, NEW p \in Procs, disk.env # NoEntry, disk.env.committed = 0,
           Apply([game |-> p, id |-> 0, rev |-> disk.env.rev, body |-> disk.env.body]),
           UNCHANGED <<disk, clock>>
    PROVE  /\ server' \in Servers /\ server.rev <= server'.rev
           /\ hist' \in Histories(clock) /\ hist'.base = hist.base /\ hist'.newest = hist.newest
           /\ hist'.cut = hist.cut /\ hist'.foreign = hist.foreign /\ hist.had \subseteq hist'.had
           /\ World'
           /\ LET answer == Verdict([game |-> p, id |-> 0, rev |-> disk.env.rev,
                                     body |-> disk.env.body])
              IN  answer # 0 => answer = disk.env.rev + 1 /\ InLog(disk.env, server'.log)
<1> DEFINE e == disk.env
           q == [game |-> p, id |-> 0, rev |-> e.rev, body |-> e.body]
           line == [id |-> 0, rev |-> e.rev, body |-> e.body]
<1>1. /\ server \in Servers /\ hist \in Histories(clock) /\ e \in Kept /\ clock \in 1..MaxSnapshot
      /\ server.rev \in Nat
  BY DEF Inv, Typed, Disks, Servers
<1>2. /\ e.src \in Sessions /\ hist.base[e.src] # 0 /\ e.rev \in Nat /\ e.rev # 0
      /\ e.rev <= server.rev
      /\ e.body # 0 /\ e.body <= hist.newest[e.src] /\ disk.ptr = {} /\ e.src \notin disk.mark
      /\ disk.work[e.src] = hist.newest[e.src]
      /\ hist.newest[e.src] \in hist.had => hist.newest[e.src] = e.body
      /\ line \in server.log \/ e.body \notin hist.had
      /\ hist.foreign \/ server.rev = (IF line \in server.log THEN e.rev + 1 ELSE e.rev)
  BY <1>1 DEF Inv, World, Envelope, Kept, InLog
<1>3. Known(q) = {x \in server.log : x = line}
  BY DEF Known
<1>4. Verdict(q) \in {0, e.rev + 1}
      /\ (Verdict(q) # 0 /\ Known(q) = {} => e.rev = server.rev)
  BY <1>3 DEF Verdict
<1>5. line \in Logged
  BY <1>1, ProcsAreNumbers DEF Logged, Kept
<1> HIDE DEF line
<1>6. CASE Verdict(q) # 0 /\ Known(q) = {}
  <2>1. /\ server' = [server EXCEPT !.rev = @ + 1, !.body = e.body, !.log = @ \cup {line}]
        /\ hist' = [hist EXCEPT !.had = @ \cup {e.body}]
    BY <1>6 DEF Apply, line
  <2>2. line \notin server.log /\ e.rev = server.rev /\ e.body \notin hist.had
    BY <1>2, <1>3, <1>4, <1>6
  <2>3. e.body \in 1..clock /\ e.body \in 1..MaxSnapshot
    <3>1. hist.newest[e.src] \in 0..clock
      BY <1>1, <1>2 DEF Histories
    <3>2. e.body \in Nat
      BY <1>1 DEF Kept
    <3> QED BY <1>1, <1>2, <3>1, <3>2, ClientSaveAssumption
  <2>4. /\ server' \in Servers /\ server'.rev = server.rev + 1 /\ server'.body = e.body
        /\ server'.log = server.log \cup {line}
    <3> DEFINE log == server.log \cup {line}
    <3>1. log \in SUBSET Logged
      BY <1>1, <1>5 DEF Servers
    <3>2. server' = [server EXCEPT !.rev = server.rev + 1, !.body = e.body, !.log = log]
      BY <2>1
    <3> HIDE DEF log, e
    <3>3. /\ server'.rev = server.rev + 1 /\ server'.body = e.body /\ server'.log = log
          /\ server'.lock = server.lock
      BY <1>1, <3>2 DEF Servers
    <3>4. server' = [rev |-> server.rev + 1, body |-> e.body, lock |-> server.lock, log |-> log]
      BY <1>1, <3>2 DEF Servers
    <3>5. server.rev + 1 \in Nat /\ server.lock \in Procs
      BY <1>1 DEF Servers
    <3>6. server' \in Servers
      BY <2>3, <3>1, <3>4, <3>5 DEF Servers
    <3> QED BY <3>3, <3>6 DEF log
  <2>5. /\ hist' \in Histories(clock) /\ hist'.base = hist.base /\ hist'.newest = hist.newest
        /\ hist'.cut = hist.cut /\ hist'.foreign = hist.foreign
        /\ hist'.had = hist.had \cup {e.body}
    BY <1>1, <2>1, <2>3 DEF Histories
  <2>6. Counted(server', hist')
    <3>1. Recorded(server'.log) = Recorded(server.log)
      <4>1. line.id \notin Sessions
        BY ProcsAreNumbers DEF line
      <4> QED BY <2>4, <4>1 DEF Recorded
    <3>2. /\ IsFiniteSet(hist.had) /\ Cardinality(hist.had) \in Nat
          /\ Cardinality(Recorded(server.log)) \in Nat
      BY <1>1, CountsAreNumbers DEF Inv, Histories
    <3>3. Cardinality(hist'.had) = Cardinality(hist.had) + 1
      BY <2>2, <2>5, <3>2, FS_AddElement
    <3>4. Counted(server, hist)
      BY DEF Inv, World, Stored
    <3> QED BY <1>1, <2>4, <3>1, <3>2, <3>3, <3>4 DEF Counted
  <2>7. Stored(server', hist')
    <3>1. \A x \in server.log : x.rev \in Nat /\ x.rev < server.rev /\ x.body \in hist.had
      BY <1>1 DEF Inv, World, Stored, Servers, Logged
    <3>2. line.rev = server.rev /\ line.body = e.body
      BY <2>2 DEF line
    <3> QED BY <1>1, <2>4, <2>5, <2>6, <3>1, <3>2 DEF Stored
  <2>8. Files(disk', hist')
    BY <2>5 DEF Inv, World, Files
  <2>9. InLog(e, server'.log)
    BY <2>4 DEF InLog, line
  <2>10. Envelope(server', disk', hist')
    BY <1>1, <1>2, <2>2, <2>4, <2>5, <2>9 DEF Envelope
  <2>11. Pointer(server', disk', hist')
    BY <1>2 DEF Pointer
  <2>12. World'
    BY <2>7, <2>8, <2>10, <2>11 DEF World
  <2> QED BY <1>1, <1>4, <2>4, <2>5, <2>9, <2>12
<1>7. CASE ~(Verdict(q) # 0 /\ Known(q) = {})
  <2>1. UNCHANGED <<server, hist>>
    BY <1>7 DEF Apply
  <2>2. World'
    BY <2>1, WorldStays
  <2>3. Verdict(q) # 0 => InLog(e, server'.log)
    BY <1>3, <1>7, <2>1 DEF InLog, line
  <2> QED BY <1>1, <1>4, <2>1, <2>2, <2>3
<1> QED BY <1>6, <1>7

\* A PUT: answered, refused, lost on its way or on the way back.
LEMMA PutKeeps ==
    ASSUME Inv, NEW p \in Procs, Put(p)
    PROVE  Inv'
<1> DEFINE e == disk.env
           q == [game |-> p, id |-> 0, rev |-> e.rev, body |-> e.body]
<1>1. proc[p].pc = "put" /\ proc[p].pc \in Working /\ UNCHANGED <<disk, game, clock>>
  BY DEF Put, Working
<1>2. proc[p] \in Slots /\ server \in Servers /\ hist \in Histories(clock) /\ disk \in Disks
  BY DEF Inv, Typed
<1>3. /\ e # NoEntry /\ proc[p].entry = e /\ e.committed = 0 /\ proc[p].exists = TRUE
  <2>1. Entry(p, proc[p], server, disk)
    BY DEF Inv
  <2> QED BY <1>1, <1>2, <2>1 DEF Entry, Slots
<1>4. disk.ptr = {} /\ e.src = proc[p].src /\ (p # Client => p \in Sessions)
  BY <1>1, <1>3, CallerKnows
<1>5. PICK answer \in {0, Verdict(q)} :
          /\ proc' = [proc EXCEPT ![p] = [proc[p] EXCEPT !.answer = answer, !.pc = "answer"]]
          /\ Apply(q) \/ (UNCHANGED <<server, hist>> /\ answer = 0)
  BY <1>3 DEF Put, Upload, Set
<1>6. /\ server' \in Servers /\ server.rev <= server'.rev
      /\ hist' \in Histories(clock) /\ hist'.base = hist.base /\ hist'.newest = hist.newest
      /\ hist'.cut = hist.cut /\ hist'.foreign = hist.foreign /\ hist.had \subseteq hist'.had
      /\ World'
      /\ answer # 0 => answer = e.rev + 1 /\ InLog(e, server'.log)
  <2>1. CASE Apply(q)
    BY <1>1, <1>3, <1>5, <2>1, OpenRequestArrives
  <2>2. CASE UNCHANGED <<server, hist>> /\ answer = 0
    BY <1>1, <1>2, <2>2, WorldStays DEF Servers
  <2> QED BY <1>5, <2>1, <2>2
<1> DEFINE x == [proc[p] EXCEPT !.answer = answer, !.pc = "answer"]
<1>7. /\ x \in Slots /\ x.pc = "answer" /\ x.answer = answer /\ x.entry = e /\ x.exists = TRUE
      /\ x.rev = proc[p].rev /\ x.last = proc[p].last /\ x.src = proc[p].src
      /\ x.final = proc[p].final /\ x.alive = proc[p].alive
  <2>1. e.rev \in Nat
    BY <1>2 DEF Disks, Kept
  <2>2. answer \in Nat
    BY <1>6, <2>1
  <2> QED BY <1>2, <1>3, <2>2 DEF Slots, Steps
<1> HIDE DEF x
<1>8. Entry(p, x, server', disk')
  BY <1>1, <1>3, <1>6, <1>7 DEF Entry, Working
<1>9. p # Client => x.rev # 0 /\ x.rev <= server'.rev /\ x.last \in hist'.had
  <2>1. ASSUME p # Client PROVE Monitors(p, proc[p], server, disk, hist, game[p].run)
    BY <1>1, <1>4, <2>1, UnderWay
  <2>2. proc[p].rev \in Nat /\ server.rev \in Nat /\ server'.rev \in Nat
    BY <1>2, <1>6 DEF Slots, Servers
  <2> QED BY <1>6, <1>7, <2>1, <2>2 DEF Monitors
<1>10. proc' = [proc EXCEPT ![p] = x] /\ x.pc \in Working
  BY <1>5, <1>7 DEF x, Working
<1> QED BY <1>1, <1>2, <1>3, <1>4, <1>6, <1>7, <1>8, <1>9, <1>10, CallerGoes

\* A caller past the PUT has its request on disk.
LEMMA CallerHasEnvelope ==
    ASSUME Inv, NEW p \in Procs, proc[p].pc \in {"answer", "compare"}
    PROVE  /\ disk.env # NoEntry /\ proc[p].entry = disk.env /\ proc[p].exists = TRUE
           /\ disk.env \in Kept
           /\ disk.env.src = proc[p].src /\ disk.ptr = {} /\ proc[p].src \in Sessions
           /\ hist.newest[proc[p].src] = disk.work[proc[p].src]
           /\ hist.newest[proc[p].src] \in 1..MaxSnapshot
           /\ p # Client => /\ p \in Sessions /\ p = proc[p].src
                            /\ proc[p].rev # 0 /\ proc[p].rev <= server.rev
                            /\ proc[p].last \in hist.had
<1>1. Entry(p, proc[p], server, disk) /\ proc[p] \in Slots /\ disk \in Disks
  BY DEF Inv, Typed
<1>2. proc[p].exists /\ proc[p].entry = disk.env /\ disk.env # NoEntry
  BY <1>1 DEF Entry, Working, Slots
<1>3. LET s == proc[p].src IN
           /\ s \in Sessions /\ hist.base[s] # 0 /\ s \notin disk.mark
           /\ disk.work[s] = hist.newest[s] /\ disk.ptr = {}
           /\ disk.env # NoEntry => disk.env.src = s
           /\ p # Client => p = s /\ p \in Sessions /\ disk.env.src \in {0, s}
  BY CallerKnows DEF Working
<1>4. hist.newest[proc[p].src] \in 1..MaxSnapshot
  <2>1. hist.newest[proc[p].src] # 0
    BY <1>3 DEF Inv, World, Files
  <2>2. disk.work[proc[p].src] \in 0..MaxSnapshot
    BY <1>1, <1>3 DEF Disks
  <2> QED BY <1>3, <2>1, <2>2, ClientSaveAssumption
<1>5. ASSUME p # Client PROVE Monitors(p, proc[p], server, disk, hist, game[p].run)
  BY <1>3, <1>5, UnderWay
<1> QED BY <1>1, <1>2, <1>3, <1>4, <1>5 DEF Monitors, Disks, Slots

\* An answer: the envelope stays, or is marked as committed.
LEMMA AnswerKeeps ==
    ASSUME Inv, NEW p \in Procs, Answer(p)
    PROVE  Inv'
<1> DEFINE e == disk.env
           s == proc[p].src
           committed == [e EXCEPT !.committed = proc[p].answer]
<1>1. proc[p].pc = "answer" /\ proc[p].pc \in Working /\ UNCHANGED <<server, game, clock, hist>>
  BY DEF Answer, Working
<1>2. /\ e # NoEntry /\ proc[p].entry = e /\ proc[p].exists = TRUE /\ e \in Kept
      /\ e.src = s /\ disk.ptr = {} /\ s \in Sessions
      /\ hist.newest[s] = disk.work[s] /\ hist.newest[s] \in 1..MaxSnapshot
      /\ p # Client => p \in Sessions /\ p = s /\ proc[p].rev # 0 /\ proc[p].rev <= server.rev
                       /\ proc[p].last \in hist.had
  BY <1>1, CallerHasEnvelope
<1>3. proc[p] \in Slots /\ disk \in Disks /\ server \in Servers /\ hist \in Histories(clock)
  BY DEF Inv, Typed
<1>4. CASE proc[p].answer = 0
  <2> DEFINE x == [proc[p] EXCEPT !.keep = TRUE]
  <2>1. /\ disk' = [disk EXCEPT !.env = IF p = Client THEN @ ELSE e]
        /\ Return(p, x, proc[p].final)
    BY <1>2, <1>4 DEF Answer
  <2>2. disk' = disk
    BY <1>3, <2>1 DEF Disks
  <2>3. /\ x \in Slots /\ x.rev = proc[p].rev /\ x.last = proc[p].last /\ x.src = s
        /\ x.keep = TRUE /\ x.final = proc[p].final /\ x.alive = proc[p].alive
    BY <1>3 DEF Slots
  <2> HIDE DEF x
  <2>4. World'
    BY <1>1, <2>2, WorldStays
  <2>5. p # Client => Holds(x, e)
    BY <1>2, <2>3 DEF Holds
  <2>6. proc[p].final \in BOOLEAN
    BY <1>3 DEF Slots
  <2> QED BY <1>1, <1>2, <1>3, <2>1, <2>2, <2>3, <2>4, <2>5, <2>6, Returned
<1>5. CASE proc[p].answer # 0
  <2> DEFINE x == [proc[p] EXCEPT !.entry = committed, !.rev = proc[p].answer, !.last = e.body,
                                  !.pc = "compare"]
  <2>1. /\ disk' = [disk EXCEPT !.env = committed]
        /\ proc' = [proc EXCEPT ![p] = x]
    BY <1>2, <1>5 DEF Answer, Set
  <2>2. proc[p].answer = e.rev + 1 /\ InLog(e, server.log)
    <3>1. Entry(p, proc[p], server, disk)
      BY DEF Inv
    <3> QED BY <1>1, <1>2, <1>5, <3>1 DEF Entry
  <2>3. e.rev \in Nat /\ e.body \in 0..MaxSnapshot /\ proc[p].answer \in Nat /\ server.rev \in Nat
    BY <1>2, <1>3 DEF Kept, Slots, Servers
  <2>4. e.rev < server.rev /\ e.body \in hist.had
    BY <2>2 DEF InLog, Inv, World, Stored
  <2>5. /\ committed \in Kept /\ committed.rev = e.rev /\ committed.body = e.body
        /\ committed.src = e.src /\ committed.committed = e.rev + 1
    BY <1>2, <2>2, <2>3 DEF Kept
  <2> HIDE DEF committed
  <2>6. /\ x \in Slots /\ x.rev = e.rev + 1 /\ x.last = e.body /\ x.src = s /\ x.pc = "compare"
        /\ x.entry = committed /\ x.exists = TRUE
        /\ x.final = proc[p].final /\ x.alive = proc[p].alive
    BY <1>2, <1>3, <2>2, <2>3, <2>5 DEF Slots, Steps
  <2> HIDE DEF x
  <2>7. committed # NoEntry
    BY <2>3, <2>5 DEF NoEntry
  <2> DEFINE d == [disk EXCEPT !.env = committed]
  <2>8. d.env = committed /\ d.ptr = {} /\ d.work = disk.work /\ d.mark = disk.mark
    BY <1>2, <1>3 DEF Disks
  <2>9. Envelope(server, d, hist)
    <3>0. e.committed = 0
      BY <1>1, <1>2 DEF Inv, Entry
    <3>1. Envelope(server, disk, hist)
      BY DEF Inv, World
    <3>2. /\ hist.base[s] # 0 /\ s \notin disk.mark /\ e.rev # 0 /\ e.body # 0
          /\ e.body <= hist.newest[s]
          /\ hist.newest[s] \in hist.had => hist.newest[s] = e.body
          /\ hist.foreign \/ server.rev = e.rev + 1
      BY <1>2, <2>2, <3>0, <3>1 DEF Envelope
    <3>3. e.rev + 1 # 0 /\ e.rev + 1 <= server.rev /\ e.rev <= server.rev
      BY <2>3, <2>4
    <3> HIDE DEF d
    <3> QED BY <1>2, <2>4, <2>5, <2>8, <3>2, <3>3 DEF Envelope
  <2>10. /\ disk' \in Disks /\ disk'.env = committed /\ disk'.ptr = {}
         /\ disk'.work = disk.work /\ disk'.mark = disk.mark /\ disk'.create = disk.create
         /\ World'
    BY <1>1, <1>2, <2>1, <2>5, <2>9, EnvelopeMoves
  <2>11. Entry(p, x, server', disk')
    <3>1. x.entry.committed # 0 /\ x.rev = x.entry.committed /\ x.last = x.entry.body
      BY <2>3, <2>5, <2>6
    <3>2. x.exists = (disk'.env # NoEntry) /\ x.entry = disk'.env
      BY <2>6, <2>7, <2>10
    <3> QED BY <2>6, <3>1, <3>2 DEF Entry, Working
  <2>12. x.pc \in Working /\ x.rev # 0 /\ x.rev <= server.rev /\ x.last \in hist.had
    BY <2>3, <2>4, <2>6 DEF Working
  <2>13. server.rev <= server.rev
    BY <2>3
  <2> QED BY <1>1, <1>2, <1>3, <2>1, <2>5, <2>6, <2>7, <2>10, <2>11, <2>12, <2>13, CallerGoes
<1> QED BY <1>4, <1>5

\* A working file that moved on is sent as well, once per call.
LEMMA CompareKeeps ==
    ASSUME Inv, NEW p \in Procs, Compare(p)
    PROVE  Inv'
<1> DEFINE e == disk.env
           s == proc[p].src
<1>1. proc[p].pc = "compare" /\ proc[p].pc \in Working /\ UNCHANGED <<server, game, clock, hist>>
  BY DEF Compare, Working
<1>2. /\ e # NoEntry /\ proc[p].entry = e /\ proc[p].exists = TRUE /\ e \in Kept
      /\ e.src = s /\ disk.ptr = {} /\ s \in Sessions
      /\ hist.newest[s] = disk.work[s] /\ hist.newest[s] \in 1..MaxSnapshot
      /\ p # Client => p \in Sessions /\ p = s /\ proc[p].rev # 0 /\ proc[p].rev <= server.rev
                       /\ proc[p].last \in hist.had
  BY <1>1, CallerHasEnvelope
<1>3. proc[p] \in Slots /\ disk \in Disks /\ server \in Servers /\ hist \in Histories(clock)
  BY DEF Inv, Typed
<1>4. proc[p].rev = e.committed /\ proc[p].last = e.body /\ e.committed # 0
  <2>1. Entry(p, proc[p], server, disk)
    BY DEF Inv
  <2> QED BY <1>1, <1>2, <2>1 DEF Entry
<1>5. /\ e.body \in hist.had /\ e.committed <= server.rev
      /\ hist.foreign \/ e.committed = server.rev
  <2>1. Envelope(server, disk, hist)
    BY DEF Inv, World
  <2> QED BY <1>2, <1>4, <2>1 DEF Envelope
<1>6. Latest(p) = hist.newest[s]
  BY <1>2 DEF Latest
<1>7. CASE Latest(p) = e.body
  <2> DEFINE x == [proc[p] EXCEPT !.keep = FALSE, !.exists = FALSE]
  <2>1. disk' = [disk EXCEPT !.env = NoEntry] /\ Return(p, x, TRUE)
    BY <1>2, <1>7 DEF Compare
  <2>2. /\ x \in Slots /\ x.rev = proc[p].rev /\ x.last = proc[p].last /\ x.src = s
        /\ x.keep = FALSE /\ x.final = proc[p].final /\ x.alive = proc[p].alive
    BY <1>3 DEF Slots
  <2> HIDE DEF x
  <2>3. /\ disk' \in Disks /\ disk'.env = NoEntry /\ disk'.ptr = {}
        /\ disk'.work = disk.work /\ disk'.mark = disk.mark /\ disk'.create = disk.create
        /\ World'
    BY <1>1, <1>2, <2>1, FreshIsSlot, EnvelopeMoves
  <2>4. hist.newest[s] \in hist.had
    BY <1>5, <1>6, <1>7
  <2>5. Holds(x, disk'.env)
    BY <1>4, <1>5, <1>6, <1>7, <2>2, <2>3 DEF Holds
  <2> QED BY <1>1, <2>1, <2>2, <2>3, <2>4, <2>5, Returned
<1>8. CASE Latest(p) # e.body /\ proc[p].tries = 0
  <2> DEFINE x == [proc[p] EXCEPT !.tries = 1, !.pc = "snap"]
  <2>1. disk' = disk /\ proc' = [proc EXCEPT ![p] = x]
    BY <1>2, <1>8 DEF Compare, Set
  <2>2. /\ x \in Slots /\ x.rev = proc[p].rev /\ x.last = proc[p].last /\ x.src = s
        /\ x.pc = "snap" /\ x.entry = e /\ x.exists = TRUE
        /\ x.final = proc[p].final /\ x.alive = proc[p].alive
    BY <1>2, <1>3 DEF Slots, Steps
  <2> HIDE DEF x
  <2>3. Entry(p, x, server', disk')
    BY <1>1, <1>2, <1>4, <2>1, <2>2 DEF Entry, Working
  <2>4. x.pc \in Working
    BY <2>2 DEF Working
  <2>5. World' /\ server.rev <= server.rev
    BY <1>1, <1>3, <2>1, WorldStays DEF Servers
  <2> QED BY <1>1, <1>2, <1>3, <2>1, <2>2, <2>3, <2>4, <2>5, CallerGoes
<1>9. CASE Latest(p) # e.body /\ proc[p].tries # 0
  <2> DEFINE x == [proc[p] EXCEPT !.keep = TRUE]
  <2>1. disk' = disk /\ Return(p, x, TRUE)
    BY <1>2, <1>9 DEF Compare
  <2>2. /\ x \in Slots /\ x.rev = proc[p].rev /\ x.last = proc[p].last /\ x.src = s
        /\ x.keep = TRUE /\ x.final = proc[p].final /\ x.alive = proc[p].alive
    BY <1>3 DEF Slots
  <2> HIDE DEF x
  <2>3. World'
    BY <1>1, <2>1, WorldStays
  <2>4. p # Client => Holds(x, e)
    BY <1>2, <2>2 DEF Holds
  <2> QED BY <1>1, <1>2, <1>3, <2>1, <2>2, <2>3, <2>4, Returned
<1> QED BY <1>7, <1>8, <1>9
-----------------------------------------------------------------------------
(* The monitor of a game.                                                   *)

\* Whose lock it is says nothing about what is kept.
LEMMA LockMoves ==
    ASSUME Inv, server' \in Servers, server'.rev = server.rev, server'.body = server.body,
           server'.log = server.log
    PROVE  /\ Stored(server', hist)
           /\ \A d, h : Envelope(server, d, h) => Envelope(server', d, h)
           /\ \A d, h : Pointer(server, d, h) => Pointer(server', d, h)
BY DEF Inv, World, Stored, Counted, Envelope, Pointer

\* child_process_alive, then the upload or the heartbeat.
LEMMA PollKeeps ==
    ASSUME Inv, NEW s \in Sessions, Poll(s)
    PROVE  Inv'
<1>1. proc[s].pc = "poll" /\ proc[s].pc # "off" /\ UNCHANGED <<server, disk, game, clock, hist>>
  BY DEF Poll
<1>2. PICK step \in {"begin", "beat"} :
          proc' = [proc EXCEPT ![s] = [proc[s] EXCEPT !.alive = game[s].run # "off", !.pc = step]]
  BY DEF Poll, Set
<1>3. proc[s] \in Slots
  BY ProcsAreNumbers DEF Inv, Typed
<1> DEFINE x == [proc[s] EXCEPT !.alive = game[s].run # "off", !.pc = step]
<1>4. /\ x \in Slots /\ x.pc = step /\ x.alive = (game[s].run # "off") /\ x.rev = proc[s].rev
      /\ x.last = proc[s].last /\ x.src = proc[s].src /\ x.entry = proc[s].entry
      /\ x.final = proc[s].final /\ x.keep = proc[s].keep
  BY <1>3 DEF Slots, Steps
<1>5. x.alive <=> game[s].run # "off"
  BY <1>4
<1> HIDE DEF x
<1>6. Monitors(s, proc[s], server, disk, hist, game[s].run)
  BY <1>1, UnderWay
<1>7. Monitors(s, x, server, disk, hist, game[s].run)
  BY <1>1, <1>2, <1>4, <1>5, <1>6 DEF Monitors, Working, Ends
<1>8. Entry(s, proc[s], server, disk)
  BY ProcsAreNumbers DEF Inv
<1>9. Entry(s, x, server, disk)
  BY <1>1, <1>2, <1>4, <1>8 DEF Entry, Working
<1> QED BY <1>1, <1>2, <1>4, <1>7, <1>9, OnlyMonitor DEF x

\* A heartbeat: answered, refused or lost; the runtime may be told to stop.
LEMMA BeatKeeps ==
    ASSUME Inv, NEW s \in Sessions, Beat(s)
    PROVE  Inv'
<1>1. /\ proc[s].pc = "beat" /\ proc[s].pc # "off" /\ proc[s].alive
      /\ UNCHANGED <<server, disk, clock, hist>>
  BY DEF Beat
<1>2. proc[s] \in Slots /\ game \in [Sessions -> Games]
  BY ProcsAreNumbers DEF Inv, Typed
<1>3. Monitors(s, proc[s], server, disk, hist, game[s].run)
  BY <1>1, UnderWay
<1>4. Entry(s, proc[s], server, disk)
  BY ProcsAreNumbers DEF Inv
<1>5. /\ \E x \in Slots :
            /\ proc' = [proc EXCEPT ![s] = x]
            /\ x.pc = "poll" /\ x.rev = proc[s].rev /\ x.last = proc[s].last
            /\ x.src = proc[s].src /\ x.entry = proc[s].entry /\ x.final = proc[s].final
            /\ x.alive = proc[s].alive
  <2>1. CASE Goto(s, "poll")
    <3> DEFINE x == [proc[s] EXCEPT !.pc = "poll"]
    <3>1. /\ x \in Slots /\ x.pc = "poll" /\ x.rev = proc[s].rev /\ x.last = proc[s].last
          /\ x.src = proc[s].src /\ x.entry = proc[s].entry /\ x.final = proc[s].final
          /\ x.alive = proc[s].alive
      BY <1>2 DEF Slots, Steps
    <3> QED BY <2>1, <3>1 DEF Goto, Set
  <2>2. CASE Set(s, [proc[s] EXCEPT !.fails = 0, !.pc = "poll"])
    <3> DEFINE x == [proc[s] EXCEPT !.fails = 0, !.pc = "poll"]
    <3>1. /\ x \in Slots /\ x.pc = "poll" /\ x.rev = proc[s].rev /\ x.last = proc[s].last
          /\ x.src = proc[s].src /\ x.entry = proc[s].entry /\ x.final = proc[s].final
          /\ x.alive = proc[s].alive
      BY <1>2 DEF Slots, Steps
    <3> QED BY <2>2, <3>1 DEF Set
  <2>3. CASE \E lost \in BOOLEAN :
                Set(s, [proc[s] EXCEPT !.fails = @ + 1, !.lost = lost, !.pc = "poll"])
    <3>1. PICK lost \in BOOLEAN :
                Set(s, [proc[s] EXCEPT !.fails = @ + 1, !.lost = lost, !.pc = "poll"])
      BY <2>3
    <3> DEFINE fails == proc[s].fails + 1
               x == [proc[s] EXCEPT !.fails = fails, !.lost = lost, !.pc = "poll"]
    <3>2. proc' = [proc EXCEPT ![s] = x]
      BY <3>1 DEF Set
    <3>3. fails \in Nat
      BY <1>2 DEF Slots
    <3> HIDE DEF fails
    <3>4. /\ x \in Slots /\ x.pc = "poll" /\ x.rev = proc[s].rev /\ x.last = proc[s].last
          /\ x.src = proc[s].src /\ x.entry = proc[s].entry /\ x.final = proc[s].final
          /\ x.alive = proc[s].alive
      BY <1>2, <3>3 DEF Slots, Steps
    <3> HIDE DEF x
    <3> QED BY <3>2, <3>4
  <2>4. (Terminal(s) \/ proc[s].fails + 1 >= FailureLimit) \in BOOLEAN
    OBVIOUS
  <2> QED BY <2>1, <2>2, <2>3, <2>4 DEF Beat
<1>6. PICK x \in Slots :
            /\ proc' = [proc EXCEPT ![s] = x]
            /\ x.pc = "poll" /\ x.rev = proc[s].rev /\ x.last = proc[s].last
            /\ x.src = proc[s].src /\ x.entry = proc[s].entry /\ x.final = proc[s].final
            /\ x.alive = proc[s].alive
  BY <1>5
<1>7. /\ proc' \in [Procs -> Slots] /\ proc'[s] = x
      /\ \A q \in Procs : q # s => proc'[q] = proc[q]
  BY <1>6, Moves, ProcsAreNumbers DEF Inv
<1>8. game' = game \/ game' = [game EXCEPT ![s].run = "told"]
  <2>1. \A g \in Games : [g EXCEPT !.run = g.run] = g
    BY DEF Games
  <2> QED BY <1>2, <2>1 DEF Beat
<1>9. /\ game' \in [Sessions -> Games]
      /\ \A t \in Sessions : game'[t].kind = game[t].kind /\ (t # s => game'[t].run = game[t].run)
  BY <1>2, <1>8 DEF Games
<1>10. Typed'
  BY <1>1, <1>7, <1>9 DEF Inv, Typed
<1>11. World'
  BY <1>1, WorldStays
<1>12. Entry(s, x, server, disk)
  BY <1>1, <1>4, <1>6 DEF Entry, Working
<1>13. Monitors(s, x, server, disk, hist, game'[s].run)
  BY <1>1, <1>3, <1>6 DEF Monitors, Working, Ends
<1>14. disk.ptr = {} /\ x.pc # "off"
  BY <1>1, <1>3, <1>6 DEF Monitors
<1> QED BY <1>1, <1>7, <1>9, <1>10, <1>11, <1>12, <1>13, <1>14, MonitorStep

\* The runtime is gone: the last upload, or the receipt of a mobile game first.
LEMMA EndedKeeps ==
    ASSUME Inv, NEW s \in Sessions, Ended(s)
    PROVE  Inv'
<1> DEFINE step == IF proc[s].kind = "mobile" THEN "ended" ELSE "begin"
           x == [proc[s] EXCEPT !.final = TRUE, !.pc = step]
<1>1. /\ proc[s].pc = "beat" /\ proc[s].pc # "off" /\ ~proc[s].alive
      /\ UNCHANGED <<server, disk, game, clock, hist>> /\ proc' = [proc EXCEPT ![s] = x]
  BY DEF Ended, Set
<1>2. proc[s] \in Slots /\ step \in {"ended", "begin"}
  BY ProcsAreNumbers DEF Inv, Typed
<1> HIDE DEF step
<1>3. /\ x \in Slots /\ x.pc = step /\ x.final = TRUE /\ x.rev = proc[s].rev
      /\ x.last = proc[s].last /\ x.src = proc[s].src /\ x.entry = proc[s].entry
      /\ x.alive = proc[s].alive /\ x.keep = proc[s].keep
  BY <1>2 DEF Slots, Steps
<1> HIDE DEF x
<1>4. Monitors(s, proc[s], server, disk, hist, game[s].run)
  BY <1>1, UnderWay
<1>5. Monitors(s, x, server, disk, hist, game[s].run)
  BY <1>1, <1>2, <1>3, <1>4 DEF Monitors, Working, Ends
<1>6. Entry(s, proc[s], server, disk)
  BY ProcsAreNumbers DEF Inv
<1>7. Entry(s, x, server, disk)
  BY <1>1, <1>2, <1>3, <1>6 DEF Entry, Working
<1>8. x.pc # "off"
  BY <1>2, <1>3
<1> QED BY <1>1, <1>3, <1>5, <1>7, <1>8, OnlyMonitor

\* The receipt of a clean exit matches the file.
LEMMA MobileAcceptedKeeps ==
    ASSUME Inv, NEW s \in Sessions, MobileAccepted(s)
    PROVE  Inv'
<1> DEFINE x == [proc[s] EXCEPT !.pc = "begin"]
<1>1. /\ proc[s].pc = "ended" /\ proc[s].pc # "off"
      /\ UNCHANGED <<server, disk, game, clock, hist>> /\ proc' = [proc EXCEPT ![s] = x]
  BY DEF MobileAccepted, Goto, Set
<1>2. proc[s] \in Slots
  BY ProcsAreNumbers DEF Inv, Typed
<1>3. /\ x \in Slots /\ x.pc = "begin" /\ x.final = proc[s].final /\ x.rev = proc[s].rev
      /\ x.last = proc[s].last /\ x.src = proc[s].src /\ x.entry = proc[s].entry
      /\ x.alive = proc[s].alive /\ x.keep = proc[s].keep
  BY <1>2 DEF Slots, Steps
<1> HIDE DEF x
<1>4. Monitors(s, proc[s], server, disk, hist, game[s].run)
  BY <1>1, UnderWay
<1>5. Monitors(s, x, server, disk, hist, game[s].run)
  BY <1>1, <1>3, <1>4 DEF Monitors, Working, Ends
<1>6. Entry(s, proc[s], server, disk)
  BY ProcsAreNumbers DEF Inv
<1>7. Entry(s, x, server, disk)
  BY <1>1, <1>3, <1>6 DEF Entry, Working
<1> QED BY <1>1, <1>3, <1>5, <1>7, OnlyMonitor

\* A monitor is gone, and the SAV of its game is with the server, recorded or cut short.
LEMMA MonitorGoes ==
    ASSUME Inv, NEW s \in Sessions, proc[s].pc # "off", Quit(s), UNCHANGED <<game, clock>>,
           server' \in Servers, disk' \in Disks, hist' \in Histories(clock), World',
           hist'.base = hist.base, hist'.newest = hist.newest, hist'.had = hist.had,
           hist.cut \subseteq hist'.cut,
           disk'.mark = disk.mark, disk'.create = disk.create,
           \A e \in disk'.ptr : e.src = s,
           game[s].run = "off",
           \/ s \in hist'.cut \/ hist.newest[s] \in hist.had
           \/ disk'.work[s] = hist.newest[s] /\ IsRecorded(s, disk')
    PROVE  Inv'
<1>1. /\ proc' \in [Procs -> Slots]
      /\ \A q \in Procs : q # s => proc'[q] = proc[q]
      /\ proc'[s].pc = "off" /\ proc'[s].entry = NoEntry
  BY Quits, ProcsAreNumbers DEF Inv
<1>2. Typed'
  BY <1>1 DEF Inv, Typed
<1>3. Entry(s, proc'[s], server', disk')
  BY <1>1 DEF Entry, Working
<1> QED BY <1>1, <1>2, <1>3, MonitorStep

\* write_save_recovery_pointer, by a monitor whose game is over.
LEMMA PreserveKeeps ==
    ASSUME Inv, NEW s \in Sessions, proc[s].pc \in {"beat", "ended", "unstaged"},
           game[s].run = "off", NEW next \in {"off", "stop"}, next = "stop" => proc[s].final,
           Preserve(s, next), UNCHANGED <<game, clock>>,
           server' \in Servers, server'.rev = server.rev, server'.body = server.body,
           server'.log = server.log
    PROVE  Inv'
<1>1. Monitors(s, proc[s], server, disk, hist, game[s].run) /\ proc[s].pc # "off"
  BY UnderWay
<1>2. /\ disk.work[s] = hist.newest[s] /\ hist.base[s] # 0 /\ s \notin disk.mark
      /\ disk.ptr = {} /\ (Staged => disk.env.src = s)
      /\ (~Staged => hist.foreign \/ proc[s].rev = server.rev) /\ proc[s].rev <= server.rev
  BY <1>1 DEF Monitors, Staged
<1>3. hist.newest[s] # 0
  BY <1>2 DEF Inv, World, Files
<1>4. proc[s] \in Slots /\ disk \in Disks /\ hist \in Histories(clock)
  BY ProcsAreNumbers DEF Inv, Typed
<1>5. /\ Stored(server', hist) /\ Envelope(server', disk, hist) /\ Pointer(server', disk, hist)
      /\ Files(disk, hist)
  BY LockMoves DEF Inv, World
<1> DEFINE e == [src |-> s, rev |-> proc[s].rev]
           ptr == IF Staged THEN disk.ptr ELSE {e}
           x == [proc[s] EXCEPT !.keep = TRUE, !.pc = "stop"]
<1>6. CASE /\ disk' = [disk EXCEPT !.ptr = ptr]
           /\ IF next = "stop" THEN Set(s, x) ELSE Quit(s)
           /\ UNCHANGED hist
  <2>1. e \in Pointers /\ e.src = s /\ e.rev = proc[s].rev
    BY <1>4 DEF Pointers, Slots
  <2>2. ptr \in SUBSET Pointers /\ \A f \in ptr : f = e
    BY <1>2, <2>1
  <2>3. IF Staged THEN ptr = {} ELSE ptr = {e}
    BY <1>2
  <2> HIDE DEF ptr, e
  <2>4. /\ disk' \in Disks /\ disk'.env = disk.env /\ disk'.ptr = ptr
        /\ disk'.work = disk.work /\ disk'.mark = disk.mark /\ disk'.create = disk.create
    BY <1>4, <1>6, <2>2 DEF Disks
  <2>5. IsRecorded(s, disk')
    BY <1>2, <2>1, <2>3, <2>4 DEF IsRecorded
  <2>6. Files(disk', hist)
    BY <1>2, <1>5, <2>1, <2>2, <2>4 DEF Files
  <2>7. Envelope(server', disk', hist)
    BY <1>5, <2>3, <2>4 DEF Envelope, Staged
  <2>8. Pointer(server', disk', hist)
    <3>1. SUFFICES ASSUME ~Staged
                   PROVE  Pointer(server', disk', hist)
      BY <2>3, <2>4 DEF Pointer
    <3> QED BY <1>2, <2>1, <2>3, <2>4, <3>1 DEF Pointer, Staged
  <2>9. World'
    BY <1>5, <1>6, <2>6, <2>7, <2>8 DEF World
  <2>10. \A f \in disk'.ptr : f.src = s
    BY <2>1, <2>2, <2>4
  <2>11. CASE next # "stop"
    BY <1>1, <1>2, <1>4, <1>6, <2>4, <2>5, <2>9, <2>10, <2>11, MonitorGoes
  <2>12. CASE next = "stop"
    <3>1. /\ x \in Slots /\ x.pc = "stop" /\ x.keep = TRUE /\ x.rev = proc[s].rev
          /\ x.last = proc[s].last /\ x.src = proc[s].src /\ x.entry = proc[s].entry
          /\ x.final = proc[s].final /\ x.alive = proc[s].alive
      BY <1>4 DEF Slots, Steps
    <3>2. proc' = [proc EXCEPT ![s] = x]
      BY <1>6, <2>12 DEF Set
    <3> HIDE DEF x
    <3>3. /\ proc' \in [Procs -> Slots] /\ proc'[s] = x
          /\ \A q \in Procs : q # s => proc'[q] = proc[q]
      BY <3>1, <3>2, Moves, ProcsAreNumbers DEF Inv
    <3>4. Typed'
      BY <1>4, <1>6, <2>4, <3>3 DEF Inv, Typed
    <3>5. Entry(s, x, server', disk')
      <4>1. Entry(s, proc[s], server, disk)
        BY ProcsAreNumbers DEF Inv
      <4> QED BY <3>1, <4>1 DEF Entry, Working
    <3>6. Monitors(s, x, server', disk', hist', game'[s].run)
      BY <1>1, <1>6, <2>4, <2>5, <2>10, <2>12, <3>1 DEF Monitors, Working, Ends
    <3>7. x.pc # "off"
      BY <3>1
    <3> QED BY <1>1, <1>6, <2>4, <2>9, <2>10, <3>3, <3>4, <3>5, <3>6, <3>7, MonitorStep
  <2> QED BY <2>11, <2>12
<1>7. CASE Quit(s) /\ hist' = [hist EXCEPT !.cut = @ \cup {s}] /\ UNCHANGED disk
  <2>1. /\ hist' \in Histories(clock) /\ hist'.base = hist.base /\ hist'.newest = hist.newest
        /\ hist'.had = hist.had /\ hist'.cut = hist.cut \cup {s} /\ hist'.foreign = hist.foreign
    BY <1>4, <1>7 DEF Histories
  <2>2. World'
    <3>1. Stored(server', hist') /\ Files(disk', hist')
      BY <1>5, <1>7, <2>1 DEF Stored, Counted, Files
    <3>2. Envelope(server', disk', hist')
      BY <1>5, <1>7, <2>1 DEF Envelope
    <3>3. Pointer(server', disk', hist')
      BY <1>2, <1>7 DEF Pointer
    <3> QED BY <3>1, <3>2, <3>3 DEF World
  <2> QED BY <1>1, <1>2, <1>4, <1>7, <2>1, <2>2, MonitorGoes
<1>8. disk.work[s] # NoFile
  BY <1>2, <1>3 DEF NoFile
<1>9. {f \in disk.ptr : f.src # s} = {}
  BY <1>2
<1> QED BY <1>6, <1>7, <1>8, <1>9 DEF Preserve

\* The runtime is gone and the heartbeat was lost.
LEMMA EndedLostKeeps ==
    ASSUME Inv, NEW s \in Sessions, EndedLost(s)
    PROVE  Inv'
<1>1. /\ proc[s].pc = "beat" /\ ~proc[s].alive /\ Preserve(s, "off")
      /\ UNCHANGED <<server, game, clock>>
  BY DEF EndedLost
<1>2. game[s].run = "off"
  BY <1>1, UnderWay DEF Monitors
<1>3. server \in Servers
  BY DEF Inv, Typed
<1> QED BY <1>1, <1>2, <1>3, PreserveKeeps

\* The result of a mobile game was rejected; the cancel may be lost.
LEMMA MobileRejectedKeeps ==
    ASSUME Inv, NEW s \in Sessions, MobileRejected(s)
    PROVE  Inv'
<1>1. /\ proc[s].pc = "ended" /\ Preserve(s, "off") /\ UNCHANGED <<game, clock>>
      /\ \/ server' = [server EXCEPT !.lock = IF @ = s THEN 0 ELSE @]
         \/ UNCHANGED server
  BY DEF MobileRejected
<1>2. game[s].run = "off"
  BY <1>1, UnderWay DEF Monitors, Ends
<1>3. /\ server' \in Servers /\ server'.rev = server.rev /\ server'.body = server.body
      /\ server'.log = server.log
  <2>1. server \in Servers /\ 0 \in Procs
    BY ProcsAreNumbers DEF Inv, Typed
  <2> QED BY <1>1, <2>1 DEF Servers
<1> QED BY <1>1, <1>2, <1>3, PreserveKeeps

\* The last upload could not be staged.
LEMMA UnstagedKeeps ==
    ASSUME Inv, NEW s \in Sessions, Unstaged(s)
    PROVE  Inv'
<1>1. /\ proc[s].pc = "unstaged" /\ Preserve(s, "stop")
      /\ UNCHANGED <<server, game, clock>>
  BY DEF Unstaged
<1>2. game[s].run = "off" /\ proc[s].final
  BY <1>1, UnderWay DEF Monitors, Ends
<1>3. server \in Servers
  BY DEF Inv, Typed
<1> QED BY <1>1, <1>2, <1>3, PreserveKeeps

\* The game is stopped, and what is reflected is removed.
LEMMA StopGameKeeps ==
    ASSUME Inv, NEW s \in Sessions, StopGame(s)
    PROVE  Inv'
<1>1. proc[s].pc = "stop" /\ proc[s].pc # "off" /\ Quit(s) /\ UNCHANGED <<game, clock, hist>>
  BY DEF StopGame
<1>2. Monitors(s, proc[s], server, disk, hist, game[s].run)
  BY <1>1, UnderWay
<1>3. /\ game[s].run = "off" /\ disk.work[s] = hist.newest[s] /\ hist.base[s] # 0
      /\ \A e \in disk.ptr : e.src = s
      /\ IF proc[s].keep THEN hist.newest[s] \in hist.had \/ IsRecorded(s, disk)
         ELSE hist.newest[s] \in hist.had /\ disk.env = NoEntry /\ disk.ptr = {}
  BY <1>1, <1>2 DEF Monitors, Ends
<1>4. server \in Servers /\ disk \in Disks /\ hist \in Histories(clock)
  BY DEF Inv, Typed
<1>5. CASE /\ server' = [server EXCEPT !.lock = 0]
           /\ disk' = [disk EXCEPT !.work[s] = IF proc[s].keep THEN @ ELSE NoFile]
  <2>1. /\ server' \in Servers /\ server'.rev = server.rev /\ server'.body = server.body
        /\ server'.log = server.log
    BY <1>4, <1>5, ProcsAreNumbers DEF Servers
  <2>2. /\ disk' \in Disks /\ disk'.env = disk.env /\ disk'.ptr = disk.ptr
        /\ disk'.mark = disk.mark /\ disk'.create = disk.create
        /\ disk'.work[s] = (IF proc[s].keep THEN disk.work[s] ELSE NoFile)
        /\ \A t \in Sessions : t # s => disk'.work[t] = disk.work[t]
    BY <1>4, <1>5, ClientSaveAssumption DEF Disks, NoFile
  <2>3. Stored(server', hist') /\ Envelope(server', disk, hist) /\ Pointer(server', disk, hist)
    BY <1>1, <2>1, LockMoves DEF Inv, World
  <2>4. Files(disk', hist')
    BY <1>1, <1>3, <2>2 DEF Inv, World, Files
  <2>5. Envelope(server', disk', hist') /\ Pointer(server', disk', hist')
    <3>1. CASE proc[s].keep
      <4>1. \A t \in Sessions : disk'.work[t] = disk.work[t]
        BY <2>2, <3>1
      <4>2. \A e \in disk.ptr : e.src \in Sessions
        BY <1>4 DEF Disks, Pointers
      <4> QED BY <1>1, <2>2, <2>3, <4>1, <4>2 DEF Envelope, Pointer
    <3>2. CASE ~proc[s].keep
      BY <1>3, <2>2, <3>2 DEF Envelope, Pointer
    <3> QED BY <3>1, <3>2
  <2>6. World'
    BY <2>3, <2>4, <2>5 DEF World
  <2>7. \/ hist.newest[s] \in hist.had
        \/ disk'.work[s] = hist.newest[s] /\ IsRecorded(s, disk')
    BY <1>3, <2>2 DEF IsRecorded
  <2> QED BY <1>1, <1>3, <1>4, <2>1, <2>2, <2>6, <2>7, MonitorGoes
<1>6. CASE UNCHANGED <<server, disk>>
  <2>1. World'
    BY <1>1, <1>6, WorldStays
  <2> QED BY <1>1, <1>3, <1>4, <1>6, <2>1, MonitorGoes
<1> QED BY <1>5, <1>6 DEF StopGame

\* complete_mobile_lifecycle asks again, or gives up.
LEMMA RetryCompleteKeeps ==
    ASSUME Inv, NEW s \in Sessions, RetryComplete(s)
    PROVE  Inv'
<1>1. /\ proc[s].pc = "stop" /\ proc[s].pc # "off"
      /\ UNCHANGED <<server, disk, game, clock, hist>>
  BY DEF RetryComplete
<1>2. Monitors(s, proc[s], server, disk, hist, game[s].run)
  BY <1>1, UnderWay
<1>3. proc[s] \in Slots /\ server \in Servers /\ disk \in Disks /\ hist \in Histories(clock)
  BY ProcsAreNumbers DEF Inv, Typed
<1>4. CASE Set(s, [proc[s] EXCEPT !.tries = @ + 1])
  <2> DEFINE tries == proc[s].tries + 1
             x == [proc[s] EXCEPT !.tries = tries]
  <2>1. tries \in Nat /\ proc' = [proc EXCEPT ![s] = x]
    BY <1>3, <1>4 DEF Slots, Set
  <2> HIDE DEF tries
  <2>2. /\ x \in Slots /\ x.pc = "stop" /\ x.keep = proc[s].keep /\ x.rev = proc[s].rev
        /\ x.last = proc[s].last /\ x.src = proc[s].src /\ x.entry = proc[s].entry
        /\ x.final = proc[s].final /\ x.alive = proc[s].alive
    BY <1>1, <1>3, <2>1 DEF Slots
  <2> HIDE DEF x
  <2>3. Monitors(s, x, server, disk, hist, game[s].run)
    BY <1>1, <1>2, <2>2 DEF Monitors, Working, Ends
  <2>4. Entry(s, proc[s], server, disk)
    BY ProcsAreNumbers DEF Inv
  <2>5. Entry(s, x, server, disk)
    BY <1>1, <2>2, <2>4 DEF Entry, Working
  <2> QED BY <1>1, <2>1, <2>2, <2>3, <2>5, OnlyMonitor
<1>5. CASE Quit(s)
  <2>1. World'
    BY <1>1, WorldStays
  <2>2. /\ game[s].run = "off" /\ disk.work[s] = hist.newest[s]
        /\ \A e \in disk.ptr : e.src = s
        /\ IF proc[s].keep THEN hist.newest[s] \in hist.had \/ IsRecorded(s, disk)
           ELSE hist.newest[s] \in hist.had
    BY <1>1, <1>2 DEF Monitors, Ends
  <2> QED BY <1>1, <1>3, <1>5, <2>1, <2>2, MonitorGoes
<1> QED BY <1>4, <1>5 DEF RetryComplete

\* A step of the monitor of a game.
LEMMA MonitorKeeps ==
    ASSUME Inv, NEW s \in Sessions, Monitor(s)
    PROVE  Inv'
<1>1. s \in Procs
  BY ProcsAreNumbers
<1> QED BY <1>1, BeginKeeps, SnapKeeps, PutKeeps, AnswerKeeps, CompareKeeps, PollKeeps, BeatKeeps,
           EndedLostKeeps, EndedKeeps, UnstagedKeeps, MobileAcceptedKeeps, MobileRejectedKeeps,
           StopGameKeeps, RetryCompleteKeeps DEF Monitor, Inflight
-----------------------------------------------------------------------------
(* The runtimes, the lease, another device, and crashes.                    *)

\* The runtime writes its battery file: a content nobody had.
LEMMA PlayKeeps ==
    ASSUME Inv, NEW s \in Sessions, Play(s)
    PROVE  Inv'
<1>1. /\ game[s].run # "off" /\ clock < MaxSnapshot /\ clock' = clock + 1
      /\ disk' = [disk EXCEPT !.work[s] = clock'] /\ hist' = [hist EXCEPT !.newest[s] = clock']
      /\ UNCHANGED <<server, game, proc>>
  BY DEF Play
<1>2. /\ server \in Servers /\ disk \in Disks /\ hist \in Histories(clock)
      /\ clock \in Nat /\ clock # 0 /\ MaxSnapshot \in Nat
  BY ClientSaveAssumption DEF Inv, Typed
<1>3. /\ proc[Client].pc = "idle" /\ \A t \in Sessions : t # s => Off(t)
      /\ hist.base[s] # 0 /\ s \notin disk.mark /\ \A e \in disk.ptr : e.src # s
      /\ proc[s].pc = "off" => s \in hist.cut
  BY <1>1 DEF Inv, Alone, Off
<1>4. clock' \in Nat /\ clock' # 0 /\ clock' \in 1..MaxSnapshot /\ clock < clock'
  BY <1>1, <1>2
<1>5. /\ disk' \in Disks /\ disk'.env = disk.env /\ disk'.ptr = disk.ptr
      /\ disk'.mark = disk.mark /\ disk'.create = disk.create /\ disk'.work[s] = clock'
      /\ \A t \in Sessions : t # s => disk'.work[t] = disk.work[t]
  BY <1>1, <1>2, <1>4 DEF Disks
<1>6. /\ hist' \in Histories(clock') /\ hist'.base = hist.base /\ hist'.had = hist.had
      /\ hist'.cut = hist.cut /\ hist'.foreign = hist.foreign /\ hist'.newest[s] = clock'
      /\ \A t \in Sessions : t # s => hist'.newest[t] = hist.newest[t]
  <2> DEFINE newest == [hist.newest EXCEPT ![s] = clock']
  <2>1. /\ newest \in [Sessions -> 0..clock'] /\ newest[s] = clock'
        /\ \A t \in Sessions : t # s => newest[t] = hist.newest[t]
    BY <1>2, <1>4 DEF Histories
  <2>2. hist.had \in SUBSET (1..clock')
    BY <1>2, <1>4 DEF Histories
  <2>3. hist' = [hist EXCEPT !.newest = newest]
    BY <1>1
  <2> HIDE DEF newest
  <2> QED BY <1>2, <2>1, <2>2, <2>3 DEF Histories
<1>7. clock' \notin hist.had /\ hist.newest[s] <= clock
  BY <1>2, <1>4 DEF Histories
<1>8. Typed'
  BY <1>1, <1>4, <1>5, <1>6 DEF Inv, Typed
<1>9. Stored(server', hist')
  BY <1>1, <1>6 DEF Inv, World, Stored, Counted
<1>10. Files(disk', hist')
  <2>1. Files(disk, hist)
    BY DEF Inv, World
  <2>2. \A t \in Sessions :
          IF hist'.base[t] # 0
          THEN hist'.newest[t] # 0 /\ disk'.work[t] \in {NoFile, hist'.newest[t]}
          ELSE /\ hist'.newest[t] = 0 /\ disk'.work[t] = NoFile /\ t \notin disk'.mark
               /\ \A e \in disk'.ptr : e.src # t
    BY <1>3, <1>4, <1>5, <1>6, <2>1 DEF Files
  <2>3. \A t \in disk'.mark : hist'.newest[t] \in hist'.had
    BY <1>2, <1>3, <1>5, <1>6, <2>1 DEF Files, Disks
  <2>4. disk'.create # 0 => hist'.base[disk'.create] = 0
    BY <1>5, <1>6, <2>1 DEF Files
  <2> QED BY <2>2, <2>3, <2>4 DEF Files
<1>11. Envelope(server', disk', hist')
  <2>1. SUFFICES ASSUME disk.env # NoEntry
                 PROVE  Envelope(server', disk', hist')
    BY <1>5 DEF Envelope
  <2>2. Envelope(server, disk, hist)
    BY DEF Inv, World
  <2>3. disk.env.src \in Sessions /\ disk.env.body \in Nat
    BY <1>2, <2>1, <2>2 DEF Envelope, Disks, Kept
  <2>4. CASE disk.env.src = s
    <3>1. disk.env.body <= clock'
      BY <1>2, <1>4, <1>7, <2>1, <2>2, <2>3, <2>4 DEF Envelope, Histories
    <3> QED BY <1>1, <1>5, <1>6, <1>7, <2>1, <2>2, <2>4, <3>1 DEF Envelope
  <2>5. CASE disk.env.src # s
    BY <1>1, <1>5, <1>6, <2>1, <2>2, <2>3, <2>5 DEF Envelope
  <2> QED BY <2>4, <2>5
<1>12. Pointer(server', disk', hist')
  <2>1. Pointer(server, disk, hist) /\ \A e \in disk.ptr : e.src \in Sessions /\ e.src # s
    BY <1>2, <1>3 DEF Inv, World, Disks, Pointers
  <2> QED BY <1>1, <1>5, <1>6, <2>1 DEF Pointer
<1>13. World'
  BY <1>9, <1>10, <1>11, <1>12 DEF World
<1>14. Numbered'
  BY <1>1, <1>5, <1>6 DEF Inv, Numbered, Started
<1>15. Alone'
  BY <1>1, <1>5, <1>6 DEF Inv, Alone, Off
<1>16. \A p \in Procs : Entry(p, proc'[p], server', disk')
  BY <1>1, <1>5 DEF Inv, Entry
<1>17. ASSUME NEW t \in Sessions, proc'[t].pc # "off"
       PROVE  Monitors(t, proc'[t], server', disk', hist', game'[t].run)
  <2>1. t = s /\ Monitors(s, proc[s], server, disk, hist, game[s].run)
    BY <1>1, <1>3, <1>17 DEF Inv, Off
  <2>2. proc[s].pc \notin Ends /\ ~proc[s].final /\ proc[s].alive
    BY <1>1, <2>1 DEF Monitors
  <2>3. hist'.newest[s] = clock' /\ clock' \notin hist.had
    BY <1>6, <1>7
  <2> QED BY <1>1, <1>5, <1>6, <2>1, <2>2, <2>3 DEF Monitors, Ends
<1>18. Knows(proc'[Client], server', disk', hist')
  BY <1>1, <1>3, <1>5 DEF Inv, Knows, Recovering, Working
<1>19. NewestIsKept'
  <2>1. ASSUME NEW t \in Sessions, Finished(t)' PROVE t # s /\ Finished(t)
    BY <1>1, <1>3, <1>6, <2>1 DEF Finished
  <2> QED BY <1>5, <1>6, <2>1 DEF Inv, NewestIsKept
<1> QED BY <1>8, <1>13, <1>14, <1>15, <1>16, <1>17, <1>18, <1>19 DEF Inv

\* The runtime is gone: no monitor's business yet.
LEMMA ExitKeeps ==
    ASSUME Inv, NEW s \in Sessions, Exit(s)
    PROVE  Inv'
<1>1. PICK clean \in BOOLEAN :
          /\ game[s].run # "off" /\ UNCHANGED <<server, disk, proc, clock, hist>>
          /\ game' = [game EXCEPT ![s].run = "off", ![s].clean = clean]
  BY DEF Exit
<1>2. /\ game' \in [Sessions -> Games] /\ game'[s].run = "off"
      /\ \A t \in Sessions : game'[t].kind = game[t].kind /\ (t # s => game'[t].run = game[t].run)
  BY <1>1 DEF Inv, Typed, Games
<1>3. Typed' /\ World'
  BY <1>1, <1>2, WorldStays DEF Inv, Typed
<1>4. Numbered'
  BY <1>1, <1>2 DEF Inv, Numbered, Started
<1>5. Alone'
  BY <1>1, <1>2 DEF Inv, Alone, Off
<1>6. \A p \in Procs : Entry(p, proc'[p], server', disk')
  BY <1>1 DEF Inv
<1>7. ASSUME NEW t \in Sessions, proc'[t].pc # "off"
      PROVE  Monitors(t, proc'[t], server', disk', hist', game'[t].run)
  BY <1>1, <1>2, <1>7 DEF Inv, Monitors
<1>8. Knows(proc'[Client], server', disk', hist')
  BY <1>1 DEF Inv
<1>9. NewestIsKept'
  <2>1. ASSUME NEW t \in Sessions, Finished(t)' PROVE Finished(t)
    BY <1>1, <1>2, <2>1 DEF Finished, Inv, Alone
  <2> QED BY <1>1, <2>1 DEF Inv, NewestIsKept
<1> QED BY <1>3, <1>4, <1>5, <1>6, <1>7, <1>8, <1>9 DEF Inv

\* The lease of a game runs out.
LEMMA ExpireKeeps ==
    ASSUME Inv, NEW s \in Sessions, Expire(s)
    PROVE  Inv'
<1>1. server' = [server EXCEPT !.lock = 0] /\ UNCHANGED <<disk, game, proc, clock, hist>>
  BY DEF Expire
<1>2. /\ server' \in Servers /\ server'.rev = server.rev /\ server'.body = server.body
      /\ server'.log = server.log
  BY <1>1, ProcsAreNumbers DEF Inv, Typed, Servers
<1>3. Typed'
  BY <1>1, <1>2 DEF Inv, Typed
<1>4. World'
  BY <1>1, <1>2, LockMoves DEF Inv, World
<1>5. Numbered' /\ Alone' /\ NewestIsKept'
  BY <1>1 DEF Inv, Numbered, Started, Alone, Off, NewestIsKept, Finished
<1>6. \A p \in Procs : Entry(p, proc'[p], server', disk')
  BY <1>1, <1>2 DEF Inv, Entry
<1>7. \A t \in Sessions : proc'[t].pc # "off" =>
          Monitors(t, proc'[t], server', disk', hist', game'[t].run)
  BY <1>1, <1>2 DEF Inv, Monitors
<1>8. Knows(proc'[Client], server', disk', hist')
  BY <1>1, <1>2 DEF Inv, Knows
<1> QED BY <1>3, <1>4, <1>5, <1>6, <1>7, <1>8 DEF Inv

\* Another device plays, and this one's revision is behind.
LEMMA OtherDeviceKeeps ==
    ASSUME Inv, OtherDevice
    PROVE  Inv'
<1>1. /\ clock < MaxSnapshot /\ clock' = clock + 1
      /\ server' = [server EXCEPT !.rev = @ + 1, !.body = clock']
      /\ hist' = [hist EXCEPT !.had = @ \cup {clock'}, !.foreign = TRUE]
      /\ UNCHANGED <<disk, game, proc>>
  BY DEF OtherDevice
<1>2. /\ server \in Servers /\ disk \in Disks /\ hist \in Histories(clock)
      /\ clock \in Nat /\ clock # 0 /\ MaxSnapshot \in Nat /\ server.rev \in Nat
  BY ClientSaveAssumption DEF Inv, Typed, Servers
<1>3. clock' \in Nat /\ clock' # 0 /\ clock' \in 1..MaxSnapshot /\ clock < clock'
  BY <1>1, <1>2
<1>4. /\ server' \in Servers /\ server'.rev = server.rev + 1 /\ server'.body = clock'
      /\ server'.log = server.log
  <2>1. server.rev + 1 \in Nat
    BY <1>2
  <2>2. server' = [rev |-> server.rev + 1, body |-> clock', lock |-> server.lock,
                   log |-> server.log]
    BY <1>1, <1>2 DEF Servers
  <2>3. server.lock \in Procs /\ server.log \in SUBSET Logged
    BY <1>2 DEF Servers
  <2> QED BY <1>3, <2>1, <2>2, <2>3 DEF Servers
<1>5. /\ hist' \in Histories(clock') /\ hist'.base = hist.base /\ hist'.newest = hist.newest
      /\ hist'.cut = hist.cut /\ hist'.foreign = TRUE /\ hist'.had = hist.had \cup {clock'}
  <2> DEFINE had == hist.had \cup {clock'}
  <2>1. had \in SUBSET (1..clock')
    BY <1>2, <1>3 DEF Histories
  <2>2. hist.newest \in [Sessions -> 0..clock']
    BY <1>2, <1>3 DEF Histories
  <2>3. hist' = [hist EXCEPT !.had = had, !.foreign = TRUE]
    BY <1>1
  <2> HIDE DEF had
  <2>4. /\ hist' \in Histories(clock') /\ hist'.base = hist.base /\ hist'.newest = hist.newest
        /\ hist'.cut = hist.cut /\ hist'.foreign = TRUE /\ hist'.had = had
    BY <1>2, <2>1, <2>2, <2>3 DEF Histories
  <2> QED BY <2>4 DEF had
<1>6. clock' \notin hist.had /\ \A t \in Sessions : hist.newest[t] # clock'
  BY <1>2, <1>3 DEF Histories
<1>7. Typed'
  BY <1>1, <1>3, <1>4, <1>5 DEF Inv, Typed
<1>8. Stored(server', hist')
  <2>1. Counted(server', hist')
    <3>1. /\ IsFiniteSet(hist.had) /\ Cardinality(hist.had) \in Nat
          /\ Cardinality(Recorded(server.log)) \in Nat
      BY <1>2, CountsAreNumbers DEF Inv, Histories
    <3>2. Cardinality(hist'.had) = Cardinality(hist.had) + 1
      BY <1>5, <1>6, <3>1, FS_AddElement
    <3> QED BY <1>2, <1>4, <3>1, <3>2 DEF Inv, World, Stored, Counted
  <2>2. \A e \in server.log : e.rev \in Nat /\ e.rev < server.rev /\ e.body \in hist.had
    BY <1>2 DEF Inv, World, Stored, Servers, Logged
  <2> QED BY <1>2, <1>4, <1>5, <2>1, <2>2 DEF Stored
<1>9. Files(disk', hist')
  BY <1>1, <1>5 DEF Inv, World, Files
<1>10. Envelope(server', disk', hist')
  <2>1. SUFFICES ASSUME disk.env # NoEntry
                 PROVE  Envelope(server', disk', hist')
    BY <1>1 DEF Envelope
  <2>2. Envelope(server, disk, hist)
    BY DEF Inv, World
  <2>3. /\ disk.env.src \in Sessions /\ disk.env.body \in Nat /\ disk.env.rev \in Nat
        /\ disk.env.committed \in Nat /\ disk.env.body <= hist.newest[disk.env.src]
        /\ hist.newest[disk.env.src] \in 0..clock
    BY <1>2, <2>1, <2>2 DEF Envelope, Disks, Kept, Histories
  <2>4. disk.env.body \notin hist.had => disk.env.body \notin hist'.had
    BY <1>2, <1>3, <1>5, <2>3
  <2> QED BY <1>1, <1>2, <1>4, <1>5, <1>6, <2>1, <2>2, <2>3, <2>4 DEF Envelope
<1>11. Pointer(server', disk', hist')
  <2>1. Pointer(server, disk, hist) /\ \A e \in disk.ptr : e.rev \in Nat
    BY <1>2 DEF Inv, World, Disks, Pointers
  <2>2. \A e \in disk.ptr : e.rev <= server.rev
    BY <2>1 DEF Pointer
  <2>3. \A e \in disk.ptr : e.rev <= server'.rev
    BY <1>2, <1>4, <2>1, <2>2
  <2> QED BY <1>1, <1>5, <2>1, <2>3 DEF Pointer
<1>12. World'
  BY <1>8, <1>9, <1>10, <1>11 DEF World
<1>13. Numbered' /\ Alone'
  BY <1>1, <1>5 DEF Inv, Numbered, Started, Alone, Off
<1>14. \A p \in Procs : Entry(p, proc'[p], server', disk')
  BY <1>1, <1>4 DEF Inv, Entry
<1>15. ASSUME NEW t \in Sessions, proc'[t].pc # "off"
       PROVE  Monitors(t, proc'[t], server', disk', hist', game'[t].run)
  <2>1. Monitors(t, proc[t], server, disk, hist, game[t].run)
    BY <1>1, <1>15 DEF Inv
  <2>2. proc[t].rev \in Nat
    BY <1>2, ProcsAreNumbers DEF Inv, Typed, Slots
  <2> QED BY <1>1, <1>2, <1>4, <1>5, <1>6, <2>1, <2>2 DEF Monitors
<1>16. Knows(proc'[Client], server', disk', hist')
  <2>1. proc[Client].rev \in Nat
    BY ProcsAreNumbers DEF Inv, Typed, Slots
  <2> QED BY <1>1, <1>2, <1>4, <1>5, <1>6, <2>1 DEF Inv, Knows
<1>17. NewestIsKept'
  BY <1>1, <1>5 DEF Inv, NewestIsKept, Finished
<1> QED BY <1>7, <1>12, <1>13, <1>14, <1>15, <1>16, <1>17 DEF Inv

\* Every process is gone; a game whose monitor was at work is cut short.
LEMMA AllGone ==
    ASSUME Inv,
           proc' = [p \in Procs |-> [Slot EXCEPT !.pc = IF p = Client THEN "idle" ELSE "off"]],
           hist' = [hist EXCEPT !.cut = @ \cup {s \in Sessions : proc[s].pc # "off"}],
           UNCHANGED <<server, disk, clock>>, game' \in [Sessions -> Games],
           \A s \in Sessions : /\ game'[s].kind = game[s].kind
                               /\ game'[s].run \in {"off", game[s].run}
    PROVE  Inv'
<1>1. /\ proc' \in [Procs -> Slots] /\ proc'[Client].pc = "idle"
      /\ \A s \in Sessions : proc'[s].pc = "off"
      /\ \A p \in Procs : proc'[p].entry = NoEntry
  <2>1. \A p \in Procs :
          LET x == [Slot EXCEPT !.pc = IF p = Client THEN "idle" ELSE "off"]
          IN  /\ x \in Slots /\ x.pc = (IF p = Client THEN "idle" ELSE "off")
              /\ x.entry = NoEntry
    <3>1. "idle" \in Steps /\ "off" \in Steps
      BY DEF Steps
    <3> QED BY <3>1, FreshIsSlot, SlotGoes
  <2> QED BY <2>1, ProcsAreNumbers
<1>2. /\ hist' \in Histories(clock) /\ hist'.base = hist.base /\ hist'.newest = hist.newest
      /\ hist'.had = hist.had /\ hist'.foreign = hist.foreign
      /\ hist'.cut = hist.cut \cup {s \in Sessions : proc[s].pc # "off"}
  BY DEF Inv, Typed, Histories
<1>3. Typed'
  BY <1>1, <1>2 DEF Inv, Typed
<1>4. World'
  BY <1>2 DEF Inv, World, Stored, Counted, Files, Envelope, Pointer
<1>5. Numbered'
  BY <1>1, <1>2 DEF Inv, Numbered, Started
<1>6. Alone'
  <2>1. \A s \in Sessions : ~Off(s)' => ~Off(s)
    BY <1>1 DEF Off
  <2>2. \A s \in Sessions : proc[s].pc # "off" => s \in hist'.cut
    BY <1>2
  <2>3. hist.cut \subseteq hist'.cut
    BY <1>2
  <2>4. \A s \in Sessions : proc'[s].pc = "off" /\ game'[s].run # "off" => s \in hist'.cut
    <3>1. SUFFICES ASSUME NEW s \in Sessions, game'[s].run # "off", proc[s].pc = "off"
                   PROVE  s \in hist.cut
      BY <2>2, <2>3
    <3> QED BY <3>1 DEF Inv, Alone
  <2>5. Alone
    BY DEF Inv
  <2>6. \A s, t \in Sessions : ~Off(s)' /\ ~Off(t)' => s = t
    BY <2>1, <2>5 DEF Alone
  <2>7. \A s \in Sessions :
          hist'.base[s] = 0 \/ s \in disk'.mark \/ (\E e \in disk'.ptr : e.src = s) =>
              game'[s].run = "off"
    BY <1>2, <2>5 DEF Alone
  <2> QED BY <1>1, <2>4, <2>6, <2>7 DEF Alone
<1>7. \A p \in Procs : Entry(p, proc'[p], server', disk')
  BY <1>1, ProcsAreNumbers DEF Entry, Working
<1>8. Knows(proc'[Client], server', disk', hist')
  BY <1>1 DEF Knows, Recovering, Working
<1>9. NewestIsKept'
  <2>1. ASSUME NEW t \in Sessions, Finished(t)' PROVE Finished(t)
    BY <1>1, <1>2, <2>1 DEF Finished, Inv, Alone
  <2> QED BY <1>2, <2>1 DEF Inv, NewestIsKept
<1> QED BY <1>1, <1>3, <1>4, <1>5, <1>6, <1>7, <1>8, <1>9 DEF Inv

\* The machine goes down.
LEMMA PowerLossKeeps ==
    ASSUME Inv, PowerLoss
    PROVE  Inv'
<1>1. /\ game' \in [Sessions -> Games]
      /\ \A s \in Sessions : game'[s].kind = game[s].kind /\ game'[s].run = "off"
  BY DEF PowerLoss, Inv, Typed, Games
<1> QED BY <1>1, AllGone DEF PowerLoss

\* The client process dies, with or without the monitors it started.
LEMMA ClientDiesKeeps ==
    ASSUME Inv, ClientDies
    PROVE  Inv'
<1>1. CASE /\ proc' = [p \in Procs |-> IF p = Client THEN [Slot EXCEPT !.pc = "idle"]
                                       ELSE [proc[p] EXCEPT !.own = FALSE]]
           /\ UNCHANGED hist
  <2>1. UNCHANGED <<server, disk, game, clock, hist>>
    BY <1>1 DEF ClientDies
  <2>2. proc \in [Procs -> Slots]
    BY DEF Inv, Typed
  <2>3. \A s \in Procs : s # Client => proc'[s] = [proc[s] EXCEPT !.own = FALSE]
    BY <1>1
  <2>4. proc'[Client] \in Slots /\ proc'[Client].pc = "idle" /\ proc'[Client].entry = NoEntry
    <3>1. "idle" \in Steps
      BY DEF Steps
    <3>2. proc'[Client] = [Slot EXCEPT !.pc = "idle"]
      BY <1>1, ProcsAreNumbers
    <3> QED BY <3>1, <3>2, FreshIsSlot, SlotGoes
  <2>5. ASSUME NEW s \in Sessions
        PROVE  /\ proc'[s] \in Slots /\ proc'[s].pc = proc[s].pc /\ proc'[s].rev = proc[s].rev
               /\ proc'[s].last = proc[s].last /\ proc'[s].src = proc[s].src
               /\ proc'[s].keep = proc[s].keep /\ proc'[s].exists = proc[s].exists
               /\ proc'[s].entry = proc[s].entry /\ proc'[s].answer = proc[s].answer
               /\ proc'[s].alive = proc[s].alive /\ proc'[s].final = proc[s].final
    <3>1. proc[s] \in Slots /\ proc'[s] = [proc[s] EXCEPT !.own = FALSE]
      BY <2>2, <2>3, ProcsAreNumbers
    <3> QED BY <3>1 DEF Slots
  <2>6. Typed'
    BY <1>1, <2>1, <2>4, <2>5, ProcsAreNumbers DEF Inv, Typed
  <2>7. World'
    BY <2>1, WorldStays
  <2>8. Numbered'
    BY <2>1, <2>4 DEF Inv, Numbered, Started
  <2>9. Alone' /\ NewestIsKept'
    BY <2>1, <2>4, <2>5 DEF Inv, Alone, Off, NewestIsKept, Finished
  <2>10. ASSUME NEW p \in Procs PROVE Entry(p, proc'[p], server', disk')
    <3>1. CASE p = Client
      BY <2>4, <3>1 DEF Entry, Working
    <3>2. CASE p \in Sessions
      BY <2>1, <2>5, <3>2 DEF Inv, Entry
    <3> QED BY <3>1, <3>2, ProcsAreNumbers
  <2>11. ASSUME NEW s \in Sessions, proc'[s].pc # "off"
         PROVE  Monitors(s, proc'[s], server', disk', hist', game'[s].run)
    BY <2>1, <2>5, <2>11 DEF Inv, Monitors
  <2>12. Knows(proc'[Client], server', disk', hist')
    BY <2>4 DEF Knows, Recovering, Working
  <2> QED BY <2>6, <2>7, <2>8, <2>9, <2>10, <2>11, <2>12 DEF Inv
<1>2. CASE /\ proc' = [p \in Procs |-> [Slot EXCEPT !.pc = IF p = Client THEN "idle" ELSE "off"]]
           /\ hist' = [hist EXCEPT !.cut = @ \cup {s \in Sessions : proc[s].pc # "off"}]
  <2>1. UNCHANGED <<server, disk, game, clock>> /\ game' \in [Sessions -> Games]
    BY DEF ClientDies, Inv, Typed
  <2> QED BY <1>2, <2>1, AllGone
<1> QED BY <1>1, <1>2 DEF ClientDies
-----------------------------------------------------------------------------
(* The launch of the client.                                                *)

\* A launch that began goes on only while no game runs.
LEMMA ClientAtWork ==
    ASSUME Inv, proc[Client].pc # "idle"
    PROVE  /\ \A s \in Sessions : Off(s)
           /\ proc[Client] \in Slots
           /\ Entry(Client, proc[Client], server, disk)
           /\ Knows(proc[Client], server, disk, hist)
BY ProcsAreNumbers DEF Inv, Alone, Typed

\* The disk without the working file of a game and without records.
LEMMA DiskWithout ==
    ASSUME disk \in Disks, NEW s \in Sessions,
           disk' = [disk EXCEPT !.work[s] = NoFile, !.ptr = {}]
    PROVE  /\ disk' \in Disks /\ disk'.env = disk.env /\ disk'.ptr = {} /\ disk'.work[s] = NoFile
           /\ \A t \in Sessions : t # s => disk'.work[t] = disk.work[t]
           /\ disk'.mark = disk.mark /\ disk'.create = disk.create
<1> DEFINE work == [disk.work EXCEPT ![s] = NoFile]
<1>1. /\ work \in [Sessions -> 0..MaxSnapshot] /\ work[s] = NoFile
      /\ \A t \in Sessions : t # s => work[t] = disk.work[t]
  BY ClientSaveAssumption DEF Disks, NoFile
<1>2. disk' = [disk EXCEPT !.work = work, !.ptr = {}]
  OBVIOUS
<1> HIDE DEF work
<1> QED BY <1>1, <1>2 DEF Disks

\* The working file of a game whose SAV the server has is dropped, with its record.
LEMMA FileDrops ==
    ASSUME Inv, \A t \in Sessions : Off(t), NEW s \in Sessions,
           hist.base[s] # 0, hist.newest[s] \in hist.had,
           disk.env = NoEntry, \A e \in disk.ptr : e.src = s,
           disk' \in Disks, disk'.env = NoEntry, disk'.ptr = {}, disk'.work[s] = NoFile,
           \A t \in Sessions : t # s => disk'.work[t] = disk.work[t],
           disk'.mark = disk.mark, disk'.create = disk.create,
           UNCHANGED <<server, game, clock, hist>>,
           NEW r \in Slots, proc' = [proc EXCEPT ![Client] = r], r.pc # "fetch",
           r.entry = NoEntry, r.pc \notin Working,
           Knows(r, server, disk', hist)
    PROVE  Inv'
<1>1. /\ proc' \in [Procs -> Slots] /\ proc'[Client] = r
      /\ \A q \in Procs : q # Client => proc'[q] = proc[q]
  BY Moves, ProcsAreNumbers DEF Inv
<1>2. Typed'
  BY <1>1 DEF Inv, Typed
<1>3. World'
  <2>1. Stored(server', hist')
    BY DEF Inv, World, Stored, Counted
  <2>2. Files(disk', hist')
    <3>1. Files(disk, hist)
      BY DEF Inv, World
    <3>2. \A t \in Sessions : disk'.work[t] \in {NoFile, disk.work[t]}
      OBVIOUS
    <3> QED BY <3>1, <3>2 DEF Files
  <2>3. Envelope(server', disk', hist') /\ Pointer(server', disk', hist')
    BY DEF Envelope, Pointer
  <2> QED BY <2>1, <2>2, <2>3 DEF World
<1>4. Numbered'
  BY <1>1 DEF Inv, Numbered, Started
<1>5. Entry(Client, proc'[Client], server', disk')
  BY <1>1 DEF Entry
<1>6. ASSUME NEW t \in Sessions, t \notin hist.cut, hist.base[t] # 0
      PROVE  hist.newest[t] \in hist.had
  <2>1. SUFFICES ASSUME hist.newest[t] \notin hist.had PROVE FALSE
    OBVIOUS
  <2>2. IsRecorded(t, disk) /\ t # s
    BY <1>6, <2>1, AtRest
  <2> QED BY <2>2, ProcsAreNumbers DEF IsRecorded, NoEntry
<1> QED BY <1>1, <1>2, <1>3, <1>4, <1>5, <1>6, ClientStep, ProcsAreNumbers

\* START: the recovery looks at what is on the disk.
LEMMA RecoverKeeps ==
    ASSUME Inv, OneGameAtATime, NEW kind \in Launches, Recover(kind)
    PROVE  Inv'
<1> DEFINE step == IF Staged THEN "begin" ELSE "records"
           x == [Slot EXCEPT !.kind = kind, !.todo = disk.ptr, !.src = disk.env.src, !.pc = step]
<1>1. /\ proc[Client].pc = "idle" /\ proc' = [proc EXCEPT ![Client] = x]
      /\ UNCHANGED <<server, disk, game, clock, hist>>
  BY DEF Recover, Set
<1>2. \A s \in Sessions : Off(s)
  BY DEF Recover, OneGameAtATime, Monitored, Off
<1>3. disk.ptr \in SUBSET Pointers /\ disk.env.src \in Procs
  BY DEF Inv, Typed, Disks, Kept
<1>4. step \in {"begin", "records"} /\ step \in Steps
  BY DEF Steps
<1>5. (step = "begin" <=> Staged)
  OBVIOUS
<1> HIDE DEF step
<1>6. /\ x \in Slots /\ x.pc = step /\ x.todo = disk.ptr /\ x.src = disk.env.src
      /\ x.entry = NoEntry
  BY <1>3, <1>4, FreshIsSlot DEF Slots
<1> HIDE DEF x
<1>7. Entry(Client, x, server, disk)
  BY <1>4, <1>6 DEF Entry, Working
<1>8. Knows(x, server, disk, hist)
  <2>1. CASE Staged
    <3>1. disk.ptr = {} /\ disk.env.src \in Sessions /\ hist.base[disk.env.src] # 0
      BY <2>1 DEF Staged, Inv, World, Envelope
    <3> QED BY <1>5, <1>6, <2>1, <3>1 DEF Knows, Recovering, Working, Staged
  <2>2. CASE ~Staged
    BY <1>4, <1>5, <1>6, <2>2 DEF Knows, Recovering, Working, Staged
  <2> QED BY <2>1, <2>2
<1>9. x.pc # "fetch"
  BY <1>4, <1>6
<1> QED BY <1>1, <1>2, <1>6, <1>7, <1>8, <1>9, OnlyClient

\* An envelope that is resolved leaves no working file behind.
LEMMA ReplayedKeeps ==
    ASSUME Inv, Replayed
    PROVE  Inv'
<1> DEFINE s == proc[Client].src
<1>1. proc[Client].pc = "replayed" /\ UNCHANGED <<server, game, clock, hist>>
  BY DEF Replayed
<1>2. /\ \A t \in Sessions : Off(t)
      /\ proc[Client] \in Slots /\ Knows(proc[Client], server, disk, hist)
  BY <1>1, ClientAtWork
<1>3. CASE Staged
  BY <1>1, <1>2, <1>3, ClientQuits DEF Replayed
<1>4. CASE ~Staged
  <2> DEFINE x == [Slot EXCEPT !.pc = "records", !.todo = disk.ptr, !.kind = proc[Client].kind]
  <2>1. /\ disk' = [disk EXCEPT !.work[s] = NoFile] /\ proc' = [proc EXCEPT ![Client] = x]
    BY <1>4 DEF Replayed, Set
  <2>2. /\ disk.ptr = {} /\ disk.env = NoEntry /\ s \in Sessions /\ hist.base[s] # 0
        /\ hist.newest[s] \in hist.had
    BY <1>1, <1>2, <1>4 DEF Knows, Recovering, Staged
  <2>3. disk \in Disks
    BY DEF Inv, Typed
  <2>4. /\ disk' \in Disks /\ disk'.env = NoEntry /\ disk'.ptr = {} /\ disk'.work[s] = NoFile
        /\ \A t \in Sessions : t # s => disk'.work[t] = disk.work[t]
        /\ disk'.mark = disk.mark /\ disk'.create = disk.create
    BY <2>1, <2>2, <2>3, ClientSaveAssumption DEF Disks, NoFile
  <2>5. x \in Slots /\ x.pc = "records" /\ x.todo = {} /\ x.entry = NoEntry
    BY <1>2, <2>2, <2>3, FreshIsSlot DEF Slots, Steps
  <2> HIDE DEF x, s
  <2>6. Knows(x, server, disk', hist)
    BY <2>4, <2>5 DEF Knows, Recovering, Working
  <2>7. x.pc # "fetch" /\ x.pc \notin Working
    BY <2>5 DEF Working
  <2> QED BY <1>1, <1>2, <2>1, <2>2, <2>4, <2>5, <2>6, <2>7, FileDrops
<1> QED BY <1>3, <1>4

\* The recovery record, of which there is one.
LEMMA OneRecord ==
    ASSUME Inv, NEW e \in disk.ptr
    PROVE  /\ e \in Pointers /\ e.src \in Sessions /\ e.rev \in Nat
           /\ e = [src |-> e.src, rev |-> e.rev]
           /\ disk.ptr = {e} /\ disk.env = NoEntry
           /\ hist.base[e.src] # 0 /\ hist.newest[e.src] # 0
           /\ e.rev <= server.rev
           /\ e.src \in disk.mark => hist.newest[e.src] \in hist.had
           /\ e.src \notin disk.mark =>
                /\ disk.work[e.src] = hist.newest[e.src]
                /\ \/ hist.foreign \/ e.rev = server.rev
                   \/ [id |-> e.src, rev |-> e.rev, body |-> hist.newest[e.src]] \in server.log
<1>1. e \in Pointers
  BY DEF Inv, Typed, Disks
<1>2. e.src \in Sessions /\ e.rev \in Nat /\ e = [src |-> e.src, rev |-> e.rev]
  BY <1>1 DEF Pointers
<1>3. hist.base[e.src] # 0 /\ hist.newest[e.src] # 0
  BY <1>2 DEF Inv, World, Files
<1>4. e.src \in disk.mark => hist.newest[e.src] \in hist.had
  BY DEF Inv, World, Files
<1> QED BY <1>1, <1>2, <1>3, <1>4 DEF Inv, World, Pointer

\* The records are gone through: done, left pending, or sent.
LEMMA RecordsKeeps ==
    ASSUME Inv, Records
    PROVE  Inv'
<1> DEFINE r == proc[Client]
<1>1. r.pc = "records" /\ UNCHANGED <<server, game, clock, hist>>
  BY DEF Records
<1>2. /\ \A t \in Sessions : Off(t)
      /\ r \in Slots /\ Knows(r, server, disk, hist) /\ Entry(Client, r, server, disk)
  BY <1>1, ClientAtWork
<1>3. r.entry = NoEntry /\ disk.env = NoEntry /\ r.todo \subseteq disk.ptr
      /\ (r.pending \/ r.todo = disk.ptr)
  BY <1>1, <1>2 DEF Entry, Working, Knows
<1>4. disk \in Disks
  BY DEF Inv, Typed
<1> HIDE DEF r
<1>5. CASE r.todo = {} /\ r.pending /\ Quit(Client) /\ UNCHANGED disk
  BY <1>1, <1>2, <1>5, ClientQuits
<1>6. CASE r.todo = {} /\ ~r.pending /\ Goto(Client, "lock") /\ UNCHANGED disk
  <2> DEFINE x == [r EXCEPT !.pc = "lock"]
  <2>1. proc' = [proc EXCEPT ![Client] = x]
    BY <1>6 DEF Goto, Set, r
  <2>2. x \in Slots /\ x.pc = "lock" /\ x.entry = NoEntry
    BY <1>2, <1>3, SlotGoes DEF Steps
  <2> HIDE DEF x
  <2>3. Entry(Client, x, server, disk)
    BY <2>2 DEF Entry, Working
  <2>4. Knows(x, server, disk, hist)
    BY <1>3, <1>6, <2>2 DEF Knows, Recovering, Working
  <2> QED BY <1>1, <1>2, <1>6, <2>1, <2>2, <2>3, <2>4, OnlyClient
<1>7. ASSUME NEW e \in r.todo, e.src \in disk.mark,
             disk' = [disk EXCEPT !.work[e.src] = NoFile, !.ptr = @ \ {e}],
             Set(Client, [r EXCEPT !.todo = @ \ {e}])
      PROVE  Inv'
  <2>1. /\ e.src \in Sessions /\ disk.ptr = {e} /\ hist.base[e.src] # 0
        /\ hist.newest[e.src] \in hist.had
    BY <1>3, <1>7, OneRecord
  <2> DEFINE x == [r EXCEPT !.todo = {}]
  <2>2. r.todo \ {e} = {} /\ disk.ptr \ {e} = {}
    BY <1>3, <2>1
  <2>3. proc' = [proc EXCEPT ![Client] = x]
    BY <1>2, <1>7, <2>2 DEF Set, Slots
  <2>4. disk' = [disk EXCEPT !.work[e.src] = NoFile, !.ptr = {}]
    BY <1>4, <1>7, <2>2 DEF Disks
  <2>5. /\ disk' \in Disks /\ disk'.env = NoEntry /\ disk'.ptr = {} /\ disk'.work[e.src] = NoFile
        /\ \A t \in Sessions : t # e.src => disk'.work[t] = disk.work[t]
        /\ disk'.mark = disk.mark /\ disk'.create = disk.create
    BY <1>3, <1>4, <2>1, <2>4, DiskWithout
  <2>6. x \in Slots /\ x.pc = "records" /\ x.todo = {} /\ x.entry = NoEntry
    BY <1>1, <1>2, <1>3 DEF Slots, r
  <2> HIDE DEF x
  <2>7. Knows(x, server, disk', hist)
    BY <2>5, <2>6 DEF Knows, Recovering, Working
  <2>8. x.pc # "fetch" /\ x.pc \notin Working
    BY <2>6 DEF Working
  <2>9. \A f \in disk.ptr : f.src = e.src
    BY <2>1
  <2> QED BY <1>1, <1>2, <1>3, <2>1, <2>3, <2>5, <2>6, <2>7, <2>8, <2>9, FileDrops
<1>8. ASSUME NEW e \in r.todo, UNCHANGED disk,
             Set(Client, [[r EXCEPT !.todo = @ \ {e}] EXCEPT !.pending = TRUE])
      PROVE  Inv'
  <2> DEFINE x == [[r EXCEPT !.todo = @ \ {e}] EXCEPT !.pending = TRUE]
  <2>1. proc' = [proc EXCEPT ![Client] = x]
    BY <1>8 DEF Set
  <2>2. x \in Slots /\ x.pc = "records" /\ x.todo \subseteq r.todo /\ x.pending = TRUE
        /\ x.entry = NoEntry
    BY <1>1, <1>2, <1>3 DEF Slots, r
  <2> HIDE DEF x
  <2>3. Entry(Client, x, server, disk)
    BY <2>2 DEF Entry, Working
  <2>4. Knows(x, server, disk, hist)
    BY <1>3, <2>2 DEF Knows, Recovering, Working
  <2>5. x.pc # "fetch"
    BY <2>2
  <2> QED BY <1>1, <1>2, <1>8, <2>1, <2>2, <2>3, <2>4, <2>5, OnlyClient
<1>9. ASSUME NEW e \in r.todo, e.src \notin disk.mark, UNCHANGED disk,
             Set(Client, [[r EXCEPT !.todo = @ \ {e}] EXCEPT !.pc = "record", !.src = e.src,
                              !.entry = [NoEntry EXCEPT !.rev = e.rev, !.src = e.src,
                                                        !.body = disk.work[e.src]]])
      PROVE  Inv'
  <2> DEFINE k == [NoEntry EXCEPT !.rev = e.rev, !.src = e.src, !.body = disk.work[e.src]]
             x == [[r EXCEPT !.todo = @ \ {e}] EXCEPT !.pc = "record", !.src = e.src, !.entry = k]
  <2>1. /\ e.src \in Sessions /\ disk.ptr = {e} /\ e.rev \in Nat
        /\ e = [src |-> e.src, rev |-> e.rev] /\ disk.work[e.src] = hist.newest[e.src]
    BY <1>3, <1>9, OneRecord
  <2>2. /\ k \in Kept /\ k.rev = e.rev /\ k.src = e.src /\ k.body = hist.newest[e.src]
        /\ k.committed = 0
    <3>1. disk.work[e.src] \in 0..MaxSnapshot
      BY <1>4, <2>1 DEF Disks
    <3> QED BY <2>1, <3>1, FreshIsSlot, ProcsAreNumbers DEF Kept, NoEntry
  <2>3. proc' = [proc EXCEPT ![Client] = x]
    BY <1>9 DEF Set
  <2> HIDE DEF k
  <2>4. x \in Slots /\ x.pc = "record" /\ x.todo = {} /\ x.src = e.src /\ x.entry = k
    <3>1. r.todo \ {e} = {}
      BY <1>3, <2>1
    <3>2. r.todo \ {e} \in SUBSET Pointers /\ e.src \in Procs
      BY <2>1, <3>1, ProcsAreNumbers
    <3> QED BY <1>2, <2>2, <3>1, <3>2 DEF Slots, Steps
  <2> HIDE DEF x
  <2>5. Entry(Client, x, server, disk)
    BY <2>4 DEF Entry, Working
  <2>6. Knows(x, server, disk, hist)
    BY <1>3, <1>9, <2>1, <2>2, <2>4 DEF Knows, Recovering, Working
  <2>7. x.pc # "fetch"
    BY <2>4
  <2> QED BY <1>1, <1>2, <1>9, <2>3, <2>4, <2>5, <2>6, <2>7, OnlyClient
<1> QED BY <1>5, <1>6, <1>7, <1>8, <1>9 DEF Records, r

\* The request of a record: not answered, answered from the log, or applied.
LEMMA RecordArrives ==
    ASSUME Inv, NEW e \in disk.ptr, e.src \notin disk.mark,
           Apply([game |-> 0, id |-> e.src, rev |-> e.rev, body |-> hist.newest[e.src]]),
           UNCHANGED <<disk, clock>>
    PROVE  /\ server' \in Servers /\ server.rev <= server'.rev
           /\ hist' \in Histories(clock) /\ hist'.base = hist.base /\ hist'.newest = hist.newest
           /\ hist'.cut = hist.cut /\ hist'.foreign = hist.foreign /\ hist.had \subseteq hist'.had
           /\ World'
           /\ LET answer == Verdict([game |-> 0, id |-> e.src, rev |-> e.rev,
                                     body |-> hist.newest[e.src]])
              IN  answer \in Nat /\ (answer # 0 => hist.newest[e.src] \in hist'.had)
<1> DEFINE body == hist.newest[e.src]
           q == [game |-> 0, id |-> e.src, rev |-> e.rev, body |-> body]
           line == [id |-> e.src, rev |-> e.rev, body |-> body]
<1>1. /\ server \in Servers /\ hist \in Histories(clock) /\ clock \in 1..MaxSnapshot
      /\ server.rev \in Nat
  BY DEF Inv, Typed, Servers
<1>2. /\ e.src \in Sessions /\ e.rev \in Nat /\ disk.ptr = {e} /\ disk.env = NoEntry
      /\ body # 0 /\ e.rev <= server.rev
      /\ hist.foreign \/ e.rev = server.rev \/ line \in server.log
      /\ disk.work[e.src] = body
  BY OneRecord
<1>3. body \in 1..clock /\ body \in 1..MaxSnapshot
  <2>1. body \in 0..clock
    BY <1>1, <1>2 DEF Histories
  <2> QED BY <1>1, <1>2, <2>1, ClientSaveAssumption
<1>4. Known(q) = {x \in server.log : x.id = e.src}
  BY <1>2, ProcsAreNumbers DEF Known
<1>5. /\ Verdict(q) \in {0, e.rev + 1}
      /\ Verdict(q) # 0 /\ Known(q) = {} => e.rev = server.rev
      /\ Verdict(q) # 0 /\ Known(q) # {} => line \in Known(q)
  BY DEF Verdict
<1>6. Apply(q)
  OBVIOUS
<1> HIDE DEF body
<1>7. line \in Logged
  <2>1. e.src \in Procs
    BY <1>2, ProcsAreNumbers
  <2>2. body \in 0..MaxSnapshot
    BY <1>3, ClientSaveAssumption
  <2> QED BY <1>2, <2>1, <2>2 DEF Logged
<1> HIDE DEF line
<1>8. CASE Verdict(q) # 0 /\ Known(q) = {}
  <2>1. /\ server' = [server EXCEPT !.rev = @ + 1, !.body = body, !.log = @ \cup {line}]
        /\ hist' = [hist EXCEPT !.had = @ \cup {body}]
    BY <1>6, <1>8 DEF Apply, line
  <2>2. e.src \notin Recorded(server.log) /\ e.rev = server.rev
    BY <1>4, <1>5, <1>8 DEF Recorded
  <2>3. /\ server' \in Servers /\ server'.rev = server.rev + 1 /\ server'.body = body
        /\ server'.log = server.log \cup {line}
    <3> DEFINE log == server.log \cup {line}
    <3>1. log \in SUBSET Logged
      BY <1>1, <1>7 DEF Servers
    <3>2. server' = [server EXCEPT !.rev = server.rev + 1, !.body = body, !.log = log]
      BY <2>1
    <3> HIDE DEF log
    <3>3. server' = [rev |-> server.rev + 1, body |-> body, lock |-> server.lock, log |-> log]
      BY <1>1, <3>2 DEF Servers
    <3>4. server.rev + 1 \in Nat /\ server.lock \in Procs
      BY <1>1 DEF Servers
    <3>5. /\ server' \in Servers /\ server'.rev = server.rev + 1 /\ server'.body = body
          /\ server'.log = log
      BY <1>3, <3>1, <3>3, <3>4 DEF Servers
    <3> QED BY <3>5 DEF log
  <2>4. /\ hist' \in Histories(clock) /\ hist'.base = hist.base /\ hist'.newest = hist.newest
        /\ hist'.cut = hist.cut /\ hist'.foreign = hist.foreign
        /\ hist'.had = hist.had \cup {body}
    BY <1>1, <1>3, <2>1 DEF Histories
  <2>5. Counted(server', hist')
    <3>1. Recorded(server'.log) = Recorded(server.log) \cup {e.src}
      <4>1. line.id = e.src
        BY DEF line
      <4> QED BY <1>2, <2>3, <4>1 DEF Recorded
    <3>2. /\ IsFiniteSet(hist.had) /\ Cardinality(hist.had) \in Nat
          /\ IsFiniteSet(Recorded(server.log)) /\ Cardinality(Recorded(server.log)) \in Nat
      BY <1>1, CountsAreNumbers DEF Inv, Histories
    <3>3. IsFiniteSet(hist'.had) /\ Cardinality(hist'.had) \in Nat
      BY <1>1, <2>4, CountsAreNumbers DEF Inv, Histories
    <3>4. Cardinality(hist.had) <= Cardinality(hist'.had)
      BY <2>4, <3>3, FS_Subset
    <3>5. Cardinality(Recorded(server'.log)) = Cardinality(Recorded(server.log)) + 1
      BY <2>2, <3>1, <3>2, FS_AddElement
    <3>6. Counted(server, hist)
      BY DEF Inv, World, Stored
    <3> QED BY <1>1, <2>3, <3>2, <3>3, <3>4, <3>5, <3>6 DEF Counted
  <2>6. Stored(server', hist')
    <3>1. \A x \in server.log : x.rev \in Nat /\ x.rev < server.rev /\ x.body \in hist.had
      BY <1>1 DEF Inv, World, Stored, Servers, Logged
    <3>2. line.rev = server.rev /\ line.body = body
      BY <2>2 DEF line
    <3> QED BY <1>1, <2>3, <2>4, <2>5, <3>1, <3>2 DEF Stored
  <2>7. Files(disk', hist')
    BY <2>4 DEF Inv, World, Files
  <2>8. Envelope(server', disk', hist')
    BY <1>2 DEF Envelope
  <2>9. Pointer(server', disk', hist')
    <3>1. e.rev <= server'.rev
      BY <1>1, <1>2, <2>3
    <3>2. [id |-> e.src, rev |-> e.rev, body |-> hist'.newest[e.src]] \in server'.log
      BY <2>3, <2>4 DEF line, body
    <3>3. disk'.work[e.src] = hist'.newest[e.src]
      BY <1>2, <2>4 DEF body
    <3> QED BY <1>2, <3>1, <3>2, <3>3 DEF Pointer
  <2>10. World'
    BY <2>6, <2>7, <2>8, <2>9 DEF World
  <2>11. Verdict(q) \in Nat /\ body \in hist'.had
    BY <1>2, <1>5, <2>4
  <2> QED BY <1>1, <2>3, <2>4, <2>10, <2>11 DEF body
<1>9. CASE ~(Verdict(q) # 0 /\ Known(q) = {})
  <2>1. UNCHANGED <<server, hist>>
    BY <1>6, <1>9 DEF Apply
  <2>2. World'
    BY <2>1, WorldStays
  <2>3. Verdict(q) # 0 => body \in hist.had
    <3>1. SUFFICES ASSUME Verdict(q) # 0 PROVE body \in hist.had
      OBVIOUS
    <3>2. line \in server.log
      BY <1>4, <1>5, <1>9, <3>1
    <3>3. line.body \in hist.had
      BY <3>2 DEF Inv, World, Stored
    <3> QED BY <3>3 DEF line
  <2>4. Verdict(q) \in Nat
    BY <1>2, <1>5
  <2> QED BY <1>1, <2>1, <2>2, <2>3, <2>4 DEF body
<1> QED BY <1>8, <1>9

\* replay_save_upload_outbox_line: the PUT of a record.
LEMMA RecordKeeps ==
    ASSUME Inv, Record
    PROVE  Inv'
<1> DEFINE r == proc[Client]
           s == r.src
           q == [game |-> 0, id |-> s, rev |-> r.entry.rev, body |-> hist.newest[s]]
<1>1. r.pc = "record" /\ UNCHANGED <<disk, game, clock>>
  BY DEF Record
<1>2. /\ \A t \in Sessions : Off(t)
      /\ r \in Slots /\ Knows(r, server, disk, hist) /\ Entry(Client, r, server, disk)
  BY <1>1, ClientAtWork
<1>3. /\ r.todo = {} /\ s \in Sessions /\ disk.ptr = {[src |-> s, rev |-> r.entry.rev]}
      /\ r.entry.committed = 0 /\ s \notin disk.mark /\ r.entry.body = hist.newest[s]
      /\ disk.env = NoEntry
  BY <1>1, <1>2 DEF Knows
<1>4. PICK answer \in {0, Verdict(q)} :
          /\ proc' = [proc EXCEPT ![Client] = [r EXCEPT !.answer = answer, !.pc = "mark"]]
          /\ Apply(q) \/ (UNCHANGED <<server, hist>> /\ answer = 0)
  BY <1>3 DEF Record, Upload, Set
<1>5. server \in Servers /\ hist \in Histories(clock) /\ server.rev \in Nat
  BY DEF Inv, Typed, Servers
<1>6. /\ server' \in Servers
      /\ hist' \in Histories(clock) /\ hist'.base = hist.base /\ hist'.newest = hist.newest
      /\ hist'.cut = hist.cut /\ hist.had \subseteq hist'.had
      /\ World'
      /\ answer \in Nat /\ (answer # 0 => hist.newest[s] \in hist'.had)
  <2>1. CASE Apply(q)
    <3> DEFINE e == [src |-> s, rev |-> r.entry.rev]
    <3>1. e \in disk.ptr /\ e.src = s /\ e.rev = r.entry.rev
      BY <1>3
    <3> HIDE DEF e, s, r
    <3>2. e.src \notin disk.mark
      BY <1>3, <3>1
    <3>3. Apply([game |-> 0, id |-> e.src, rev |-> e.rev, body |-> hist.newest[e.src]])
      BY <2>1, <3>1
    <3>4. Verdict(q) = Verdict([game |-> 0, id |-> e.src, rev |-> e.rev,
                                body |-> hist.newest[e.src]])
      BY <3>1
    <3> QED BY <1>1, <1>4, <3>1, <3>2, <3>3, <3>4, RecordArrives
  <2>2. CASE UNCHANGED <<server, hist>> /\ answer = 0
    BY <1>1, <1>5, <2>2, WorldStays
  <2> QED BY <1>4, <2>1, <2>2
<1> DEFINE x == [r EXCEPT !.answer = answer, !.pc = "mark"]
<1>7. /\ x \in Slots /\ x.pc = "mark" /\ x.answer = answer /\ x.entry = r.entry
      /\ x.todo = r.todo /\ x.src = s
  BY <1>2, <1>6 DEF Slots, Steps
<1>8. proc' = [proc EXCEPT ![Client] = x]
  BY <1>4
<1> HIDE DEF x, q
<1>9. /\ proc' \in [Procs -> Slots] /\ proc'[Client] = x
      /\ \A p \in Procs : p # Client => proc'[p] = proc[p]
  BY <1>7, <1>8, Moves, ProcsAreNumbers DEF Inv
<1>10. Typed'
  BY <1>1, <1>6, <1>9 DEF Inv, Typed
<1>11. Numbered'
  BY <1>1, <1>6, <1>7, <1>9 DEF Inv, Numbered, Started
<1>12. Entry(Client, x, server', disk')
  BY <1>7 DEF Entry, Working
<1>13. Knows(x, server', disk', hist')
  BY <1>1, <1>3, <1>6, <1>7 DEF Knows, Recovering, Working
<1>14. \A t \in Sessions : t \notin hist'.cut /\ hist'.base[t] # 0 =>
          \/ hist'.newest[t] \in hist'.had
          \/ disk'.work[t] = hist'.newest[t] /\ IsRecorded(t, disk')
  <2>1. \A t \in Sessions : IsRecorded(t, disk) => IsRecorded(t, disk')
    BY <1>1
  <2> QED BY <1>1, <1>2, <1>6, <2>1, AtRest
<1> QED BY <1>1, <1>2, <1>6, <1>9, <1>10, <1>11, <1>12, <1>13, <1>14, ClientStep, ProcsAreNumbers

\* complete_replayed_outbox_entry: the mark, then the working file with its record.
LEMMA MarkKeeps ==
    ASSUME Inv, Mark
    PROVE  Inv'
<1> DEFINE r == proc[Client]
           s == r.src
<1>1. r.pc = "mark" /\ UNCHANGED <<server, game, clock, hist>>
  BY DEF Mark
<1>2. /\ \A t \in Sessions : Off(t)
      /\ r \in Slots /\ Knows(r, server, disk, hist) /\ Entry(Client, r, server, disk)
  BY <1>1, ClientAtWork
<1>3. /\ r.todo = {} /\ s \in Sessions /\ disk.ptr = {[src |-> s, rev |-> r.entry.rev]}
      /\ disk.env = NoEntry
      /\ IF r.answer = 0 THEN s \notin disk.mark ELSE hist.newest[s] \in hist.had
  BY <1>1, <1>2 DEF Knows
<1>4. disk \in Disks /\ hist \in Histories(clock)
  BY DEF Inv, Typed
<1>5. hist.base[s] # 0 /\ \A e \in disk.ptr : e.src = s
  BY <1>3 DEF Inv, World, Files
<1> HIDE DEF r, s
<1>6. CASE r.answer = 0
  <2> DEFINE x == [r EXCEPT !.pending = TRUE, !.pc = "records", !.src = 0, !.entry = NoEntry]
  <2>1. proc' = [proc EXCEPT ![Client] = x] /\ UNCHANGED disk
    BY <1>6 DEF Mark, Set, r
  <2>2. /\ x \in Slots /\ x.pc = "records" /\ x.todo = {} /\ x.pending = TRUE
        /\ x.entry = NoEntry
    BY <1>2, <1>3, FreshIsSlot, ProcsAreNumbers DEF Slots, Steps
  <2> HIDE DEF x
  <2>3. Entry(Client, x, server, disk)
    BY <2>2 DEF Entry, Working
  <2>4. Knows(x, server, disk, hist)
    BY <1>3, <2>2 DEF Knows, Recovering, Working
  <2> QED BY <1>1, <1>2, <2>1, <2>2, <2>3, <2>4, OnlyClient
<1>7. CASE /\ r.answer # 0 /\ disk' = [disk EXCEPT !.mark = @ \cup {s}] /\ UNCHANGED proc
  <2> DEFINE mark == disk.mark \cup {s}
  <2>1. mark \in SUBSET Sessions
    BY <1>3, <1>4 DEF Disks
  <2>2. disk' = [disk EXCEPT !.mark = mark]
    BY <1>7
  <2> HIDE DEF mark
  <2>3. /\ disk' \in Disks /\ disk'.env = disk.env /\ disk'.ptr = disk.ptr
        /\ disk'.work = disk.work /\ disk'.mark = mark /\ disk'.create = disk.create
    BY <1>4, <2>1, <2>2 DEF Disks
  <2>4. Typed'
    BY <1>1, <1>7, <2>3 DEF Inv, Typed
  <2>5. World'
    <3>1. Stored(server', hist')
      BY <1>1 DEF Inv, World, Stored, Counted
    <3>2. Files(disk', hist')
      BY <1>1, <1>3, <1>5, <1>7, <2>3 DEF Inv, World, Files, mark
    <3>3. Envelope(server', disk', hist')
      BY <1>3, <2>3 DEF Envelope
    <3>4. Pointer(server', disk', hist')
      BY <1>1, <2>3 DEF Inv, World, Pointer, mark
    <3> QED BY <3>1, <3>2, <3>3, <3>4 DEF World
  <2>6. Numbered'
    BY <1>1, <1>7, <2>3 DEF Inv, Numbered, Started
  <2>7. Entry(Client, proc'[Client], server', disk')
    BY <1>1, <1>2, <1>7, <2>3 DEF Entry, Working, r
  <2>8. Knows(proc'[Client], server', disk', hist')
    BY <1>1, <1>2, <1>3, <1>7, <2>3 DEF Knows, Recovering, Working, r, s
  <2>9. \A t \in Sessions : t \notin hist.cut /\ hist.base[t] # 0 =>
            \/ hist.newest[t] \in hist.had
            \/ disk'.work[t] = hist.newest[t] /\ IsRecorded(t, disk')
    BY <1>2, <2>3, AtRest DEF IsRecorded
  <2> QED BY <1>1, <1>2, <1>7, <2>4, <2>5, <2>6, <2>7, <2>8, <2>9, ClientStep
<1>8. CASE /\ r.answer # 0
           /\ disk' = [disk EXCEPT !.work[s] = NoFile, !.ptr = {e \in @ : e.src # s}]
           /\ Set(Client, [r EXCEPT !.pc = "records", !.src = 0, !.answer = 0, !.entry = NoEntry])
  <2> DEFINE x == [r EXCEPT !.pc = "records", !.src = 0, !.answer = 0, !.entry = NoEntry]
  <2>1. {e \in disk.ptr : e.src # s} = {}
    BY <1>5
  <2>2. disk' = [disk EXCEPT !.work[s] = NoFile, !.ptr = {}]
    BY <1>4, <1>8, <2>1 DEF Disks
  <2>3. /\ disk' \in Disks /\ disk'.env = NoEntry /\ disk'.ptr = {} /\ disk'.work[s] = NoFile
        /\ \A t \in Sessions : t # s => disk'.work[t] = disk.work[t]
        /\ disk'.mark = disk.mark /\ disk'.create = disk.create
    BY <1>3, <1>4, <2>2, DiskWithout
  <2>4. proc' = [proc EXCEPT ![Client] = x]
    BY <1>8 DEF Set
  <2>5. x \in Slots /\ x.pc = "records" /\ x.todo = {} /\ x.entry = NoEntry
    BY <1>2, <1>3, FreshIsSlot, ProcsAreNumbers DEF Slots, Steps
  <2> HIDE DEF x
  <2>6. Knows(x, server, disk', hist)
    BY <2>3, <2>5 DEF Knows, Recovering, Working
  <2>7. x.pc # "fetch" /\ x.pc \notin Working
    BY <2>5 DEF Working
  <2> QED BY <1>1, <1>2, <1>3, <1>5, <1>8, <2>3, <2>4, <2>5, <2>6, <2>7, FileDrops
<1> QED BY <1>6, <1>7, <1>8 DEF Mark, r, s

\* Only the lock moves, and the client gives up.
LEMMA LockAndQuit ==
    ASSUME Inv, \A t \in Sessions : Off(t), Quit(Client),
           NEW lock \in Procs, server' = [server EXCEPT !.lock = lock],
           UNCHANGED <<disk, game, clock, hist>>
    PROVE  Inv'
<1>1. /\ proc' \in [Procs -> Slots]
      /\ \A q \in Procs : q # Client => proc'[q] = proc[q]
      /\ proc'[Client].pc = "idle" /\ proc'[Client].entry = NoEntry
  BY Quits, ProcsAreNumbers DEF Inv
<1>2. /\ server' \in Servers /\ server'.rev = server.rev /\ server'.body = server.body
      /\ server'.log = server.log
  BY DEF Inv, Typed, Servers
<1>3. Typed'
  BY <1>1, <1>2 DEF Inv, Typed
<1>4. World'
  BY <1>2, LockMoves DEF Inv, World
<1>5. Numbered'
  BY <1>1 DEF Inv, Numbered, Started
<1>6. Entry(Client, proc'[Client], server', disk')
  BY <1>1 DEF Entry, Working
<1>7. Knows(proc'[Client], server', disk', hist')
  BY <1>1 DEF Knows, Recovering, Working
<1>8. \A t \in Sessions : t \notin hist.cut /\ hist.base[t] # 0 =>
          \/ hist.newest[t] \in hist.had
          \/ disk.work[t] = hist.newest[t] /\ IsRecorded(t, disk)
  BY AtRest
<1> QED BY <1>1, <1>3, <1>4, <1>5, <1>6, <1>7, <1>8, ClientStep, ProcsAreNumbers

\* The next game: what is started is numbered without a gap.
LEMMA NextGame ==
    ASSUME Inv, Started # Sessions
    PROVE  LET s == Cardinality(Started) + 1 IN
           /\ s \in Sessions /\ s \notin Started /\ hist.base[s] = 0 /\ s # disk.create
           /\ \E n \in 0..MaxSession : Started \cup {s} = 1..n
<1>1. PICK n \in 0..MaxSession : Started = 1..n
  BY DEF Inv, Numbered
<1>2. n \in Nat /\ MaxSession \in Nat /\ n # MaxSession
  BY <1>1, ClientSaveAssumption DEF Sessions
<1>3. Cardinality(Started) = n
  BY <1>1, <1>2, FS_Interval
<1> DEFINE s == n + 1
<1>4. s \in 1..MaxSession /\ s \notin 1..n /\ s # 0 /\ s \in 0..MaxSession
  BY <1>1, <1>2
<1>5. 1..n \cup {s} = 1..s
  BY <1>2
<1>6. s \in Sessions /\ s \notin Started /\ Started \cup {s} = 1..s
  BY <1>1, <1>4, <1>5 DEF Sessions
<1> HIDE DEF s
<1>7. hist.base[s] = 0 /\ s # disk.create
  BY <1>4, <1>6 DEF Inv, Numbered
<1> QED BY <1>3, <1>4, <1>6, <1>7 DEF s

\* The lock of the next game; a mobile create whose answer is lost leaves its request.
LEMMA LockKeeps ==
    ASSUME Inv, Lock
    PROVE  Inv'
<1> DEFINE r == proc[Client]
           s == Cardinality(Started) + 1
<1>1. /\ r.pc = "lock" /\ UNCHANGED <<clock, hist>> /\ (r.kind = "mobile" => disk.create = 0)
  BY DEF Lock
<1>2. /\ \A t \in Sessions : Off(t)
      /\ r \in Slots /\ Knows(r, server, disk, hist) /\ Entry(Client, r, server, disk)
  BY <1>1, ClientAtWork
<1>3. /\ server \in Servers /\ disk \in Disks /\ hist \in Histories(clock)
      /\ game \in [Sessions -> Games]
  BY DEF Inv, Typed
<1>4. CASE Busy /\ Quit(Client) /\ UNCHANGED <<server, disk, game>>
  BY <1>1, <1>2, <1>4, ClientQuits
<1>5. CASE /\ ~Busy /\ server' = [server EXCEPT !.lock = s]
           /\ game' = [game EXCEPT ![s].kind = r.kind]
           /\ \/ /\ Set(Client, [r EXCEPT !.pc = "fetch", !.src = s])
                 /\ UNCHANGED disk
              \/ /\ disk' = [disk EXCEPT !.create = IF r.kind = "mobile" THEN s ELSE @]
                 /\ Quit(Client)
  <2>1. /\ s \in Sessions /\ s \notin Started /\ hist.base[s] = 0 /\ s # disk.create
        /\ \E n \in 0..MaxSession : Started \cup {s} = 1..n
    BY <1>5, NextGame DEF Busy
  <2>2. s \in Procs /\ r.kind \in Launches
    BY <1>2, <2>1, ProcsAreNumbers DEF Slots
  <2> HIDE DEF s, r
  <2>3. /\ server' \in Servers /\ server'.rev = server.rev /\ server'.body = server.body
        /\ server'.log = server.log
    BY <1>3, <1>5, <2>2 DEF Servers
  <2>4. /\ game' \in [Sessions -> Games] /\ game'[s].kind = r.kind
        /\ \A t \in Sessions : game'[t].run = game[t].run
        /\ \A t \in Sessions : t # s => game'[t].kind = game[t].kind
    BY <1>3, <1>5, <2>1, <2>2 DEF Games
  <2>5. Started' = Started \cup {s}
    BY <2>1, <2>2, <2>4 DEF Started, Launches
  <2>6. \E step \in {"fetch", "idle"} :
          /\ proc' \in [Procs -> Slots] /\ proc'[Client].pc = step
          /\ proc'[Client].entry = NoEntry
          /\ \A t \in Sessions : proc'[t] = proc[t]
          /\ step = "fetch" => proc'[Client].src = s /\ disk' = disk
          /\ step = "idle" => disk' = [disk EXCEPT !.create = IF r.kind = "mobile" THEN s ELSE @]
    <3>1. CASE Set(Client, [r EXCEPT !.pc = "fetch", !.src = s]) /\ UNCHANGED disk
      <4> DEFINE x == [r EXCEPT !.pc = "fetch", !.src = s]
      <4>1. proc' = [proc EXCEPT ![Client] = x]
        BY <3>1 DEF Set
      <4>2. r.entry = NoEntry
        BY <1>1, <1>2 DEF Entry, Working
      <4>3. x \in Slots /\ x.pc = "fetch" /\ x.src = s /\ x.entry = NoEntry
        BY <1>2, <2>2, <4>2 DEF Slots, Steps
      <4> HIDE DEF x
      <4>4. /\ proc' \in [Procs -> Slots] /\ proc'[Client] = x
            /\ \A q \in Procs : q # Client => proc'[q] = proc[q]
        BY <4>1, <4>3, Moves, ProcsAreNumbers DEF Inv
      <4> QED BY <3>1, <4>3, <4>4, ProcsAreNumbers
    <3>2. CASE Quit(Client) /\ disk' = [disk EXCEPT !.create = IF r.kind = "mobile" THEN s ELSE @]
      <4>1. /\ proc' \in [Procs -> Slots]
            /\ \A q \in Procs : q # Client => proc'[q] = proc[q]
            /\ proc'[Client].pc = "idle" /\ proc'[Client].entry = NoEntry
        BY <3>2, Quits, ProcsAreNumbers DEF Inv
      <4> QED BY <3>2, <4>1, ProcsAreNumbers
    <3> QED BY <1>5, <3>1, <3>2
  <2>7. PICK step \in {"fetch", "idle"} :
          /\ proc' \in [Procs -> Slots] /\ proc'[Client].pc = step
          /\ proc'[Client].entry = NoEntry
          /\ \A t \in Sessions : proc'[t] = proc[t]
          /\ step = "fetch" => proc'[Client].src = s /\ disk' = disk
          /\ step = "idle" => disk' = [disk EXCEPT !.create = IF r.kind = "mobile" THEN s ELSE @]
    BY <2>6
  <2>8. /\ disk' \in Disks /\ disk'.env = disk.env /\ disk'.ptr = disk.ptr
        /\ disk'.work = disk.work /\ disk'.mark = disk.mark /\ disk'.create \in {disk.create, s}
        /\ step = "fetch" => disk'.create = disk.create
    BY <1>3, <2>2, <2>7 DEF Disks
  <2>9. Typed'
    BY <1>1, <2>3, <2>4, <2>7, <2>8 DEF Inv, Typed
  <2>10. World'
    <3>1. Stored(server', hist') /\ Envelope(server', disk, hist) /\ Pointer(server', disk, hist)
      BY <1>1, <2>3, LockMoves DEF Inv, World
    <3>2. Files(disk', hist')
      BY <1>1, <2>1, <2>8 DEF Inv, World, Files
    <3>3. Envelope(server', disk', hist') /\ Pointer(server', disk', hist')
      BY <1>1, <2>8, <3>1 DEF Envelope, Pointer
    <3> QED BY <3>1, <3>2, <3>3 DEF World
  <2>11. Numbered'
    BY <1>1, <2>1, <2>5, <2>7, <2>8 DEF Inv, Numbered
  <2>12. Entry(Client, proc'[Client], server', disk')
    BY <2>7 DEF Entry, Working
  <2>13. Knows(proc'[Client], server', disk', hist')
    BY <1>1, <2>1, <2>7, <2>8 DEF Knows, Recovering, Working
  <2>14. \A t \in Sessions : t \notin hist.cut /\ hist.base[t] # 0 =>
            \/ hist.newest[t] \in hist.had
            \/ disk'.work[t] = hist.newest[t] /\ IsRecorded(t, disk')
    BY <1>2, <2>8, AtRest DEF IsRecorded
  <2> QED BY <1>1, <1>2, <2>4, <2>7, <2>9, <2>10, <2>11, <2>12, <2>13, <2>14, ClientStep
<1> QED BY <1>4, <1>5 DEF Lock

\* A mobile create is asked again under its id.
LEMMA CreateAgainKeeps ==
    ASSUME Inv, CreateAgain
    PROVE  Inv'
<1> DEFINE r == proc[Client]
           c == disk.create
<1>1. /\ r.pc = "lock" /\ c # 0 /\ disk' = [disk EXCEPT !.create = 0]
      /\ UNCHANGED <<server, game, clock, hist>>
      /\ Set(Client, [r EXCEPT !.src = c, !.pc = "fetch"]) \/ Quit(Client)
  BY DEF CreateAgain
<1>2. /\ \A t \in Sessions : Off(t)
      /\ r \in Slots /\ Knows(r, server, disk, hist) /\ Entry(Client, r, server, disk)
  BY <1>1, ClientAtWork
<1>3. disk \in Disks /\ c \in Started /\ c \in Sessions /\ c \in Procs /\ hist.base[c] = 0
  BY <1>1, ProcsAreNumbers DEF Inv, Typed, Numbered, World, Files, Started
<1> HIDE DEF r
<1>4. /\ disk' \in Disks /\ disk'.env = disk.env /\ disk'.ptr = disk.ptr
      /\ disk'.work = disk.work /\ disk'.mark = disk.mark /\ disk'.create = 0
  BY <1>1, <1>3, ProcsAreNumbers DEF Disks
<1>5. \E step \in {"fetch", "idle"} :
        /\ proc' \in [Procs -> Slots] /\ proc'[Client].pc = step
        /\ proc'[Client].entry = NoEntry
        /\ \A t \in Sessions : proc'[t] = proc[t]
        /\ step = "fetch" => proc'[Client].src = c
  <2>1. CASE Set(Client, [r EXCEPT !.src = c, !.pc = "fetch"])
    <3> DEFINE x == [r EXCEPT !.src = c, !.pc = "fetch"]
    <3>1. proc' = [proc EXCEPT ![Client] = x]
      BY <2>1 DEF Set
    <3>2. r.entry = NoEntry
      BY <1>1, <1>2 DEF Entry, Working
    <3>3. x \in Slots /\ x.pc = "fetch" /\ x.src = c /\ x.entry = NoEntry
      BY <1>2, <1>3, <3>2 DEF Slots, Steps
    <3> HIDE DEF x
    <3>4. /\ proc' \in [Procs -> Slots] /\ proc'[Client] = x
          /\ \A q \in Procs : q # Client => proc'[q] = proc[q]
      BY <3>1, <3>3, Moves, ProcsAreNumbers DEF Inv
    <3> QED BY <3>3, <3>4, ProcsAreNumbers
  <2>2. CASE Quit(Client)
    <3>1. /\ proc' \in [Procs -> Slots]
          /\ \A q \in Procs : q # Client => proc'[q] = proc[q]
          /\ proc'[Client].pc = "idle" /\ proc'[Client].entry = NoEntry
      BY <2>2, Quits, ProcsAreNumbers DEF Inv
    <3> QED BY <3>1, ProcsAreNumbers
  <2> QED BY <1>1, <2>1, <2>2
<1>6. PICK step \in {"fetch", "idle"} :
        /\ proc' \in [Procs -> Slots] /\ proc'[Client].pc = step
        /\ proc'[Client].entry = NoEntry
        /\ \A t \in Sessions : proc'[t] = proc[t]
        /\ step = "fetch" => proc'[Client].src = c
  BY <1>5
<1>7. Typed'
  BY <1>1, <1>4, <1>6 DEF Inv, Typed
<1>8. World'
  BY <1>1, <1>4 DEF Inv, World, Stored, Counted, Files, Envelope, Pointer
<1>9. Numbered'
  BY <1>1, <1>3, <1>4, <1>6 DEF Inv, Numbered, Started
<1>10. Entry(Client, proc'[Client], server', disk')
  BY <1>6 DEF Entry, Working
<1>11. Knows(proc'[Client], server', disk', hist')
  BY <1>1, <1>3, <1>4, <1>6 DEF Knows, Recovering, Working
<1>12. \A t \in Sessions : t \notin hist.cut /\ hist.base[t] # 0 =>
          \/ hist.newest[t] \in hist.had
          \/ disk'.work[t] = hist.newest[t] /\ IsRecorded(t, disk')
  BY <1>2, <1>4, AtRest DEF IsRecorded
<1> QED BY <1>1, <1>2, <1>6, <1>7, <1>8, <1>9, <1>10, <1>11, <1>12, ClientStep

\* The game starts from what the server has, and only when nothing waits in the outbox.
LEMMA FetchKeeps ==
    ASSUME Inv, Fetch
    PROVE  Inv'
<1> DEFINE r == proc[Client]
           s == r.src
<1>1. r.pc = "fetch" /\ UNCHANGED <<game, clock>>
  BY DEF Fetch
<1>2. /\ \A t \in Sessions : Off(t)
      /\ r \in Slots /\ Knows(r, server, disk, hist) /\ Entry(Client, r, server, disk)
  BY <1>1, ClientAtWork
<1>3. /\ s \in Sessions /\ hist.base[s] = 0 /\ s # disk.create /\ s \in Started
  BY <1>1, <1>2 DEF Knows, Inv, Numbered
<1>4. /\ server \in Servers /\ disk \in Disks /\ hist \in Histories(clock) /\ clock \in 1..MaxSnapshot
  BY DEF Inv, Typed
<1>5. s \notin disk.mark /\ disk.work[s] = NoFile
  BY <1>3 DEF Inv, World, Files
<1>6. CASE /\ ~Staged /\ disk.ptr = {}
           /\ disk' = [disk EXCEPT !.work[s] = server.body]
           /\ hist' = [hist EXCEPT !.base[s] = server.body, !.newest[s] = server.body]
           /\ Set(Client, [r EXCEPT !.rev = server.rev, !.last = server.body, !.pc = "spawn"])
           /\ UNCHANGED server
  <2> DEFINE b == server.body
             x == [r EXCEPT !.rev = server.rev, !.last = b, !.pc = "spawn"]
  <2>1. /\ b \in hist.had /\ b \in 1..clock /\ b \in 1..MaxSnapshot /\ b # 0
        /\ server.rev \in Nat /\ server.rev # 0
    BY <1>4, ClientSaveAssumption DEF Inv, World, Stored, Servers, Histories
  <2>2. b \in 0..MaxSnapshot /\ b \in 0..clock
    BY <1>4, <2>1, ClientSaveAssumption
  <2>3. r.entry = NoEntry /\ disk.env = NoEntry
    BY <1>1, <1>2, <1>6 DEF Entry, Working, Staged
  <2>4. proc' = [proc EXCEPT ![Client] = x]
    BY <1>6 DEF Set
  <2>5. /\ disk' = [disk EXCEPT !.work[s] = b]
        /\ hist' = [hist EXCEPT !.base[s] = b, !.newest[s] = b]
    BY <1>6
  <2> HIDE DEF b, s, r
  <2>6. /\ x \in Slots /\ x.pc = "spawn" /\ x.rev = server.rev /\ x.last = b /\ x.src = s
        /\ x.entry = NoEntry
    BY <1>2, <2>1, <2>2, <2>3 DEF Slots, Steps, s
  <2> HIDE DEF x
  <2>7. /\ proc' \in [Procs -> Slots] /\ proc'[Client] = x
        /\ \A q \in Procs : q # Client => proc'[q] = proc[q]
    BY <2>4, <2>6, Moves, ProcsAreNumbers DEF Inv
  <2>8. /\ disk' \in Disks /\ disk'.env = NoEntry /\ disk'.ptr = {} /\ disk'.work[s] = b
        /\ \A t \in Sessions : t # s => disk'.work[t] = disk.work[t]
        /\ disk'.mark = disk.mark /\ disk'.create = disk.create
    BY <1>3, <1>4, <1>6, <2>2, <2>3, <2>5 DEF Disks
  <2>9. /\ hist' \in Histories(clock) /\ hist'.base[s] = b /\ hist'.newest[s] = b
        /\ \A t \in Sessions : t # s => hist'.base[t] = hist.base[t]
                                        /\ hist'.newest[t] = hist.newest[t]
        /\ hist'.had = hist.had /\ hist'.cut = hist.cut /\ hist'.foreign = hist.foreign
    <3> DEFINE base == [hist.base EXCEPT ![s] = b]
               newest == [hist.newest EXCEPT ![s] = b]
    <3>1. /\ base \in [Sessions -> 0..MaxSnapshot] /\ newest \in [Sessions -> 0..clock]
          /\ base[s] = b /\ newest[s] = b
          /\ \A t \in Sessions : t # s => base[t] = hist.base[t] /\ newest[t] = hist.newest[t]
      BY <1>3, <1>4, <2>2 DEF Histories
    <3>2. hist' = [hist EXCEPT !.base = base, !.newest = newest]
      BY <1>4, <2>5 DEF Histories
    <3> HIDE DEF base, newest
    <3> QED BY <1>4, <3>1, <3>2 DEF Histories
  <2>10. Typed'
    BY <1>1, <1>6, <2>7, <2>8, <2>9 DEF Inv, Typed
  <2>11. World'
    <3>1. Stored(server', hist')
      BY <1>6, <2>9 DEF Inv, World, Stored, Counted
    <3>2. Files(disk', hist')
      <4>1. Files(disk, hist)
        BY DEF Inv, World
      <4>2. \A t \in Sessions :
              IF hist'.base[t] # 0
              THEN hist'.newest[t] # 0 /\ disk'.work[t] \in {NoFile, hist'.newest[t]}
              ELSE /\ hist'.newest[t] = 0 /\ disk'.work[t] = NoFile /\ t \notin disk'.mark
                   /\ \A e \in disk'.ptr : e.src # t
        BY <1>6, <2>1, <2>8, <2>9, <4>1 DEF Files
      <4>3. \A t \in disk'.mark : hist'.newest[t] \in hist'.had
        BY <1>4, <1>5, <2>8, <2>9, <4>1 DEF Files, Disks
      <4>4. disk'.create # 0 => hist'.base[disk'.create] = 0
        <5>1. disk.create # 0 => disk.create \in Sessions
          BY DEF Inv, Numbered, Started
        <5> QED BY <1>3, <2>8, <2>9, <4>1, <5>1 DEF Files
      <4> QED BY <4>2, <4>3, <4>4 DEF Files
    <3>3. Envelope(server', disk', hist') /\ Pointer(server', disk', hist')
      BY <2>8 DEF Envelope, Pointer
    <3> QED BY <3>1, <3>2, <3>3 DEF World
  <2>12. Numbered'
    <3>1. Started' = Started
      BY <1>1 DEF Started
    <3>2. \A t \in Sessions : hist'.base[t] # 0 => t \in Started
      BY <1>3, <2>9 DEF Inv, Numbered
    <3> QED BY <2>6, <2>7, <2>8, <3>1, <3>2 DEF Inv, Numbered
  <2>13. Entry(Client, x, server', disk')
    BY <2>6 DEF Entry, Working
  <2>14. Knows(x, server', disk', hist')
    <3>1. server.rev <= server.rev
      BY <2>1
    <3> QED BY <1>3, <1>5, <1>6, <2>1, <2>6, <2>8, <2>9, <3>1 DEF Knows, Recovering, Working
  <2>15. ASSUME NEW t \in Sessions, t \notin hist'.cut, hist'.base[t] # 0
         PROVE  hist'.newest[t] \in hist'.had
    <3>1. CASE t = s
      BY <2>1, <2>9, <3>1
    <3>2. CASE t # s
      <4>1. SUFFICES ASSUME hist.newest[t] \notin hist.had PROVE FALSE
        BY <2>9, <3>2
      <4>2. IsRecorded(t, disk)
        BY <1>2, <2>9, <2>15, <3>2, <4>1, AtRest
      <4> QED BY <1>6, <2>3, <4>2, ProcsAreNumbers DEF IsRecorded, NoEntry
    <3> QED BY <3>1, <3>2
  <2>16. \A t \in Sessions : proc'[t] = proc[t] /\ game'[t].run = game[t].run
    BY <1>1, <2>7, ProcsAreNumbers
  <2> QED BY <1>2, <2>7, <2>9, <2>10, <2>11, <2>12, <2>13, <2>14, <2>15, <2>16, ClientStep
<1>7. CASE /\ server' = [server EXCEPT !.lock = IF @ = s THEN 0 ELSE @]
           /\ Quit(Client) /\ UNCHANGED <<disk, hist>>
  <2> DEFINE lock == IF server.lock = s THEN 0 ELSE server.lock
  <2>1. lock \in Procs
    BY <1>4, ProcsAreNumbers DEF Servers
  <2>2. server' = [server EXCEPT !.lock = lock]
    BY <1>7
  <2> HIDE DEF lock
  <2> QED BY <1>1, <1>2, <1>7, <2>1, <2>2, LockAndQuit
<1> QED BY <1>6, <1>7 DEF Fetch

\* The monitor is forked with the slot of the launch, and forks the runtime.
LEMMA SpawnKeeps ==
    ASSUME Inv, Spawn
    PROVE  Inv'
<1> DEFINE r == proc[Client]
           s == r.src
           x == [Slot EXCEPT !.pc = "poll", !.kind = r.kind, !.rev = r.rev, !.last = r.last, !.src = s]
           y == [Slot EXCEPT !.pc = "idle"]
<1>1. /\ r.pc = "spawn" /\ UNCHANGED <<server, disk, clock, hist>>
      /\ proc' = [proc EXCEPT ![s] = x, ![Client] = y]
      /\ game' = [game EXCEPT ![s].run = "on"]
  BY DEF Spawn
<1>2. /\ \A t \in Sessions : Off(t)
      /\ r \in Slots /\ Knows(r, server, disk, hist)
  BY <1>1, ClientAtWork
<1>3. /\ s \in Sessions /\ hist.base[s] # 0 /\ s \notin disk.mark
      /\ r.rev # 0 /\ r.rev <= server.rev /\ (hist.foreign \/ r.rev = server.rev)
      /\ r.last \in hist.had /\ r.last = hist.newest[s] /\ disk.work[s] = r.last
      /\ disk.ptr = {} /\ disk.env = NoEntry
  BY <1>1, <1>2 DEF Knows
<1>4. proc \in [Procs -> Slots] /\ game \in [Sessions -> Games]
  BY DEF Inv, Typed
<1>5. s \in Procs /\ Client \in Procs /\ s # Client
  BY <1>3, ProcsAreNumbers
<1> HIDE DEF r, s
<1>6. /\ x \in Slots /\ x.pc = "poll" /\ x.rev = r.rev /\ x.last = r.last /\ x.src = s
      /\ x.entry = NoEntry /\ x.final = FALSE /\ x.alive = TRUE
  <2>1. Slot.final = FALSE /\ Slot.alive = TRUE
    BY DEF Slot
  <2> QED BY <1>2, <1>5, <2>1, FreshIsSlot DEF Slots, Steps
<1>7. y \in Slots /\ y.pc = "idle" /\ y.entry = NoEntry
  BY FreshIsSlot, SlotGoes DEF Steps
<1> HIDE DEF x, y
<1>8. /\ proc' \in [Procs -> Slots] /\ proc'[s] = x /\ proc'[Client] = y
      /\ \A q \in Procs : q # s /\ q # Client => proc'[q] = proc[q]
  BY <1>1, <1>4, <1>5, <1>6, <1>7
<1>9. /\ game' \in [Sessions -> Games] /\ game'[s].run = "on"
      /\ \A t \in Sessions : game'[t].kind = game[t].kind /\ (t # s => game'[t].run = game[t].run)
  BY <1>1, <1>3, <1>4 DEF Games
<1>10. \A t \in Sessions : t # s => proc'[t] = proc[t] /\ Off(t)'
  BY <1>2, <1>8, <1>9, ProcsAreNumbers DEF Off
<1>11. Typed'
  BY <1>1, <1>8, <1>9 DEF Inv, Typed
<1>12. World'
  BY <1>1, WorldStays
<1>13. Numbered'
  BY <1>1, <1>7, <1>8, <1>9 DEF Inv, Numbered, Started
<1>14. Alone'
  BY <1>1, <1>3, <1>6, <1>7, <1>8, <1>10 DEF Alone, Off
<1>15. ASSUME NEW p \in Procs PROVE Entry(p, proc'[p], server', disk')
  <2>1. proc'[p].pc \notin Working \cup {"record", "mark"} /\ proc'[p].entry = NoEntry
    <3>1. CASE p = s
      BY <1>6, <1>8, <3>1 DEF Working
    <3>2. CASE p = Client
      BY <1>7, <1>8, <3>2 DEF Working
    <3>3. CASE p # s /\ p # Client
      <4>1. p \in Sessions /\ proc'[p] = proc[p] /\ proc[p].pc = "off"
        BY <1>2, <1>8, <3>3, ProcsAreNumbers DEF Off
      <4>2. Entry(p, proc[p], server, disk)
        BY DEF Inv
      <4> QED BY <4>1, <4>2 DEF Entry, Working
    <3> QED BY <3>1, <3>2, <3>3
  <2> QED BY <2>1 DEF Entry
<1>16. ASSUME NEW t \in Sessions, proc'[t].pc # "off"
       PROVE  Monitors(t, proc'[t], server', disk', hist', game'[t].run)
  <2>1. t = s
    BY <1>10, <1>16 DEF Off
  <2>2. Monitors(s, x, server, disk, hist, game'[s].run)
    BY <1>3, <1>6 DEF Monitors, Working, Ends
  <2> QED BY <1>1, <1>8, <2>1, <2>2
<1>17. Knows(proc'[Client], server', disk', hist')
  BY <1>7, <1>8 DEF Knows, Recovering, Working
<1>18. NewestIsKept'
  <2>1. ASSUME NEW t \in Sessions, Finished(t)' PROVE Finished(t)
    <3>1. t # s
      BY <1>6, <1>8, <2>1 DEF Finished
    <3> QED BY <1>1, <1>2, <2>1, <3>1 DEF Finished, Off
  <2> QED BY <1>1, <2>1 DEF Inv, NewestIsKept
<1> QED BY <1>11, <1>12, <1>13, <1>14, <1>15, <1>16, <1>17, <1>18 DEF Inv
-----------------------------------------------------------------------------
(* The invariant holds in every state, and what it says.                    *)

\* Nothing has been played, and the server has the first content.
LEMMA InitHolds == Init => Inv
<1> SUFFICES ASSUME Init PROVE Inv
  OBVIOUS
<1>1. /\ server = [rev |-> 1, body |-> 1, lock |-> 0, log |-> {}]
      /\ disk = [work |-> [s \in Sessions |-> NoFile], env |-> NoEntry, ptr |-> {}, mark |-> {},
                 create |-> 0]
      /\ game = [s \in Sessions |-> [kind |-> "none", run |-> "off", clean |-> FALSE]]
      /\ proc = [p \in Procs |-> [Slot EXCEPT !.pc = IF p = Client THEN "idle" ELSE "off"]]
      /\ clock = 1
      /\ hist = [newest |-> [s \in Sessions |-> 0], base |-> [s \in Sessions |-> 0],
                 had |-> {1}, cut |-> {}, foreign |-> FALSE]
  BY DEF Init
<1>2. MaxSnapshot \in Nat /\ MaxSnapshot # 0 /\ MaxSession \in Nat
  BY ClientSaveAssumption
<1>3. /\ proc \in [Procs -> Slots] /\ proc[Client].pc = "idle"
      /\ \A s \in Sessions : proc[s].pc = "off"
      /\ \A p \in Procs : proc[p].entry = NoEntry /\ proc[p].pc \notin Working \cup {"record", "mark"}
  <2>1. \A p \in Procs :
          LET x == [Slot EXCEPT !.pc = IF p = Client THEN "idle" ELSE "off"]
          IN  /\ x \in Slots /\ x.pc = (IF p = Client THEN "idle" ELSE "off")
              /\ x.entry = NoEntry
    <3>1. "idle" \in Steps /\ "off" \in Steps
      BY DEF Steps
    <3> QED BY <3>1, FreshIsSlot, SlotGoes
  <2>2. /\ proc \in [Procs -> Slots]
        /\ \A p \in Procs : /\ proc[p].pc = (IF p = Client THEN "idle" ELSE "off")
                             /\ proc[p].entry = NoEntry
    BY <1>1, <2>1
  <2> QED BY <2>2, ProcsAreNumbers DEF Working
<1>4. Typed
  <2>1. server \in Servers
    BY <1>1, <1>2, ProcsAreNumbers DEF Servers
  <2>2. disk \in Disks
    BY <1>1, <1>2, FreshIsSlot, ProcsAreNumbers DEF Disks, NoFile
  <2>3. game \in [Sessions -> Games]
    BY <1>1 DEF Games
  <2>4. hist \in Histories(clock) /\ clock \in 1..MaxSnapshot
    BY <1>1, <1>2 DEF Histories
  <2> QED BY <1>3, <2>1, <2>2, <2>3, <2>4 DEF Typed
<1>5. World
  <2>1. Counted(server, hist)
    <3>1. Cardinality(hist.had) = 1
      BY <1>1, FS_Singleton
    <3>2. Cardinality(Recorded(server.log)) \in Nat
      BY <1>4, CountsAreNumbers DEF Typed, Histories
    <3> QED BY <1>1, <3>1, <3>2 DEF Counted
  <2> QED BY <1>1, <2>1 DEF World, Stored, Files, Envelope, Pointer
<1>6. Numbered
  <2>1. Started = {} /\ 1..0 = {} /\ 0 \in 0..MaxSession
    BY <1>1, <1>2 DEF Started
  <2> QED BY <1>1, <1>3, <2>1 DEF Numbered
<1>7. Alone
  BY <1>1, <1>3 DEF Alone, Off
<1>8. \A p \in Procs : Entry(p, proc[p], server, disk)
  BY <1>3 DEF Entry
<1>9. Knows(proc[Client], server, disk, hist)
  BY <1>3 DEF Knows, Recovering, Working
<1>10. NewestIsKept
  BY <1>1 DEF NewestIsKept
<1> QED BY <1>3, <1>4, <1>5, <1>6, <1>7, <1>8, <1>9, <1>10 DEF Inv

\* Every step keeps the invariant.
LEMMA NextKeeps ==
    ASSUME OneGameAtATime, Inv, [Next]_vars
    PROVE  Inv'
<1>1. CASE UNCHANGED vars
  BY <1>1 DEF vars, Inv, Typed, World, Stored, Counted, Files, Envelope, Pointer, Numbered, Started,
              Alone, Off, Entry, Monitors, Knows, NewestIsKept, Finished, IsRecorded
<1>2. CASE \E s \in Sessions : Monitor(s) \/ Play(s) \/ Exit(s) \/ Expire(s)
  BY <1>2, MonitorKeeps, PlayKeeps, ExitKeeps, ExpireKeeps
<1>3. CASE Launch
  <2>1. Client \in Procs
    BY ProcsAreNumbers
  <2>2. CASE Resolve
    BY <2>1, <2>2, BeginKeeps, SnapKeeps, PutKeeps, AnswerKeeps, CompareKeeps, ReplayedKeeps,
       RecordsKeeps, RecordKeeps, MarkKeeps DEF Resolve, Inflight
  <2>3. CASE LaunchGb \/ LaunchN64 \/ LaunchMobile
    BY <2>3, LockKeeps, CreateAgainKeeps, FetchKeeps, SpawnKeeps
    DEF LaunchGb, LaunchN64, LaunchMobile
  <2> QED BY <1>3, <2>2, <2>3 DEF Launch
<1>4. CASE Start
  <2>1. \A kind \in {"gb", "n64", "mobile"} : kind \in Launches
    BY DEF Launches
  <2> QED BY <1>4, <2>1, RecoverKeeps DEF Start, StartGb, StartN64, StartMobile
<1>5. CASE OtherDevice \/ ClientDies \/ PowerLoss
  BY <1>5, OtherDeviceKeeps, ClientDiesKeeps, PowerLossKeeps
<1> QED BY <1>1, <1>2, <1>3, <1>4, <1>5 DEF Next

\* What the invariant says of the types: revisions are bounded by what was written and recorded.
LEMMA InvTypes == Inv => TypeOK
<1> SUFFICES ASSUME Inv PROVE TypeOK
  OBVIOUS
<1>1. /\ server \in Servers /\ disk \in Disks /\ hist \in Histories(clock)
      /\ proc \in [Procs -> Slots] /\ server.rev \in Nat
  BY DEF Inv, Typed, Servers
<1>2. MaxSnapshot \in Nat /\ MaxSession \in Nat
  BY ClientSaveAssumption
<1>3. server.rev <= MaxSnapshot + MaxSession
  <2>1. /\ Cardinality(hist.had) \in Nat /\ Cardinality(hist.had) <= MaxSnapshot
        /\ Cardinality(Recorded(server.log)) \in Nat
        /\ Cardinality(Recorded(server.log)) <= MaxSession
    BY <1>1, CountsAreNumbers DEF Inv, Histories
  <2>2. server.rev <= Cardinality(hist.had) + Cardinality(Recorded(server.log))
    BY DEF Inv, World, Stored, Counted
  <2> QED BY <1>1, <1>2, <2>1, <2>2
<1>4. \A n \in Nat : n <= server.rev => n \in Revisions
  BY <1>1, <1>2, <1>3 DEF Revisions
<1>5. \A e \in Kept : e.rev <= server.rev /\ e.committed <= server.rev => e \in Entries
  BY <1>4 DEF Kept, Entries
<1>6. NoEntry \in Entries
  BY <1>1, <1>5, FreshIsSlot DEF NoEntry
<1>7. disk.env \in Entries /\ (Staged => disk.env.rev # 0)
  BY <1>1, <1>5, <1>6 DEF Disks, Staged, Inv, World, Envelope
<1>8. \A e \in disk.ptr : e.src \in Sessions /\ e.rev \in Revisions
  BY <1>4, OneRecord
<1>9. ASSUME NEW p \in Procs PROVE proc[p].pc \in Steps /\ proc[p].entry \in Entries
  <2> DEFINE r == proc[p]
  <2>1. r \in Slots /\ r.pc \in Steps /\ r.entry \in Kept /\ r.rev \in Nat
    BY <1>1 DEF Slots
  <2>2. Entry(p, r, server, disk)
    BY DEF Inv
  <2> HIDE DEF r
  <2> SUFFICES r.entry \in Entries
    BY <2>1 DEF r
  <2>3. CASE r.pc \in Working /\ r.exists
    BY <1>7, <2>1, <2>2, <2>3 DEF Entry
  <2>4. CASE r.pc \in Working /\ ~r.exists
    <3>1. p \in Sessions /\ r.pc # "off"
      BY <2>2, <2>4, ProcsAreNumbers DEF Entry, Working
    <3>2. r.rev <= server.rev
      BY <3>1 DEF Inv, Monitors, r
    <3>3. r.entry.rev = 0 /\ r.entry.committed = r.rev
      BY <2>2, <2>4 DEF Entry
    <3> QED BY <1>1, <1>5, <2>1, <3>2, <3>3
  <2>5. CASE r.pc \in {"record", "mark"}
    <3>1. p = Client
      BY <2>5, ProcsAreNumbers DEF Inv, Monitors, Working, Ends, r
    <3>2. r.entry.committed = 0 /\ disk.ptr = {[src |-> r.src, rev |-> r.entry.rev]}
      BY <2>5, <3>1 DEF Inv, Knows, r
    <3>3. r.entry.rev <= server.rev
      BY <3>2, OneRecord
    <3> QED BY <1>1, <1>5, <2>1, <3>2, <3>3
  <2>6. CASE r.pc \notin Working \cup {"record", "mark"}
    BY <1>6, <2>2, <2>6 DEF Entry
  <2> QED BY <2>3, <2>4, <2>5, <2>6
<1> QED BY <1>1, <1>2, <1>3, <1>4, <1>7, <1>8, <1>9 DEF TypeOK, Servers, Disks, Procs, Client

\* Recovery can send what it finds.
LEMMA InvRecovers == Inv => RecoveryCanSucceed
<1> SUFFICES ASSUME Inv, ~hist.foreign PROVE RecoveryCanSucceed
  BY DEF RecoveryCanSucceed
<1>1. ASSUME Staged
      PROVE  /\ disk.work[disk.env.src] # NoFile
             /\ IF disk.env.committed = 0 THEN Acceptable(0, disk.env.rev, disk.env.body)
                ELSE disk.env.committed = server.rev
  <2>1. Envelope(server, disk, hist) /\ disk.env # NoEntry
    BY <1>1 DEF Inv, World, Staged
  <2>2. disk.env.src \in Sessions /\ hist.base[disk.env.src] # 0
        /\ disk.work[disk.env.src] = hist.newest[disk.env.src]
    BY <2>1 DEF Envelope
  <2>3. disk.work[disk.env.src] # NoFile
    BY <2>2 DEF Inv, World, Files, NoFile
  <2>4. IF disk.env.committed = 0 THEN Acceptable(0, disk.env.rev, disk.env.body)
        ELSE disk.env.committed = server.rev
    BY <2>1 DEF Envelope, Acceptable, InLog
  <2> QED BY <2>3, <2>4
<1>2. ASSUME NEW e \in disk.ptr, e.src \notin disk.mark
      PROVE  disk.work[e.src] # NoFile /\ Acceptable(e.src, e.rev, disk.work[e.src])
  BY <1>2, OneRecord DEF Acceptable, NoFile
<1> QED BY <1>1, <1>2 DEF RecoveryCanSucceed

\* One game at a time, what was played is not lost by the monitor, the outbox and the recovery
\* together, whatever crashes, lost answers and failed writes come between: it is with the
\* server or recorded, and what is recorded can be sent (client_save_outbox.c).
THEOREM PlayedIsNotLost ==
    ASSUME OneGameAtATime
    PROVE  Spec => []NothingIsLost
<1>1. Inv /\ [Next]_vars => Inv'
  BY NextKeeps
<1>2. Inv => NothingIsLost
  BY InvTypes, InvRecovers DEF Inv, NothingIsLost
<1> QED BY <1>1, <1>2, InitHolds, PTL DEF Spec

\* Only a download changes what a game starts from.
LEMMA OnlyFetchBases ==
    ASSUME Inv, [Next]_vars
    PROVE  hist'.base = hist.base \/ Fetch
<1>1. hist \in Histories(clock)
  BY DEF Inv, Typed
<1>2. ASSUME NEW q, Apply(q) PROVE hist'.base = hist.base
  BY <1>1, <1>2 DEF Apply, Histories
<1>3. ASSUME NEW p, NEW q, NEW step, Upload(p, q, step) PROVE hist'.base = hist.base
  BY <1>2, <1>3 DEF Upload
<1>4. ASSUME NEW s, NEW next, Preserve(s, next) PROVE hist'.base = hist.base
  BY <1>1, <1>4 DEF Preserve, Histories
<1>5. ASSUME NEW p, Inflight(p) PROVE hist'.base = hist.base
  BY <1>3, <1>5 DEF Inflight, Begin, Snap, Put, Answer, Compare
<1>6. ASSUME NEW s, Monitor(s) PROVE hist'.base = hist.base
  BY <1>4, <1>5, <1>6 DEF Monitor, Poll, Beat, EndedLost, Ended, Unstaged, MobileAccepted,
                          MobileRejected, StopGame, RetryComplete
<1>7. ASSUME NEW s, Play(s) \/ Exit(s) \/ Expire(s) PROVE hist'.base = hist.base
  BY <1>1, <1>7 DEF Play, Exit, Expire, Histories
<1>8. CASE Resolve
  BY <1>3, <1>5, <1>8 DEF Resolve, Replayed, Records, Record, Mark
<1>9. CASE LaunchGb \/ LaunchN64 \/ LaunchMobile
  BY <1>9 DEF LaunchGb, LaunchN64, LaunchMobile, Lock, CreateAgain, Spawn
<1>10. CASE Start
  BY <1>10 DEF Start, StartGb, StartN64, StartMobile, Recover
<1>11. CASE OtherDevice \/ ClientDies \/ PowerLoss
  BY <1>1, <1>11 DEF OtherDevice, ClientDies, PowerLoss, Histories
<1>12. CASE UNCHANGED vars
  BY <1>12 DEF vars
<1> QED BY <1>6, <1>7, <1>8, <1>9, <1>10, <1>11, <1>12 DEF Next, Launch

\* One game at a time, a game is started from a SAV that holds everything played before on
\* this device: sync_slot_from_server downloads only when nothing waits in the outbox.
THEOREM GamesBuildOnTheLast ==
    ASSUME OneGameAtATime
    PROVE  Spec => NextGameStartsFromTheLast
<1>1. Inv /\ [Next]_vars => Inv'
  BY NextKeeps
<1> DEFINE Builds == \A s, t \in Sessions :
             hist.base[s] # hist'.base[s] /\ t # s /\ hist.base[t] # 0 /\ t \notin hist.cut
               => hist.newest[t] \in hist.had
<1>2. Inv /\ [Next]_vars => [Builds]_vars
  <2>1. SUFFICES ASSUME Inv, [Next]_vars,
                        NEW s \in Sessions, NEW t \in Sessions,
                        hist.base[s] # hist'.base[s], t # s, hist.base[t] # 0, t \notin hist.cut
                 PROVE  hist.newest[t] \in hist.had
    OBVIOUS
  <2>2. Fetch
    BY <2>1, OnlyFetchBases
  <2>3. \A u \in Sessions : Off(u)
    BY <2>1, <2>2, ClientAtWork DEF Fetch
  <2>4. ~Staged /\ disk.ptr = {}
    BY <2>1, <2>2 DEF Fetch
  <2>5. ~IsRecorded(t, disk)
    BY <2>4, ProcsAreNumbers DEF IsRecorded, Staged, NoEntry
  <2> QED BY <2>1, <2>3, <2>5, AtRest
<1> QED BY <1>1, <1>2, InitHolds, PTL DEF Spec, NextGameStartsFromTheLast
=============================================================================
