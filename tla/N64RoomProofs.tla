---------------------------- MODULE N64RoomProofs ----------------------------
(***************************************************************************)
(* Proofs about N64Room, for any number of sessions and ROOMs: the         *)
(* emulator has its session and files for as long as it runs and no button *)
(* of a player who is gone; a game that ended is not started again; and    *)
(* the client goes back to the menu only when the server has it in no      *)
(* ROOM.                                                                   *)
(***************************************************************************)
EXTENDS N64Room, TLAPS

Pids == {"none", "running", "over", "crashed"}
Ended == {"over", "crashed"}
Conns == {"none", "auth", "paired"}
Pads == {"none", "neutral", "held"}
Rooms == 0 .. MaxRooms

\* The kinds of the client's context, of the server's state and of what the thread brings.
Contexts ==
    [screen : Screens, room : Rooms, ready : BOOLEAN, self : BOOLEAN, peer : BOOLEAN,
     synced : BOOLEAN, sess : Ids, life : Ids, lifeRoom : Rooms, conn : Conns, rec : BOOLEAN,
     fin : BOOLEAN, term : BOOLEAN, pre : BOOLEAN, pid : Pids, launched : Ids, exit : BOOLEAN,
     files : Ids, path : BOOLEAN, pad : Pads, bump : BOOLEAN]

Servers ==
    [room : Rooms, gen : Rooms, two : BOOLEAN, me : BOOLEAN, peer : BOOLEAN, n : Ids, act : Ids,
     actRoom : Rooms, same : BOOLEAN, rec : BOOLEAN, lock : BOOLEAN, pf : SUBSET Ids,
     done : SUBSET Ids, last : Ids, notice : BOOLEAN]

Polls == {"idle", "heartbeat", "failed", "given_up", "none", "room", "stale"}

\* The server's numbers: sessions and ROOMs are counted up, and what ended is no longer active.
Orderly(t) ==
    /\ t \in Servers
    /\ t.room <= t.gen /\ t.actRoom <= t.gen /\ t.act <= t.n
    /\ t.act = 0 <=> t.actRoom = 0
    /\ t.last <= t.n /\ (t.notice => t.room = 0)
    /\ \A id \in t.done : id # 0 /\ id <= t.n /\ id # t.act

\* What the emulator and its input record stand on.
Served(x) ==
    /\ x.pid = "none" <=> x.launched = 0
    /\ x.pid # "none" =>
        /\ role = "host" /\ x.screen = "n64"
        /\ x.launched = x.sess /\ x.sess # 0 /\ x.files = x.sess
        /\ x.term \/ x.rec \/ x.conn # "none"
    /\ x.rec \/ x.conn # "none" => x.sess # 0 /\ (role = "host" => x.files = x.sess /\ x.path)
    /\ x.fin => x.sess # 0
    /\ x.pad = "held" => x.conn = "paired" /\ x.path

\* The session the client waits for the end of is of its ROOM, and when it has ended the ROOM
\* is closed, unless the check of the SAVs ended it.
Named(x, t) ==
    /\ x.screen = "menu" => x.sess = 0 /\ x.life = 0
    /\ x.screen = "n64" =>
        /\ x.room # 0 /\ t.room \in {0, x.room}
        /\ x.sess # 0 => x.life = x.sess
        /\ x.life # 0 =>
            /\ x.lifeRoom = x.room /\ x.life <= t.n
            /\ IF x.life = t.act THEN t.actRoom = x.room ELSE t.room = 0 \/ x.life \in t.pf

\* A session the server will not start again, and a client that will not ask for it.
Gone(t, id) == id # t.act \/ t.actRoom # t.room
Done(x) == x.fin \/ x.term \/ x.pid \in Ended

\* A game that has ended by itself is gone, or the client's present one.
Known(x, t, o) ==
    /\ \A id \in o : id \in Ids /\ id # 0 /\ id <= t.n /\ (Gone(t, id) \/ x.sess = id)
    /\ x.pid = "running" => x.sess \notin o

\* A context as a handler may find it, and one in which it may leave it.
Loose(x, t, o) == x \in Contexts /\ Served(x) /\ Named(x, t) /\ Known(x, t, o)
Good(x, t, o) == Loose(x, t, o) /\ (x.sess \in o => Done(x))

\* A notice that stops the emulator tells of a session that has ended, or of a closed ROOM.
NoticeTrue(n, t) ==
    StopsEmulator(n) =>
        IF n.kind = "media" THEN n.id # 0 => n.id # t.act /\ n.id <= t.n ELSE t.room = 0

\* Where the server goes from a state, while the player stays in the ROOM it is in.
Onward(t, u) ==
    /\ Orderly(u)
    /\ u.gen = t.gen /\ t.n <= u.n /\ u.room \in {0, t.room} /\ t.pf \subseteq u.pf
    /\ u.act = t.act => u.actRoom = t.actRoom
    /\ u.act # t.act => u.act = 0 \/ u.act > t.n
    /\ t.act # 0 /\ u.act # t.act => u.room = 0 \/ t.actRoom # t.room \/ t.act \in u.pf

\* The menu is reached when the server has the player in no ROOM, or after the failed check.
Out(x, y, u) ==
    y.screen = "menu" => x.screen = "menu" \/ u.room = 0 \/ x.life \in u.pf

\* What a handler that found context x and server t makes of them.
Carries(x, t, o, r) == Onward(t, r.s) /\ Good(r.c, r.s, o) /\ Out(x, r.c, r.s)

\* The inductive invariant.
Inv ==
    /\ role \in Roles
    /\ Orderly(s)
    /\ Good(c, s, over) /\ ~c.bump
    /\ w.st \in Polls /\ w.self \in BOOLEAN /\ w.peer \in BOOLEAN
    /\ w.st = "heartbeat" => NoticeTrue(w.n, s) /\ w.n.id \in Ids

\* Contexts that differ in little.
SamePlace(x, y) ==
    /\ y.screen = x.screen /\ y.room = x.room /\ y.ready = x.ready /\ y.self = x.self
    /\ y.peer = x.peer /\ y.synced = x.synced /\ y.exit = x.exit
SameGame(x, y) ==
    /\ y.sess = x.sess /\ y.rec = x.rec /\ y.fin = x.fin /\ y.pre = x.pre
    /\ y.files = x.files /\ y.path = x.path /\ y.bump = x.bump
SameFacts(x, y) ==
    /\ y.screen = x.screen /\ y.room = x.room /\ y.sess = x.sess /\ y.life = x.life
    /\ y.lifeRoom = x.lifeRoom /\ y.conn = x.conn /\ y.rec = x.rec /\ y.fin = x.fin
    /\ y.term = x.term /\ y.pid = x.pid /\ y.launched = x.launched /\ y.files = x.files
    /\ y.path = x.path /\ y.pad = x.pad

-----------------------------------------------------------------------------
(* The client's own operators. *)

\* The record for the second controller is the only thing written.
LEMMA WriteInputKeeps ==
    ASSUME NEW x, NEW t, NEW o, NEW pad \in Pads, Good(x, t, o),
           pad = "held" => x.conn = "paired"
    PROVE  /\ Good(WriteInput(x, pad), t, o)
           /\ WriteInput(x, pad).screen = x.screen
BY DEF Good, Loose, Contexts, Served, Named, Known, Done, WriteInput, Pads

\* What is left of a context when its session is named.
LEMMA NamedIs ==
    ASSUME NEW x \in Contexts
    PROVE  LET y == IF x.sess = 0 THEN x ELSE [x EXCEPT !.life = x.sess, !.lifeRoom = x.room] IN
           /\ y \in Contexts
           /\ SamePlace(x, y) /\ SameGame(x, y) /\ y.conn = x.conn /\ y.term = x.term
           /\ y.pid = x.pid /\ y.launched = x.launched /\ y.pad = x.pad
           /\ y.life = IF x.sess = 0 THEN x.life ELSE x.sess
           /\ y.lifeRoom = IF x.sess = 0 THEN x.lifeRoom ELSE x.room
<1>1. CASE x.sess = 0
  BY <1>1 DEF SamePlace, SameGame
<1>2. CASE x.sess # 0
  BY <1>2 DEF Contexts, SamePlace, SameGame
<1>3. QED
  BY <1>1, <1>2

\* What is left of it when a record is written: only the record changes.
LEMMA WrittenIs ==
    ASSUME NEW x \in Contexts, NEW pad \in Pads
    PROVE  LET y == WriteInput(x, pad) IN
           /\ y \in Contexts
           /\ SamePlace(x, y) /\ SameGame(x, y) /\ y.conn = x.conn /\ y.term = x.term
           /\ y.pid = x.pid /\ y.launched = x.launched
           /\ y.life = x.life /\ y.lifeRoom = x.lifeRoom
           /\ y.pad = IF x.path THEN pad ELSE x.pad
BY DEF Contexts, SamePlace, SameGame, WriteInput

\* What is left of it when the emulator is told to stop: it may refuse.
LEMMA StoppedIs ==
    ASSUME NEW x \in Contexts, NEW k \in BOOLEAN
    PROVE  LET y == StopHostProcess(x, k) IN
           /\ y \in Contexts
           /\ SamePlace(x, y) /\ SameGame(x, y) /\ y.conn = x.conn /\ y.term = x.term
           /\ y.life = x.life /\ y.lifeRoom = x.lifeRoom /\ y.pad = x.pad
           /\ y.pid = IF k THEN "none" ELSE x.pid
           /\ y.launched = IF k /\ x.pid # "none" THEN 0 ELSE x.launched
<1>1. 0 \in Ids
  BY N64RoomAssumption DEF Ids
<1>2. CASE x.pid # "none" /\ k
  BY <1>1, <1>2 DEF Contexts, SamePlace, SameGame, StopHostProcess, Pids
<1>3. CASE ~(x.pid # "none" /\ k)
  BY <1>3 DEF SamePlace, SameGame, StopHostProcess
<1>4. QED
  BY <1>2, <1>3

\* A suspended client has named its session, let go of the relay and waits for the end.
LEMMA SuspendIs ==
    ASSUME NEW x \in Contexts, NEW k \in BOOLEAN
    PROVE  LET y == Suspend(x, k) IN
           /\ y \in Contexts
           /\ SamePlace(x, y) /\ SameGame(x, y) /\ y.conn = "none" /\ y.term
           /\ y.life = (IF x.sess = 0 THEN x.life ELSE x.sess)
           /\ y.lifeRoom = (IF x.sess = 0 THEN x.lifeRoom ELSE x.room)
           /\ y.pad = IF x.path THEN "neutral" ELSE x.pad
           /\ y.pid = IF k THEN "none" ELSE x.pid
           /\ y.launched = IF k /\ x.pid # "none" THEN 0 ELSE x.launched
<1> DEFINE named == IF x.sess = 0 THEN x ELSE [x EXCEPT !.life = x.sess, !.lifeRoom = x.room]
           written == WriteInput(named, "neutral")
           closed == [written EXCEPT !.conn = "none", !.term = TRUE]
<1>1. /\ named \in Contexts
      /\ SamePlace(x, named) /\ SameGame(x, named) /\ named.conn = x.conn /\ named.term = x.term
      /\ named.pid = x.pid /\ named.launched = x.launched /\ named.pad = x.pad
      /\ named.life = (IF x.sess = 0 THEN x.life ELSE x.sess)
      /\ named.lifeRoom = (IF x.sess = 0 THEN x.lifeRoom ELSE x.room)
  BY NamedIs
<1> HIDE DEF named
<1>2. /\ written \in Contexts
      /\ SamePlace(named, written) /\ SameGame(named, written)
      /\ written.pid = named.pid /\ written.launched = named.launched
      /\ written.life = named.life /\ written.lifeRoom = named.lifeRoom
      /\ written.pad = IF named.path THEN "neutral" ELSE named.pad
  <2>1. "neutral" \in Pads
    BY DEF Pads
  <2>2. QED
    BY <1>1, <2>1, WrittenIs
<1> HIDE DEF written
<1>3. /\ closed \in Contexts
      /\ SamePlace(written, closed) /\ SameGame(written, closed)
      /\ closed.conn = "none" /\ closed.term
      /\ closed.pid = written.pid /\ closed.launched = written.launched
      /\ closed.life = written.life /\ closed.lifeRoom = written.lifeRoom
      /\ closed.pad = written.pad
  BY <1>2 DEF Contexts, SamePlace, SameGame, Conns
<1> HIDE DEF closed
<1>4. Suspend(x, k) = StopHostProcess(closed, k)
  BY DEF Suspend, closed, written, named
<1>5. QED
  BY <1>1, <1>2, <1>3, <1>4, StoppedIs DEF SamePlace, SameGame

\* What the screen shows of READY, the exit question and the poll epoch are beside the point.
LEMMA SameFactsKeep ==
    ASSUME NEW x, NEW t, NEW o, Good(x, t, o), NEW y \in Contexts, SameFacts(x, y)
    PROVE  Good(y, t, o)
BY DEF Good, Loose, Served, Named, Known, Done, SameFacts

\* Suspending takes a context that a handler may find to one that it may leave.
LEMMA SuspendKeeps ==
    ASSUME NEW x, NEW t, NEW o, NEW k \in BOOLEAN, Loose(x, t, o)
    PROVE  LET y == Suspend(x, k) IN
           /\ Good(y, t, o)
           /\ SamePlace(x, y) /\ SameGame(x, y) /\ y.conn = "none" /\ y.term
           /\ y.life = x.life
           /\ y.pid = (IF k THEN "none" ELSE x.pid)
<1> DEFINE y == Suspend(x, k)
<1>1. /\ y \in Contexts
      /\ SamePlace(x, y) /\ SameGame(x, y) /\ y.conn = "none" /\ y.term
      /\ y.life = (IF x.sess = 0 THEN x.life ELSE x.sess)
      /\ y.lifeRoom = (IF x.sess = 0 THEN x.lifeRoom ELSE x.room)
      /\ y.pad = (IF x.path THEN "neutral" ELSE x.pad)
      /\ y.pid = (IF k THEN "none" ELSE x.pid)
      /\ y.launched = (IF k /\ x.pid # "none" THEN 0 ELSE x.launched)
  BY SuspendIs DEF Loose
<1> HIDE DEF y
<1>2. y.life = x.life
  BY <1>1 DEF Loose, Named, Contexts, Screens
<1>3. Served(y)
  BY <1>1 DEF Loose, Served, SamePlace, SameGame
<1>4. Named(y, t)
  BY <1>1, <1>2 DEF Loose, Named, SamePlace, SameGame
<1>5. Known(y, t, o)
  BY <1>1 DEF Loose, Known, SameGame
<1>6. QED
  BY <1>1, <1>2, <1>3, <1>4, <1>5 DEF Good, Loose, Done, y

\* Nothing is forgotten under an emulator that does not stop, and everything otherwise.
LEMMA ResetIs ==
    ASSUME NEW x \in Contexts, NEW k \in BOOLEAN
    PROVE  LET y == Reset(x, k) IN
           /\ y \in Contexts /\ SamePlace(x, y) /\ y.bump = x.bump
           /\ IF x.pid # "none" /\ ~k THEN y = Suspend(x, k)
              ELSE /\ y.sess = 0 /\ y.life = 0 /\ y.conn = "none" /\ ~y.rec
                   /\ ~y.fin /\ ~y.term /\ y.pid = "none" /\ y.pad = "none"
                   /\ y.launched = (IF x.pid # "none" THEN 0 ELSE x.launched)
<1> DEFINE z == Suspend(x, k)
           cleaned == [z EXCEPT !.files = IF @ = z.sess THEN 0 ELSE @, !.path = FALSE, !.pad = "none"]
           clear == [cleaned EXCEPT !.sess = 0, !.life = 0, !.lifeRoom = 0, !.rec = FALSE,
                                    !.fin = FALSE, !.term = FALSE, !.pre = FALSE]
<1>1. /\ z \in Contexts
      /\ SamePlace(x, z) /\ z.bump = x.bump /\ z.conn = "none"
      /\ z.pid = (IF k THEN "none" ELSE x.pid)
      /\ z.launched = (IF k /\ x.pid # "none" THEN 0 ELSE x.launched)
  BY SuspendIs DEF SameGame
<1>2. Reset(x, k) = IF z.pid # "none" THEN z ELSE clear
  BY DEF Reset, CleanupFiles
<1> HIDE DEF z
<1>3. 0 \in Ids /\ 0 \in Rooms
  BY N64RoomAssumption DEF Ids, Rooms
<1>4. /\ cleaned \in Contexts /\ SamePlace(z, cleaned) /\ cleaned.bump = z.bump
      /\ cleaned.conn = z.conn /\ cleaned.pid = z.pid /\ cleaned.launched = z.launched
      /\ cleaned.pad = "none"
  <2>1. (IF z.files = z.sess THEN 0 ELSE z.files) \in Ids
    BY <1>1, <1>3 DEF Contexts
  <2>2. QED
    BY ZenonT(40), <1>1, <2>1 DEF Contexts, SamePlace, Pads
<1> HIDE DEF cleaned
<1>5. /\ clear \in Contexts /\ SamePlace(cleaned, clear) /\ clear.bump = cleaned.bump
      /\ clear.sess = 0 /\ clear.life = 0 /\ ~clear.rec /\ ~clear.fin /\ ~clear.term
      /\ clear.conn = cleaned.conn /\ clear.pid = cleaned.pid
      /\ clear.launched = cleaned.launched /\ clear.pad = cleaned.pad
  BY ZenonT(40), <1>3, <1>4 DEF Contexts, SamePlace
<1> HIDE DEF clear
<1>6. CASE x.pid # "none" /\ ~k
  BY <1>1, <1>2, <1>6 DEF z
<1>7. CASE ~(x.pid # "none" /\ ~k)
  <2>1. Reset(x, k) = clear
    BY <1>1, <1>2, <1>7
  <2>2. QED
    BY <1>1, <1>4, <1>5, <1>7, <2>1 DEF SamePlace
<1>8. QED
  BY <1>6, <1>7

\* A client may forget a session that did not end by itself, or that is gone.
LEMMA ResetKeeps ==
    ASSUME NEW x, NEW t, NEW o, NEW k \in BOOLEAN, Loose(x, t, o), x.sess \in o => Gone(t, x.sess)
    PROVE  LET y == Reset(x, k) IN
           /\ Good(y, t, o) /\ SamePlace(x, y) /\ y.bump = x.bump
           /\ y.conn = "none"
           /\ IF x.pid # "none" /\ ~k THEN y = Suspend(x, k) /\ y.pid = x.pid
              ELSE y.sess = 0 /\ y.life = 0 /\ y.pid = "none" /\ ~y.fin /\ ~y.term
<1> DEFINE y == Reset(x, k)
<1>1. CASE x.pid # "none" /\ ~k
  <2>1. y = Suspend(x, k)
    BY <1>1, ResetIs DEF Loose
  <2>2. QED
    BY <1>1, <2>1, SuspendKeeps DEF SameGame
<1>2. CASE ~(x.pid # "none" /\ ~k)
  <2>1. /\ y \in Contexts /\ SamePlace(x, y) /\ y.bump = x.bump
        /\ y.sess = 0 /\ y.life = 0 /\ y.conn = "none" /\ ~y.rec
        /\ ~y.fin /\ ~y.term /\ y.pid = "none" /\ y.pad = "none"
        /\ y.launched = (IF x.pid # "none" THEN 0 ELSE x.launched)
    BY <1>2, ResetIs DEF Loose
  <2> HIDE DEF y
  <2>2. Served(y)
    BY <2>1 DEF Loose, Served
  <2>3. Named(y, t)
    BY <2>1 DEF Loose, Named, SamePlace
  <2>4. Known(y, t, o) /\ 0 \notin o
    BY <2>1 DEF Loose, Known
  <2>5. QED
    BY <1>2, <2>1, <2>2, <2>3, <2>4 DEF Good, Loose, y
<1>3. QED
  BY <1>1, <1>2

\* To the menu, unless the emulator does not stop.
LEMMA FinishLocallyKeeps ==
    ASSUME NEW x, NEW t, NEW o, NEW k \in BOOLEAN, Loose(x, t, o), x.sess \in o => Gone(t, x.sess)
    PROVE  LET y == FinishLocally(x, k) IN
           /\ Good(y, t, o)
           /\ IF x.pid # "none" /\ ~k THEN y = Suspend(x, k) /\ y.pid = x.pid
              ELSE y.screen = "menu" /\ y.room = 0
<1> DEFINE z == Reset(x, k)
           y == [[z EXCEPT !.screen = "menu", !.room = 0, !.self = FALSE, !.peer = FALSE,
                           !.ready = FALSE, !.exit = FALSE] EXCEPT !.bump = TRUE]
<1>1. /\ Good(z, t, o) /\ z.conn = "none"
      /\ IF x.pid # "none" /\ ~k THEN z = Suspend(x, k) /\ z.pid = x.pid
         ELSE z.sess = 0 /\ z.life = 0 /\ z.pid = "none"
  BY ResetKeeps
<1>2. FinishLocally(x, k) = IF z.pid # "none" THEN z ELSE y
  BY DEF FinishLocally, NewEpoch
<1> HIDE DEF z
<1>3. CASE z.pid # "none"
  BY <1>1, <1>2, <1>3
<1>4. CASE z.pid = "none"
  <2>1. z \in Contexts /\ z.sess = 0 /\ z.life = 0 /\ ~(x.pid # "none" /\ ~k)
    BY <1>1, <1>4 DEF Good, Loose
  <2>2. 0 \in Rooms /\ "menu" \in Screens
    BY N64RoomAssumption DEF Rooms, Screens
  <2>3. y \in Contexts
    BY <2>1, <2>2 DEF Contexts
  <2>4. /\ y.screen = "menu" /\ y.room = 0 /\ y.sess = z.sess /\ y.life = z.life
        /\ y.pid = z.pid /\ y.launched = z.launched /\ y.conn = z.conn /\ y.rec = z.rec
        /\ y.pad = z.pad /\ y.path = z.path /\ y.files = z.files /\ y.fin = z.fin
        /\ y.term = z.term
    BY <2>1, <2>2 DEF Contexts
  <2> HIDE DEF y
  <2>5. Served(y) /\ Named(y, t) /\ Known(y, t, o) /\ y.sess \notin o
    BY <1>1, <1>4, <2>1, <2>4 DEF Good, Loose, Served, Named, Known
  <2>6. QED
    BY <1>2, <1>4, <2>1, <2>3, <2>4, <2>5 DEF Good, Loose
<1>5. QED
  BY <1>3, <1>4

\* The SAVs failed the check: the client stays in the ROOM.
LEMMA PreflightFailedKeeps ==
    ASSUME NEW x, NEW t, NEW o, NEW k \in BOOLEAN, Loose(x, t, o), x.sess \in o => Gone(t, x.sess)
    PROVE  LET y == PreflightFailed(x, k) IN
           Good(y, t, o) /\ y.screen = x.screen /\ y.pre
<1> DEFINE z == Reset(x, k)
           y == [[z EXCEPT !.self = FALSE, !.peer = FALSE, !.pre = TRUE, !.ready = FALSE]
                   EXCEPT !.bump = TRUE]
<1>1. Good(z, t, o) /\ SamePlace(x, z)
  BY ResetKeeps
<1>2. PreflightFailed(x, k) = y
  BY DEF PreflightFailed, NewEpoch
<1> HIDE DEF z
<1>3. z \in Contexts
  BY <1>1 DEF Good, Loose
<1>4. y \in Contexts /\ SameFacts(z, y) /\ y.pre
  BY <1>3 DEF Contexts, SameFacts
<1> HIDE DEF y
<1>5. QED
  BY <1>1, <1>2, <1>4, SameFactsKeep DEF SamePlace, SameFacts

\* What a notice does: nothing, the end of the game, or, where the emulator does not stop, its
\* suspension.
LEMMA HandleNoticeKeeps ==
    ASSUME NEW x, NEW t, NEW o, NEW n, NEW k \in BOOLEAN, Orderly(t), Good(x, t, o),
           NoticeTrue(n, t), n.id \in Ids
    PROVE  LET y == HandleNotice(x, n, k) IN
           /\ Good(y, t, o) /\ Out(x, y, t)
           /\ \/ y = x
              \/ Stopped(y)
              \/ /\ y = Suspend(x, k) /\ x.pid # "none"
                 /\ n.kind = "media" => x.sess # t.act
<1> DEFINE y == HandleNotice(x, n, k)
<1>1. CASE StaleNotice(x, n) \/ ~StopsEmulator(n) \/ x.screen # "n64"
  BY <1>1 DEF HandleNotice, Out
<1>2. CASE ~(StaleNotice(x, n) \/ ~StopsEmulator(n) \/ x.screen # "n64")
  <2>1. Loose(x, t, o) /\ x \in Contexts /\ x.screen = "n64"
    BY <1>2 DEF Good, Loose
  <2>2. x.sess # 0 => MediaSession(x) = x.sess
    BY <2>1 DEF Loose, Named, MediaSession
  <2>3. n.kind = "media" => /\ n.id = MediaSession(x) /\ n.id # t.act /\ n.id # 0
    BY <1>2 DEF StaleNotice, NoticeTrue
  <2>4. n.kind # "media" => t.room = 0
    BY <1>2 DEF NoticeTrue
  <2>5. x.sess \in o => Gone(t, x.sess)
    <3>1. SUFFICES ASSUME x.sess \in o PROVE Gone(t, x.sess)
      OBVIOUS
    <3>2. x.sess # 0
      BY <2>1, <3>1 DEF Loose, Known
    <3>3. QED
      BY <2>2, <2>3, <2>4, <3>2 DEF Gone, Orderly
  <2>6. CASE n.kind = "media" /\ n.why = "preflight_failed"
    <3>1. y = PreflightFailed(x, k)
      BY <1>2, <2>6 DEF HandleNotice
    <3>2. Good(y, t, o) /\ y.screen = x.screen /\ y.pre
      BY <2>1, <2>5, <3>1, PreflightFailedKeeps
    <3>3. QED
      BY <3>2 DEF Stopped, Out
  <2>7. CASE ~(n.kind = "media" /\ n.why = "preflight_failed")
    <3>1. y = FinishLocally(x, k)
      BY <1>2, <2>7 DEF HandleNotice
    <3>2. /\ Good(y, t, o)
          /\ IF x.pid # "none" /\ ~k THEN y = Suspend(x, k) /\ y.pid = x.pid
             ELSE y.screen = "menu" /\ y.room = 0
      BY <2>1, <2>5, <3>1, FinishLocallyKeeps
    <3>3. n.kind = "media" => t.room = 0 \/ x.life \in t.pf
      <4>1. SUFFICES ASSUME n.kind = "media" PROVE t.room = 0 \/ x.life \in t.pf
        OBVIOUS
      <4>2. MediaSession(x) = x.life /\ x.life # 0 /\ x.life # t.act
        BY <2>1, <2>2, <2>3, <4>1 DEF Loose, Named, MediaSession
      <4>3. QED
        BY <2>1, <4>2 DEF Loose, Named
    <3>4. Out(x, y, t)
      BY <2>4, <3>3 DEF Out
    <3>5. CASE x.pid # "none" /\ ~k
      <4>1. x.sess # 0
        BY <2>1, <3>5 DEF Loose, Served
      <4>2. QED
        BY <2>2, <2>3, <3>2, <3>4, <3>5, <4>1
    <3>6. CASE ~(x.pid # "none" /\ ~k)
      <4>1. y.screen = "menu"
        BY <3>2, <3>6
      <4>2. QED
        BY <3>2, <3>4, <4>1 DEF Stopped
    <3>7. QED
      BY <3>5, <3>6
  <2>8. QED
    BY <2>6, <2>7
<1>3. QED
  BY <1>1, <1>2

-----------------------------------------------------------------------------
(* The server's operators. *)

\* The server's numbers are natural.
LEMMA Numbers ==
    ASSUME NEW t, Orderly(t)
    PROVE  /\ t \in Servers /\ Ids \subseteq Nat /\ 0 \in Ids /\ 0 \in Rooms
           /\ t.act \in Nat /\ t.n \in Nat /\ t.gen \in Nat /\ t.room \in Nat
           /\ t.actRoom \in Nat /\ t.last \in Nat
BY N64RoomAssumption DEF Orderly, Servers, Ids, Rooms

\* A client is no worse off when the server goes on.
LEMMA OnwardKeeps ==
    ASSUME NEW x, NEW t, NEW u, NEW o, Orderly(t), Onward(t, u)
    PROVE  /\ Good(x, t, o) => Good(x, u, o)
           /\ Loose(x, t, o) => Loose(x, u, o)
           /\ \A n : NoticeTrue(n, t) /\ n.id \in Ids => NoticeTrue(n, u)
<1>1. /\ Orderly(u) /\ Ids \subseteq Nat
      /\ t.act \in Nat /\ t.n \in Nat /\ t.room \in Nat /\ t.actRoom \in Nat
      /\ u.act \in Nat /\ u.n \in Nat /\ u.room \in Nat /\ u.actRoom \in Nat
  BY Numbers DEF Onward
<1>2. Named(x, t) /\ x \in Contexts => Named(x, u)
  <2>1. SUFFICES ASSUME Named(x, t), x \in Contexts, x.screen = "n64" PROVE Named(x, u)
    BY DEF Named
  <2>2. x.life # 0 => x.life \in Nat /\ x.life <= u.n
    <3>1. x.life \in Nat
      BY <1>1, <2>1 DEF Contexts
    <3>2. x.life # 0 => x.life <= t.n
      BY <2>1 DEF Named
    <3>3. t.n <= u.n
      BY DEF Onward
    <3>4. QED
      BY <1>1, <3>1, <3>2, <3>3
  <2>3. ASSUME x.life # 0, x.life = u.act PROVE u.actRoom = x.room
    <3>1. x.life <= t.n
      BY <2>1, <2>3 DEF Named
    <3>2. u.act = t.act
      BY <1>1, <2>3, <3>1 DEF Onward
    <3>3. QED
      BY <2>1, <2>3, <3>2 DEF Named, Onward
  <2>4. ASSUME x.life # 0, x.life # u.act PROVE u.room = 0 \/ x.life \in u.pf
    BY <1>1, <2>1, <2>4 DEF Named, Onward
  <2>5. QED
    BY <2>1, <2>2, <2>3, <2>4 DEF Named, Onward
<1>3. ASSUME NEW id \in Ids, id # 0, id <= t.n, Gone(t, id) PROVE id <= u.n /\ Gone(u, id)
  <2>1. id \in Nat
    BY <1>1
  <2>2. CASE id = t.act
    BY <1>1, <1>3, <2>1, <2>2 DEF Gone, Onward, Orderly
  <2>3. CASE id # t.act
    BY <1>1, <1>3, <2>1, <2>3 DEF Gone, Onward
  <2>4. id <= u.n
    <3>1. t.n <= u.n
      BY DEF Onward
    <3>2. QED
      BY <1>1, <1>3, <2>1, <3>1
  <2>5. QED
    BY <2>2, <2>3, <2>4
<1>4. Known(x, t, o) => Known(x, u, o)
  <2>1. \A id \in Ids : id <= t.n => id <= u.n
    <3>1. t.n <= u.n
      BY DEF Onward
    <3>2. SUFFICES ASSUME NEW id \in Ids, id <= t.n PROVE id <= u.n
      OBVIOUS
    <3>3. id \in Nat
      BY <1>1
    <3>4. QED
      BY <1>1, <3>1, <3>2, <3>3
  <2>2. QED
    BY <1>3, <2>1 DEF Known
<1>5. ASSUME NEW n, NoticeTrue(n, t), n.id \in Ids PROVE NoticeTrue(n, u)
  <2>1. CASE n.kind = "media" /\ StopsEmulator(n) /\ n.id # 0
    <3>1. n.id \in Nat /\ n.id # t.act /\ n.id <= t.n
      BY <1>1, <1>5, <2>1 DEF NoticeTrue
    <3>2. n.id # u.act /\ n.id <= u.n
      BY <1>1, <2>1, <3>1 DEF Onward
    <3>3. QED
      BY <2>1, <3>2 DEF NoticeTrue
  <2>2. CASE n.kind # "media" /\ StopsEmulator(n)
    BY <1>5, <2>2 DEF NoticeTrue, Onward
  <2>3. QED
    BY <2>1, <2>2 DEF NoticeTrue
<1>6. QED
  BY <1>2, <1>4, <1>5 DEF Good, Loose

\* A server that stays as it is goes on.
LEMMA OnwardStays ==
    ASSUME NEW t, Orderly(t)
    PROVE  Onward(t, t)
BY DEF Onward, Orderly, Servers, Ids, Rooms

\* A media session ends: its ROOM is closed, unless that is another one or the check failed.
LEMMA TerminateMediaOnward ==
    ASSUME NEW t, NEW why, Orderly(t), t.act # 0
    PROVE  LET u == TerminateMedia(t, why) IN
           Onward(t, u) /\ u.act = 0 /\ (u.room = 0 \/ t.actRoom # t.room \/ why = "preflight_failed")
<1> DEFINE ended == [t EXCEPT !.act = 0, !.actRoom = 0, !.same = TRUE, !.rec = FALSE,
                              !.lock = FALSE, !.last = t.act,
                              !.pf = IF why = "preflight_failed" THEN @ \cup {t.act} ELSE @,
                              !.done = IF why = "host_finished" THEN @ \cup {t.act} ELSE @]
           unready == [ended EXCEPT !.me = FALSE, !.peer = FALSE]
           closed == CloseRoom(ended)
<1>1. t \in Servers /\ 0 \in Ids /\ 0 \in Rooms /\ t.act \in Ids
  BY N64RoomAssumption DEF Orderly, Servers, Ids, Rooms
<1>2. /\ ended \in Servers
      /\ ended.act = 0 /\ ended.actRoom = 0 /\ ended.room = t.room /\ ended.gen = t.gen
      /\ ended.n = t.n /\ ended.last = t.act /\ ended.notice = t.notice
      /\ ended.pf = (IF why = "preflight_failed" THEN t.pf \cup {t.act} ELSE t.pf)
      /\ ended.done = (IF why = "host_finished" THEN t.done \cup {t.act} ELSE t.done)
  <2>1. (IF why = "preflight_failed" THEN t.pf \cup {t.act} ELSE t.pf) \in SUBSET Ids
    BY <1>1 DEF Servers
  <2>2. (IF why = "host_finished" THEN t.done \cup {t.act} ELSE t.done) \in SUBSET Ids
    BY <1>1 DEF Servers
  <2>3. QED
    BY <1>1, <2>1, <2>2 DEF Servers
<1> HIDE DEF ended
<1>3. /\ unready \in Servers
      /\ unready.act = 0 /\ unready.actRoom = 0 /\ unready.room = t.room /\ unready.gen = t.gen
      /\ unready.n = t.n /\ unready.last = t.act /\ unready.notice = t.notice
      /\ unready.pf = ended.pf /\ unready.done = ended.done
  BY <1>2 DEF Servers
<1>4. /\ closed \in Servers
      /\ closed.act = 0 /\ closed.actRoom = 0 /\ closed.room = 0 /\ closed.gen = t.gen
      /\ closed.n = t.n /\ closed.last = t.act /\ closed.pf = ended.pf /\ closed.done = ended.done
  BY <1>1, <1>2 DEF Servers, CloseRoom
<1> HIDE DEF unready, closed
<1>5. TerminateMedia(t, why) = IF t.room = 0 \/ t.actRoom # t.room THEN ended
                               ELSE IF why = "preflight_failed" THEN unready ELSE closed
  BY DEF TerminateMedia, ended, unready, closed
<1>6. /\ t.act \in Nat /\ t.gen \in Nat /\ t.n \in Nat /\ t.room \in Nat
      /\ t.room <= t.gen /\ t.act <= t.n
  BY Numbers DEF Orderly
<1>7. \A id \in ended.done : id # 0 /\ id <= t.n
  BY <1>2, <1>6 DEF Orderly
<1>8. t.pf \subseteq ended.pf /\ (why = "preflight_failed" => t.act \in ended.pf)
  BY <1>2
<1>9. CASE t.room = 0 \/ t.actRoom # t.room
  BY <1>1, <1>2, <1>5, <1>6, <1>7, <1>8, <1>9 DEF Onward, Orderly
<1>10. CASE ~(t.room = 0 \/ t.actRoom # t.room) /\ why = "preflight_failed"
  BY <1>1, <1>3, <1>5, <1>6, <1>7, <1>8, <1>10 DEF Onward, Orderly
<1>11. CASE ~(t.room = 0 \/ t.actRoom # t.room) /\ why # "preflight_failed"
  BY <1>1, <1>4, <1>5, <1>6, <1>7, <1>8, <1>11 DEF Onward, Orderly
<1>12. QED
  BY <1>9, <1>10, <1>11

\* A session of the ROOM is started or there is one, and the client may name it.
LEMMA CreateOnward ==
    ASSUME NEW t, Orderly(t), t.room # 0, t.act = 0 => t.n < MaxSessions
    PROVE  LET u == CreateOrGet(t) IN
           /\ Onward(t, u) /\ u.act # 0 /\ u.act <= u.n /\ u.room = t.room
           /\ u.act # t.act => u.actRoom = t.room
<1> DEFINE made == [t EXCEPT !.n = @ + 1, !.act = t.n + 1, !.actRoom = t.room]
<1>1. /\ t \in Servers /\ t.act \in Nat /\ t.n \in Nat /\ t.gen \in Nat /\ t.room \in Nat
      /\ t.act <= t.n /\ t.room <= t.gen /\ t.last <= t.n /\ t.last \in Nat /\ Ids \subseteq Nat
  BY Numbers DEF Orderly
<1>2. CASE t.act # 0
  BY <1>2, <1>1, OnwardStays DEF CreateOrGet
<1>3. CASE t.act = 0
  <2>1. CreateOrGet(t) = made
    BY <1>3 DEF CreateOrGet
  <2>2. t.n + 1 \in Ids /\ t.room \in Rooms
    BY <1>1, <1>3, N64RoomAssumption DEF Ids, Servers
  <2>3. /\ made \in Servers /\ made.n = t.n + 1 /\ made.act = t.n + 1 /\ made.actRoom = t.room
        /\ made.last = t.last /\ made.notice = t.notice
        /\ made.room = t.room /\ made.gen = t.gen /\ made.pf = t.pf /\ made.done = t.done
    BY <1>1, <2>2 DEF Servers
  <2> HIDE DEF made
  <2>4. \A id \in made.done : id # 0 /\ id <= made.n /\ id # made.act
    <3>1. \A id \in t.done : id \in Nat /\ id # 0 /\ id <= t.n
      BY <1>1 DEF Orderly, Servers
    <3>2. QED
      BY <1>1, <2>3, <3>1
  <2>5. QED
    BY <1>1, <1>3, <2>1, <2>3, <2>4 DEF Onward, Orderly
<1>4. QED
  BY <1>2, <1>3

\* Two steps of the server are one.
LEMMA OnwardFollows ==
    ASSUME NEW t, NEW u, NEW v, Orderly(t), Onward(t, u), Onward(u, v)
    PROVE  Onward(t, v)
<1>1. /\ t.act \in Nat /\ t.n \in Nat /\ u.act \in Nat /\ u.n \in Nat
      /\ v.act \in Nat /\ v.n \in Nat /\ Orderly(u) /\ Orderly(v)
  BY Numbers DEF Onward
<1>2. v.act # t.act => v.act = 0 \/ v.act > t.n
  BY <1>1 DEF Onward
<1>3. v.act = t.act => v.actRoom = t.actRoom
  <2>1. CASE u.act = t.act
    BY <2>1 DEF Onward
  <2>2. CASE u.act # t.act /\ t.act # 0
    BY <1>1, <2>2 DEF Onward, Orderly
  <2>3. CASE t.act = 0
    BY <1>1, <2>3 DEF Orderly
  <2>4. QED
    BY <2>1, <2>2, <2>3
<1>4. t.act # 0 /\ v.act # t.act => v.room = 0 \/ t.actRoom # t.room \/ t.act \in v.pf
  BY <1>1 DEF Onward, Orderly
<1>5. QED
  BY <1>1, <1>2, <1>3, <1>4 DEF Onward

\* Changes of the server beside its numbers.
SameNumbers(t, u) ==
    /\ u \in Servers
    /\ u.room = t.room /\ u.gen = t.gen /\ u.n = t.n /\ u.act = t.act /\ u.actRoom = t.actRoom
    /\ u.pf = t.pf /\ u.done = t.done /\ u.last = t.last /\ u.notice = t.notice

\* They are steps onward.
LEMMA SameNumbersOnward ==
    ASSUME NEW t, NEW u, Orderly(t), SameNumbers(t, u)
    PROVE  Onward(t, u)
<1>1. t.n \in Nat
  BY Numbers
<1>2. QED
  BY <1>1 DEF Onward, Orderly, SameNumbers

\* READY, a selection and a recovery change none of the numbers.
LEMMA UpdatesOnward ==
    ASSUME NEW t, Orderly(t)
    PROVE  /\ \A id : Onward(t, Recover(t, id)) /\ Recover(t, id).room = t.room
           /\ \A ready, changed, back \in BOOLEAN :
                LET u == UpdateUserState(t, ready, changed, back) IN
                Onward(t, u) /\ u.room = t.room
<1>1. t \in Servers
  BY DEF Orderly
<1>2. ASSUME NEW id PROVE SameNumbers(t, Recover(t, id))
  BY <1>1 DEF Recover, SameNumbers, Servers
<1>3. ASSUME NEW ready \in BOOLEAN, NEW changed \in BOOLEAN, NEW back \in BOOLEAN
      PROVE  SameNumbers(t, UpdateUserState(t, ready, changed, back))
  <2>1. (back \/ t.act = 0) \in BOOLEAN
    OBVIOUS
  <2>2. CASE changed
    BY <1>1, <2>1, <2>2 DEF UpdateUserState, SameNumbers, Servers
  <2>3. CASE ~changed
    BY <1>1, <2>3 DEF UpdateUserState, SameNumbers, Servers
  <2>4. QED
    BY <2>2, <2>3
<1>4. \A id : Onward(t, Recover(t, id)) /\ Recover(t, id).room = t.room
  BY <1>2, SameNumbersOnward DEF SameNumbers
<1>5. QED
  BY <1>3, <1>4, SameNumbersOnward DEF SameNumbers

\* A client or the server ends the session of a number, if it is the active one.
LEMMA EndsOnward ==
    ASSUME NEW t, NEW id, Orderly(t), id # 0
    PROVE  /\ Onward(t, FinishRoom(t, id))
           /\ Onward(t, RejectPreflight(t, id))
           /\ Onward(t, TerminateRoom(t, id)) /\ TerminateRoom(t, id).act # id
<1>1. CASE id = t.act
  BY <1>1, TerminateMediaOnward, OnwardStays DEF FinishRoom, RejectPreflight, TerminateRoom
<1>2. CASE id # t.act
  BY <1>2, OnwardStays DEF FinishRoom, RejectPreflight, TerminateRoom
<1>3. QED
  BY <1>1, <1>2

\* The player leaves the ROOM.
LEMMA LeaveOnward ==
    ASSUME NEW t, Orderly(t)
    PROVE  Onward(t, LeaveRoomForUser(t)) /\ LeaveRoomForUser(t).room = 0
<1> DEFINE y == IF t.act # 0 THEN TerminateMedia(t, "cancelled") ELSE t
           out == [y EXCEPT !.room = 0, !.two = FALSE, !.me = FALSE, !.peer = FALSE]
           closed == CloseRoom(y)
<1>1. Onward(t, y)
  BY TerminateMediaOnward, OnwardStays
<1>2. LeaveRoomForUser(t) = IF y.room = 0 THEN y ELSE IF role = "host" THEN closed ELSE out
  BY DEF LeaveRoomForUser
<1> HIDE DEF y
<1>3. /\ Orderly(y) /\ y \in Servers /\ 0 \in Rooms /\ y.n \in Nat /\ y.gen \in Nat
  BY <1>1, Numbers DEF Onward
<1>4. ASSUME NEW z \in {closed, out} PROVE Onward(y, z) /\ z.room = 0
  <2>1. /\ z \in Servers /\ z.room = 0 /\ z.gen = y.gen /\ z.n = y.n /\ z.act = y.act
        /\ z.actRoom = y.actRoom /\ z.last = y.last /\ z.pf = y.pf /\ z.done = y.done
    BY <1>3, <1>4 DEF CloseRoom, Servers
  <2>2. QED
    BY <1>3, <2>1 DEF Onward, Orderly
<1>5. QED
  BY <1>1, <1>2, <1>4, OnwardFollows

\* What the server tells of a session it has started is true.
LEMMA MediaNoticeTrue ==
    ASSUME NEW t, NEW id \in Ids, Orderly(t), id <= t.n
    PROVE  LET n == MediaNotice(t, id) IN
           NoticeTrue(n, t) /\ n.id = id /\ n.kind = "media"
BY DEF MediaNotice, NoticeTrue, StopsEmulator

\* The heartbeat tells the truth.
LEMMA LifecycleTrue ==
    ASSUME NEW t, Orderly(t)
    PROVE  NoticeTrue(SessionLifecycle(t), t) /\ SessionLifecycle(t).id \in Ids
<1>1. /\ t.act \in Ids /\ t.last \in Ids /\ 0 \in Ids /\ t.act <= t.n /\ t.last <= t.n
      /\ t.notice => t.room = 0
  BY Numbers DEF Orderly, Servers
<1>2. CASE t.lock
  BY <1>1, <1>2, MediaNoticeTrue DEF SessionLifecycle
<1>3. CASE ~t.lock /\ ~t.notice /\ t.last # 0
  BY <1>1, <1>3, MediaNoticeTrue DEF SessionLifecycle
<1>4. CASE ~t.lock /\ (t.notice \/ t.last = 0)
  BY <1>1, <1>4 DEF SessionLifecycle, NoNotice, NoticeTrue, StopsEmulator
<1>5. QED
  BY <1>2, <1>3, <1>4

-----------------------------------------------------------------------------
(* The handlers. Each leaves a good context and a server that has gone on. *)

\* A request is lost, or what it asked for has happened.
LEMMA AfterOnward ==
    ASSUME NEW t, NEW u, NEW f, Orderly(t), Onward(t, u)
    PROVE  Onward(t, After(f, t, u))
BY OnwardStays DEF After

\* A context the client is in has a session the server has started, or none.
LEMMA SessionStarted ==
    ASSUME NEW x, NEW t, NEW o, Loose(x, t, o), Orderly(t)
    PROVE  x.sess \in Ids /\ x.sess <= t.n /\ x.life \in Ids /\ (x.sess # 0 => x.life = x.sess)
<1>1. x \in Contexts /\ Named(x, t) /\ t.n \in Nat
  BY Numbers DEF Loose
<1>2. QED
  BY <1>1 DEF Named, Contexts, Screens

\* A context with a room closed behind it.
LEMMA MenuKeeps ==
    ASSUME NEW x, NEW t, NEW o, NEW y \in Contexts, Good(x, t, o), x.sess = 0, x.life = 0,
           y.screen = "menu", y.sess = 0, y.life = 0, y.pid = x.pid, y.launched = x.launched,
           y.conn = x.conn, y.rec = x.rec, y.fin = x.fin, y.pad = x.pad
    PROVE  Good(y, t, o)
BY DEF Good, Loose, Served, Named, Known

\* Leaving ends the session, or the ROOM where there is none, and then goes to the menu.
LEMMA LeaveKeeps ==
    ASSUME NEW x, NEW t, NEW o, NEW f \in Reply, NEW k \in BOOLEAN, Loose(x, t, o), Orderly(t)
    PROVE  Carries(x, t, o, ToMenuIfLeft(LeaveCurrentRoom(x, t, f, k)))
<1> DEFINE r == LeaveCurrentRoom(x, t, f, k)
           m == ToMenuIfLeft(r)
<1>0. /\ x \in Contexts /\ x.sess \in Ids /\ x.life \in Ids /\ (x.sess # 0 => x.life = x.sess)
      /\ Onward(t, t)
  BY SessionStarted, OnwardStays DEF Loose
<1>1. CASE x.screen = "n64" /\ (x.life # 0 \/ x.sess # 0)
  <2> DEFINE y == Suspend(x, k)
             u == After(f, t, TerminateRoom(t, y.life))
  <2>1. /\ Good(y, t, o) /\ y.life = x.life /\ y.life # 0 /\ SamePlace(x, y) /\ SameGame(x, y)
        /\ y.pid = (IF k THEN "none" ELSE x.pid)
    BY <1>0, <1>1, SuspendKeeps
  <2>2. /\ Onward(t, u) /\ Good(y, u, o) /\ (f = "ok" => u.act # y.life)
    <3>1. Onward(t, u)
      BY <2>1, EndsOnward, AfterOnward
    <3>2. f = "ok" => u = TerminateRoom(t, y.life)
      BY DEF After
    <3>3. QED
      BY <2>1, <3>1, <3>2, OnwardKeeps, EndsOnward
  <2>3. y.room # 0 /\ y.screen = "n64"
    BY <1>1, <2>1 DEF SamePlace, Loose, Named
  <2>4. CASE y.pid # "none"
    <3>1. r = [c |-> y, s |-> t]
      BY <1>1, <2>4 DEF LeaveCurrentRoom, Result
    <3>2. m = r
      BY <2>3, <3>1 DEF ToMenuIfLeft
    <3>3. QED
      BY <1>0, <2>1, <2>3, <3>1, <3>2 DEF Carries, Out
  <2>5. CASE y.pid = "none" /\ f # "ok"
    <3>1. r = [c |-> y, s |-> u]
      BY <1>1, <2>5 DEF LeaveCurrentRoom, Result
    <3>2. m = r
      BY <2>3, <3>1 DEF ToMenuIfLeft
    <3>3. QED
      BY <2>2, <2>3, <3>1, <3>2 DEF Carries, Out
  <2>6. CASE y.pid = "none" /\ f = "ok"
    <3> DEFINE z == FinishLocally(y, k)
    <3>1. r = [c |-> z, s |-> u]
      BY <1>1, <2>6 DEF LeaveCurrentRoom, Result
    <3>2. y.sess \in o => Gone(u, y.sess)
      BY <1>0, <2>1, <2>2, <2>6 DEF Gone, SameGame, Good, Loose, Known
    <3>3. Loose(y, u, o)
      BY <2>2 DEF Good
    <3>4. Good(z, u, o) /\ z.screen = "menu" /\ z.room = 0
      BY <2>6, <3>2, <3>3, FinishLocallyKeeps
    <3>5. u.room = 0 \/ x.life \in u.pf
      BY <2>1, <2>2, <2>3, <2>6, <3>3 DEF Loose, Named
    <3>6. m.s = u /\ m.c = [z EXCEPT !.screen = "menu"]
      BY <3>1, <3>4 DEF ToMenuIfLeft, Result
    <3>7. m.c = z
      BY <3>4, <3>6 DEF Good, Loose, Contexts
    <3>8. QED
      BY <2>2, <3>4, <3>5, <3>6, <3>7 DEF Carries, Out
  <2>7. QED
    BY <2>4, <2>5, <2>6
<1>2. CASE ~(x.screen = "n64" /\ (x.life # 0 \/ x.sess # 0))
  <2> DEFINE y == Reset(x, k)
             left == [[y EXCEPT !.room = 0, !.self = FALSE, !.peer = FALSE] EXCEPT !.bump = TRUE]
             u == After(f, t, LeaveRoomForUser(t))
  <2>1. x.sess = 0 /\ x.life = 0 /\ x.pid = "none"
    BY <1>0, <1>2 DEF Loose, Named, Served, Contexts, Screens
  <2>2. Good(y, t, o) /\ SamePlace(x, y) /\ y.sess = 0 /\ y.life = 0
    BY <2>1, ResetKeeps DEF Loose, Known
  <2>3. Onward(t, u) /\ Good(y, u, o) /\ (f = "ok" => u.room = 0)
    <3>1. Onward(t, u)
      BY LeaveOnward, AfterOnward
    <3>2. QED
      BY <2>2, <3>1, OnwardKeeps, LeaveOnward DEF After
  <2>4. r.s = u /\ r.c = IF f # "ok" THEN y ELSE left
    BY <1>2 DEF LeaveCurrentRoom, Result, NewEpoch
  <2>5. m.s = u /\ m.c = IF r.c.room = 0 THEN [r.c EXCEPT !.screen = "menu"] ELSE r.c
    BY <2>4 DEF ToMenuIfLeft, Result
  <2> HIDE DEF y, u, r, m
  <2>6. /\ y \in Contexts /\ 0 \in Rooms /\ "menu" \in Screens
    BY <2>2, N64RoomAssumption DEF Good, Loose, Rooms, Screens
  <2>7. ASSUME f = "ok" PROVE Carries(x, t, o, m)
    <3>1. /\ left \in Contexts /\ left.room = 0 /\ left.sess = y.sess /\ left.life = y.life
          /\ left.pid = y.pid /\ left.launched = y.launched /\ left.conn = y.conn
          /\ left.rec = y.rec /\ left.fin = y.fin /\ left.pad = y.pad
      BY <2>6 DEF Contexts
    <3> HIDE DEF left
    <3>2. m.c = [left EXCEPT !.screen = "menu"]
      BY <2>4, <2>5, <2>7, <3>1
    <3>3. /\ m.c \in Contexts /\ m.c.screen = "menu" /\ m.c.sess = y.sess /\ m.c.life = y.life
          /\ m.c.pid = y.pid /\ m.c.launched = y.launched /\ m.c.conn = y.conn
          /\ m.c.rec = y.rec /\ m.c.fin = y.fin /\ m.c.pad = y.pad
      BY <2>6, <3>1, <3>2 DEF Contexts
    <3>4. QED
      BY <2>2, <2>3, <2>5, <2>7, <3>3, MenuKeeps DEF Carries, Out
  <2>8. ASSUME f # "ok", x.screen = "n64" PROVE Carries(x, t, o, m)
    <3>1. m.c = y /\ y.screen = "n64"
      BY <2>2, <2>4, <2>5, <2>8 DEF SamePlace, Loose, Named
    <3>2. QED
      BY <2>3, <2>5, <3>1 DEF Carries, Out
  <2>9. ASSUME f # "ok", x.screen # "n64" PROVE Carries(x, t, o, m)
    <3>1. y.screen = "menu" /\ x.screen = "menu"
      BY <1>0, <2>2, <2>9 DEF SamePlace, Contexts, Screens
    <3>2. m.c = y
      BY <2>4, <2>5, <2>6, <2>9, <3>1 DEF Contexts
    <3>3. QED
      BY <2>3, <2>5, <3>1, <3>2 DEF Carries, Out
  <2>10. QED
    BY <2>7, <2>8, <2>9 DEF m, r
<1>3. QED
  BY <1>1, <1>2

\* Where the server stays, or only the client does.
LEMMA StaysKeeps ==
    ASSUME NEW x, NEW t, NEW o, NEW u, Orderly(t), Good(x, t, o), Onward(t, u)
    PROVE  Carries(x, t, o, Result(x, u))
BY OnwardKeeps DEF Carries, Out, Result

\* A client that hears how its session is.
LEMMA HearsKeeps ==
    ASSUME NEW x, NEW t, NEW o, NEW u, NEW k \in BOOLEAN, Orderly(t), Good(x, t, o), Onward(t, u)
    PROVE  LET y == HandleNotice(x, MediaNotice(u, x.sess), k) IN
           /\ Carries(x, t, o, Result(y, u))
           /\ \/ y = x
              \/ Stopped(y)
              \/ y = Suspend(x, k) /\ x.pid # "none" /\ x.sess # u.act
<1> DEFINE n == MediaNotice(u, x.sess)
<1>1. Orderly(u) /\ Good(x, u, o) /\ x.sess \in Ids /\ x.sess <= u.n
  BY OnwardKeeps, SessionStarted DEF Onward, Good
<1>2. NoticeTrue(n, u) /\ n.id \in Ids /\ n.kind = "media"
  BY <1>1, MediaNoticeTrue
<1> HIDE DEF n
<1>3. /\ Good(HandleNotice(x, n, k), u, o) /\ Out(x, HandleNotice(x, n, k), u)
      /\ \/ HandleNotice(x, n, k) = x
         \/ Stopped(HandleNotice(x, n, k))
         \/ HandleNotice(x, n, k) = Suspend(x, k) /\ x.pid # "none" /\ x.sess # u.act
  BY <1>1, <1>2, HandleNoticeKeeps
<1>4. QED
  BY <1>3 DEF n, Carries, Result

\* The Host reports the end of its game.
LEMMA FinishHostKeeps ==
    ASSUME NEW x, NEW t, NEW o, NEW f \in Reply, NEW q \in BOOLEAN, NEW k \in BOOLEAN,
           Orderly(t), Good(x, t, o), x.sess # 0
    PROVE  Carries(x, t, o, FinishHost(x, t, f, q, k))
<1> DEFINE u == After(f, t, FinishRoom(t, x.sess))
<1>1. Onward(t, u)
  BY EndsOnward, AfterOnward
<1>2. FinishHost(x, t, f, q, k) \in
        {Result(HandleNotice(x, MediaNotice(u, x.sess), k), u), Result(x, u)}
  BY DEF FinishHost
<1> HIDE DEF u
<1>3. QED
  BY <1>1, <1>2, HearsKeeps, StaysKeeps

\* The emulator's end is noted, reported, and reported again until it is confirmed.
LEMMA HostProcessKeeps ==
    ASSUME NEW x, NEW t, NEW o, NEW f \in Reply, NEW q \in BOOLEAN, NEW k \in BOOLEAN,
           Orderly(t), Good(x, t, o)
    PROVE  Carries(x, t, o, HostProcess(x, t, f, q, k))
<1> DEFINE y == [x EXCEPT !.pid = "none", !.launched = 0]
           z == [x EXCEPT !.pid = "none", !.launched = 0, !.fin = TRUE]
<1>1. x \in Contexts /\ 0 \in Ids /\ "none" \in Pids
  BY Numbers DEF Good, Loose, Pids
<1>2. CASE x.fin
  <2>1. x.sess # 0
    BY <1>2 DEF Good, Loose, Served
  <2>2. QED
    BY <1>2, <2>1, FinishHostKeeps DEF HostProcess
<1>3. CASE ~x.fin /\ x.pid = "over"
  <2>1. /\ z \in Contexts /\ z.screen = x.screen /\ z.room = x.room /\ z.sess = x.sess
        /\ z.life = x.life /\ z.lifeRoom = x.lifeRoom /\ z.conn = x.conn /\ z.rec = x.rec
        /\ z.term = x.term /\ z.files = x.files /\ z.path = x.path /\ z.pad = x.pad
        /\ z.pid = "none" /\ z.launched = 0 /\ z.fin
    BY <1>1 DEF Contexts
  <2> HIDE DEF z
  <2>2. Good(z, t, o) /\ z.sess # 0
    BY <1>3, <2>1 DEF Good, Loose, Served, Named, Known, Done
  <2>3. Carries(z, t, o, FinishHost(z, t, f, q, k))
    BY <2>2, FinishHostKeeps
  <2>4. HostProcess(x, t, f, q, k) = FinishHost(z, t, f, q, k)
    BY <1>3 DEF HostProcess, z
  <2>5. QED
    BY <2>1, <2>3, <2>4 DEF Carries, Out
<1>4. CASE ~x.fin /\ x.pid = "crashed"
  <2>1. /\ y \in Contexts /\ y.screen = x.screen /\ y.room = x.room /\ y.sess = x.sess
        /\ y.life = x.life /\ y.lifeRoom = x.lifeRoom /\ y.conn = x.conn /\ y.rec = x.rec
        /\ y.term = x.term /\ y.files = x.files /\ y.path = x.path /\ y.pad = x.pad
        /\ y.pid = "none" /\ y.launched = 0 /\ y.fin = x.fin
    BY <1>1 DEF Contexts
  <2> HIDE DEF y
  <2>2. Loose(y, t, o)
    BY <1>4, <2>1 DEF Good, Loose, Served, Named, Known
  <2>3. Carries(y, t, o, ToMenuIfLeft(LeaveCurrentRoom(y, t, f, k)))
    BY <2>2, LeaveKeeps
  <2>4. HostProcess(x, t, f, q, k) = ToMenuIfLeft(LeaveCurrentRoom(y, t, f, k))
    BY <1>4 DEF HostProcess, y
  <2>5. QED
    BY <2>1, <2>3, <2>4 DEF Carries, Out
<1>5. CASE ~x.fin /\ x.pid \notin Ended
  BY <1>5, OnwardStays, StaysKeeps DEF HostProcess, Ended
<1>6. QED
  BY <1>2, <1>3, <1>4, <1>5 DEF Ended

\* The relay is lost: the session is recovered, or has ended.
LEMMA ReconnectKeeps ==
    ASSUME NEW x, NEW t, NEW o, NEW q \in BOOLEAN, NEW k \in BOOLEAN,
           Orderly(t), Good(x, t, o), x.conn # "none"
    PROVE  Carries(x, t, o, Reconnect(x, t, q, k))
<1> DEFINE u == IF q THEN Recover(t, x.sess) ELSE t
           y == IF q THEN HandleNotice(x, MediaNotice(u, x.sess), k) ELSE x
           lost == [y EXCEPT !.rec = TRUE, !.conn = "none"]
           z == WriteInput(lost, "neutral")
<1>1. Onward(t, u)
  BY UpdatesOnward, OnwardStays
<1>2. Reconnect(x, t, q, k) = Result(IF Stopped(y) THEN y ELSE z, u)
  BY DEF Reconnect
<1> HIDE DEF u
<1>3. /\ Carries(x, t, o, Result(y, u))
      /\ \/ y = x
         \/ Stopped(y)
         \/ y = Suspend(x, k) /\ x.pid # "none"
  BY <1>1, HearsKeeps, StaysKeeps
<1> HIDE DEF y
<1>4. CASE Stopped(y)
  BY <1>2, <1>3, <1>4
<1>5. CASE ~Stopped(y)
  <2>1. Good(y, u, o) /\ y \in Contexts
    BY <1>3 DEF Carries, Result, Good, Loose
  <2>2. y.screen = x.screen /\ y.sess = x.sess /\ y.files = x.files /\ y.path = x.path
    BY <1>3, <1>5, SuspendIs DEF Good, Loose, SamePlace, SameGame
  <2>3. /\ lost \in Contexts /\ lost.screen = y.screen /\ lost.room = y.room /\ lost.sess = y.sess
        /\ lost.life = y.life /\ lost.lifeRoom = y.lifeRoom /\ lost.conn = "none" /\ lost.rec
        /\ lost.term = y.term /\ lost.files = y.files /\ lost.path = y.path /\ lost.pad = y.pad
        /\ lost.pid = y.pid /\ lost.launched = y.launched /\ lost.fin = y.fin
    BY <2>1 DEF Contexts, Conns
  <2> HIDE DEF lost
  <2>4. /\ z \in Contexts /\ SamePlace(lost, z) /\ SameGame(lost, z) /\ z.conn = lost.conn
        /\ z.term = lost.term /\ z.pid = lost.pid /\ z.launched = lost.launched
        /\ z.life = lost.life /\ z.lifeRoom = lost.lifeRoom
        /\ z.pad = (IF lost.path THEN "neutral" ELSE lost.pad)
    BY <2>3, WrittenIs DEF Pads
  <2> HIDE DEF z
  <2>5. Served(z)
    BY <2>1, <2>2, <2>3, <2>4 DEF Good, Loose, Served, SamePlace, SameGame
  <2>6. Good(z, u, o) /\ z.screen = x.screen
    BY <2>1, <2>2, <2>3, <2>4, <2>5 DEF Good, Loose, Named, Known, Done, SamePlace, SameGame
  <2>7. QED
    BY <1>1, <1>2, <1>5, <2>6 DEF Carries, Out, Result
<1>6. QED
  BY <1>4, <1>5

\* A context that has a session but no relay and no emulator.
LEMMA UnjoinedKeeps ==
    ASSUME NEW x, NEW u, NEW o, NEW y \in Contexts, Good(x, u, o), Orderly(u), x.screen = "n64",
           x.pid = "none" \/ x.rec, y.sess \in {0, u.act}, x.rec => y.sess = x.sess,
           u.actRoom = u.room, u.room # 0, x.sess \notin o, u.act \notin o,
           \A id \in o : Gone(u, id),
           y.life = u.act, y.lifeRoom = x.room, y.screen = x.screen, y.room = x.room,
           y.pid = x.pid, y.launched = x.launched, y.rec = x.rec, y.fin = x.fin,
           x.conn = "none", y.pad # "held" \/ (y.conn = "paired" /\ y.path), ~x.fin,
           x.rec => y.files = x.files /\ y.path = x.path,
           y.conn # "none" => y.sess # 0 /\ (role = "host" => y.files = y.sess /\ y.path)
    PROVE  Good(y, u, o)
<1>1. x.room = u.room /\ u.act \in Ids /\ u.act <= u.n /\ 0 \notin o
  BY Numbers DEF Good, Loose, Named, Known, Orderly, Servers
<1>2. Served(y)
  BY DEF Good, Loose, Served
<1>3. Named(y, u)
  BY <1>1 DEF Good, Loose, Named
<1>4. Known(y, u, o) /\ y.sess \notin o
  BY <1>1 DEF Good, Loose, Known
<1>5. QED
  BY <1>2, <1>3, <1>4 DEF Good, Loose

\* Joining the relay: the Host's files are there before the connection is.
LEMMA JoinKeeps ==
    ASSUME NEW x, NEW u, NEW o, NEW how \in Starts, Good(x, u, o), Orderly(u), x.screen = "n64",
           x.conn = "none", ~x.fin, x.pid = "none" \/ x.rec, x.rec => x.sess = u.act,
           u.act # 0, u.actRoom = u.room, u.room # 0, x.sess \notin o,
           \A id \in o : Gone(u, id)
    PROVE  LET y == JoinRelay([x EXCEPT !.sess = u.act], how) IN
           Good(y, u, o) /\ y.screen = "n64"
<1> DEFINE given == [x EXCEPT !.sess = u.act]
           named == [given EXCEPT !.life = given.sess, !.lifeRoom = given.room]
           host == role = "host" /\ ~given.rec
           prepared == [named EXCEPT !.path = TRUE, !.pad = "neutral", !.files = named.sess]
           ready == IF host THEN prepared ELSE named
           joined == [ready EXCEPT !.conn = "auth"]
           written == WriteInput(ready, "neutral")
           failed == [written EXCEPT !.path = FALSE, !.sess = 0]
           y == JoinRelay(given, how)
<1>1. x \in Contexts /\ u.act \in Ids /\ 0 \in Ids /\ x.room = u.room /\ x.pad # "held"
  BY Numbers DEF Good, Loose, Named, Orderly, Servers, Served
<1>2. u.act \notin o
  BY DEF Gone
<1>3. /\ named \in Contexts /\ named.sess = u.act /\ named.life = u.act /\ named.lifeRoom = x.room
      /\ named.screen = x.screen /\ named.room = x.room /\ named.pid = x.pid
      /\ named.launched = x.launched /\ named.rec = x.rec /\ named.fin = x.fin
      /\ named.conn = "none" /\ named.pad = x.pad /\ named.files = x.files /\ named.path = x.path
      /\ host = (role = "host" /\ ~x.rec)
  BY <1>1 DEF Contexts
<1>4. y = IF host /\ how = "unprepared" THEN named
          ELSE IF how # "joined" THEN (IF ready.rec THEN written ELSE failed)
          ELSE joined
  BY DEF JoinRelay, PrepareInputPath, ConnectFailed
<1> HIDE DEF named, y, host
<1>5. /\ ready \in Contexts /\ ready.sess = u.act /\ ready.life = u.act /\ ready.lifeRoom = x.room
      /\ ready.screen = x.screen /\ ready.room = x.room /\ ready.pid = x.pid
      /\ ready.launched = x.launched /\ ready.rec = x.rec /\ ready.fin = x.fin
      /\ ready.conn = "none" /\ ready.pad # "held"
      /\ host => ready.files = u.act /\ ready.path
      /\ ~host => ready.files = x.files /\ ready.path = x.path
  <2>1. CASE host
    BY <1>1, <1>3, <2>1 DEF Contexts, Pads
  <2>2. CASE ~host
    BY <1>1, <1>3, <2>2
  <2>3. QED
    BY <2>1, <2>2
<1> HIDE DEF ready
<1>6. Good(named, u, o) /\ named.screen = "n64"
  BY <1>1, <1>2, <1>3, UnjoinedKeeps
<1>7. x.rec /\ role = "host" => x.files = u.act /\ x.path
  BY DEF Good, Loose, Served
<1>8. Good(joined, u, o) /\ joined.screen = "n64"
  <2>1. /\ joined \in Contexts /\ joined.sess = u.act /\ joined.life = u.act
        /\ joined.lifeRoom = x.room /\ joined.screen = x.screen /\ joined.room = x.room
        /\ joined.pid = x.pid /\ joined.launched = x.launched /\ joined.rec = x.rec
        /\ joined.fin = x.fin /\ joined.conn = "auth" /\ joined.pad # "held"
        /\ joined.files = ready.files /\ joined.path = ready.path
    BY <1>5 DEF Contexts, Conns
  <2> HIDE DEF joined
  <2>2. role = "host" => joined.files = u.act /\ joined.path
    BY <1>3, <1>5, <1>7, <2>1
  <2>3. x.rec => joined.files = x.files /\ joined.path = x.path
    BY <1>3, <1>5, <2>1
  <2>4. QED
    BY <1>1, <1>2, <2>1, <2>2, <2>3, UnjoinedKeeps
<1>9. /\ written \in Contexts /\ written.sess = u.act /\ written.life = u.act
      /\ written.lifeRoom = x.room /\ written.screen = x.screen /\ written.room = x.room
      /\ written.pid = x.pid /\ written.launched = x.launched /\ written.rec = x.rec
      /\ written.fin = x.fin /\ written.conn = "none" /\ written.pad # "held"
      /\ written.files = ready.files /\ written.path = ready.path
  <2>1. "neutral" \in Pads
    BY DEF Pads
  <2>2. QED
    BY <1>5, <2>1, WrittenIs DEF SamePlace, SameGame
<1> HIDE DEF written
<1>10. ASSUME host /\ how = "unprepared" PROVE Good(y, u, o) /\ y.screen = "n64"
  BY <1>4, <1>6, <1>10
<1>11. ASSUME ~(host /\ how = "unprepared") /\ how # "joined" /\ ready.rec PROVE Good(y, u, o) /\ y.screen = "n64"
  <2>1. written.files = x.files /\ written.path = x.path
    BY <1>3, <1>5, <1>9, <1>11
  <2>2. Good(written, u, o)
    BY <1>1, <1>2, <1>9, <2>1, UnjoinedKeeps
  <2>3. QED
    BY <1>4, <1>9, <1>11, <2>2
<1>12. ASSUME ~(host /\ how = "unprepared") /\ how # "joined" /\ ~ready.rec PROVE Good(y, u, o) /\ y.screen = "n64"
  <2>1. /\ failed \in Contexts /\ failed.sess = 0 /\ failed.life = u.act
        /\ failed.lifeRoom = x.room /\ failed.screen = x.screen /\ failed.room = x.room
        /\ failed.pid = x.pid /\ failed.launched = x.launched /\ failed.rec = x.rec
        /\ failed.fin = x.fin /\ failed.conn = "none" /\ failed.pad # "held"
    BY <1>1, <1>9 DEF Contexts
  <2> HIDE DEF failed
  <2>2. ~x.rec
    BY <1>5, <1>12
  <2>3. Good(failed, u, o)
    BY <1>1, <1>2, <2>1, <2>2, UnjoinedKeeps
  <2>4. QED
    BY <1>4, <1>12, <2>1, <2>3
<1>13. ASSUME ~(host /\ how = "unprepared") /\ how = "joined" PROVE Good(y, u, o) /\ y.screen = "n64"
  BY <1>4, <1>8, <1>13
<1>14. QED
  BY <1>10, <1>11, <1>12, <1>13 DEF y

\* The server starts the session of a ROOM that may start, and holds the game for the player.
LEMMA StartOnward ==
    ASSUME NEW t, NEW expected, Orderly(t), MayStart(t, expected)
    PROVE  LET u == StartRoom(t) IN
           /\ Onward(t, u) /\ u.act # 0 /\ u.actRoom = u.room /\ u.room # 0
           /\ expected # 0 => u.act = expected
<1> DEFINE v == CreateOrGet(t)
           u == [v EXCEPT !.lock = TRUE]
<1>1. /\ Onward(t, v) /\ v.act # 0 /\ v.room = t.room
      /\ v.act # t.act => v.actRoom = t.room
  BY CreateOnward DEF MayStart
<1>2. v.actRoom = v.room
  BY <1>1 DEF MayStart, Onward
<1>3. expected # 0 => v.act = expected
  BY DEF MayStart, CreateOrGet
<1>4. StartRoom(t) = u
  BY DEF StartRoom
<1> HIDE DEF v
<1>5. SameNumbers(v, u)
  BY <1>1 DEF Onward, Orderly, SameNumbers, Servers
<1>6. Onward(v, u)
  BY <1>1, <1>5, SameNumbersOnward DEF Onward
<1>7. QED
  BY <1>1, <1>2, <1>3, <1>4, <1>5, <1>6, OnwardFollows DEF SameNumbers, MayStart

\* A start that is refused, or whose answer is lost, leaves the session to be asked for again.
LEMMA RefusedKeeps ==
    ASSUME NEW x, NEW t, NEW o, NEW u, NEW q \in BOOLEAN, NEW k \in BOOLEAN,
           Orderly(t), Good(x, t, o), Onward(t, u)
    PROVE  Carries(x, t, o, StartRefused(x, u, q, k))
BY HearsKeeps, StaysKeeps DEF StartRefused

\* A start: asked for, refused, or the relay joined.
LEMMA RequestKeeps ==
    ASSUME NEW x, NEW t, NEW o, NEW how \in Starts, NEW q \in BOOLEAN, NEW k \in BOOLEAN,
           Orderly(t), Good(x, t, o), x.screen = "n64", x.pid \notin Ended
    PROVE  Carries(x, t, o, RequestSession(x, t, how, q, k))
<1> DEFINE known == IF x.sess # 0 /\ q THEN HandleNotice(x, MediaNotice(t, x.sess), k) ELSE x
           u == StartRoom(t)
           expected == IF x.rec THEN known.sess ELSE 0
           given == [known EXCEPT !.sess = u.act]
           r == RequestSession(x, t, how, q, k)
<1>1. /\ r = IF x.fin \/ x.term \/ x.pre \/ x.conn # "none" THEN Result(x, t)
             ELSE IF x.sess # 0 /\ q /\ Stopped(known) THEN Result(known, t)
             ELSE IF how = "lost" \/ ~MayStart(t, expected) THEN StartRefused(known, t, q, k)
             ELSE IF how = "unheard" THEN StartRefused(known, u, q, k)
             ELSE Result(JoinRelay(given, how), u)
  BY DEF RequestSession
<1>2. Onward(t, t)
  BY OnwardStays
<1>3. /\ Carries(x, t, o, Result(known, t))
      /\ \/ known = x
         \/ x.sess # 0 /\ q /\ Stopped(known)
         \/ known = Suspend(x, k) /\ x.pid # "none" /\ x.sess # t.act
  BY <1>2, HearsKeeps, StaysKeeps
<1> HIDE DEF known, u, r
<1>4. ASSUME x.fin \/ x.term \/ x.pre \/ x.conn # "none" PROVE Carries(x, t, o, r)
  BY <1>1, <1>2, <1>4, StaysKeeps
<1>5. ASSUME ~(x.fin \/ x.term \/ x.pre \/ x.conn # "none"), x.sess # 0 /\ q /\ Stopped(known)
      PROVE  Carries(x, t, o, r)
  BY <1>1, <1>3, <1>5
<1>6. ASSUME ~(x.fin \/ x.term \/ x.pre \/ x.conn # "none"), ~(x.sess # 0 /\ q /\ Stopped(known))
      PROVE  Carries(x, t, o, r)
  <2>1. x.sess \notin o
    BY <1>6 DEF Good, Done
  <2>2. /\ Good(known, t, o) /\ known.screen = x.screen /\ known.life = x.life
        /\ known.sess = x.sess
    BY <1>3, <1>6, SuspendKeeps DEF Carries, Result, Good, SamePlace, SameGame
  <2>3. ASSUME NEW v, Onward(t, v) PROVE Carries(x, t, o, StartRefused(known, v, q, k))
    BY <2>2, <2>3, RefusedKeeps DEF Carries, Out
  <2>4. x.pid # "none" => x.rec
    BY <1>6 DEF Good, Loose, Served
  <2>5. x.rec => x.sess # 0
    BY DEF Good, Loose, Served
  <2>6. ASSUME MayStart(t, expected)
        PROVE  /\ known = x /\ Onward(t, u) /\ u.act # 0 /\ u.actRoom = u.room /\ u.room # 0
               /\ x.rec => x.sess = u.act
               /\ \A id \in o : Gone(u, id)
    <3>1. /\ Onward(t, u) /\ u.act # 0 /\ u.actRoom = u.room /\ u.room # 0
          /\ expected # 0 => u.act = expected
      BY <2>6, StartOnward DEF u
    <3>2. x.rec => x.sess = t.act
      BY <2>2, <2>5, <2>6 DEF MayStart
    <3>3. known = x
      BY <1>3, <1>6, <2>4, <3>2
    <3>4. \A id \in o : Gone(u, id)
      <4>1. Good(x, u, o)
        BY <3>1, OnwardKeeps
      <4>2. QED
        BY <2>1, <4>1 DEF Good, Loose, Known
    <3>5. QED
      BY <2>2, <2>5, <3>1, <3>3, <3>4
  <2>7. ASSUME MayStart(t, expected) PROVE Carries(x, t, o, Result(JoinRelay(given, how), u))
    <3>1. /\ known = x /\ Onward(t, u) /\ u.act # 0 /\ u.actRoom = u.room /\ u.room # 0
          /\ x.rec => x.sess = u.act
          /\ \A id \in o : Gone(u, id)
      BY <2>6, <2>7
    <3>2. Good(x, u, o) /\ Orderly(u)
      BY <3>1, OnwardKeeps DEF Onward
    <3>3. x.pid = "none" \/ x.rec
      BY <2>4
    <3>4. Good(JoinRelay(given, how), u, o) /\ JoinRelay(given, how).screen = "n64"
      BY <1>6, <2>1, <3>1, <3>2, <3>3, JoinKeeps
    <3>5. QED
      BY <3>1, <3>4 DEF Carries, Out, Result
  <2>8. QED
    BY <1>1, <1>2, <1>6, <2>3, <2>6, <2>7
<1>7. QED
  BY <1>4, <1>5, <1>6 DEF r

\* A game is begun for a session that has not ended, with its files in place.
LEMMA LaunchedKeeps ==
    ASSUME NEW x, NEW t, NEW o, Good(x, t, o), MayLaunch(x), x.screen = "n64", ~x.fin, ~x.term
    PROVE  LET y == Launched(x) IN
           /\ Good(y, t, o) /\ y.screen = x.screen /\ y.conn = x.conn /\ y.sess = x.sess
           /\ y.pid = "running" /\ y.launched # 0
<1> DEFINE y == Launched(x)
<1>1. x \in Contexts /\ x.conn = "paired" /\ x.pid = "none" /\ role = "host"
  BY DEF Good, Loose, MayLaunch
<1>2. /\ y \in Contexts /\ y.screen = x.screen /\ y.room = x.room /\ y.sess = x.sess
      /\ y.life = x.life /\ y.lifeRoom = x.lifeRoom /\ y.conn = x.conn /\ y.rec = x.rec
      /\ y.term = x.term /\ y.files = x.files /\ y.path = x.path /\ y.pad = x.pad
      /\ y.fin = x.fin /\ y.pid = "running" /\ y.launched = x.sess
  BY <1>1 DEF Contexts, Launched, Pids
<1> HIDE DEF y
<1>3. x.sess \notin o
  BY <1>1 DEF Good, Done, Ended
<1>4. x.sess # 0 /\ x.files = x.sess
  BY <1>1 DEF Good, Loose, Served
<1>5. QED
  BY <1>1, <1>2, <1>3, <1>4 DEF Good, Loose, Served, Named, Known, y

\* An emulator that was begun without a way to send it the buttons is stopped again.
LEMMA StopKeeps ==
    ASSUME NEW x, NEW t, NEW o, NEW k \in BOOLEAN, Good(x, t, o), x.sess \notin o
    PROVE  LET y == StopHostProcess(x, k) IN
           Good(y, t, o) /\ y.screen = x.screen /\ y.conn = x.conn /\ y.sess = x.sess
<1> DEFINE y == StopHostProcess(x, k)
<1>1. /\ y \in Contexts
      /\ SamePlace(x, y) /\ SameGame(x, y) /\ y.conn = x.conn /\ y.term = x.term
      /\ y.life = x.life /\ y.lifeRoom = x.lifeRoom /\ y.pad = x.pad
      /\ y.pid = (IF k THEN "none" ELSE x.pid)
      /\ y.launched = (IF k /\ x.pid # "none" THEN 0 ELSE x.launched)
  BY StoppedIs DEF Good, Loose
<1> HIDE DEF y
<1>2. Served(y)
  BY <1>1 DEF Good, Loose, Served, SamePlace, SameGame
<1>3. QED
  BY <1>1, <1>2 DEF Good, Loose, Named, Known, SamePlace, SameGame, y

\* A launch that the check of the SAVs refuses.
LEMMA RejectKeeps ==
    ASSUME NEW x, NEW t, NEW o, NEW f \in Reply, NEW k \in BOOLEAN, Orderly(t), Good(x, t, o),
           x.screen = "n64", x.sess # 0, x.sess \notin o, x.pid = "none"
    PROVE  LET r == RejectLaunch(x, t, f, k) IN Carries(x, t, o, r) /\ r.c.pre
<1> DEFINE z == Suspend(x, k)
           y == [[z EXCEPT !.term = FALSE, !.self = FALSE, !.peer = FALSE, !.ready = FALSE]
                   EXCEPT !.bump = TRUE]
           v == IF f = "ok" THEN Reset(y, k) ELSE y
           last == [v EXCEPT !.pre = TRUE]
           u == After(f, t, RejectPreflight(t, x.sess))
<1>1. /\ Good(z, t, o) /\ SamePlace(x, z) /\ SameGame(x, z) /\ z.conn = "none"
      /\ z.pid = "none"
  BY SuspendKeeps DEF Good
<1>2. RejectLaunch(x, t, f, k) = Result(last, u)
  BY DEF RejectLaunch, NewEpoch
<1>3. Onward(t, u)
  BY EndsOnward, AfterOnward
<1> HIDE DEF z, u
<1>4. /\ y \in Contexts /\ y.screen = z.screen /\ y.room = z.room /\ y.sess = z.sess
      /\ y.life = z.life /\ y.lifeRoom = z.lifeRoom /\ y.conn = z.conn /\ y.rec = z.rec
      /\ y.files = z.files /\ y.path = z.path /\ y.pad = z.pad /\ y.fin = z.fin
      /\ y.pid = z.pid /\ y.launched = z.launched
  <2>1. z \in Contexts
    BY <1>1 DEF Good, Loose
  <2>2. QED
    BY <2>1 DEF Contexts
<1> HIDE DEF y
<1>5. Good(y, t, o) /\ y.screen = x.screen /\ y.sess = x.sess
  BY <1>1, <1>4 DEF Good, Loose, Served, Named, Known, SamePlace, SameGame
<1>6. Good(v, t, o) /\ v.screen = x.screen
  <2>1. CASE f = "ok"
    BY <1>5, <2>1, ResetKeeps DEF Good, SamePlace
  <2>2. CASE f # "ok"
    BY <1>5, <2>2
  <2>3. QED
    BY <2>1, <2>2
<1> HIDE DEF v
<1>7. v \in Contexts
  BY <1>6 DEF Good, Loose
<1>8. last \in Contexts /\ SameFacts(v, last) /\ last.pre
  BY <1>7 DEF Contexts, SameFacts
<1> HIDE DEF last
<1>9. Good(last, t, o) /\ last.screen = x.screen
  BY <1>6, <1>8, SameFactsKeep DEF SameFacts
<1>10. QED
  BY <1>2, <1>3, <1>8, <1>9, OnwardKeeps DEF Carries, Out, Result

\* The Host's game, once the other player is there.
LEMMA StartHostKeeps ==
    ASSUME NEW x, NEW t, NEW o, NEW plan, NEW f \in Reply, NEW k \in BOOLEAN,
           Orderly(t), Good(x, t, o), x.screen = "n64", ~x.fin, ~x.term, x.pid \notin Ended,
           plan \in {"failed", "preflight", "no_sender", "started"}
    PROVE  LET r == MaybeStartHost(x, t, plan, f, k) IN
           /\ Carries(x, t, o, r)
           /\ r.c.pre \/ (r.c.conn = x.conn /\ r.c.sess = x.sess)
<1>1. x.sess \notin o
  BY DEF Good, Done
<1>2. CASE ~MayLaunch(x) \/ plan = "failed"
  BY <1>2, OnwardStays, StaysKeeps DEF MaybeStartHost, Result
<1>3. CASE MayLaunch(x) /\ plan = "started"
  <2>1. MaybeStartHost(x, t, plan, f, k) = Result(Launched(x), t)
    BY <1>3 DEF MaybeStartHost
  <2>2. QED
    BY <1>3, <2>1, LaunchedKeeps, OnwardStays DEF Carries, Out, Result
<1>4. CASE MayLaunch(x) /\ plan = "no_sender"
  <2>1. MaybeStartHost(x, t, plan, f, k) = Result(StopHostProcess(Launched(x), k), t)
    BY <1>4 DEF MaybeStartHost
  <2> DEFINE z == Launched(x)
             y == StopHostProcess(z, k)
  <2>2. Good(z, t, o) /\ z.screen = x.screen /\ z.conn = x.conn /\ z.sess = x.sess
    BY <1>4, LaunchedKeeps
  <2> HIDE DEF z
  <2>3. Good(y, t, o) /\ y.screen = x.screen /\ y.conn = x.conn /\ y.sess = x.sess
    BY <1>1, <2>2, StopKeeps
  <2>4. QED
    BY <2>1, <2>3, OnwardStays DEF Carries, Out, Result, z
<1>5. CASE MayLaunch(x) /\ plan = "preflight"
  <2>1. MaybeStartHost(x, t, plan, f, k) = RejectLaunch(x, t, f, k)
    BY <1>5 DEF MaybeStartHost
  <2>2. x.sess # 0 /\ x.pid = "none"
    BY <1>5 DEF MayLaunch, Good, Loose, Served
  <2>3. QED
    BY <1>1, <2>1, <2>2, RejectKeeps
<1>6. QED
  BY <1>2, <1>3, <1>4, <1>5

\* A frame of the other player's controller.
LEMMA ControllerKeeps ==
    ASSUME NEW x, NEW t, NEW o, NEW input \in Inputs, NEW k \in BOOLEAN, Good(x, t, o),
           x.conn = "paired", x.sess \notin o
    PROVE  LET y == PollController(x, input, k) IN Good(y, t, o) /\ y.screen = x.screen
<1>1. CASE input \in {"held", "neutral"}
  <2>1. PollController(x, input, k) = WriteInput(x, input) /\ input \in Pads
    BY <1>1 DEF PollController, Pads
  <2>2. QED
    BY <2>1, WriteInputKeeps
<1>2. CASE input = "refused"
  <2>1. PollController(x, input, k) = Reset(x, k)
    BY <1>2 DEF PollController
  <2>2. QED
    BY <2>1, ResetKeeps DEF Good, SamePlace
<1>3. CASE input = "none"
  BY <1>3 DEF PollController
<1>4. QED
  BY <1>1, <1>2, <1>3 DEF Inputs

\* What a launch may come to.
LEMMA PlansAre == Plans \subseteq {"failed", "preflight", "no_sender", "started"}
BY DEF Plans, LaunchPlan, Spawns

\* The ROOM is read back, or not: it is the one the client is in.
LEMMA RefreshIs ==
    ASSUME NEW x \in Contexts, NEW t, Orderly(t), t.room # 0, NEW ok \in BOOLEAN
    PROVE  LET v == RefreshRoom(x, t, ok) IN v \in Contexts /\ SameFacts(x, v) /\ v.bump
<1> DEFINE y == [x EXCEPT !.bump = TRUE]
           z == [y EXCEPT !.self = t.me, !.peer = t.peer]
           v == [z EXCEPT !.ready = z.self]
<1>1. y \in Contexts /\ SameFacts(x, y) /\ y.bump
  BY DEF Contexts, SameFacts
<1>2. RefreshRoom(x, t, ok) = IF ~ok THEN y ELSE v
  BY DEF RefreshRoom, NewEpoch, ReadyFlags
<1> HIDE DEF y
<1>3. t.me \in BOOLEAN /\ t.peer \in BOOLEAN
  BY DEF Orderly, Servers
<1>4. z \in Contexts /\ SameFacts(y, z) /\ z.self \in BOOLEAN /\ z.bump
  BY <1>1, <1>3 DEF Contexts, SameFacts
<1> HIDE DEF z
<1>5. v \in Contexts /\ SameFacts(z, v) /\ v.bump
  BY <1>4 DEF Contexts, SameFacts
<1> HIDE DEF v
<1>6. QED
  BY <1>1, <1>2, <1>4, <1>5 DEF SameFacts

\* READY and the selection are told to the server: the client's game is as it was.
LEMMA SyncKeeps ==
    ASSUME NEW x, NEW t, NEW o, NEW ready \in BOOLEAN, NEW f \in Syncs, NEW back \in BOOLEAN,
           Orderly(t), Good(x, t, o)
    PROVE  LET r == SyncState(x, t, ready, f, back) IN
           /\ Onward(t, r.s) /\ Good(r.c, r.s, o) /\ SameFacts(x, r.c)
           /\ x.bump => r.c.bump
<1> DEFINE told == UpdateUserState(t, ready, ~x.synced, back)
           u == After(f, t, told)
           y == [x EXCEPT !.synced = TRUE]
           z == RefreshRoom(y, u, f = "ok")
           r == SyncState(x, t, ready, f, back)
<1>1. x \in Contexts /\ x.synced \in BOOLEAN
  BY DEF Good, Loose, Contexts
<1>2. y \in Contexts /\ SameFacts(x, y) /\ y.bump = x.bump
  BY <1>1 DEF Contexts, SameFacts
<1>3. Onward(t, u) /\ u.room = t.room
  <2>1. Onward(t, told) /\ told.room = t.room
    BY <1>1, UpdatesOnward
  <2> HIDE DEF told
  <2>2. QED
    BY <2>1, AfterOnward DEF After
<1>4. r = IF t.room = 0 \/ f = "lost" THEN [ok |-> FALSE, c |-> x, s |-> t]
          ELSE IF f = "unheard" THEN [ok |-> FALSE, c |-> y, s |-> u]
          ELSE [ok |-> TRUE, c |-> z, s |-> u]
  BY DEF SyncState
<1> HIDE DEF y, u, r
<1>5. ASSUME t.room = 0 \/ f = "lost"
      PROVE  Onward(t, r.s) /\ Good(r.c, r.s, o) /\ SameFacts(x, r.c) /\ (x.bump => r.c.bump)
  BY <1>4, <1>5, OnwardStays DEF SameFacts
<1>6. Good(y, u, o)
  BY <1>2, <1>3, OnwardKeeps, SameFactsKeep
<1>7. ASSUME ~(t.room = 0 \/ f = "lost"), f = "unheard"
      PROVE  Onward(t, r.s) /\ Good(r.c, r.s, o) /\ SameFacts(x, r.c) /\ (x.bump => r.c.bump)
  BY <1>2, <1>3, <1>4, <1>6, <1>7
<1>8. ASSUME ~(t.room = 0 \/ f = "lost"), f # "unheard"
      PROVE  Onward(t, r.s) /\ Good(r.c, r.s, o) /\ SameFacts(x, r.c) /\ (x.bump => r.c.bump)
  <2>1. z \in Contexts /\ SameFacts(y, z) /\ z.bump
    BY <1>2, <1>3, <1>8, RefreshIs DEF Onward
  <2> HIDE DEF z
  <2>2. Good(z, u, o)
    BY <1>6, <2>1, SameFactsKeep
  <2>3. SameFacts(x, z)
    BY <1>2, <2>1 DEF SameFacts
  <2>4. QED
    BY <1>3, <1>4, <1>8, <2>1, <2>2, <2>3
<1>9. QED
  BY <1>5, <1>7, <1>8 DEF r

-----------------------------------------------------------------------------
(* The steps. Each keeps the invariant, and the ROOM's screen while the player is in a ROOM. *)

Kept == Inv' /\ (c.screen = "n64" /\ c'.screen = "menu" => s'.room = 0 \/ c.life \in s'.pf)

\* The invariant speaks of the role, which stays.
LEMMA KeptWhen ==
    ASSUME Inv, UNCHANGED role, Orderly(s'), Good(c', s', over'), ~c'.bump,
           c.screen = "n64" /\ c'.screen = "menu" => s'.room = 0 \/ c.life \in s'.pf,
           w'.st \in Polls, w'.self \in BOOLEAN, w'.peer \in BOOLEAN,
           w'.st = "heartbeat" => NoticeTrue(w'.n, s') /\ w'.n.id \in Ids
    PROVE  Kept
BY DEF Kept, Inv, Good, Loose, Served

\* The epoch is no part of a good context.
LEMMA SettledKeeps ==
    ASSUME NEW x, NEW t, NEW o, Good(x, t, o)
    PROVE  LET y == [x EXCEPT !.bump = FALSE] IN Good(y, t, o) /\ ~y.bump /\ y.screen = x.screen
<1> DEFINE y == [x EXCEPT !.bump = FALSE]
<1>1. x \in Contexts
  BY DEF Good, Loose
<1>2. y \in Contexts /\ SameFacts(x, y) /\ ~y.bump
  BY <1>1 DEF Contexts, SameFacts
<1> HIDE DEF y
<1>3. QED
  BY <1>2, SameFactsKeep DEF SameFacts, y

\* A handler of the main loop.
LEMMA SetKeeps ==
    ASSUME NEW r, Inv, Carries(c, s, over, r), Set(r), UNCHANGED over
    PROVE  Kept
<1>1. /\ Good(c', s', over') /\ ~c'.bump /\ c'.screen = r.c.screen /\ s' = r.s
      /\ Orderly(s') /\ UNCHANGED role
  BY SettledKeeps DEF Set, Carries, Onward
<1>2. c.screen = "n64" /\ c'.screen = "menu" => s'.room = 0 \/ c.life \in s'.pf
  BY <1>1 DEF Carries, Out
<1>3. /\ w'.st \in Polls /\ w'.self \in BOOLEAN /\ w'.peer \in BOOLEAN
      /\ w'.st = "heartbeat" => w' = w
  <2>1. w' = w \/ w' = [Idle EXCEPT !.st = "stale"]
    BY DEF Set
  <2>2. QED
    BY <2>1 DEF Idle, Polls, Inv
<1>4. w'.st = "heartbeat" => NoticeTrue(w'.n, s') /\ w'.n.id \in Ids
  BY <1>1, <1>3, OnwardKeeps DEF Inv, Carries
<1>5. QED
  BY <1>1, <1>2, <1>3, <1>4, KeptWhen

\* One handler after another.
LEMMA CarriesOn ==
    ASSUME NEW x, NEW t, NEW o, NEW y, NEW u, NEW r, Orderly(t), Onward(t, u),
           y.screen = x.screen, y.life = x.life, Carries(y, u, o, r)
    PROVE  Carries(x, t, o, r)
BY OnwardFollows DEF Carries, Out

\* A handler that stays on the screen.
LEMMA CarriesWithin ==
    ASSUME NEW x, NEW t, NEW o, NEW y, NEW u, Onward(t, u), Good(y, u, o), y.screen = x.screen
    PROVE  Carries(x, t, o, Result(y, u))
BY DEF Carries, Out, Result

\* What the keys find.
LEMMA KeysFind ==
    ASSUME Inv, KeysOpen
    PROVE  /\ c \in Contexts /\ Good(c, s, over) /\ Loose(c, s, over) /\ Orderly(s)
           /\ c.screen = "n64" /\ c.pid = "none" /\ c.sess \notin over
BY DEF Inv, KeysOpen, RuntimeActive, Good, Loose, Done, Ended

\* A ROOM is entered: what was known of earlier sessions is of the past.
LEMMA EnterRoomKeeps == Inv /\ EnterRoom => Kept
<1> SUFFICES ASSUME Inv, EnterRoom PROVE Kept
  OBVIOUS
<1>1. PICK f \in Syncs, back \in BOOLEAN, known \in BOOLEAN, k \in Kill :
         LET t == [s EXCEPT !.gen = @ + 1, !.room = s.gen + 1, !.two = (role = "remote"),
                            !.me = FALSE, !.peer = FALSE, !.notice = FALSE]
             x == [Reset([c EXCEPT !.room = t.room, !.ready = FALSE], k)
                      EXCEPT !.screen = "n64", !.synced = FALSE]
             y == RefreshRoom(x, t, known)
         IN Set(SyncState(y, t, FALSE, f, back))
  BY DEF EnterRoom
<1> DEFINE t == [s EXCEPT !.gen = @ + 1, !.room = s.gen + 1, !.two = (role = "remote"),
                          !.me = FALSE, !.peer = FALSE, !.notice = FALSE]
           a == [c EXCEPT !.room = t.room, !.ready = FALSE]
           b == Reset(a, k)
           x == [b EXCEPT !.screen = "n64", !.synced = FALSE]
           y == RefreshRoom(x, t, known)
           r == SyncState(y, t, FALSE, f, back)
<1>2. Set(r)
  BY <1>1
<1>3. /\ c \in Contexts /\ Orderly(s) /\ s \in Servers /\ c.screen = "menu" /\ s.gen < MaxRooms
      /\ c.pid = "none" /\ c.launched = 0 /\ Good(c, s, over) /\ s.gen \in Nat /\ MaxRooms \in Nat
      /\ s.n \in Nat /\ s.actRoom \in Nat /\ s.actRoom <= s.gen /\ k \in BOOLEAN
  BY Numbers, N64RoomAssumption DEF Inv, Good, Loose, Served, EnterRoom, Orderly, Kill
<1>4. /\ t \in Servers /\ t.room = s.gen + 1 /\ t.gen = s.gen + 1 /\ t.act = s.act /\ t.n = s.n
      /\ t.actRoom = s.actRoom /\ t.last = s.last /\ t.done = s.done /\ t.pf = s.pf /\ ~t.notice
  <2>1. s.gen + 1 \in Rooms
    BY <1>3 DEF Rooms
  <2>2. (role = "remote") \in BOOLEAN
    OBVIOUS
  <2>3. QED
    BY ZenonT(40), <1>3, <2>1, <2>2 DEF Servers
<1> HIDE DEF t
<1>5. Orderly(t) /\ t.room # 0
  BY <1>3, <1>4 DEF Orderly
<1>6. a \in Contexts /\ a.pid = "none" /\ a.launched = 0 /\ a.room = t.room
  BY <1>3, <1>4 DEF Contexts, Servers
<1> HIDE DEF a
<1>7. /\ b \in Contexts /\ b.room = t.room /\ b.sess = 0 /\ b.life = 0 /\ b.conn = "none"
      /\ ~b.rec /\ ~b.fin /\ ~b.term /\ b.pid = "none" /\ b.pad = "none" /\ b.launched = 0
  BY <1>3, <1>6, ResetIs DEF SamePlace
<1> HIDE DEF b
<1>8. /\ x \in Contexts /\ x.screen = "n64" /\ x.room = t.room /\ x.sess = 0 /\ x.life = 0
      /\ x.conn = "none" /\ ~x.rec /\ ~x.fin /\ ~x.term /\ x.pid = "none" /\ x.pad = "none"
      /\ x.launched = 0
  BY <1>7 DEF Contexts, Screens
<1> HIDE DEF x
<1>9. Good(x, t, over)
  <2>1. \A id \in over : id \in Ids /\ id # 0 /\ id <= t.n /\ Gone(t, id)
    BY <1>3, <1>4 DEF Good, Loose, Known, Gone
  <2>2. Served(x) /\ Named(x, t)
    BY <1>5, <1>8 DEF Served, Named
  <2>3. QED
    BY <1>8, <2>1, <2>2 DEF Good, Loose, Known
<1>10. y \in Contexts /\ SameFacts(x, y) /\ y.bump
  BY <1>5, <1>8, RefreshIs
<1> HIDE DEF y
<1>11. Good(y, t, over)
  BY <1>9, <1>10, SameFactsKeep
<1>12. Onward(t, r.s) /\ Good(r.c, r.s, over) /\ r.c.bump
  BY <1>5, <1>10, <1>11, SyncKeeps
<1> HIDE DEF r
<1>13. /\ Good(c', s', over') /\ ~c'.bump /\ Orderly(s') /\ UNCHANGED role
  BY <1>2, <1>12, SettledKeeps DEF Set, Onward, EnterRoom
<1>14. w' = IF w.st # "idle" THEN [Idle EXCEPT !.st = "stale"] ELSE w
  BY <1>2, <1>12 DEF Set
<1>15. /\ w'.st \in Polls /\ w'.self \in BOOLEAN /\ w'.peer \in BOOLEAN /\ w'.st # "heartbeat"
  BY <1>14 DEF Idle, Polls, Inv
<1>16. QED
  BY <1>3, <1>13, <1>15, KeptWhen

\* Another selection.
LEMMA KeySelectKeeps == Inv /\ KeySelect => Kept
<1> SUFFICES ASSUME Inv, KeySelect PROVE Kept
  OBVIOUS
<1>1. PICK moved \in BOOLEAN, back \in BOOLEAN, f \in Syncs, k \in Kill :
        LET x == Reset([c EXCEPT !.ready = FALSE, !.synced = @ /\ ~moved], k)
        IN Set(SyncState(x, s, FALSE, f, back))
  BY DEF KeySelect
<1> DEFINE a == [c EXCEPT !.ready = FALSE, !.synced = @ /\ ~moved]
           x == Reset(a, k)
           r == SyncState(x, s, FALSE, f, back)
<1>2. /\ c \in Contexts /\ Good(c, s, over) /\ Orderly(s) /\ c.screen = "n64"
      /\ c.pid = "none" /\ c.sess \notin over /\ k \in BOOLEAN
  BY KeysFind DEF KeySelect, Kill
<1>3. a \in Contexts /\ SameFacts(c, a)
  BY <1>2 DEF Contexts, SameFacts
<1>4. Set(r)
  BY <1>1
<1> HIDE DEF a
<1>5. Good(x, s, over) /\ x.screen = c.screen
  BY <1>2, <1>3, SameFactsKeep, ResetKeeps DEF Good, SameFacts, SamePlace
<1> HIDE DEF x
<1>6. Onward(s, r.s) /\ Good(r.c, r.s, over) /\ r.c.screen = c.screen
  <2>1. Onward(s, r.s) /\ Good(r.c, r.s, over) /\ SameFacts(x, r.c)
    BY <1>2, <1>5, SyncKeeps
  <2> HIDE DEF r
  <2>2. QED
    BY <1>5, <2>1 DEF SameFacts
<1> HIDE DEF r
<1>7. Carries(c, s, over, r)
  BY <1>6 DEF Carries, Out
<1>8. QED
  BY <1>4, <1>7, SetKeeps DEF KeySelect

\* READY refused or taken back: the game that was not begun is forgotten.
LEMMA ForgottenKeeps ==
    ASSUME NEW x, NEW u, NEW o, NEW y \in Contexts, NEW k \in BOOLEAN, Good(x, u, o), SameFacts(x, y),
           x.sess \notin o
    PROVE  Good(Reset(y, k), u, o) /\ Reset(y, k).screen = x.screen
BY SameFactsKeep, ResetKeeps DEF Good, SameFacts, SamePlace

\* READY is taken back.
LEMMA KeyNotReadyKeeps == Inv /\ KeyNotReady => Kept
<1> SUFFICES ASSUME Inv, KeyNotReady PROVE Kept
  OBVIOUS
<1>1. PICK f \in Syncs, back \in BOOLEAN, k \in Kill :
        LET r == SyncState(c, s, FALSE, f, back)
        IN Set(IF r.ok THEN Result(Reset([r.c EXCEPT !.ready = FALSE, !.pre = FALSE], k), r.s)
               ELSE Result(ReadyRefused(r.c, k), r.s))
  BY DEF KeyNotReady
<1> DEFINE r == SyncState(c, s, FALSE, f, back)
           a == [r.c EXCEPT !.ready = FALSE, !.pre = FALSE]
           b == [r.c EXCEPT !.ready = FALSE]
<1>2. /\ c \in Contexts /\ Good(c, s, over) /\ Orderly(s) /\ c.screen = "n64"
      /\ c.pid = "none" /\ c.sess \notin over /\ k \in BOOLEAN
  BY KeysFind DEF KeyNotReady, Kill
<1>3. Set(IF r.ok THEN Result(Reset(a, k), r.s) ELSE Result(Reset(b, k), r.s))
  BY <1>1 DEF ReadyRefused
<1>4. /\ Onward(s, r.s) /\ Good(r.c, r.s, over) /\ r.c \in Contexts /\ r.c.screen = c.screen
      /\ r.c.sess \notin over
  <2>1. Onward(s, r.s) /\ Good(r.c, r.s, over) /\ SameFacts(c, r.c)
    BY <1>2, SyncKeeps
  <2> HIDE DEF r
  <2>2. QED
    BY <1>2, <2>1 DEF SameFacts, Good, Loose
<1> HIDE DEF r
<1>5. a \in Contexts /\ SameFacts(r.c, a) /\ b \in Contexts /\ SameFacts(r.c, b)
  BY <1>4 DEF Contexts, SameFacts
<1> HIDE DEF a, b
<1>6. Carries(c, s, over, Result(Reset(a, k), r.s)) /\ Carries(c, s, over, Result(Reset(b, k), r.s))
  BY <1>2, <1>4, <1>5, ForgottenKeeps, CarriesWithin
<1>7. QED
  BY <1>3, <1>6, SetKeeps DEF KeyNotReady

\* READY is told, and the second one starts the game.
LEMMA KeyReadyKeeps == Inv /\ KeyReady => Kept
<1> SUFFICES ASSUME Inv, KeyReady PROVE Kept
  OBVIOUS
<1>1. PICK k \in Kill :
         \/ Set(Result(ReadyRefused(c, k), s))
         \/ \E f \in Syncs, back, q \in BOOLEAN, how \in Starts :
              LET r == SyncState(c, s, TRUE, f, back)
                  y == [r.c EXCEPT !.ready = TRUE, !.pre = FALSE]
              IN Set(IF ~r.ok THEN Result(ReadyRefused(r.c, k), r.s)
                     ELSE IF y.self /\ y.peer THEN RequestSession(y, r.s, how, q, k)
                     ELSE Result(y, r.s))
  BY DEF KeyReady
<1>2. /\ c \in Contexts /\ Good(c, s, over) /\ Orderly(s) /\ c.screen = "n64"
      /\ c.pid = "none" /\ c.sess \notin over /\ k \in BOOLEAN
  BY KeysFind DEF KeyReady, Kill
<1>3. CASE Set(Result(ReadyRefused(c, k), s))
  <2> DEFINE a == [c EXCEPT !.ready = FALSE]
  <2>1. a \in Contexts /\ SameFacts(c, a)
    BY <1>2 DEF Contexts, SameFacts
  <2>2. ReadyRefused(c, k) = Reset(a, k)
    BY DEF ReadyRefused
  <2> HIDE DEF a
  <2>3. Carries(c, s, over, Result(Reset(a, k), s))
    BY <1>2, <2>1, ForgottenKeeps, CarriesWithin, OnwardStays
  <2>4. QED
    BY <1>3, <2>2, <2>3, SetKeeps DEF KeyReady
<1>4. ASSUME NEW f \in Syncs, NEW back \in BOOLEAN, NEW q \in BOOLEAN, NEW how \in Starts,
             LET r == SyncState(c, s, TRUE, f, back)
                 y == [r.c EXCEPT !.ready = TRUE, !.pre = FALSE]
             IN Set(IF ~r.ok THEN Result(ReadyRefused(r.c, k), r.s)
                    ELSE IF y.self /\ y.peer THEN RequestSession(y, r.s, how, q, k)
                    ELSE Result(y, r.s))
      PROVE  Kept
  <2> DEFINE r == SyncState(c, s, TRUE, f, back)
             y == [r.c EXCEPT !.ready = TRUE, !.pre = FALSE]
             b == [r.c EXCEPT !.ready = FALSE]
  <2>1. Set(IF ~r.ok THEN Result(Reset(b, k), r.s)
            ELSE IF y.self /\ y.peer THEN RequestSession(y, r.s, how, q, k)
            ELSE Result(y, r.s))
    BY <1>4 DEF ReadyRefused
  <2>2. /\ Onward(s, r.s) /\ Good(r.c, r.s, over) /\ r.c \in Contexts /\ SameFacts(c, r.c)
        /\ r.c.sess \notin over /\ Orderly(r.s)
    <3>1. Onward(s, r.s) /\ Good(r.c, r.s, over) /\ SameFacts(c, r.c)
      BY <1>2, SyncKeeps
    <3> HIDE DEF r
    <3>2. QED
      BY <1>2, <3>1 DEF SameFacts, Good, Loose, Onward
  <2> HIDE DEF r
  <2>3. b \in Contexts /\ SameFacts(r.c, b) /\ y \in Contexts /\ SameFacts(r.c, y)
    BY <2>2 DEF Contexts, SameFacts
  <2> HIDE DEF b, y
  <2>4. Good(y, r.s, over) /\ y.screen = c.screen /\ y.life = c.life /\ y.pid \notin Ended
    BY <1>2, <2>2, <2>3, SameFactsKeep DEF SameFacts, Ended
  <2>5. Carries(c, s, over, Result(Reset(b, k), r.s)) /\ Carries(c, s, over, Result(y, r.s))
    BY <1>2, <2>2, <2>3, <2>4, ForgottenKeeps, CarriesWithin DEF SameFacts
  <2>6. Carries(c, s, over, RequestSession(y, r.s, how, q, k))
    BY <1>2, <2>2, <2>4, RequestKeeps, CarriesOn
  <2>7. QED
    BY <2>1, <2>5, <2>6, SetKeeps DEF KeyReady
<1>5. QED
  BY ZenonT(40), <1>1, <1>3, <1>4

\* Escape leaves.
LEMMA KeyEscapeKeeps == Inv /\ KeyEscape => Kept
<1> SUFFICES ASSUME Inv, KeyEscape PROVE Kept
  OBVIOUS
<1>1. PICK f \in Reply, k \in Kill : Set(ToMenuIfLeft(LeaveCurrentRoom(c, s, f, k)))
  BY DEF KeyEscape
<1>2. Loose(c, s, over) /\ Orderly(s) /\ k \in BOOLEAN
  BY KeysFind DEF KeyEscape, Kill
<1>3. QED
  BY <1>1, <1>2, LeaveKeeps, SetKeeps DEF KeyEscape

\* Escape while the end is to be confirmed: the menu is reached once the session has ended.
LEMMA KeyEscapePendingKeeps == Inv /\ KeyEscapePending => Kept
<1> SUFFICES ASSUME Inv, KeyEscapePending PROVE Kept
  OBVIOUS
<1> DEFINE id == IF c.life # 0 THEN c.life ELSE c.sess
<1>1. PICK f \in Reply :
         LET t == IF id = 0 THEN s
                  ELSE After(f, s, IF c.fin THEN FinishRoom(s, id) ELSE TerminateRoom(s, id))
             confirmed == id # 0 /\ f = "ok" /\ (c.fin => id \in t.done)
         IN Set(Result(IF confirmed THEN FinishLocally(c, TRUE) ELSE c, t))
  BY DEF KeyEscapePending
<1> DEFINE t == IF id = 0 THEN s
                ELSE After(f, s, IF c.fin THEN FinishRoom(s, id) ELSE TerminateRoom(s, id))
           confirmed == id # 0 /\ f = "ok" /\ (c.fin => id \in t.done)
           y == FinishLocally(c, TRUE)
<1>2. Set(Result(IF confirmed THEN y ELSE c, t))
  BY <1>1
<1>3. /\ Good(c, s, over) /\ Loose(c, s, over) /\ Orderly(s) /\ c.screen = "n64"
      /\ c.pid = "none" /\ Named(c, s) /\ id = c.life
  BY DEF Inv, KeyEscapePending, Good, Loose, Named
<1>4. /\ Onward(s, t)
      /\ f = "ok" /\ id # 0 /\ ~c.fin => t.act # id
  <2>1. CASE id = 0
    BY <1>3, <2>1, OnwardStays
  <2>2. CASE id # 0
    BY <1>3, <2>2, EndsOnward, AfterOnward DEF After
  <2>3. QED
    BY <2>1, <2>2
<1> HIDE DEF t, id
<1>5. Carries(c, s, over, Result(c, t))
  BY <1>3, <1>4, StaysKeeps
<1>6. ASSUME confirmed PROVE Carries(c, s, over, Result(y, t))
  <2>1. Good(c, t, over) /\ Loose(c, t, over) /\ Orderly(t)
    BY <1>3, <1>4, OnwardKeeps DEF Onward
  <2>2. c.life # 0 /\ c.life # t.act
    BY <1>3, <1>4, <1>6, <2>1 DEF Orderly
  <2>3. t.room = 0 \/ c.life \in t.pf
    BY <1>3, <2>1, <2>2 DEF Loose, Named
  <2>4. c.sess \in over => Gone(t, c.sess)
    BY <1>3, <2>1, <2>2 DEF Loose, Named, Known, Gone
  <2>5. Good(y, t, over)
    BY <2>1, <2>4, FinishLocallyKeeps
  <2>6. QED
    BY <1>4, <2>3, <2>5 DEF Carries, Out, Result
<1>7. QED
  BY <1>2, <1>5, <1>6, SetKeeps DEF KeyEscapePending

\* The question whether to leave, and its answer.
LEMMA ExitKeeps == Inv /\ (AskExit \/ AnswerExit) => Kept
<1> SUFFICES ASSUME Inv, AskExit \/ AnswerExit PROVE Kept
  OBVIOUS
<1> DEFINE a == [c EXCEPT !.exit = TRUE]
           b == [c EXCEPT !.exit = FALSE]
<1>1. Good(c, s, over) /\ c \in Contexts /\ Orderly(s)
  BY DEF Inv, Good, Loose
<1>2. a \in Contexts /\ SameFacts(c, a) /\ b \in Contexts /\ SameFacts(c, b)
  BY <1>1 DEF Contexts, SameFacts
<1>3. \/ Set(Result(a, s)) \/ Set(Result(b, s))
      \/ \E f \in Reply, k \in Kill : Set(ToMenuIfLeft(LeaveCurrentRoom(b, s, f, k)))
  BY DEF AskExit, AnswerExit
<1> HIDE DEF a, b
<1>4. /\ Good(a, s, over) /\ Good(b, s, over) /\ a.screen = c.screen /\ b.screen = c.screen
      /\ b.life = c.life
  BY <1>1, <1>2, SameFactsKeep DEF SameFacts
<1>5. Carries(c, s, over, Result(a, s)) /\ Carries(c, s, over, Result(b, s))
  BY <1>1, <1>4, OnwardStays, CarriesWithin
<1>6. ASSUME NEW f \in Reply, NEW k \in Kill
      PROVE  Carries(c, s, over, ToMenuIfLeft(LeaveCurrentRoom(b, s, f, k)))
  <2>1. k \in BOOLEAN /\ Loose(b, s, over)
    BY <1>4 DEF Kill, Good
  <2>2. Carries(b, s, over, ToMenuIfLeft(LeaveCurrentRoom(b, s, f, k)))
    BY <1>1, <2>1, LeaveKeeps
  <2>3. QED
    BY <1>1, <1>4, <2>2, OnwardStays, CarriesOn
<1>7. QED
  BY <1>3, <1>5, <1>6, SetKeeps DEF AskExit, AnswerExit

\* The main loop's polls.
LEMMA PollsKeep ==
    Inv /\ (PollHostProcess \/ PollNotReady \/ PollRequest \/ PollLost) => Kept
<1> SUFFICES ASSUME Inv, PollHostProcess \/ PollNotReady \/ PollRequest \/ PollLost PROVE Kept
  OBVIOUS
<1>1. /\ Good(c, s, over) /\ Orderly(s) /\ Onward(s, s) /\ Kill \subseteq BOOLEAN
      /\ Loose(c, s, over)
  BY OnwardStays DEF Inv, Kill, Good
<1>2. CASE PollHostProcess
  BY <1>1, <1>2, HostProcessKeeps, SetKeeps DEF PollHostProcess
<1>3. CASE PollNotReady
  <2>1. PICK k \in Kill : Set(Result(Suspend(c, k), s))
    BY <1>3 DEF PollNotReady
  <2>2. Good(Suspend(c, k), s, over) /\ Suspend(c, k).screen = c.screen
    BY <1>1, SuspendKeeps DEF SamePlace
  <2>3. Carries(c, s, over, Result(Suspend(c, k), s))
    BY <1>1, <2>2, CarriesWithin
  <2>4. QED
    BY <1>3, <2>1, <2>3, SetKeeps DEF PollNotReady
<1>4. CASE PollRequest
  <2>1. PICK how \in Starts, q \in BOOLEAN, k \in Kill : Set(RequestSession(c, s, how, q, k))
    BY <1>4 DEF PollRequest
  <2>2. c.screen = "n64" /\ c.pid \notin Ended
    BY <1>4 DEF PollRequest, Settled, Polling, Ended
  <2>3. Carries(c, s, over, RequestSession(c, s, how, q, k))
    BY <1>1, <2>2, RequestKeeps
  <2>4. QED
    BY <1>4, <2>1, <2>3, SetKeeps DEF PollRequest
<1>5. CASE PollLost
  <2>1. PICK q \in BOOLEAN, k \in Kill : Set(Reconnect(c, s, q, k))
    BY <1>5 DEF PollLost
  <2>2. Carries(c, s, over, Reconnect(c, s, q, k))
    BY <1>1, <1>5, ReconnectKeeps DEF PollLost, Linked
  <2>3. QED
    BY <1>5, <2>1, <2>2, SetKeeps DEF PollLost
<1>6. QED
  BY <1>2, <1>3, <1>4, <1>5

\* The relay pairs the players, and the Host's game begins.
LEMMA PollPairKeeps == Inv /\ PollPair => Kept
<1> SUFFICES ASSUME Inv, PollPair PROVE Kept
  OBVIOUS
<1> DEFINE x == [c EXCEPT !.conn = "paired", !.rec = FALSE]
           t == [s EXCEPT !.rec = FALSE]
<1>1. PICK plan \in Plans, f \in Reply, k \in Kill : Set(MaybeStartHost(x, t, plan, f, k))
  BY DEF PollPair
<1>2. /\ Good(c, s, over) /\ Orderly(s) /\ c \in Contexts /\ s \in Servers /\ k \in BOOLEAN
      /\ c.screen = "n64" /\ ~c.fin /\ ~c.term /\ c.conn = "auth" /\ c.pid \notin Ended
  BY DEF Inv, Good, Loose, Orderly, Kill, PollPair, Linked, Settled, Polling, Ended
<1>3. SameNumbers(s, t)
  BY <1>2 DEF SameNumbers, Servers
<1>4. /\ x \in Contexts /\ x.screen = c.screen /\ x.room = c.room /\ x.sess = c.sess
      /\ x.life = c.life /\ x.lifeRoom = c.lifeRoom /\ x.conn = "paired" /\ ~x.rec
      /\ x.fin = c.fin /\ x.term = c.term /\ x.pid = c.pid /\ x.launched = c.launched
      /\ x.files = c.files /\ x.path = c.path /\ x.pad = c.pad
  BY <1>2 DEF Contexts, Conns
<1> HIDE DEF x, t
<1>5. Onward(s, t) /\ Orderly(t) /\ Good(c, t, over)
  BY <1>2, <1>3, SameNumbersOnward, OnwardKeeps DEF Onward
<1>6. Good(x, t, over)
  BY <1>2, <1>4, <1>5 DEF Good, Loose, Served, Named, Known, Done
<1>7. Carries(x, t, over, MaybeStartHost(x, t, plan, f, k))
  BY <1>2, <1>4, <1>5, <1>6, PlansAre, StartHostKeeps
<1>8. Carries(c, s, over, MaybeStartHost(x, t, plan, f, k))
  BY <1>2, <1>4, <1>5, <1>7, CarriesOn
<1>9. QED
  BY <1>1, <1>8, SetKeeps DEF PollPair

\* The Host's game is begun if it has not been, and given the other player's buttons.
LEMMA PollHostKeeps == Inv /\ PollHost => Kept
<1> SUFFICES ASSUME Inv, PollHost PROVE Kept
  OBVIOUS
<1>1. PICK plan \in Plans, f \in Reply, input \in Inputs, k \in Kill :
        LET r == MaybeStartHost(c, s, plan, f, k)
        IN Set(IF r.c.pre THEN r ELSE Result(PollController(r.c, input, k), r.s))
  BY DEF PollHost
<1> DEFINE r == MaybeStartHost(c, s, plan, f, k)
           y == PollController(r.c, input, k)
<1>2. Set(IF r.c.pre THEN r ELSE Result(y, r.s))
  BY <1>1
<1>3. /\ Good(c, s, over) /\ Orderly(s) /\ k \in BOOLEAN
      /\ c.screen = "n64" /\ ~c.fin /\ ~c.term /\ c.conn = "paired" /\ c.pid \notin Ended
      /\ c.sess \notin over
  BY DEF Inv, Good, Kill, PollHost, Linked, Settled, Polling, Ended, Done
<1>4. /\ Carries(c, s, over, r)
      /\ r.c.pre \/ (r.c.conn = c.conn /\ r.c.sess = c.sess)
  BY <1>3, PlansAre, StartHostKeeps
<1> HIDE DEF r
<1>5. ASSUME ~r.c.pre PROVE Carries(c, s, over, Result(y, r.s))
  <2>1. Good(y, r.s, over) /\ y.screen = r.c.screen
    BY <1>3, <1>4, <1>5, ControllerKeeps DEF Carries
  <2>2. QED
    BY <1>4, <2>1 DEF Carries, Out, Result
<1>6. QED
  BY <1>2, <1>4, <1>5, SetKeeps DEF PollHost

\* What is fetched is true when it is fetched.
LEMMA PollStartKeeps == Inv /\ PollStart => Kept
<1> SUFFICES ASSUME Inv, PollStart PROVE Kept
  OBVIOUS
<1>1. Orderly(s) /\ s.me \in BOOLEAN /\ s.peer \in BOOLEAN
  BY DEF Inv, Orderly, Servers
<1>2. /\ w'.st \in Polls /\ w'.self \in BOOLEAN /\ w'.peer \in BOOLEAN
      /\ w'.st = "heartbeat" => w'.n = SessionLifecycle(s)
  <2>1. w' \in WorkerHeartbeat(s) \cup WorkerRoom(s)
    BY DEF PollStart
  <2>2. CASE w' \in WorkerHeartbeat(s)
    BY <2>2 DEF WorkerHeartbeat, Idle, Polls
  <2>3. CASE w' \in WorkerRoom(s)
    BY <1>1, <2>3 DEF WorkerRoom, Idle, Polls
  <2>4. QED
    BY <2>1, <2>2, <2>3
<1>3. NoticeTrue(SessionLifecycle(s), s) /\ SessionLifecycle(s).id \in Ids
  BY <1>1, LifecycleTrue
<1>4. QED
  BY <1>2, <1>3, KeptWhen DEF PollStart, Inv

\* What was fetched is taken: it is still true, or no longer taken for it.
LEMMA PollTakeKeeps == Inv /\ PollTake => Kept
<1> SUFFICES ASSUME Inv, PollTake PROVE Kept
  OBVIOUS
<1>1. PICK k \in Kill :
         LET x == CASE w.st = "heartbeat" -> HandleNotice(c, w.n, k)
                    [] w.st \in {"failed", "given_up"} -> HeartbeatFailed(c, w.st = "given_up", k)
                    [] w.st \in {"none", "room"} -> ReadyFlags(c, w.st = "room", w.self, w.peer)
                    [] w.st = "stale" -> c
         IN c' = IF c.screen = "n64" THEN [x EXCEPT !.bump = FALSE] ELSE c
  BY DEF PollTake
<1> DEFINE x == CASE w.st = "heartbeat" -> HandleNotice(c, w.n, k)
                  [] w.st \in {"failed", "given_up"} -> HeartbeatFailed(c, w.st = "given_up", k)
                  [] w.st \in {"none", "room"} -> ReadyFlags(c, w.st = "room", w.self, w.peer)
                  [] w.st = "stale" -> c
<1>2. c' = IF c.screen = "n64" THEN [x EXCEPT !.bump = FALSE] ELSE c
  BY <1>1
<1>3. /\ Good(c, s, over) /\ Loose(c, s, over) /\ Orderly(s) /\ k \in BOOLEAN /\ ~c.bump
      /\ c \in Contexts /\ UNCHANGED <<role, s, over>> /\ w' = Idle
      /\ w.self \in BOOLEAN /\ w.peer \in BOOLEAN
  BY DEF Inv, Good, Loose, Kill, PollTake
<1>4. Good(x, s, over) /\ Out(c, x, s)
  <2>1. CASE w.st = "heartbeat"
    <3>1. x = HandleNotice(c, w.n, k)
      BY <2>1
    <3>2. NoticeTrue(w.n, s) /\ w.n.id \in Ids
      BY <2>1 DEF Inv
    <3>3. QED
      BY ZenonT(40), <1>3, <3>1, <3>2, HandleNoticeKeeps
  <2>2. CASE w.st \in {"failed", "given_up"}
    <3>1. x = IF w.st = "given_up" THEN Suspend(c, k) ELSE c
      BY <2>2 DEF HeartbeatFailed
    <3>2. Good(Suspend(c, k), s, over) /\ Suspend(c, k).screen = c.screen
      BY <1>3, SuspendKeeps DEF SamePlace
    <3>3. QED
      BY <1>3, <3>1, <3>2 DEF Out
  <2>3. CASE w.st \in {"none", "room"}
    <3> DEFINE y == IF w.st = "room" THEN [c EXCEPT !.self = w.self, !.peer = w.peer] ELSE c
               z == [y EXCEPT !.ready = y.self]
    <3>1. x = z
      BY <2>3 DEF ReadyFlags
    <3>2. y \in Contexts /\ SameFacts(c, y) /\ y.self \in BOOLEAN
      <4>1. CASE w.st = "room"
        BY <1>3, <4>1 DEF Contexts, SameFacts
      <4>2. CASE w.st # "room"
        BY <1>3, <4>2 DEF Contexts, SameFacts
      <4>3. QED
        BY <4>1, <4>2
    <3> HIDE DEF x, y
    <3>3. z \in Contexts /\ SameFacts(c, z)
      BY <3>2 DEF Contexts, SameFacts
    <3> HIDE DEF z
    <3>4. Good(x, s, over) /\ x.screen = c.screen
      BY <1>3, <3>1, <3>3, SameFactsKeep DEF SameFacts
    <3>5. QED
      BY <3>4 DEF Out
  <2>4. CASE w.st = "stale"
    BY <1>3, <2>4 DEF Out
  <2>5. w.st # "idle" /\ w.st \in Polls
    BY DEF PollTake, Inv
  <2>6. QED
    BY <2>1, <2>2, <2>3, <2>4, <2>5 DEF Polls
<1> HIDE DEF x
<1>5. /\ Good(c', s, over) /\ ~c'.bump
      /\ c.screen = "n64" /\ c'.screen = "menu" => s.room = 0 \/ c.life \in s.pf
  <2>1. CASE c.screen = "n64"
    BY <1>2, <1>4, <2>1, SettledKeeps DEF Out
  <2>2. CASE c.screen # "n64"
    BY <1>2, <1>3, <2>2
  <2>3. QED
    BY <2>1, <2>2
<1>6. QED
  BY <1>3, <1>5, KeptWhen DEF Idle, Polls

\* The emulator ends by itself: its session is noted, and stays the client's until it is done with.
LEMMA EmulatorEndsKeeps == Inv /\ EmulatorEnds => Kept
<1> SUFFICES ASSUME Inv, EmulatorEnds PROVE Kept
  OBVIOUS
<1>1. PICK how \in {"over", "crashed"} : c' = [c EXCEPT !.pid = how]
  BY DEF EmulatorEnds
<1>2. /\ Good(c, s, over) /\ Orderly(s) /\ c \in Contexts /\ c.pid = "running" /\ ~c.bump
      /\ UNCHANGED <<role, s, w>>
  BY DEF Inv, Good, Loose, EmulatorEnds
<1>3. /\ c' \in Contexts /\ c'.screen = c.screen /\ c'.room = c.room /\ c'.sess = c.sess
      /\ c'.life = c.life /\ c'.lifeRoom = c.lifeRoom /\ c'.conn = c.conn /\ c'.rec = c.rec
      /\ c'.fin = c.fin /\ c'.term = c.term /\ c'.pid = how /\ c'.launched = c.launched
      /\ c'.files = c.files /\ c'.path = c.path /\ c'.pad = c.pad /\ c'.bump = c.bump
  BY <1>1, <1>2 DEF Contexts, Pids
<1>4. over' = over \cup {c.sess} /\ c.sess # 0 /\ c.sess \in Ids /\ c.sess <= s.n
  BY <1>2, SessionStarted DEF EmulatorEnds, Good, Loose, Served
<1>5. Known(c', s, over')
  BY <1>2, <1>3, <1>4 DEF Good, Loose, Known
<1>6. Good(c', s, over')
  BY <1>2, <1>3, <1>5 DEF Good, Loose, Served, Named, Done, Ended
<1>7. QED
  BY <1>2, <1>3, <1>6, KeptWhen DEF Inv

\* The server goes on by itself: what the client and the thread know stays true.
LEMMA ServerKeeps ==
    ASSUME NEW t, Inv, Onward(s, t), Server(t)
    PROVE  Kept
<1>1. /\ UNCHANGED <<role, c, w, over>> /\ s' = t
      /\ Good(c, s, over) /\ Orderly(s) /\ Good(c, t, over) /\ Orderly(t)
  BY OnwardKeeps DEF Server, Inv, Onward
<1>2. w.st = "heartbeat" => NoticeTrue(w.n, t) /\ w.n.id \in Ids
  BY <1>1, OnwardKeeps DEF Inv
<1>3. QED
  BY <1>1, <1>2, KeptWhen DEF Inv

\* A ROOM that is closed is closed for the player, too.
LEMMA CloseOnward ==
    ASSUME NEW t, Orderly(t)
    PROVE  Onward(t, CloseRoom(t))
<1> DEFINE u == CloseRoom(t)
<1>1. t \in Servers /\ 0 \in Rooms /\ t.gen \in Nat /\ t.n \in Nat
  BY Numbers
<1>2. /\ u \in Servers /\ u.room = 0 /\ u.gen = t.gen /\ u.n = t.n /\ u.act = t.act
      /\ u.actRoom = t.actRoom /\ u.last = t.last /\ u.pf = t.pf /\ u.done = t.done
  BY <1>1 DEF CloseRoom, Servers
<1> HIDE DEF u
<1>3. QED
  BY <1>1, <1>2 DEF Onward, Orderly, u

\* The other player and the server's clocks.
LEMMA PeerKeeps ==
    Inv /\ (PeerJoins \/ PeerReady \/ PeerSelects \/ PeerStarts \/ PeerRecovers
            \/ PeerEnds \/ PeerLeaves \/ RoomPruned) => Kept
<1> SUFFICES ASSUME Inv, PeerJoins \/ PeerReady \/ PeerSelects \/ PeerStarts \/ PeerRecovers
                         \/ PeerEnds \/ PeerLeaves \/ RoomPruned
             PROVE  Kept
  OBVIOUS
<1>1. Orderly(s) /\ s \in Servers
  BY DEF Inv, Orderly
<1>2. CASE PeerJoins
  <2> DEFINE t == [s EXCEPT !.two = TRUE, !.me = FALSE, !.peer = FALSE]
  <2>1. SameNumbers(s, t)
    BY <1>1 DEF SameNumbers, Servers
  <2>2. QED
    BY <1>1, <1>2, <2>1, SameNumbersOnward, ServerKeeps DEF PeerJoins
<1>3. CASE PeerReady
  <2> DEFINE t == [s EXCEPT !.peer = ~@]
  <2>1. SameNumbers(s, t)
    BY <1>1 DEF SameNumbers, Servers
  <2>2. QED
    BY <1>1, <1>3, <2>1, SameNumbersOnward, ServerKeeps DEF PeerReady
<1>4. CASE PeerSelects
  <2>1. PICK back \in BOOLEAN :
          Server([s EXCEPT !.me = FALSE, !.peer = FALSE, !.same = back \/ s.act = 0])
    BY <1>4 DEF PeerSelects
  <2> DEFINE t == [s EXCEPT !.me = FALSE, !.peer = FALSE, !.same = back \/ s.act = 0]
  <2>2. (back \/ s.act = 0) \in BOOLEAN
    OBVIOUS
  <2>3. SameNumbers(s, t)
    BY <1>1, <2>2 DEF SameNumbers, Servers
  <2>4. QED
    BY <1>1, <2>1, <2>3, SameNumbersOnward, ServerKeeps
<1>5. CASE PeerStarts
  BY <1>1, <1>5, CreateOnward, ServerKeeps DEF PeerStarts, MayStart
<1>6. CASE PeerRecovers
  BY <1>1, <1>6, UpdatesOnward, ServerKeeps DEF PeerRecovers
<1>7. CASE PeerEnds
  BY <1>1, <1>7, TerminateMediaOnward, ServerKeeps DEF PeerEnds
<1>8. CASE PeerLeaves
  <2> DEFINE t == [s EXCEPT !.two = FALSE, !.me = FALSE, !.peer = FALSE]
  <2>1. SameNumbers(s, t)
    BY <1>1 DEF SameNumbers, Servers
  <2>2. Onward(s, t) /\ Onward(s, CloseRoom(s))
    BY <1>1, <2>1, SameNumbersOnward, CloseOnward
  <2>3. Server(t) \/ Server(CloseRoom(s))
    BY <1>8 DEF PeerLeaves
  <2> HIDE DEF t
  <2>4. QED
    BY <2>2, <2>3, ServerKeeps
<1>9. CASE RoomPruned
  BY <1>1, <1>9, CloseOnward, ServerKeeps DEF RoomPruned
<1>10. QED
  BY <1>2, <1>3, <1>4, <1>5, <1>6, <1>7, <1>8, <1>9

-----------------------------------------------------------------------------
(* The invariant and what follows from it. *)

\* A client that has just come up is in the menu and the server knows no ROOM of the player.
LEMMA InitHolds == Init => Inv
<1> SUFFICES ASSUME Init PROVE Inv
  OBVIOUS
<1>1. 0 \in Ids /\ 0 \in Rooms
  BY N64RoomAssumption DEF Ids, Rooms
<1>2. c \in Contexts /\ ~c.bump
  BY <1>1 DEF Init, Menu, Contexts, Screens, Conns, Pids, Pads
<1>3. Orderly(s)
  BY <1>1 DEF Init, NoRoom, Orderly, Servers
<1>4. Good(c, s, over)
  BY <1>2 DEF Init, Menu, Good, Loose, Served, Named, Known
<1>5. QED
  BY <1>2, <1>3, <1>4 DEF Init, Inv, Idle, Polls

\* Every step keeps it.
LEMMA NextKeeps == Inv /\ Next => Kept
BY EnterRoomKeeps, KeySelectKeeps, KeyNotReadyKeeps, KeyReadyKeeps, KeyEscapeKeeps,
   KeyEscapePendingKeeps, ExitKeeps, PollsKeep, PollPairKeeps, PollHostKeeps, PollStartKeeps,
   PollTakeKeeps, EmulatorEndsKeeps, PeerKeeps DEF Next

\* A step that changes nothing keeps it.
LEMMA StutterKeeps == Inv /\ UNCHANGED vars => Inv'
BY DEF Inv, Good, Loose, Served, vars

\* It is an invariant of the client, the server as it sees it, the polling thread and the emulator.
THEOREM Invariance == Spec => []Inv
<1>1. Inv /\ [Next]_vars => Inv'
  BY NextKeeps, StutterKeeps DEF Kept
<1>2. QED
  BY InitHolds, <1>1, PTL DEF Spec

\* The emulator runs for the session the client knows, with its files there, on the ROOM's screen,
\* and holds no button of a player who is not there.
THEOREM TheProcessIsServed == Spec => []ProcessIsServed
<1>1. Inv => ProcessIsServed
  <2> SUFFICES ASSUME Inv PROVE ProcessIsServed
    OBVIOUS
  <2>1. /\ c \in Contexts /\ s \in Servers /\ Served(c) /\ Known(c, s, over)
    BY DEF Inv, Good, Loose, Orderly
  <2>2. TypeOK
    BY <2>1 DEF Inv, TypeOK, Contexts, Servers, Served, Known, Conns, Pids, Pads, Rooms, Polls
  <2>3. ProcessOwnsSession /\ ReleasedUnlessPaired
    BY <2>1 DEF ProcessOwnsSession, ReleasedUnlessPaired, Served
  <2>4. QED
    BY <2>2, <2>3 DEF ProcessIsServed
<1>2. QED
  BY <1>1, Invariance, PTL

\* A game that ended by itself is never started again: not by a report that is refused or lost, a
\* retry, a reconnection or a new READY.
THEOREM AGameEndsOnce == Spec => []EndedStaysEnded
<1>1. Inv => EndedStaysEnded
  BY DEF Inv, Good, Loose, Known, Served, EndedStaysEnded
<1>2. QED
  BY <1>1, Invariance, PTL

\* The client goes back to the menu only when the server has the player in no ROOM, or the check of
\* the SAVs ended the session.
THEOREM LeavesWhenOut == Spec => LeavesOnlyWhenOut
<1>1. Inv /\ [Next]_vars =>
        [c.screen = "n64" /\ c'.screen = "menu" =>
             s'.room = 0 \/ {c.sess, c.life} \cap s'.pf # {}]_vars
  BY NextKeeps DEF Kept
<1>2. QED
  BY <1>1, Invariance, PTL DEF Spec, LeavesOnlyWhenOut
=============================================================================
