------------------------------- MODULE Media -------------------------------
(***************************************************************************)
(* The picture, the sound and the notices a Host sends a Remote: the       *)
(* Host's encoder (a worker thread beside the main loop on a Game Boy,     *)
(* the main loop itself on an N64), its connection with one unfinished     *)
(* message, the relay that filters and queues messages and may drop what   *)
(* has aged, and the Remote's receive loop, decode worker and audio        *)
(* jitter buffer.  A connection can be cut; a Game Boy Host is kept while  *)
(* its Remote comes back, and told to pause and to resume.                 *)
(***************************************************************************)
EXTENDS Naturals, Sequences, FiniteSets, SequencesExt

CONSTANTS
    Games,      \* what is sent: records [path, codec, gop, frames, audio, pongs, cuts] with path "gb"
                \* or "n64", codec the Remote's decoder, gop the frames from one key frame to the next
                \* (60 in the code), and bounds on frames encoded, sound packets, pongs, and
                \* connections cut
    QueueCap,   \* bound of the relay's forward queue, in messages
    DecodeCap,  \* DECODE_QUEUE_CAPACITY
    JitterSlots, \* INTEGRAL_AUDIO_JITTER_SLOT_COUNT
    Target,     \* packets the jitter buffer waits for before it starts
    MaxWire     \* bound: messages written by the Host and not read by the relay

ASSUME MediaAssumption ==
    /\ Games \subseteq [path : {"gb", "n64"}, codec : {"openh264", "videotoolbox", "mediafoundation"},
                        gop : Nat \ {0}, frames : Nat, audio : Nat, pongs : Nat, cuts : Nat]
    /\ {QueueCap, DecodeCap, JitterSlots, Target, MaxWire} \subseteq Nat \ {0}
    /\ Target <= JitterSlots

VARIABLES
    game,     \* what is still to be sent and cut, and whether the Host has announced the
              \* end, or left
    sender,   \* connected, paused, the encoder's failure, encoders made, stored configuration,
              \* and sequence numbers
    enc,      \* the encoder: its number, and how many frames it has given; or None
    worker,   \* the encode thread: "off", "idle", "busy" or "dead"
    input,    \* whether a picture waits for the thread
    output,   \* what the thread has published: a frame, and whether its configuration is unsent; or None
    conn,     \* the Host's message accepted and not yet fully written; or None
    pipe,     \* messages written by the Host and not read by the relay
    relay,    \* the link, the queue towards the Remote, whether its first message has begun to be
              \* written, what the filter remembers, whether it read only part of a message, and
              \* whether it closed the link on a repeated number
    notes,    \* session states on their way from the relay to the Host
    remote,   \* connected, its phase in the receive loop, the notice slot, whether the game ended
    packets,  \* messages waiting for the decode worker
    dec,      \* the decoder: its configuration, the last frame decoded, whether its picture is
              \* broken; or None
    failed,   \* the decode worker has failed
    jitter    \* the audio jitter buffer: packets held, and the packet it wants next (0: not started)

hostVars == <<sender, enc, worker, input, output>>
remoteVars == <<remote, packets, dec, failed, jitter>>
vars == <<game, hostVars, conn, pipe, relay, notes, remoteVars>>

None == [k |-> "none"]
Gb == game.path = "gb"
Key(n) == (n - 1) % game.gop = 0

Config(e, seq) == [k |-> "config", enc |-> e, seq |-> seq]
FrameOf(e, n, seq) == [k |-> "frame", enc |-> e, n |-> n, seq |-> seq]
Audio(seq) == [k |-> "audio", seq |-> seq]
Notice(what) == [k |-> what]
Video(m) == m.k \in {"config", "frame"}
Delta(m) == m.k = "frame" /\ ~Key(m.n)
KeyFrame(m) == m.k = "frame" /\ Key(m.n)
\* The Remote's one slot: a pong stands for INPUT_ACK and SESSION_STATE, too, whose senders
\* do not look at what becomes of them either.
Notices == {"pong", "terminal"}

NewQueue == [queue |-> <<>>, begun |-> FALSE, wait |-> FALSE, last |-> 0]
NewJitter == [held |-> {}, next |-> 0]

Init ==
    /\ \E g \in Games :
        game = [path |-> g.path, codec |-> g.codec, gop |-> g.gop, frames |-> g.frames,
                audio |-> g.audio, pongs |-> g.pongs, cuts |-> g.cuts, told |-> FALSE, left |-> FALSE]
    /\ sender = [up |-> TRUE, paused |-> FALSE, failed |-> FALSE, made |-> 0, config |-> 0, vseq |-> 0,
                 aseq |-> 0]
    /\ enc = None /\ worker = "off" /\ input = FALSE /\ output = None
    /\ conn = None /\ pipe = <<>> /\ notes = <<>>
    /\ relay = [link |-> "up", to |-> NewQueue, torn |-> FALSE, replayed |-> FALSE]
    /\ remote = [up |-> TRUE, pc |-> "pump", slot |-> "none", over |-> FALSE]
    /\ packets = <<>> /\ dec = None /\ failed = FALSE /\ jitter = NewJitter

-----------------------------------------------------------------------------
\* The Host's connection.  A send first finishes the message before; while that is not written out
\* the new one is refused, and 0 is the answer.  0 is also the answer when the new one is accepted
\* and not yet fully written.

\* flush_send_buffer: what becomes of the unfinished message.
Flushes(c) == {c} \cup (IF Len(c.pipe) < MaxWire
                        THEN {[c EXCEPT !.conn = None, !.pipe = Append(@, c.conn)]} ELSE {})

Sends(c, m) ==
    LET free == IF c.conn = None THEN {c} ELSE Flushes(c) \ {c}
        refused == IF c.conn = None THEN {} ELSE {c}
        taken == UNION {Flushes([d EXCEPT !.conn = m]) : d \in free}
    IN {[conn |-> d.conn, pipe |-> d.pipe, sent |-> FALSE] : d \in refused}
       \cup {[conn |-> d.conn, pipe |-> d.pipe, sent |-> d.conn = None] : d \in taken}

Link == [conn |-> conn, pipe |-> pipe]
Written(s) == conn' = s.conn /\ pipe' = s.pipe
Sending == sender.up /\ relay.link # "down"

-----------------------------------------------------------------------------
\* The encoder.

\* An encoder is made first when there is none.
NewEncoder == IF enc = None THEN [k |-> "encoder", id |-> sender.made + 1, n |-> 0] ELSE enc

\* The configuration comes once, with the encoder's first frame; key frames come at intervals.
Encoded(e) == [k |-> "output", enc |-> e.id, n |-> e.n + 1, config |-> e.n = 0]

\* submit_host_rgb24: the newest picture replaces one the thread has not taken.
Submit ==
    /\ Gb /\ Sending /\ ~sender.paused /\ ~game.told /\ ~sender.failed /\ game.frames > 0
    /\ worker' = IF worker = "off" THEN "idle" ELSE worker
    /\ input' = TRUE
    /\ UNCHANGED <<game, sender, enc, output, conn, pipe, relay, notes, remoteVars>>

\* Mutant of WorkerTakes: the thread waits only for a picture.
WorkerTakesAnyway ==
    /\ worker = "idle" /\ input
    /\ worker' = "busy" /\ input' = FALSE
    /\ UNCHANGED <<game, sender, enc, output, conn, pipe, relay, notes, remoteVars>>

\* host_encode_worker_main, up to the encoder: a picture, and nothing published waiting to be sent.
WorkerTakes ==
    /\ worker = "idle" /\ input /\ output = None
    /\ worker' = "busy" /\ input' = FALSE
    /\ UNCHANGED <<game, sender, enc, output, conn, pipe, relay, notes, remoteVars>>

\* ... and from the encoder on: a frame is published, or none; a failure ends the thread.
WorkerEncodes ==
    /\ worker = "busy"
    /\ sender' = [sender EXCEPT !.made = NewEncoder.id]
    /\ worker' = "idle"
    /\ \/ /\ game.frames > 0
          /\ output' = Encoded(NewEncoder)
          /\ enc' = [NewEncoder EXCEPT !.n = @ + 1]
          /\ game' = [game EXCEPT !.frames = @ - 1]
       \/ enc' = NewEncoder /\ UNCHANGED <<game, output>>
    /\ UNCHANGED <<input, conn, pipe, relay, notes, remoteVars>>

WorkerFails ==
    /\ worker = "busy" /\ game.cuts > 0
    /\ sender' = [sender EXCEPT !.failed = TRUE]
    /\ game' = [game EXCEPT !.cuts = @ - 1]
    /\ worker' = "dead"
    /\ UNCHANGED <<enc, input, output, conn, pipe, relay, notes, remoteVars>>

-----------------------------------------------------------------------------
\* The Host's main loop.

\* stop_host_encode_worker: joins the thread, and forgets what it was given and what it published.
Stopped == worker' = "off" /\ input' = FALSE /\ output' = None

\* transport_lost on the Host; the connection is closed.
HostLoses ==
    /\ Stopped
    /\ enc' = None
    /\ sender' = [sender EXCEPT !.up = FALSE, !.paused = TRUE, !.config = 0]
    /\ conn' = None /\ pipe' = <<>> /\ notes' = <<>>

\* The relay's end of a link that is closed for both.
Closed == relay' = [link |-> "down", to |-> NewQueue, torn |-> FALSE, replayed |-> FALSE]

HostNotices ==
    /\ sender.up /\ relay.link = "down"
    /\ HostLoses
    /\ UNCHANGED <<game, relay, remoteVars>>

\* A failed encoder: the pump answers an error and the transport is recovered; a picture submitted
\* before the pump has looked ends the game instead.
EncoderFailed ==
    /\ Gb /\ Sending /\ sender.failed
    /\ \/ game' = game
       \/ worker = "dead" /\ ~sender.paused /\ game' = [game EXCEPT !.left = TRUE]
    /\ HostLoses
    /\ Closed
    /\ UNCHANGED remoteVars

\* Mutant of PumpFrame: the published frame is given up when a send has been tried.
PumpFrameAndForget(c) ==
    \E s \in Sends([conn |-> c.conn, pipe |-> c.pipe],
                   FrameOf(output.enc, output.n, c.vseq + 1)) :
        /\ Written(s)
        /\ sender' = [sender EXCEPT !.config = c.config, !.vseq = c.vseq + 1]
        /\ output' = None

\* The frame is given up when it has been written, and is sent again otherwise.
PumpFrame(c) ==
    \E s \in Sends([conn |-> c.conn, pipe |-> c.pipe],
                   FrameOf(output.enc, output.n, c.vseq + 1)) :
        /\ Written(s)
        /\ sender' = [sender EXCEPT !.config = c.config, !.vseq = IF s.sent THEN c.vseq + 1 ELSE c.vseq]
        /\ output' = IF s.sent THEN None ELSE [output EXCEPT !.config = FALSE]

\* pump_host_video_output: the configuration first, when the frame brings one.
PumpVideo ==
    /\ Gb /\ Sending /\ ~sender.failed /\ output # None
    /\ IF output.config
       THEN \E s \in Sends(Link, Config(output.enc, sender.vseq + 1)) :
              IF s.sent
              THEN PumpFrame([conn |-> s.conn, pipe |-> s.pipe, vseq |-> sender.vseq + 1,
                              config |-> output.enc])
              ELSE Written(s) /\ UNCHANGED <<sender, output>>
       ELSE PumpFrame([conn |-> conn, pipe |-> pipe, vseq |-> sender.vseq, config |-> sender.config])
    /\ UNCHANGED <<game, enc, worker, input, relay, notes, remoteVars>>

\* send_host_pcm: a packet refused has used its number.
SendAudio ==
    /\ Gb /\ Sending /\ ~sender.paused /\ ~game.told /\ game.audio > 0
    /\ sender' = [sender EXCEPT !.aseq = @ + 1]
    /\ game' = [game EXCEPT !.audio = @ - 1]
    /\ \E s \in Sends(Link, Audio(sender.aseq + 1)) : Written(s)
    /\ UNCHANGED <<enc, worker, input, output, relay, notes, remoteVars>>

\* send_control: a pong is tried once, and so is the terminal state, whose sender takes "an
\* earlier message is still being written" for accepted.
SendPong ==
    /\ Gb /\ Sending /\ game.pongs > 0 /\ ~game.told
    /\ game' = [game EXCEPT !.pongs = @ - 1]
    /\ \E s \in Sends(Link, Notice("pong")) : Written(s)
    /\ UNCHANGED <<hostVars, relay, notes, remoteVars>>

SendTerminal ==
    /\ Gb /\ Sending /\ ~sender.paused /\ ~game.told /\ game.frames + game.audio + game.pongs = 0
    /\ \E s \in Sends(Link, Notice("terminal")) : Written(s)
    /\ game' = [game EXCEPT !.told = TRUE]
    /\ UNCHANGED <<hostVars, relay, notes, remoteVars>>

\* An N64 Host encodes, sends and forgets in one step: a configuration not written at once takes
\* its frame with it, a refused frame is gone.  The sound is sent after the picture.
SyncVideo(c, seq) ==
    IF NewEncoder.n = 0
    THEN UNION {IF s.sent
                THEN {[link |-> [conn |-> t.conn, pipe |-> t.pipe], vseq |-> seq + 2] :
                        t \in Sends([conn |-> s.conn, pipe |-> s.pipe],
                                    FrameOf(NewEncoder.id, 1, seq + 2))}
                ELSE {[link |-> [conn |-> s.conn, pipe |-> s.pipe], vseq |-> seq + 1]} :
                  s \in Sends(c, Config(NewEncoder.id, seq + 1))}
    ELSE {[link |-> [conn |-> s.conn, pipe |-> s.pipe], vseq |-> seq + 1] :
            s \in Sends(c, FrameOf(enc.id, enc.n + 1, seq + 1))}

SyncAudio(c, wanted) ==
    IF wanted THEN {[conn |-> s.conn, pipe |-> s.pipe] : s \in Sends(c, Audio(sender.aseq + 1))}
              ELSE {c}

PumpHost ==
    /\ ~Gb /\ Sending
    /\ \E picture, sound \in BOOLEAN :
          /\ picture \/ sound
          /\ (picture => game.frames > 0) /\ (sound => game.audio > 0)
          /\ game' = [game EXCEPT !.frames = IF picture THEN @ - 1 ELSE @,
                                  !.audio = IF sound THEN @ - 1 ELSE @]
          /\ enc' = IF picture THEN [NewEncoder EXCEPT !.n = @ + 1] ELSE enc
          /\ \E v \in IF picture THEN SyncVideo(Link, sender.vseq)
                                 ELSE {[link |-> Link, vseq |-> sender.vseq]} :
             \E s \in SyncAudio(v.link, sound) :
                /\ Written(s)
                /\ sender' = [sender EXCEPT !.vseq = v.vseq, !.aseq = IF sound THEN @ + 1 ELSE @,
                              !.made = IF picture THEN NewEncoder.id ELSE @,
                              !.config = IF picture /\ NewEncoder.n = 0 THEN NewEncoder.id ELSE @]
    /\ UNCHANGED <<worker, input, output, relay, notes, remoteVars>>

\* The relay's word that the Remote has gone.
HostPauses ==
    /\ Sending /\ notes # <<>> /\ Head(notes) = "paused"
    /\ sender' = [sender EXCEPT !.paused = TRUE]
    /\ notes' = Tail(notes)
    /\ UNCHANGED <<game, enc, worker, input, output, conn, pipe, relay, remoteVars>>

\* Mutant of PrepareResume: the encoder goes on.
ResumeSameEncoder ==
    /\ Stopped
    /\ enc' = enc
    /\ sender' = [sender EXCEPT !.paused = FALSE, !.vseq = @ + 1]
    /\ \E s \in Sends(Link, Config(sender.config, sender.vseq + 1)) : Written(s)

\* prepare_video_resume: whether or not the stored configuration could be sent, the next frame is a
\* new encoder's first.
PrepareResume ==
    /\ Stopped
    /\ enc' = None
    /\ sender' = [sender EXCEPT !.paused = FALSE, !.vseq = @ + 1]
    /\ \E s \in Sends(Link, Config(sender.config, sender.vseq + 1)) : Written(s)

\* ... and that it is back; without a stored configuration the Host gives the transport up.
HostResumes ==
    /\ Sending /\ notes # <<>> /\ Head(notes) = "resumed"
    /\ IF sender.config = 0
       THEN HostLoses /\ Closed
       ELSE PrepareResume /\ notes' = Tail(notes) /\ UNCHANGED relay
    /\ UNCHANGED <<game, remoteVars>>

-----------------------------------------------------------------------------
\* The relay: a filter on what the Host writes, and a queue that may lose what has aged.

\* MediaForwardQueue.prune: of messages not yet begun, sound and deltas that have aged are dropped,
\* and so are the deltas after a dropped one up to the next key frame.  The first `aged` have aged.
Breaks(q, aged, j) == j <= aged /\ Delta(q.queue[j]) /\ ~(j = 1 /\ q.begun)
Broken(q, aged, i) ==
    \E j \in 1..i : Breaks(q, aged, j) /\ \A l \in (j + 1)..i : ~KeyFrame(q.queue[l])

Pruned(q, aged) ==
    LET drops(i) == \/ Delta(q.queue[i]) /\ Broken(q, aged, i)
                    \/ q.queue[i].k = "audio" /\ i <= aged
        keep(i) == (i = 1 /\ q.begun) \/ ~drops(i)
        kept == {i \in 1..Len(q.queue) : keep(i)}
    IN [q EXCEPT !.queue = [i \in 1..Cardinality(kept) |->
                              q.queue[CHOOSE k \in kept : Cardinality({j \in kept : j <= k}) = i]],
                 !.wait = @ \/ (q.queue # <<>> /\ Broken(q, aged, Len(q.queue)))]

\* A key frame awaited takes the place of the video before it, but for the newest configuration.
Superseded(q) ==
    LET configs == {i \in 1..Len(q.queue) : q.queue[i].k = "config"}
        newest(i) == \A j \in configs : j <= i
        keep(i) == (i = 1 /\ q.begun) \/ ~Video(q.queue[i]) \/ (i \in configs /\ newest(i))
        kept == {i \in 1..Len(q.queue) : keep(i)}
    IN [q EXCEPT !.queue = [i \in 1..Cardinality(kept) |->
                              q.queue[CHOOSE k \in kept : Cardinality({j \in kept : j <= k}) = i]]]

\* Mutant of Appended: deltas are queued whatever was dropped before them.
AppendedAnyway(q, m) == [q EXCEPT !.queue = Append(@, m)]

\* MediaForwardQueue.append: after a delta was dropped, deltas wait for the next key frame.
Appended(q, m) ==
    IF q.wait /\ Delta(m) THEN q
    ELSE LET base == IF q.wait /\ KeyFrame(m) THEN Superseded(q) ELSE q
         IN [base EXCEPT !.queue = Append(@, m), !.wait = @ /\ ~KeyFrame(m)]

\* A message of the Host: the filter refuses one that starts in the middle, or whose number does not
\* grow, and that closes the link for both.
RelayReads ==
    /\ relay.link = "up" /\ pipe # <<>> /\ Len(relay.to.queue) < QueueCap
    /\ pipe' = Tail(pipe)
    /\ LET m == Head(pipe) IN
       IF relay.torn THEN Closed
       ELSE IF Video(m) /\ m.seq <= relay.to.last
       THEN relay' = [link |-> "down", to |-> NewQueue, torn |-> FALSE, replayed |-> TRUE]
       ELSE \E aged \in 0..Len(relay.to.queue) :
              relay' = [relay EXCEPT !.to =
                 [Appended(Pruned(@, aged), m) EXCEPT
                    !.last = IF Video(m) THEN m.seq ELSE relay.to.last]]
    /\ UNCHANGED <<game, hostVars, conn, notes, remoteVars>>

RelayPrunes ==
    /\ relay.link = "up"
    /\ \E aged \in 1..Len(relay.to.queue) :
          relay' = [relay EXCEPT !.to = Pruned(@, aged)]
    /\ UNCHANGED <<game, hostVars, conn, pipe, notes, remoteVars>>

\* The first message begins to be written; it will not be dropped any more.
RelayBegins ==
    /\ relay.link = "up" /\ relay.to.queue # <<>> /\ ~relay.to.begun
    /\ relay' = [relay EXCEPT !.to.begun = TRUE]
    /\ UNCHANGED <<game, hostVars, conn, pipe, notes, remoteVars>>

\* The Remote has gone: a Game Boy Host is kept and told, with whatever part of a message was read
\* thrown away; an N64 Host is closed too.
KeepsHost ==
    IF Gb
    THEN /\ \E torn \in {FALSE, pipe # <<>> \/ conn # None} :
              relay' = [link |-> "held", to |-> NewQueue, torn |-> torn, replayed |-> FALSE]
         /\ notes' = Append(notes, "paused")
    ELSE Closed /\ UNCHANGED notes

\* transport_lost on the Remote: nothing received on the old connection is used any more.
RemoteLoses ==
    /\ remote' = [remote EXCEPT !.up = FALSE, !.pc = "pump", !.slot = "none"]
    /\ packets' = <<>> /\ dec' = None /\ failed' = FALSE /\ jitter' = NewJitter

RemoteLeaves ==
    /\ remote.up /\ relay.link = "up" /\ game.cuts > 0
    /\ game' = [game EXCEPT !.cuts = @ - 1]
    /\ RemoteLoses /\ KeepsHost
    /\ UNCHANGED <<hostVars, conn, pipe>>

RemoteNotices ==
    /\ remote.up /\ relay.link = "down"
    /\ RemoteLoses
    /\ UNCHANGED <<game, hostVars, conn, pipe, relay, notes>>

HostLeaves ==
    /\ sender.up /\ relay.link # "down" /\ game.cuts > 0
    /\ game' = [game EXCEPT !.cuts = @ - 1]
    /\ Closed
    /\ UNCHANGED <<hostVars, conn, pipe, notes, remoteVars>>

\* The Remote is back, the Host was kept.
Resume ==
    /\ relay.link = "held" /\ ~remote.up /\ ~remote.over
    /\ relay' = [relay EXCEPT !.link = "up", !.to = NewQueue]
    /\ remote' = [remote EXCEPT !.up = TRUE]
    /\ notes' = Append(notes, "resumed")
    /\ UNCHANGED <<game, hostVars, conn, pipe, packets, dec, failed, jitter>>

\* Both have come back.
Pair ==
    /\ relay.link = "down" /\ ~sender.up /\ ~remote.up /\ ~game.left /\ ~remote.over
    /\ relay' = [link |-> "up", to |-> NewQueue, torn |-> FALSE, replayed |-> FALSE]
    /\ sender' = [sender EXCEPT !.up = TRUE, !.paused = FALSE]
    /\ remote' = [remote EXCEPT !.up = TRUE]
    /\ UNCHANGED <<game, enc, worker, input, output, conn, pipe, notes, packets, dec, failed, jitter>>

-----------------------------------------------------------------------------
\* The Remote's loop: messages until a notice or none is left, then sound, then the picture, then the
\* notice.

\* enqueue_decode_packet
Enqueued(m) == packets' = Append(packets, m)
DecodeFull == failed \/ Len(packets) >= DecodeCap
HasMessage == remote.pc = "pump" /\ relay.link = "up" /\ relay.to.queue # <<>>
CannotTake == HasMessage /\ Video(Head(relay.to.queue)) /\ DecodeFull

\* A worker that failed, or that cannot take another packet, fails the transport.
RemoteFails ==
    /\ remote.up /\ (failed \/ CannotTake)
    /\ RemoteLoses /\ KeepsHost
    /\ UNCHANGED <<game, hostVars, conn, pipe>>

\* Mutant of PushedTo: no free slot is needed.
PushedAnyway(j, seq) ==
    IF j.next # 0 /\ seq < j.next THEN j ELSE [j EXCEPT !.held = @ \cup {seq}]

\* integral_audio_jitter_push: late packets, and packets that find no slot, are dropped.
PushedTo(j, seq) ==
    IF (j.next # 0 /\ seq < j.next) \/ Cardinality(j.held) >= JitterSlots THEN j
    ELSE [j EXCEPT !.held = @ \cup {seq}]

\* Mutant of PhaseAfter: a notice does not end the receive loop.
PhaseStays(m) == "pump"

PhaseAfter(m) == IF m.k \in Notices THEN "play" ELSE "pump"

Receives(m) ==
    /\ relay' = [relay EXCEPT !.to.queue = Tail(@), !.to.begun = FALSE]
    /\ IF Video(m) THEN Enqueued(m) ELSE UNCHANGED packets
    /\ jitter' = CASE m.k = "config" -> NewJitter
                   [] m.k = "audio" -> PushedTo(jitter, m.seq)
                   [] OTHER -> jitter
    /\ remote' = [remote EXCEPT !.pc = PhaseAfter(m), !.slot = IF m.k \in Notices THEN m.k ELSE @]
    /\ UNCHANGED <<game, hostVars, conn, pipe, notes, dec, failed>>

RemoteReceives ==
    /\ remote.up /\ HasMessage /\ ~CannotTake
    /\ Receives(Head(relay.to.queue))

\* integral_audio_jitter_pop: the packet wanted, or after the deadline none in its place.
Earliest(held) == CHOOSE s \in held : \A t \in held : s <= t

\* Mutant of StartsAt: the buffer starts with the newest packet.
StartsAtNewest(j) == CHOOSE s \in j.held : \A t \in j.held : s >= t

StartsAt(j) == Earliest(j.held)

RemotePlays ==
    /\ remote.up /\ jitter.held # {}
    /\ jitter.next # 0 \/ Cardinality(jitter.held) >= Target
    /\ LET next == IF jitter.next = 0 THEN StartsAt(jitter) ELSE jitter.next
       IN jitter' = [held |-> jitter.held \ {next}, next |-> next + 1]
    /\ remote' = [remote EXCEPT !.pc = "play"]
    /\ UNCHANGED <<game, hostVars, conn, pipe, relay, notes, packets, dec, failed>>

\* sync_remote_video_frame, and the notice taken.
RemoteShows ==
    /\ remote.up /\ ~failed /\ remote.pc = "play"
    /\ remote' = [remote EXCEPT !.pc = "pump", !.slot = "none",
                                !.over = @ \/ remote.slot = "terminal"]
    /\ UNCHANGED <<game, hostVars, conn, pipe, relay, notes, packets, dec, failed, jitter>>

-----------------------------------------------------------------------------
\* The decode worker.

NewDecoder(config) == [k |-> "decoder", config |-> config, enc |-> 0, n |-> 0, broken |-> FALSE]

\* A frame can be decoded by a decoder made for its encoder's configuration, when it is a key frame or
\* the frame before it was the last decoded.
Decodable(d, f) == d.config = f.enc /\ (Key(f.n) \/ (d.enc = f.enc /\ d.n + 1 = f.n))
Decoded(d, f) == [d EXCEPT !.enc = f.enc, !.n = f.n, !.broken = ~Decodable(d, f)]

\* Without error concealment an undecodable frame is an error; VideoToolbox may also give no picture,
\* Media Foundation a picture, or none, without an error.
OpenH264Decode(d, f) == IF Decodable(d, f) THEN {Decoded(d, f)} ELSE {None}
VideoToolboxDecode(d, f) ==
    IF Decodable(d, f) THEN {Decoded(d, f)} ELSE {None, [d EXCEPT !.broken = TRUE]}
MediaFoundationDecode(d, f) ==
    IF Decodable(d, f) THEN {Decoded(d, f)} ELSE {Decoded(d, f), [d EXCEPT !.broken = TRUE]}

Decodes(d, f) == CASE game.codec = "openh264" -> OpenH264Decode(d, f)
                   [] game.codec = "videotoolbox" -> VideoToolboxDecode(d, f)
                   [] game.codec = "mediafoundation" -> MediaFoundationDecode(d, f)

\* decode_worker_main: a frame without a decoder is ignored, an error ends the worker.
DecodeNext ==
    /\ remote.up /\ ~failed /\ packets # <<>>
    /\ LET m == Head(packets) IN
       \/ m.k = "config" /\ dec' = NewDecoder(m.enc) /\ packets' = Tail(packets) /\ failed' = FALSE
       \/ m.k = "frame" /\ dec = None /\ dec' = dec /\ packets' = Tail(packets) /\ failed' = FALSE
       \/ /\ m.k = "frame" /\ dec # None
          /\ dec' \in Decodes(dec, m)
          /\ failed' = (dec' = None)
          /\ packets' = IF failed' THEN <<>> ELSE Tail(packets)
    /\ UNCHANGED <<game, hostVars, conn, pipe, relay, notes, remote, jitter>>

Next ==
    \/ Submit \/ WorkerTakes \/ WorkerEncodes \/ WorkerFails
    \/ HostNotices \/ EncoderFailed \/ PumpVideo \/ SendAudio \/ SendPong \/ SendTerminal \/ PumpHost
    \/ HostPauses \/ HostResumes
    \/ RelayReads \/ RelayPrunes \/ RelayBegins
    \/ RemoteLeaves \/ RemoteNotices \/ HostLeaves \/ Resume \/ Pair
    \/ RemoteFails \/ RemoteReceives \/ RemotePlays \/ RemoteShows \/ DecodeNext

Spec == Init /\ [][Next]_vars

-----------------------------------------------------------------------------
\* Properties.

\* Every buffer within its bound, and every part in a state the code knows.
TypeOK ==
    /\ enc = None \/ (enc.id \in 1..sender.made /\ enc.n \in Nat)
    /\ worker \in {"off", "idle", "busy", "dead"} /\ input \in BOOLEAN
    /\ Len(pipe) <= MaxWire /\ Len(relay.to.queue) <= QueueCap
    /\ relay.link \in {"up", "held", "down"}
    /\ Len(packets) <= DecodeCap /\ Cardinality(jitter.held) <= JitterSlots
    /\ remote.slot \in Notices \cup {"none"} /\ remote.pc \in {"pump", "play"}
    /\ ~remote.up => packets = <<>> /\ dec = None /\ ~failed /\ remote.slot = "none"

\* Whatever the relay drops and whoever comes back, a Game Boy Remote's decoder is only given frames
\* whose encoder's configuration it has and whose reference it has decoded: the thread never
\* overwrites a frame being sent, the relay drops a delta with all that depend on it, and a Host that
\* resumes starts with a new encoder.
PictureIsWhole == Gb => ~failed /\ (dec # None => ~dec.broken)

\* A Game Boy Remote without a decoder is not left without one: a configuration is on its way, or the
\* next frame, or the one about to be sent, brings it, or the Host has yet to be told to resume.
ConfigIsOnItsWay ==
    LET sent(m) == m.k = "config"
        onItsWay == \/ sent(conn) \/ \E i \in 1..Len(pipe) : sent(pipe[i])
                    \/ \E i \in 1..Len(relay.to.queue) : sent(relay.to.queue[i])
                    \/ \E i \in 1..Len(packets) : sent(packets[i])
    IN Gb /\ relay.link = "up" /\ ~relay.torn /\ sender.up /\ remote.up /\ dec = None /\ ~onItsWay
       => \/ enc = None \/ enc.n = 0
          \/ output # None /\ output.config
          \/ \E i \in 1..Len(notes) : notes[i] = "resumed"

\* No packet is left behind in the jitter buffer: what it holds is what it is still going to play,
\* or its slots would fill up with sound nobody asks for.
NothingStranded == jitter.next # 0 => \A s \in jitter.held : s >= jitter.next

\* What a Remote is shown and what it plays is what it needs and all it needs.
StreamIsWhole == TypeOK /\ PictureIsWhole /\ NothingStranded

\* A notice received stays until the loop has taken it, or the connection is lost: the next one does
\* not take its place.
NoticeIsTaken == [][remote.slot # "none" => remote'.slot \in {"none", remote.slot}]_vars

\* media_relay_client.h says that 0 means the message was accepted into the queue.  If it were so, and
\* the sender acted on it, no message would be written twice, and the relay would not find a number
\* repeated.
NothingIsReplayed == ~relay.replayed
=============================================================================
