------------------------------ MODULE Emulator ------------------------------
(***************************************************************************)
(* The browser emulator of lib/replay around run_replay(): a loopback      *)
(* server that plays the capture to one WebSocket client at a time.  The   *)
(* PlaybackPacer is the replay's gate: it holds every due time until its   *)
(* wall time and meanwhile takes the browser's commands from the channel.  *)
(* The browser, the wall clock and the thread that asks for shutdown are   *)
(* concurrent with the serving thread and with the replay's worker.        *)
(*                                                                         *)
(* A browser frame travels as two pieces, header and payload, so that a    *)
(* receive may end in the middle of it.  Text is its parsed fields.        *)
(***************************************************************************)
EXTENDS Replay

CONSTANTS Requests,      \* HTTP requests a client may make
          Scripts,       \* the frames browsers send on the WebSocket, in order
          MaxText,       \* kMaxControlMessageBytes
          MaxControl,    \* kMaximumControlPayload
          MaxClients,    \* bound: connections accepted
          MaxWall        \* bound on the wall clock

ASSUME EmulatorAssumption == {MaxText, MaxControl, MaxClients, MaxWall} \subseteq Nat

VARIABLES
  shutdown,  \* stop_requested or shutdown_requested_
  clients,   \* connections accepted so far
  net,       \* bytes from the browser that are not received yet, in pieces
  chan,      \* WebSocketPlaybackChannel: closed_, close_code_, decoder
  pacer,     \* PlaybackPacer: paused, interruption and timeline
  wall,      \* WallClock
  credit,    \* history: replay time the wall clock has paid for, in quarters
  script,    \* frames the browser will still send
  owed       \* history: commands it sent that the pacer has not taken yet

webVars == <<shutdown, clients, net, chan, pacer, wall, credit, script, owed>>
sessionVars == <<net, chan, script, owed>>
allVars == <<vars, webVars>>

-----------------------------------------------------------------------------
(* Playback rates and the timeline.                                        *)

Rates == [quarter |-> [num |-> 1, den |-> 4], half |-> [num |-> 1, den |-> 2],
          normal |-> [num |-> 1, den |-> 1], double |-> [num |-> 2, den |-> 1],
          fivefold |-> [num |-> 5, den |-> 1]]

Scale(value, multiplier, divisor, roundUp) ==
  LET part == (value % divisor) * multiplier
  IN  (value \div divisor) * multiplier + part \div divisor
        + (IF roundUp /\ part % divisor # 0 THEN 1 ELSE 0)

WallSpan(rate, replay) == Scale(replay, Rates[rate].den, Rates[rate].num, TRUE)
ReplaySpan(rate, span) == IF span <= 0 THEN 0 ELSE Scale(span, Rates[rate].num, Rates[rate].den, FALSE)

WallTarget(p, replay) ==
  IF replay <= p.anchorReplay THEN p.anchorWall
  ELSE p.anchorWall + WallSpan(p.rate, replay - p.anchorReplay)

Position(p, now) == p.anchorReplay + ReplaySpan(p.rate, now - p.anchorWall)

(* Mutant: a resume forgets that the clock stood still.                    *)
MReanchored(p, command, due) ==
  LET position == Min({due, Position(p, wall)})
  IN  [p EXCEPT !.paused = IF command.kind = "SetRate" THEN p.paused ELSE command.kind = "Pause",
                !.rate = IF command.kind = "SetRate" THEN command.rate ELSE p.rate,
                !.anchorWall = wall, !.anchorReplay = position]

(* apply(): every command re-anchors at the position of this moment, which *)
(* never passes the due time that is not released yet.                     *)
Reanchored(p, command, due) ==
  LET position == IF p.paused THEN p.anchorReplay ELSE Min({due, Position(p, wall)})
  IN  [p EXCEPT !.paused = IF command.kind = "SetRate" THEN p.paused ELSE command.kind = "Pause",
                !.rate = IF command.kind = "SetRate" THEN command.rate ELSE p.rate,
                !.anchorWall = wall, !.anchorReplay = position]

-----------------------------------------------------------------------------
(* Control messages: flat objects, as the sequence of their fields.        *)

Keys == {"type", "command", "rate"}
Field(text, key) ==
  IF \E i \in DOMAIN text : text[i].key = key
    THEN text[CHOOSE i \in DOMAIN text : text[i].key = key].value ELSE "absent"

(* An unknown key, or the same key twice, is malformed.                    *)
ReadsFields(text) ==
  /\ \A i \in DOMAIN text : text[i].key \in Keys
  /\ \A i, j \in DOMAIN text : text[i].key = text[j].key => i = j

Rejected == [kind |-> "rejected", rate |-> "normal"]
SimpleCommand(name) ==
  CASE name = "play" -> "Play" [] name = "pause" -> "Pause" [] name = "restart" -> "Restart"
    [] OTHER -> "rejected"

ParsePlaybackCommand(text) ==
  LET command == Field(text, "command") rate == Field(text, "rate")
  IN  IF ~ReadsFields(text) \/ Field(text, "type") # "control" THEN Rejected
      ELSE IF command = "rate"
        THEN IF rate \in DOMAIN Rates THEN [kind |-> "SetRate", rate |-> rate] ELSE Rejected
      ELSE IF rate # "absent" THEN Rejected
      ELSE [kind |-> SimpleCommand(command), rate |-> "normal"]

-----------------------------------------------------------------------------
(* ClientFrameDecoder.                                                     *)

KindFor(op) ==
  CASE op = 1 -> "Text" [] op = 2 -> "Unsupported" [] op = 8 -> "Close" [] op = 9 -> "Ping"
    [] op = 10 -> "Pong" [] OTHER -> "none"

(* What the header alone decides: an unfinished, unmasked or reserved      *)
(* frame, an unknown opcode, a control frame that is too long.             *)
HeaderKind(f) ==
  LET kind == KindFor(f.op)
  IN  IF ~f.final \/ f.reserved \/ ~f.masked \/ kind = "none"
         \/ (kind \in {"Close", "Ping", "Pong"} /\ f.size > MaxControl)
        THEN "ProtocolError"
      ELSE IF kind = "Text" /\ f.size > MaxText THEN "TooLarge" ELSE kind

ValidCloseStatus(s) == s \in 1000..1003 \cup 1007..1014 \cup 3000..4999

ValidatedKind(kind, f) ==
  IF kind = "Text" THEN IF f.utf8 THEN kind ELSE "InvalidText"
  ELSE IF kind # "Close" \/ f.size = 0 THEN kind
  ELSE IF f.size < 2 \/ ~ValidCloseStatus(f.status) THEN "ProtocolError"
  ELSE IF f.utf8 THEN kind ELSE "InvalidText"

CloseCodeFor(kind) ==
  CASE kind = "Close" -> 1000 [] kind = "ProtocolError" -> 1002 [] kind = "Unsupported" -> 1003
    [] kind = "InvalidText" -> 1007 [] kind = "TooLarge" -> 1009 [] OTHER -> 0

Piece(f, part) == [frame |-> f, part |-> part]
Finished(kind) == [kind |-> kind, rest |-> <<>>]
NoFrame == [kind |-> "none", rest |-> <<>>]

(* next(): a frame that ends the connection needs only its header, and     *)
(* nothing is decoded after it.                                            *)
Decoded(buffer) ==
  IF buffer = <<>> THEN NoFrame
  ELSE LET f == Head(buffer).frame kind == HeaderKind(f)
       IN  IF CloseCodeFor(kind) > 1000 THEN Finished(kind)
           ELSE IF Len(buffer) < 2 THEN NoFrame
           ELSE LET valid == ValidatedKind(kind, f)
                IN  [kind |-> valid,
                     rest |-> IF CloseCodeFor(valid) # 0 THEN <<>> ELSE Tail(Tail(buffer))]

IsCommand(p) ==
  p.part = "head" /\ p.frame.op = 1 /\ ParsePlaybackCommand(p.frame.text).kind # "rejected"

(* The commands that wait in the pieces, one for one and in order.         *)
WaitIn(commands, pieces) ==
  \E at \in [DOMAIN commands -> DOMAIN pieces] :
    /\ \A i, j \in DOMAIN commands : i < j => at[i] < at[j]
    /\ \A k \in DOMAIN pieces : IsCommand(pieces[k]) <=> \E i \in DOMAIN commands : at[i] = k
    /\ \A i \in DOMAIN commands : commands[i] = ParsePlaybackCommand(pieces[at[i]].frame.text)

-----------------------------------------------------------------------------
NewChannel == [closed |-> FALSE, code |-> 0, buffer |-> <<>>]
NewPacer == [paused |-> FALSE, interruption |-> "None", rate |-> "normal",
             anchorWall |-> 0, anchorReplay |-> 0]

EmulatorInit ==
  /\ Init
  /\ shutdown = FALSE /\ clients = 0 /\ net = <<>> /\ chan = NewChannel /\ pacer = NewPacer
  /\ wall = 0 /\ credit = 0 /\ script = <<>> /\ owed = <<>>

replayVars == <<mode, plan, clock, syncVars, ctlVars, step, cad, events, stage>>

ChannelOpen == ~chan.closed /\ ~shutdown

(* A text frame to the browser; a send that fails closes the channel.      *)
SendText(c, r, ok) ==
  /\ wire' = IF ok /\ ChannelOpen THEN Append1(wire, r) ELSE wire
  /\ chan' = [c EXCEPT !.closed = c.closed \/ ~ok]

PlaybackRecord(p) == IF p.paused THEN "paused" ELSE "playing"

(* start(): anything but loopback is refused, and so is a listener that    *)
(* cannot be had.                                                          *)
ServerStart ==
  /\ pc = "serverStart"
  /\ \E bound \in Outcome("start") :
       /\ pc' = IF bound THEN "accept" ELSE "exit"
       /\ status' = IF bound THEN status ELSE "NotStarted"
  /\ UNCHANGED <<replayVars, sink, wire, webVars>>

ResponseTo(r) ==
  IF ~r.wellFormed THEN 400
  ELSE IF r.method # "GET" THEN 405
  ELSE IF r.target = "/ws"
    THEN IF ~r.upgrade THEN 400 ELSE IF ~r.local THEN 403 ELSE 101
  ELSE IF r.target = "asset" THEN 200 ELSE 404

(* serve(): the next client.  Only a handshake that was sent starts a      *)
(* session; every other answer ends the connection.                        *)
Accept ==
  /\ pc = "accept" /\ ~shutdown /\ clients < MaxClients
  /\ clients' = clients + 1
  /\ \E r \in Requests, ok \in Outcome("write"), s \in Scripts :
       LET session == ResponseTo(r) = 101 /\ ok
       IN  /\ pc' = IF session THEN "pass" ELSE "accept"
           /\ script' = IF session THEN s ELSE <<>>
  /\ UNCHANGED <<replayVars, status, sink, wire, shutdown, net, chan, owed, pacer, wall,
                 credit>>

(* The listener is released when serve() sees the flag, or cannot accept.  *)
ServeEnds ==
  /\ pc = "accept"
  /\ \/ shutdown /\ UNCHANGED status
     \/ ~shutdown /\ status' = "AcceptFailed"
  /\ pc' = "exit"
  /\ UNCHANGED <<replayVars, sink, wire, webVars>>

(* stream_replay_pass(): a fresh clock and stream, the header, and the     *)
(* pacer anchored at zero with the rate it had.  Only differences of wall  *)
(* times count, so a pass counts its own from zero.                        *)
BeginPass ==
  /\ pc = "pass"
  /\ \E header, ok \in Outcome("write") :
       LET w == StreamWrite(NewSink, <<>>, "header", header)
           p == [pacer EXCEPT !.paused = FALSE, !.interruption = "None",
                              !.anchorWall = 0, !.anchorReplay = 0]
       IN  /\ sink' = w.sink /\ clock' = 0 /\ credit' = 0 /\ wall' = 0
           /\ IF w.ok
                THEN /\ pacer' = p /\ pc' = "run"
                     /\ wire' = IF ok /\ ChannelOpen THEN <<"header", PlaybackRecord(p)>> ELSE <<"header">>
                     /\ chan' = [chan EXCEPT !.closed = chan.closed \/ ~ok]
                ELSE pc' = "endSession" /\ wire' = <<>> /\ UNCHANGED <<pacer, chan>>
  /\ UNCHANGED <<mode, plan, syncVars, ctlVars, step, cad, events, stage, status, shutdown,
                 clients, net, script, owed>>

-----------------------------------------------------------------------------
(* The gate: admit() while a pass runs, await_restart() after its end.     *)

Gating == mode = "web" /\ pc \in {"admit", "admitEnd"}
Polling == Gating \/ pc = "await"
Due == IF pc = "await" THEN pacer.anchorReplay ELSE cad.due

Interrupt(how) ==
  /\ pacer' = [pacer EXCEPT !.interruption = how]
  /\ pc' = IF pc # "await" THEN "cancel" ELSE IF how = "Restart" THEN "restart" ELSE "finish"
  /\ status' = IF pc # "await" THEN "Interrupted" ELSE status

(* Mutant: a paused player does not look at its channel.                   *)
MPollClosed ==
  /\ Polling /\ ~ChannelOpen /\ ~pacer.paused
  /\ Interrupt("Stop")
  /\ UNCHANGED <<replayVars, sink, wire, shutdown, clients, sessionVars, wall, credit>>

(* poll(): a channel that is closed, or the flag, ends the playback.       *)
PollClosed ==
  /\ Polling /\ ~ChannelOpen
  /\ Interrupt("Stop")
  /\ UNCHANGED <<replayVars, sink, wire, shutdown, clients, sessionVars, wall, credit>>

(* receive(): a prefix of what has arrived, or the end of the connection.  *)
PollReceives ==
  /\ Polling /\ ChannelOpen /\ Decoded(chan.buffer).kind = "none" /\ net # <<>>
  /\ \/ /\ Head(net).part = "fin"
        /\ chan' = [chan EXCEPT !.closed = TRUE] /\ net' = <<>>
     \/ \E k \in 1..Len(net) :
          /\ \A i \in 1..k : net[i].part # "fin"
          /\ chan' = [chan EXCEPT !.buffer = chan.buffer \o SubSeq(net, 1, k)]
          /\ net' = SubSeq(net, k + 1, Len(net))
  /\ UNCHANGED <<replayVars, pc, status, sink, wire, shutdown, clients, pacer, wall, credit,
                 script, owed>>

(* accept(): a ping is answered, a frame that ends the session leaves the  *)
(* code owed to the browser, a command is applied and acknowledged.        *)
PollFrame ==
  /\ Polling /\ ChannelOpen
  /\ LET d == Decoded(chan.buffer)
         c == [chan EXCEPT !.buffer = d.rest]
         command == ParsePlaybackCommand(Head(chan.buffer).frame.text)
     IN  /\ d.kind # "none"
         /\ \/ /\ d.kind = "Pong"
               /\ chan' = c /\ UNCHANGED <<pc, status, wire, pacer, owed>>
            \/ /\ d.kind = "Ping"
               /\ \E ok \in Outcome("write") : SendText(c, "pong", ok)
               /\ UNCHANGED <<pc, status, pacer, owed>>
            \/ /\ CloseCodeFor(d.kind) # 0
               /\ chan' = [c EXCEPT !.closed = TRUE, !.code = CloseCodeFor(d.kind)]
               /\ Interrupt("Stop") /\ UNCHANGED <<wire, owed>>
            \/ /\ d.kind = "Text" /\ command.kind = "rejected"
               /\ \E ok \in Outcome("write") : SendText(c, "rejected", ok)
               /\ UNCHANGED <<pc, status, pacer, owed>>
            \/ /\ d.kind = "Text" /\ command.kind = "Restart"
               /\ chan' = c /\ owed' = Tail(owed)
               /\ Interrupt("Restart") /\ UNCHANGED wire
            \/ /\ d.kind = "Text" /\ command.kind \notin {"rejected", "Restart"}
               /\ owed' = Tail(owed)
               /\ pacer' = Reanchored(pacer, command, Due)
               /\ \E ok \in Outcome("write") : SendText(c, PlaybackRecord(pacer'), ok)
               /\ UNCHANGED <<pc, status>>
  /\ UNCHANGED <<replayVars, sink, shutdown, clients, net, wall, credit, script>>

(* Nothing was left to poll, and the wall clock has reached the due time.  *)
(* What arrives after that poll waits for the next one.                    *)
Release ==
  /\ Gating /\ ~chan.closed /\ Decoded(chan.buffer).kind = "none"
  /\ ~pacer.paused /\ wall >= WallTarget(pacer, cad.due)
  /\ AdvanceTo
  /\ UNCHANGED <<mode, plan, syncVars, ctlVars, step, cad, events, stage, sink, wire, webVars>>

-----------------------------------------------------------------------------
(* serve_websocket(): what follows a pass, whose controller, clock and     *)
(* stage are gone.                                                         *)

PassEnds ==
  /\ mode = "web" /\ pc = "over"
  /\ \E ok \in Outcome("write") :
       LET w == StreamWrite(sink, wire, "end", ok)
       IN  IF status = "Interrupted"
             THEN /\ pc' = IF pacer.interruption = "Restart" THEN "restart" ELSE "finish"
                  /\ UNCHANGED <<sink, wire>>
           ELSE IF status # "Ok" \/ shutdown
             THEN pc' = "endSession" /\ UNCHANGED <<sink, wire>>
           ELSE sink' = w.sink /\ wire' = w.wire /\ pc' = IF w.ok THEN "await" ELSE "endSession"
  /\ NewReplay(plan)
  /\ UNCHANGED <<mode, plan, status, webVars>>

SendRestart ==
  /\ pc = "restart"
  /\ \E ok \in Outcome("write") :
       /\ SendText(chan, "restart", ok)
       /\ pc' = IF ok /\ ChannelOpen THEN "pass" ELSE "endSession"
  /\ UNCHANGED <<replayVars, status, sink, shutdown, clients, net, pacer, wall, credit, script,
                 owed>>

(* finish(): the close frame owed to the browser, if any.                  *)
Finish ==
  /\ pc = "finish" /\ pc' = "endSession"
  /\ \E ok \in Outcome("write") : wire' = IF chan.code # 0 /\ ok THEN Append(wire, "close") ELSE wire
  /\ UNCHANGED <<replayVars, status, sink, webVars>>

EndSession ==
  /\ pc = "endSession" /\ pc' = "accept"
  /\ net' = <<>> /\ chan' = NewChannel /\ script' = <<>> /\ owed' = <<>> /\ wire' = <<>>
  /\ pacer' = NewPacer /\ status' = "Ok" /\ sink' = NewSink
  /\ UNCHANGED <<replayVars, shutdown, clients, wall, credit>>

-----------------------------------------------------------------------------
(* The other threads.                                                      *)

(* The host reads the socket and the wall clock only while it polls or     *)
(* starts a pass, so what happens in between is as if it happened then.    *)
InSession == mode = "web" /\ pc \notin {"load", "serverStart", "accept", "endSession", "exit"}

BrowserSends ==
  /\ Polling /\ script # <<>>
  /\ \A i \in DOMAIN net : net[i].part # "fin"
  /\ LET f == Head(script)
     IN  /\ net' = net \o <<Piece(f, "head"), Piece(f, "body")>>
         /\ owed' = IF IsCommand(Piece(f, "head")) THEN Append(owed, ParsePlaybackCommand(f.text))
                                                 ELSE owed
  /\ script' = Tail(script)
  /\ UNCHANGED <<replayVars, pc, status, sink, wire, shutdown, clients, chan, pacer, wall,
                 credit>>

BrowserLeaves ==
  /\ Polling /\ net = <<>>
  /\ net' = <<[part |-> "fin"]>>
  /\ UNCHANGED <<replayVars, pc, status, sink, wire, shutdown, clients, chan, pacer, wall,
                 credit, script, owed>>

WallTick ==
  /\ Gating /\ wall < MaxWall
  /\ wall' = wall + 1
  /\ credit' = IF pacer.paused THEN credit
                 ELSE credit + (4 * Rates[pacer.rate].num) \div Rates[pacer.rate].den
  /\ UNCHANGED <<replayVars, pc, status, sink, wire, shutdown, clients, sessionVars, pacer>>

(* The flag fails the writes in between as well: those of StreamWrite.     *)
RequestShutdown ==
  /\ ~shutdown
  /\ Polling \/ (mode = "web" /\ pc \in {"accept", "over", "pass"})
  /\ shutdown' = TRUE
  /\ UNCHANGED <<replayVars, pc, status, sink, wire, clients, sessionVars, pacer, wall, credit>>

-----------------------------------------------------------------------------
Serving == ServerStart \/ Accept \/ ServeEnds \/ BeginPass \/ PassEnds \/ SendRestart \/ Finish
             \/ EndSession
Player == PollClosed \/ PollReceives \/ PollFrame \/ Release

(* send_all() sends nothing once the flag is set.                          *)
HostStep ==
  /\ (Host /\ UNCHANGED webVars) \/ Serving \/ Player
  /\ (shutdown /\ InSession) => wire' \in {wire, <<>>}

WorkerStep == Worker /\ UNCHANGED webVars

Next == HostStep \/ WorkerStep \/ BrowserSends \/ BrowserLeaves \/ WallTick \/ RequestShutdown

Spec == EmulatorInit /\ [][Next]_allVars /\ WF_allVars(HostStep) /\ WF_allVars(WorkerStep)

-----------------------------------------------------------------------------
(* Properties.                                                             *)

Times == {None} \cup Nat

TypeOK ==
  /\ mode \in {"render", "web"} /\ clock \in Nat /\ next \in 1..(Len(plan.frames) + 1)
  /\ worker \in {"none", "waiting", "receiving", "publishing", "held", "done"}
  /\ tele \in {"Stopped", "Running", "Stopping"}
  /\ ctl.state \in {"Ready", "Starting", "Running", "Failed", "Stopped"} /\ ctl.tries \in 0..2
  /\ bar.released <= bar.completed
  /\ {cad.due, cad.avail, cad.poll, cad.sample, cad.tick} \subseteq Times
  /\ \A i \in DOMAIN plan.frames : plan.frames[i] \in Nat
  /\ stage.mail \in Mail /\ stage.last \in {"none", "black", "lit"}
  /\ attached \in BOOLEAN /\ shutdown \in BOOLEAN
  /\ pacer.rate \in DOMAIN Rates /\ pacer.interruption \in {"None", "Restart", "Stop"}

(* While the host drains notifications, samples or ticks, the worker is    *)
(* parked with nothing granted: what the host reads is the publication of  *)
(* its last grant, and no other is under way (controller.cpp: "each        *)
(* acquisition grant reaches exactly one on_diagnostics callback").        *)
HostReadsQuiescent ==
  ctl.state = "Running" /\ pc \in {"drain", "poll", "sample", "tick", "admit"}
    => worker \in {"waiting", "held"} /\ ~gated.pending

(* The replay records what the options call for, each call at its time and *)
(* in its place, whatever the player's rate and pauses; a replay that      *)
(* reports Ok has recorded all of them.                                    *)
ScheduleFollowed ==
  LET calls == Calls(plan)
  IN  /\ \A i \in DOMAIN events :
           \E c \in calls : /\ events[i] = <<c.time, Kinds[c.rank]>>
                            /\ Cardinality(EarlierThan(c, calls)) = i - 1
      /\ (pc = "over" /\ status = "Ok") => Len(events) = Cardinality(calls)

(* validate() accepts exactly the options whose generated events fit       *)
(* kMaximumScheduledEvents.                                                *)
BudgetExact ==
  LET demand == Cardinality({c \in Calls(plan) : Kinds[c.rank] # "Frame"})
  IN  /\ pc = "start" => demand <= MaxEvents
      /\ (/\ pc = "over" /\ status = "InvalidOptions"
          /\ 0 \notin {plan.avail, plan.poll, plan.tick, plan.sample}
          /\ \A i \in DOMAIN plan.frames : plan.frames[i] <= plan.end)
           => demand > MaxEvents

Pixels == {"lit", "black"}
Acks == {"paused", "playing"}

(* Of the first n records, the last of these kinds is r.                   *)
LastAmong(w, n, kinds, r) ==
  \E i \in 1..n : w[i] = r /\ \A j \in i + 1..n : w[j] \notin kinds

(* However a replay ends (done, interrupted, failed, timed out, not even   *)
(* started), the last pixels its consumer got are black, unless the stream *)
(* itself failed, and then the replay does not report Ok.                  *)
StripDarkAtEnd ==
  pc \in {"destroy", "over", "await", "restart", "finish"} /\ LastAmong(wire, Len(wire), Pixels, "lit")
    => ~sink.good /\ status # "Ok"

(* Observers hear of a replay only once its start succeeded, and then the  *)
(* catalog first.                                                          *)
ObserversSeeStartedReplay ==
  /\ obs.catalog \/ obs.readings => ctl.began
  /\ obs.readings => obs.catalog

(* Subscriptions are released only from a facade that is quiescent.        *)
ConsumersLeaveQuietFacade ==
  (attached /\ ~attached') \/ (obs.attached /\ ~obs'.attached)
    => tele' = "Stopped" /\ worker' \in {"none", "done"}

(* The stream a consumer sees: one header, black before any light, black   *)
(* last before an end, a restart or a close (while the stream is good), no *)
(* pixels after the end, nothing after a close, and no light between an    *)
(* acknowledged pause and the next acknowledged play.                      *)
StreamGrammar ==
  \A i \in DOMAIN wire :
    /\ (wire[i] = "header") <=> (i = 1)
    /\ wire[i] = "lit" => /\ \E j \in 1..i - 1 : wire[j] \in Pixels
                          /\ ~LastAmong(wire, i - 1, Acks, "paused")
    /\ wire[i] \in {"end", "restart", "close"} /\ sink.good
         => ~LastAmong(wire, i - 1, Pixels, "lit")
    /\ \A j \in 1..i - 1 : /\ wire[j] # "close"
                           /\ wire[i] \in Pixels => wire[j] \notin {"end", "restart"}

(* A due time is never released before the wall clock has paid for it at   *)
(* the rates in force while playing: no command skips replay time.         *)
NeverEarly == InSession => 4 * clock <= credit

(* Where the player stands in replay time.                                 *)
Shown(p, now) == IF p.paused THEN p.anchorReplay ELSE Position(p, now)

(* While a due time is pending, only the wall clock moves the player, and  *)
(* only forward: no command skips or repeats what was played, except that  *)
(* one which comes late finds the player at the due time it holds.         *)
TimelineKept ==
  Gating /\ Gating' =>
    LET before == Shown(pacer, wall) after == Shown(pacer', wall')
    IN  \/ after = before
        \/ wall' > wall /\ ~pacer.paused /\ after > before
        \/ wall' = wall /\ after = cad.due /\ after < before

(* However the browser's bytes are cut up, the commands that the pacer has *)
(* not taken are those still to be decoded, in the browser's order.        *)
CommandsKept == InSession /\ ~chan.closed => WaitIn(owed, chan.buffer \o net)

(* A rendered replay ends, and a server that is asked to stop releases its *)
(* listener: paused, waiting for a restart or in the middle of a pass.     *)
HostEnds == (mode = "render" \/ shutdown) ~> (pc = "exit")

(* Host and worker keep apart: the host reads publications that are        *)
(* complete and still, and releases consumers from a quiet facade.         *)
HostAndWorkerApart == [][HostReadsQuiescent' /\ ConsumersLeaveQuietFacade]_vars

(* A replay is its schedule, accepted exactly if it fits the budget.       *)
ReplayIsTheSchedule == TypeOK /\ ScheduleFollowed /\ BudgetExact

(* Every consumer sees one well-formed replay that ends dark.              *)
ConsumersSeeOneReplay == ObserversSeeStartedReplay /\ StreamGrammar /\ StripDarkAtEnd

(* The player keeps replay time and the browser's commands.                *)
PlayerFaithful == [][NeverEarly' /\ CommandsKept' /\ TimelineKept]_allVars

=============================================================================
