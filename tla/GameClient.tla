------------------------------ MODULE GameClient ------------------------------
(***************************************************************************)
(* The browser of one player and what brings it the events of its matches: *)
(* useGameSocket with the lobby and match pages, the socket gateways of    *)
(* game-service, and the relay of events from Redis to sockets.            *)
(*                                                                         *)
(* What the service decides about a match is reduced to its round and its  *)
(* status (modules MatchPlay and Matchmaking have the rest): the opponent  *)
(* may move, and either player may be gone, at any moment.                 *)
(***************************************************************************)
EXTENDS Naturals, Sequences

CONSTANTS
    MaxMatches, MaxRounds, MaxSockets,  \* bounds of the instance
    Scenarios       \* bounds of a behaviour; see MCGameClient

ASSUME ClientAssumption ==
    /\ MaxMatches \in Nat \ {0} /\ MaxRounds \in Nat \ {0} /\ MaxSockets \in Nat \ {0}
    /\ Scenarios \subseteq [playing : BOOLEAN, matches : 0..MaxMatches, rounds : 1..MaxRounds,
                             sockets : 1..MaxSockets, clicks : Nat, errors : Nat]

VARIABLES
    ui,         \* the state of useGameSocket, of the pages and of sessionStorage
    socket,     \* the last connection, and whether it is open
    up, down,   \* what is under way on it, to the service and to the page
    match,      \* match:{id}:state of each match
    byUser,     \* match:byUser:{u}, or NoMatch
    queued,     \* the player is in the matchmaking queue
    moved,      \* the player's move of the open round is recorded
    registered, \* ws:user:{u}:socket, or 0
    outbox,     \* what the handler that changed the match has yet to publish
    relay,      \* the Redis reads of MatchEventsRelayService, in the order of the connection
    joining,    \* a joinQueue handler between the queue and its answer
    opening,    \* handleConnection of the last connection
    late,       \* earlier connections whose handleConnection has yet to register them
    closing,    \* handleDisconnect of earlier connections
    scenario,   \* the matches, rounds, connections, presses of the queue and quit buttons
                \* and plays or timers that meet a busy lock the behaviour may still have
    missed,     \* history: a matchEnded was lost, or undone by a reload or a late matchResumed
    crossed,    \* history: a match changed between the read and the emit of a matchResumed,
                \* or an earlier connection was registered after the open one
    timerLost   \* history: the timer of the open round met a busy lock

server == <<match, byUser, queued, moved, outbox>>
wires == <<socket, up, down>>
handlers == <<joining, opening, late, closing>>
histories == <<missed, crossed, timerLost>>
vars == <<ui, server, wires, registered, relay, handlers, scenario, histories>>

Matches == 1..MaxMatches
NoMatch == 0
NoRound == [match |-> NoMatch, number |-> 0]
Lobby == 0
Event(name, m, r) == [name |-> name, match |-> m, round |-> r]
NoEvent == Event("none", NoMatch, 0)

Fresh ==
    [connected |-> FALSE, queue |-> FALSE, active |-> NoMatch, stored |-> NoMatch,
     round |-> NoRound, ended |-> NoMatch, awaiting |-> FALSE, played |-> FALSE,
     page |-> Lobby]
Closed == [pc |-> "idle", event |-> NoEvent]

\* A page that is opened in the lobby, or one in the first round of a match.
Init ==
    /\ scenario \in Scenarios
    /\ IF scenario.playing
       THEN /\ ui = [Fresh EXCEPT !.connected = TRUE, !.active = 1, !.stored = 1, !.page = 1,
                                  !.round = [match |-> 1, number |-> 1]]
            /\ socket = [id |-> 1, open |-> TRUE] /\ registered = 1 /\ byUser = 1
       ELSE ui = Fresh /\ socket = [id |-> 0, open |-> FALSE] /\ registered = 0 /\ byUser = NoMatch
    /\ match = [m \in Matches |-> IF m = byUser THEN [status |-> "playing", round |-> 1]
                                  ELSE [status |-> "none", round |-> 0]]
    /\ up = <<>> /\ down = <<>> /\ queued = FALSE /\ moved = FALSE
    /\ outbox = <<>> /\ relay = <<>>
    /\ joining = 0 /\ opening = Closed /\ late = {} /\ closing = {}
    /\ missed = FALSE /\ crossed = FALSE /\ timerLost = FALSE

-----------------------------------------------------------------------------
(* Sockets *)

Emit(id, event) ==
    IF socket.open /\ socket.id = id THEN Append(down, event) ELSE down
Loses(events) == \E i \in DOMAIN events : events[i].name = "matchEnded"

\* The page connects, or socket.io reconnects: "connect" on one side, handleConnection
\* on the other.  The handler of an earlier connection goes on: what is left of it can
\* only register its socket, as it emits to one that is closed.
Connect ==
    /\ ~socket.open /\ socket.id < scenario.sockets
    /\ socket' = [id |-> socket.id + 1, open |-> TRUE]
    /\ up' = <<>> /\ down' = <<>>
    /\ ui' = [ui EXCEPT !.connected = TRUE]
    /\ opening' = [Closed EXCEPT !.pc = "register"]
    /\ late' = IF opening.pc = "register" THEN late \cup {socket.id} ELSE late
    /\ UNCHANGED <<server, registered, relay, joining, closing, scenario, histories>>

\* What was under way is lost; the page keeps what it shows.  (The last connection the
\* bound allows stays open.)
Lose(page) ==
    /\ socket.open /\ socket.id < scenario.sockets
    /\ socket' = [socket EXCEPT !.open = FALSE]
    /\ up' = <<>> /\ down' = <<>>
    /\ ui' = page
    /\ closing' = closing \cup {socket.id}
    /\ missed' = (missed \/ Loses(down) \/ page.ended # ui.ended)
    /\ UNCHANGED <<server, registered, relay, joining, opening, late, scenario, crossed, timerLost>>
Disconnect == Lose([ui EXCEPT !.connected = FALSE])
\* A reload starts from sessionStorage and the address of the page.
Reload == Lose([Fresh EXCEPT !.active = ui.stored, !.stored = ui.stored, !.page = ui.page])

-----------------------------------------------------------------------------
(* GameGateway and MatchReconnectService *)

\* handleConnection registers the socket first ...
setUserSocket ==
    /\ opening.pc = "register"
    /\ registered' = socket.id
    /\ opening' = [opening EXCEPT !.pc = "load"]
    /\ UNCHANGED <<ui, server, wires, relay, joining, late, closing, scenario, histories>>

\* The key is set whatever it holds: an earlier connection whose handler was slow takes
\* the place of the open one.
setUserSocketLate(id) ==
    /\ id \in late
    /\ late' = late \ {id}
    /\ registered' = id
    /\ crossed' = (crossed \/ (socket.open /\ registered = socket.id))
    /\ UNCHANGED <<ui, server, wires, relay, joining, opening, closing, scenario, missed, timerLost>>

\* ... then reads the match of the player, if it is not over ...
handleReconnect ==
    /\ opening.pc = "load"
    /\ opening' = IF byUser # NoMatch /\ match[byUser].status = "playing"
                  THEN [pc |-> "emit", event |-> Event("matchResumed", byUser, match[byUser].round)]
                  ELSE Closed
    /\ UNCHANGED <<ui, server, wires, registered, relay, joining, late, closing, scenario, histories>>

\* ... and after the forfeit is cancelled sends what it has read.
EmitResumed ==
    /\ opening.pc = "emit"
    /\ down' = IF socket.open THEN Append(down, opening.event) ELSE down
    /\ opening' = Closed
    /\ UNCHANGED <<ui, server, socket, up, registered, relay, joining, late, closing, scenario, histories>>

\* Mutant: without the comparison the newer registration goes too.
removeUserSocket_Any(id) == 0
\* The key is deleted by a script, if it still names the socket.
removeUserSocket(id) == IF registered = id THEN 0 ELSE registered

\* The socket is unregistered, and a player without a match leaves the queue.
handleDisconnect(id) ==
    /\ id \in closing
    /\ closing' = closing \ {id}
    /\ registered' = removeUserSocket(id)
    /\ queued' = IF byUser = NoMatch THEN FALSE ELSE queued
    /\ UNCHANGED <<ui, match, byUser, moved, outbox, wires, relay, joining, opening, late, scenario, histories>>

-----------------------------------------------------------------------------
(* MatchmakingGateway *)

Receive == socket.open /\ up # <<>> /\ up' = Tail(up) /\ UNCHANGED socket

\* The player enters the queue (or is refused); the answer follows.
handleJoinQueue ==
    /\ Receive /\ Head(up).name = "joinQueue" /\ joining = 0
    /\ IF byUser # NoMatch \/ queued
       THEN down' = Append(down, Event("error", NoMatch, 0)) /\ UNCHANGED <<queued, joining>>
       ELSE queued' = TRUE /\ joining' = socket.id /\ UNCHANGED down
    /\ UNCHANGED <<ui, match, byUser, moved, outbox, registered, relay, opening, late, closing, scenario, histories>>

QueueJoined ==
    /\ joining # 0
    /\ down' = Emit(joining, Event("queueJoined", NoMatch, 0))
    /\ joining' = 0
    /\ UNCHANGED <<ui, server, socket, up, registered, relay, opening, late, closing, scenario, histories>>

handleLeaveQueue ==
    /\ Receive /\ Head(up).name = "leaveQueue"
    /\ queued' = FALSE
    /\ down' = Append(down, Event("queueLeft", NoMatch, 0))
    /\ UNCHANGED <<ui, match, byUser, moved, outbox, registered, relay, handlers, scenario, histories>>

\* submitPlay accepts the move, refuses it, or gives up on a busy lock: only the refusal
\* is answered.
handlePlay ==
    LET play == Head(up)
        valid == match[play.match].status = "playing" /\ match[play.match].round = play.round /\ ~moved
    IN  /\ Receive /\ play.name = "play"
        /\ \/ /\ moved' = (moved \/ valid)
              /\ down' = IF valid THEN down ELSE Append(down, Event("error", NoMatch, 0))
              /\ UNCHANGED scenario
           \/ /\ scenario.errors > 0 /\ scenario' = [scenario EXCEPT !.errors = @ - 1]
              /\ UNCHANGED <<moved, down>>
        /\ UNCHANGED <<ui, match, byUser, queued, outbox, registered, relay, handlers, histories>>

-----------------------------------------------------------------------------
(* What the service does to the match, and MatchEventBus *)

Crosses == opening.pc = "emit"

\* The player is paired; the mappings are saved, then the events are published.
Paired ==
    /\ queued /\ byUser = NoMatch
    /\ \E m \in 1..scenario.matches :
          /\ match[m].status = "none" /\ \A n \in Matches : n < m => match[n].status # "none"
          /\ match' = [match EXCEPT ![m] = [status |-> "playing", round |-> 1]]
          /\ byUser' = m
          /\ outbox' = <<Event("matchFound", m, 0), Event("roundStart", m, 1)>>
    /\ queued' = FALSE /\ moved' = FALSE /\ timerLost' = FALSE
    /\ crossed' = (crossed \/ Crosses)
    /\ UNCHANGED <<ui, wires, registered, relay, handlers, scenario, missed>>

\* Both have moved: the state is saved, then the events go out.  (The timer of the next
\* round is armed once roundResolved is published.)
RoundResolves(ends) ==
    LET m == byUser
        r == match[m].round
    IN  /\ m # NoMatch /\ outbox = <<>> /\ match[m].status = "playing" /\ moved
        /\ r = scenario.rounds => ends
        /\ match' = [match EXCEPT ![m] = IF ends THEN [@ EXCEPT !.status = "ended"]
                                         ELSE [@ EXCEPT !.round = r + 1]]
        /\ outbox' = <<Event("roundResolved", m, r),
                       IF ends THEN Event("matchEnded", m, 0) ELSE Event("roundStart", m, r + 1)>>
        /\ moved' = FALSE /\ timerLost' = FALSE
        /\ crossed' = (crossed \/ Crosses)
        /\ UNCHANGED <<ui, byUser, queued, wires, registered, relay, handlers, scenario, missed>>

\* A forfeit ends the match without resolving the round.
Forfeit ==
    /\ byUser # NoMatch /\ outbox = <<>> /\ match[byUser].status = "playing"
    /\ match' = [match EXCEPT ![byUser].status = "ended"]
    /\ outbox' = <<Event("matchEnded", byUser, 0)>>
    /\ crossed' = (crossed \/ Crosses)
    /\ UNCHANGED <<ui, byUser, queued, moved, wires, registered, relay, handlers, scenario,
                   missed, timerLost>>

\* One of the players stays away.
handleDisconnectForfeit == Forfeit

\* The timer of the open round fires, once: the match is over, or a play holds the lock
\* and the round has no timer any more.
handleRoundTimeout == ~timerLost /\ Forfeit
TimeoutMeetsLock ==
    /\ byUser # NoMatch /\ outbox = <<>> /\ match[byUser].status = "playing" /\ ~timerLost
    /\ scenario.errors > 0 /\ scenario' = [scenario EXCEPT !.errors = @ - 1]
    /\ timerLost' = TRUE
    /\ UNCHANGED <<ui, server, wires, registered, relay, handlers, missed, crossed>>

\* roundStart goes to the whole match and takes a read of its state first; the other
\* events name their recipient.
Reads(event) == IF event.name = "roundStart" THEN 2 ELSE 1

\* The event is published and the relay starts reading; after matchEnded the handler
\* frees the player.
broadcastToMatch ==
    /\ outbox # <<>>
    /\ outbox' = Tail(outbox)
    /\ relay' = Append(relay, [event |-> Head(outbox), reads |-> Reads(Head(outbox))])
    /\ byUser' = IF Head(outbox).name = "matchEnded" THEN NoMatch ELSE byUser
    /\ UNCHANGED <<ui, match, queued, moved, wires, registered, handlers, scenario, histories>>

\* Redis answers the oldest read: another one is sent, or the socket is known.
emitToRecipients ==
    LET task == Head(relay)
        lost == ~(socket.open /\ socket.id = registered)
    IN  /\ relay # <<>>
        /\ IF task.reads > 1
           THEN /\ relay' = Append(Tail(relay), [task EXCEPT !.reads = @ - 1])
                /\ UNCHANGED <<down, missed>>
           ELSE /\ relay' = Tail(relay)
                /\ down' = Emit(registered, task.event)
                /\ missed' = (missed \/ (lost /\ task.event.name = "matchEnded"))
        /\ UNCHANGED <<ui, server, socket, up, registered, handlers, scenario, crossed, timerLost>>

-----------------------------------------------------------------------------
(* useGameSocket: the listeners *)

\* The move buttons are keyed by the number of the round.
setRound(u, m, r) ==
    [u EXCEPT !.round = [match |-> m, number |-> r], !.played = @ /\ u.round.number = r]

\* Mutant: the end of a match does not end the wait.
matchEnded_StillAwaits(u, m) == [u EXCEPT !.ended = m]
matchEnded(u, m) == [u EXCEPT !.ended = m, !.awaiting = FALSE]

Heard(u, e) ==
    CASE e.name = "queueJoined" -> [u EXCEPT !.queue = TRUE]
      [] e.name = "queueLeft" -> [u EXCEPT !.queue = FALSE]
      [] e.name = "matchFound" ->
           [u EXCEPT !.stored = e.match, !.active = e.match, !.queue = FALSE, !.ended = NoMatch]
      [] e.name = "roundStart" -> [setRound(u, e.match, e.round) EXCEPT !.awaiting = FALSE]
      [] e.name = "roundResolved" -> [u EXCEPT !.awaiting = FALSE]
      [] e.name = "matchEnded" -> matchEnded(u, e.match)
      [] e.name = "matchResumed" ->
           [setRound(u, e.match, e.round) EXCEPT !.stored = e.match, !.active = e.match,
                                                 !.ended = NoMatch, !.awaiting = FALSE]
      [] e.name = "error" -> [u EXCEPT !.awaiting = FALSE]

Hear ==
    /\ socket.open /\ down # <<>>
    /\ ui' = Heard(ui, Head(down))
    /\ down' = Tail(down)
    /\ missed' = (missed \/ (Head(down).name = "matchResumed" /\ match[Head(down).match].status = "ended"))
    /\ UNCHANGED <<server, socket, up, registered, relay, handlers, scenario, crossed, timerLost>>

-----------------------------------------------------------------------------
(* LobbyPage and MatchPage *)

Send(event) == up' = Append(up, event) /\ UNCHANGED <<socket, down>>
Click == scenario.clicks > 0 /\ scenario' = [scenario EXCEPT !.clicks = @ - 1]
Quiet == UNCHANGED <<server, registered, relay, handlers, histories>>

\* The button is there when no match is known and the page is connected.
joinQueue ==
    /\ ui.page = Lobby /\ ~ui.queue /\ ui.connected /\ ui.active = NoMatch /\ Click
    /\ Send(Event("joinQueue", NoMatch, 0))
    /\ UNCHANGED ui /\ Quiet

leaveQueue ==
    /\ ui.page = Lobby /\ ui.queue /\ socket.open /\ Click
    /\ Send(Event("leaveQueue", NoMatch, 0))
    /\ UNCHANGED ui /\ Quiet

\* The lobby follows a match that was found, or its resume button is pressed.
OpenMatch ==
    /\ ui.page = Lobby /\ ui.active # NoMatch
    /\ ui' = [ui EXCEPT !.page = ui.active, !.played = FALSE]
    /\ UNCHANGED <<wires, scenario>> /\ Quiet

\* The match page is left, also when it knows no such match.
QuitMatch ==
    /\ ui.page # Lobby /\ (ui.ended = NoMatch \/ ui.active # ui.page) /\ Click
    /\ ui' = [ui EXCEPT !.page = Lobby]
    /\ UNCHANGED wires /\ Quiet

\* The final screen leads back and clears the match.
clearMatch ==
    /\ ui.page # Lobby /\ ui.active = ui.page /\ ui.ended # NoMatch
    /\ ui' = [ui EXCEPT !.page = Lobby, !.active = NoMatch, !.stored = NoMatch,
                        !.round = NoRound, !.ended = NoMatch, !.awaiting = FALSE]
    /\ UNCHANGED <<wires, scenario>> /\ Quiet

\* A move button: once per round, connected, and not while waiting for the opponent.
play ==
    /\ ui.page # Lobby /\ ui.active = ui.page /\ ui.ended = NoMatch
    /\ ui.round # NoRound /\ ~ui.awaiting /\ ui.connected /\ ~ui.played
    /\ ui' = [ui EXCEPT !.awaiting = TRUE, !.played = TRUE]
    /\ Send(Event("play", ui.page, ui.round.number))
    /\ UNCHANGED scenario /\ Quiet

-----------------------------------------------------------------------------
ServiceStep ==
    \/ setUserSocket \/ handleReconnect \/ EmitResumed
    \/ handleJoinQueue \/ QueueJoined \/ handleLeaveQueue \/ handlePlay
    \/ broadcastToMatch \/ emitToRecipients

Next ==
    \/ Connect \/ Disconnect \/ Reload
    \/ ServiceStep
    \/ (\E id \in closing : handleDisconnect(id)) \/ (\E id \in late : setUserSocketLate(id))
    \/ Paired \/ (\E ends \in BOOLEAN : RoundResolves(ends))
    \/ handleDisconnectForfeit \/ handleRoundTimeout \/ TimeoutMeetsLock
    \/ Hear
    \/ joinQueue \/ leaveQueue \/ OpenMatch \/ QuitMatch \/ clearMatch \/ play

Spec == Init /\ [][Next]_vars

\* Handlers, the relay and the page go on, socket.io reconnects, and a round timer that is
\* not lost fires.  Nobody has to play, and nobody forfeits by staying away.
FairSpec ==
    /\ Spec
    /\ WF_vars(Connect) /\ WF_vars(Hear)
    /\ WF_vars(setUserSocket \/ handleReconnect \/ EmitResumed)
    /\ WF_vars(handleJoinQueue \/ handleLeaveQueue \/ handlePlay) /\ WF_vars(QueueJoined)
    /\ WF_vars(broadcastToMatch) /\ WF_vars(emitToRecipients)
    /\ WF_vars(handleRoundTimeout)

-----------------------------------------------------------------------------
(* Properties *)

\* Nothing is under way between the service and the page.
Settled ==
    /\ socket.open /\ opening.pc = "idle" /\ outbox = <<>> /\ relay = <<>> /\ down = <<>>

\* Once everything has arrived the page shows the round the service is in, or the end of
\* its match, whatever was lost with earlier connections: events go to the registered
\* socket and a new socket is registered before the match is read.  (It may be wrong when
\* the match moved between the read of a matchResumed and its emission, when an earlier
\* connection is registered after the open one, which then hears nothing, or when the end
\* of the match found nobody.  A second press of the queue button that is handled after
\* the match is over starts another one, and if the page learns of that one only its end,
\* this is the end it shows.)
ViewConverges ==
    Settled /\ ~crossed =>
        /\ byUser # NoMatch => ui.active = byUser /\ ui.round = [match |-> byUser, number |-> match[byUser].round]
        /\ ui.active # NoMatch /\ match[ui.active].status = "ended" => ui.ended >= ui.active \/ missed

\* A page that waits for the opponent does not wait for ever, although a play that meets
\* a busy lock is not answered and an answer may be lost with the connection: what ends
\* the wait is then the round timer, if it does not meet a busy lock itself.  (A page
\* that missed the end of its match may wait for ever.)
AwaitingEnds == ui.awaiting ~> ~ui.awaiting \/ missed \/ timerLost
====
