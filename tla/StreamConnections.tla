---------------------------- MODULE StreamConnections ----------------------------
(***************************************************************************)
(* The streams that the engine mocks: the connections of an SSE or of a    *)
(* WebSocket endpoint (app.js, ws-serving.js, sse-connections.js,          *)
(* ws-connections.js), their scripts played by timers, the replies of the  *)
(* rules, the messages pushed from the console and its bounded history,    *)
(* against clients that leave, reloads and the shutdown.                   *)
(***************************************************************************)
EXTENDS Integers, Sequences, FiniteSets, SequencesExt

CONSTANTS Streams,       \* definitions a file can have: [kind, len, onEnd, reply]
          Keys,          \* the endpoints, "METHOD path"
          Off,           \* an endpoint that serves no stream
          HistoryLimit,  \* HISTORY_LIMIT and TRANSCRIPT_LIMIT
          MaxConnections, MaxPushes, MaxReceived, MaxSent, MaxReloads   \* bounds

ASSUME StreamAssumption ==
         /\ HistoryLimit \in Nat \ {0} /\ Off \notin Streams
         /\ Streams \subseteq [kind : {"sse", "ws"}, len : Nat,
                              onEnd : {"keep-open", "close", "loop"}, reply : Nat]
\* The validation of the scripts: a loop has something to play.
ASSUME LoopAssumption == \A s \in Streams : s.onEnd = "loop" => s.len > 0

VARIABLES
  installed,  \* the stream that the registry serves for a key, or Off
  conn,       \* the connections in the order they were opened: their phase, the lists that
              \* play, the position and the count shown, the pushes that preceded them
  history,    \* per key, what the console lists: <<connection, origin, list, number>>
  wire,       \* history variable: what each connection gave its client
  pushes, streamReloads

streamVars == <<installed, conn, history, wire, pushes, streamReloads>>

Ids == DOMAIN conn
Registered(k) == {c \in Ids : conn[c].key = k /\ conn[c].registered}

InitConnections ==
  /\ installed \in [Keys -> Streams \cup {Off}]
  /\ conn = <<>> /\ wire = <<>>
  /\ history = [k \in Keys |-> <<>>]
  /\ pushes = 0 /\ streamReloads = 0

-------------------------------------------------------------------------------
(* Lists of messages: the script, and the reply of a rule.                 *)

\* A list being played: number "of" of its origin, waiting to send its next message.
Playing(origin, of, len) == [origin |-> origin, of |-> of, next |-> 1, len |-> len]

\* Mutant: a loop of the WebSocket keeps the index of its last message.
Ended_LoopKeepsIndex(r, l) ==
  LET s == r.stream rest == r.lists \ {l} IN
  IF l.origin = "rule" \/ s.onEnd = "keep-open" THEN [r EXCEPT !.lists = rest]
  ELSE IF s.onEnd = "close"
       THEN [r EXCEPT !.lists = rest, !.phase = IF @ = "open" THEN "ending" ELSE @]
       ELSE [r EXCEPT !.lists = rest \cup {Playing("script", 0, s.len)}]

\* A list that is over; the script is then over for good, closes or begins again.
Ended(r, l) ==
  LET s == r.stream rest == r.lists \ {l} IN
  IF l.origin = "rule" \/ s.onEnd = "keep-open" THEN [r EXCEPT !.lists = rest]
  ELSE IF s.onEnd = "close"
       THEN [r EXCEPT !.lists = rest, !.phase = IF @ = "open" THEN "ending" ELSE @]
       ELSE [r EXCEPT !.lists = rest \cup {Playing("script", 0, s.len)},
                      !.index = IF s.kind = "ws" THEN 0 ELSE @]

\* playNext: the timer of the next message is armed, or the list is over.
PlayNext(r, l) == IF l.next > l.len THEN Ended(r, l) ELSE [r EXCEPT !.lists = @ \cup {l}]

\* The message of a list that has just been sent.
Advanced(r, l) ==
  PlayNext([r EXCEPT !.lists = @ \ {l}, !.sent = @ + 1,
                     !.index = IF l.origin = "script" THEN l.next ELSE @],
           [l EXCEPT !.next = @ + 1])

-------------------------------------------------------------------------------
(* The history of a key.                                                   *)

\* Mutant: the oldest entries push the newest ones out.
Recorded_KeepsOldest(h, entry) == IF Len(h) < HistoryLimit THEN Append(h, entry) ELSE h

Recorded(h, entry) ==
  LET all == Append(h, entry)
      excess == Len(all) - HistoryLimit
  IN IF excess > 0 THEN SubSeq(all, excess + 1, Len(all)) ELSE all

\* What a message given to a connection reaches: nothing after its end.
Given(c, message) == IF conn[c].phase = "open" THEN Append(wire[c], message) ELSE wire[c]

-------------------------------------------------------------------------------
(* respondWithSse and serveWsConnection: a connection is opened in the     *)
(* turn that matched it, registered, and its script started.               *)
OpenConnection(k) ==
  /\ installed[k] # Off /\ Len(conn) < MaxConnections
  /\ LET s == installed[k]
         r == [key |-> k, stream |-> s, phase |-> "open", registered |-> TRUE,
               lists |-> {}, index |-> 0, sent |-> 0, received |-> 0, since |-> pushes]
     IN conn' = Append(conn, PlayNext(r, Playing("script", 0, s.len)))
  /\ wire' = Append(wire, <<>>)
  /\ UNCHANGED <<installed, history, pushes, streamReloads>>

\* Mutant: the timer of a WebSocket does not look at the state of its socket.
Silenced_Never(r) == FALSE

\* The timer of a WebSocket looks at the state of its socket, that of an SSE does not.
Silenced(r) == r.stream.kind = "ws" /\ r.phase # "open"

\* The timer of a list.
TimerFires(c) ==
  \E l \in conn[c].lists :
    IF Silenced(conn[c])
    THEN /\ conn' = [conn EXCEPT ![c].lists = @ \ {l}]
         /\ UNCHANGED <<installed, history, wire, pushes, streamReloads>>
    ELSE /\ conn[c].sent < MaxSent
         /\ conn' = [conn EXCEPT ![c] = Advanced(@, l)]
         /\ wire' = [wire EXCEPT ![c] = Given(c, <<l.origin, l.of, l.next>>)]
         /\ history' = [history EXCEPT ![conn[c].key] =
                          Recorded(@, <<c, l.origin, l.of, l.next>>)]
         /\ UNCHANGED <<installed, pushes, streamReloads>>

\* A message of a client; the first rule that matches it, if any, replies.
ClientSends(c) ==
  /\ conn[c].stream.kind = "ws" /\ conn[c].phase # "closed"
  /\ conn[c].received < MaxReceived
  /\ LET n == conn[c].received + 1
         heard == [conn[c] EXCEPT !.received = n]
     IN /\ \E replied \in {FALSE, conn[c].stream.reply > 0} :
             conn' = [conn EXCEPT ![c] =
               IF replied THEN PlayNext(heard, Playing("rule", n, conn[c].stream.reply))
               ELSE heard]
        /\ history' = [history EXCEPT ![conn[c].key] = Recorded(@, <<c, "received", n, 1>>)]
  /\ UNCHANGED <<installed, wire, pushes, streamReloads>>

\* push: to every registered connection, recorded once even without a public.
Push(k) ==
  /\ installed[k] # Off /\ pushes < MaxPushes
  /\ pushes' = pushes + 1
  /\ conn' = [c \in Ids |-> IF c \in Registered(k) THEN [conn[c] EXCEPT !.sent = @ + 1]
                            ELSE conn[c]]
  /\ wire' = [c \in Ids |-> IF c \in Registered(k) THEN Given(c, <<"manual", 0, pushes'>>)
                            ELSE wire[c]]
  /\ history' = [history EXCEPT ![k] = Recorded(@, <<0, "manual", 0, pushes'>>)]
  /\ UNCHANGED <<installed, streamReloads>>

\* The 'close' event, whatever ended the connection: its timers and its registration go.
CloseEvent(c) ==
  /\ conn[c].phase # "closed"
  /\ conn' = [conn EXCEPT ![c].phase = "closed", ![c].registered = FALSE, ![c].lists = {}]
  /\ UNCHANGED <<installed, history, wire, pushes, streamReloads>>

\* closeKey: the connections are told to close and forgotten at once.
KeyClosed(keys) ==
  [c \in Ids |-> IF conn[c].key \in keys /\ conn[c].registered
                 THEN [conn[c] EXCEPT !.registered = FALSE, !.phase = "ending"] ELSE conn[c]]

\* A reload that installs s: a connection survives when its stream is still the same.
Reinstall(k, s) ==
  /\ streamReloads < MaxReloads /\ streamReloads' = streamReloads + 1
  /\ installed' = [installed EXCEPT ![k] = s]
  /\ conn' = IF s # installed[k] THEN KeyClosed({k}) ELSE conn
  /\ UNCHANGED <<history, wire, pushes>>

ConnectionStep ==
  \/ \E c \in Ids : TimerFires(c) \/ ClientSends(c) \/ CloseEvent(c)
  \/ \E k \in Keys : OpenConnection(k) \/ Push(k)

ConnectionsSpec ==
  InitConnections /\ [][ConnectionStep \/ \E k \in Keys, s \in Streams \cup {Off} : Reinstall(k, s)]_streamVars

-------------------------------------------------------------------------------
(* Properties.                                                             *)

\* Where what a client received has the messages of one list.
Heard(c, origin, of) == {i \in DOMAIN wire[c] : wire[c][i][1] = origin /\ wire[c][i][2] = of}

\* It heard the list from its first message, one after the other, again only of a loop.
HeardFromFirst(c, heard, len, again) ==
  \A i \in heard :
    /\ wire[c][i][3] <= len
    /\ (\A j \in heard : i <= j) => wire[c][i][3] = 1
    /\ \A j \in heard : (j < i /\ \A m \in heard : m <= j \/ m >= i) =>
         wire[c][i][3] = IF again /\ wire[c][j][3] = len THEN 1 ELSE wire[c][j][3] + 1

\* Whatever pushes, replies and other connections interleave with it, a client receives the
\* script from its first message, each exactly once and in order, round after round only of a
\* loop, and each reply in order (one timer per list at a time); the position and the count
\* that the console shows for an open connection are those of what its client received.
PlaysInOrder ==
  \A c \in Ids :
    LET s == conn[c].stream
        script == Heard(c, "script", 0)
        again == s.onEnd = "loop"
    IN /\ HeardFromFirst(c, script, s.len, again)
       /\ \A of \in 1 .. conn[c].received : HeardFromFirst(c, Heard(c, "rule", of), s.reply, FALSE)
       /\ conn[c].phase = "open" =>
            /\ script = {} => conn[c].index = 0
            /\ \A i \in script : (\A j \in script : j <= i) =>
                 conn[c].index = IF s.kind = "ws" /\ again /\ wire[c][i][3] = s.len THEN 0
                                 ELSE wire[c][i][3]
            /\ conn[c].sent = Len(wire[c])

\* Where the history has what was given to a connection.
Told(c) ==
  LET h == history[conn[c].key] IN
  {i \in DOMAIN h : h[i][2] # "received" /\ (h[i][1] = c \/ (h[i][1] = 0 /\ h[i][4] > conn[c].since))}

\* The console tells what happened: of an open connection, the script, the replies and the
\* pushes it lists are the last that its client received, in the same order, and all of them
\* as long as the bounded history is not full (recordSent, record and the broadcast of push).
ConsoleTells ==
  \A c \in Ids : conn[c].phase = "open" =>
    LET h == history[conn[c].key]
        FromTheEnd(i) == Cardinality({j \in Told(c) : j > i})
    IN /\ \A i \in Told(c) :
            /\ FromTheEnd(i) < Len(wire[c])
            /\ wire[c][Len(wire[c]) - FromTheEnd(i)] = <<h[i][2], h[i][3], h[i][4]>>
       /\ Len(h) < HistoryLimit => Cardinality(Told(c)) = Len(wire[c])

\* After the 'close' event no timer touches the connection again, and already while a
\* WebSocket is closing its script and the replies of its rules send and record nothing more:
\* a reload in the middle of a script leaves no message of the old stream in the console.
QuietAfterClose ==
  [][\A c \in Ids :
       /\ conn[c].phase = "closed" => conn'[c] = conn[c]
       /\ conn[c].stream.kind = "ws" /\ conn[c].phase = "ending" =>
            /\ conn'[c].index = conn[c].index
            /\ LET h == history'[conn[c].key] IN
               h # history[conn[c].key] => Last(h)[1] # c \/ Last(h)[2] = "received"
    ]_streamVars

\* The client hears the script in order and the console tells just what it heard, whatever
\* timers, pushes, replies and reloads come in between, and after the end nothing more.
ClientAndConsoleAgree == [](PlaysInOrder /\ ConsoleTells) /\ QuietAfterClose
==============================================================================
