-------------------------- MODULE WebConnections --------------------------
(***************************************************************************)
(* The life of a browser's connections to the web server: the loop of      *)
(* mg_server and its ev_handler (rcdaq_mg_server.cc), and the connection   *)
(* handling of mongoose.cc that they rest on: mg_mgr_poll with its select, *)
(* the HTTP and websocket handlers, file transfers in pieces, and closing. *)
(* What the pages show of a run is module WebUpdates.                      *)
(*                                                                         *)
(* The web server is one thread, which handles one connection after the    *)
(* other; browsers send, receive and close meanwhile.  A browser sends     *)
(* each message in two halves, and the server receives any number of       *)
(* halves at a time.  A browser has one request under way on a connection, *)
(* and sends websocket frames once it has seen the handshake.              *)
(***************************************************************************)
EXTENDS Integers, SequencesExt

CONSTANTS
  Conns,      \* connections, each opened once
  Scripts,    \* what browsers send: functions from Conns to sequences of messages
  FilePieces, \* pieces of a file that is served
  Room,       \* how many pieces MG_MAX_HTTP_SEND_MBUF bytes are
  MaxUpdates  \* bound: broadcasts and pings

\* HTTP requests: a file, with keep-alive or without; one of the commands of
\* ev_handler, or what mg_serve_http answers with an error; something that is
\* no request; the websocket handshake.
\* Frames: "initial_update"; a command; the one that closes the websocket, after
\* which a browser sends nothing.
Requests == {"get", "get_close", "action", "bad", "upgrade"}
Frames == {"initial_update", "command", "close"}

\* What browsers send on one connection.  A page opens its websocket with a
\* connection of its own (control.html).  After a file that is kept alive the
\* connection is used again, and only then: all other replies are of HTTP 1.0
\* or say that the connection will be closed.
Orderly(messages) ==
  /\ messages # <<>> => messages[1] \in Requests
  /\ \A i \in 1 .. Len(messages) - 1 :
       \/ messages[i] = "get" /\ messages[i + 1] \in Requests \ {"upgrade"}
       \/ /\ messages[i] \in {"upgrade", "initial_update", "command"}
          /\ messages[i + 1] \in Frames

ASSUME WebConnectionsAssumption ==
  /\ FilePieces \in Nat \ {0} /\ Room \in Nat \ {0, 1} /\ MaxUpdates \in Nat
  /\ Scripts \subseteq [Conns -> Seq(Requests \cup Frames)]
  /\ \A s \in Scripts : \A c \in Conns : Orderly(s[c])

VARIABLES
  script,    \* what browsers send in this behaviour
  life,      \* "new", "backlog", "open", "closed" (by the server)
  sent,      \* number of messages that the browser has sent
  inflight,  \* their halves on the way: sequence of [nr, part]
  shut,      \* the browser has closed its side
  received,  \* what the browser has received
  conn,      \* struct mg_connection, see NewConnection
  spc,       \* the server: "start", "select", "handle", "update", "gone"
  active_connections, \* sequence, newest first, without the listener
  todo,      \* those still to be handled in this poll: [c, read, write]
  updates    \* number of broadcasts and pings

browserVars == <<script, sent, shut>>
vars == <<browserVars, life, inflight, received, conn, spc,
          active_connections, todo, updates>>

Kind(c, nr) == script[c][nr]

NoFile == [nr |-> 0, left |-> 0]

\* handled, crossed and broken are kept for the properties: the messages
\* handled; a frame was queued before there was a websocket; a write failed,
\* a command was refused with a text that is no frame, or the connection was
\* reset with messages on the way.
NewConnection ==
  [recv_mbuf |-> <<>>, send_mbuf |-> <<>>, websocket |-> FALSE,
   close_immediately |-> FALSE, send_and_close |-> FALSE, file |-> NoFile,
   handled |-> <<>>, crossed |-> FALSE, broken |-> FALSE]

\* What is sent, by what a browser makes of it; nr is the request answered,
\* piece the piece of its file.
Item(kind, nr, piece) == [kind |-> kind, nr |-> nr, piece |-> piece]
Frame == Item("frame", 0, 0)

Init ==
  /\ script \in Scripts
  /\ life = [c \in Conns |-> "new"]
  /\ sent = [c \in Conns |-> 0]
  /\ inflight = [c \in Conns |-> <<>>]
  /\ shut = [c \in Conns |-> FALSE]
  /\ received = [c \in Conns |-> <<>>]
  /\ conn = [c \in Conns |-> NewConnection]
  /\ spc = "start"
  /\ active_connections = <<>> /\ todo = <<>>
  /\ updates = 0

---------------------------------------------------------------------------
(* Browsers                                                                *)

\* The browser has the whole answer to its message.
Answer(c, nr) ==
  CASE Kind(c, nr) \in {"get", "get_close"} ->
         <<Item("head", nr, 0)>> \o [i \in 1 .. FilePieces |-> Item("piece", nr, i)]
    [] Kind(c, nr) = "action" -> <<Item("reply", nr, 0)>>
    [] Kind(c, nr) = "upgrade" -> <<Item("handshake", nr, 0)>>
    [] OTHER -> <<>>

Answered(c, nr) == ToSet(Answer(c, nr)) \subseteq ToSet(received[c])

Connect(c) ==
  /\ life[c] = "new" /\ spc \notin {"start", "gone"}
  /\ life' = [life EXCEPT ![c] = "backlog"]
  /\ UNCHANGED <<browserVars, inflight, received, conn, spc,
                 active_connections, todo, updates>>

SendMessage(c) ==
  /\ life[c] \in {"backlog", "open"} /\ ~shut[c]
  /\ sent[c] < Len(script[c])
  /\ sent[c] > 0 => Answered(c, sent[c])
  /\ sent' = [sent EXCEPT ![c] = @ + 1]
  /\ inflight' = [inflight EXCEPT ![c] = @ \o
                    <<[nr |-> sent[c] + 1, part |-> 1], [nr |-> sent[c] + 1, part |-> 2]>>]
  /\ UNCHANGED <<script, life, shut, received, conn, spc, active_connections,
                 todo, updates>>

\* At any time: a page is left, or what was received makes no sense.
Shut(c) ==
  /\ life[c] \in {"backlog", "open"} /\ ~shut[c]
  /\ shut' = [shut EXCEPT ![c] = TRUE]
  /\ UNCHANGED <<script, sent, life, inflight, received, conn, spc,
                 active_connections, todo, updates>>

---------------------------------------------------------------------------
(* Handlers of one connection k.  They are functions from the connection   *)
(* to what it is afterwards.                                               *)

Send(k, item) == [k EXCEPT !.send_mbuf = Append(@, item)]

\* mbuf_remove
Without(s, n) == SubSeq(s, n + 1, Len(s))

(* Operators named Bad... are the next definition with a plausible mistake
   in it; they serve to check that the properties notice the mistake. *)

BadTransfer(c, k) ==  \* takes what fits for the whole file
  LET room == Room - Len(k.send_mbuf)
      n == IF room < k.file.left THEN room ELSE k.file.left
      first == FilePieces - k.file.left + 1 IN
  IF k.file.nr = 0 \/ room <= 0 THEN k
  ELSE [k EXCEPT !.send_mbuf = @ \o [i \in 1 .. n |-> Item("piece", k.file.nr, first + i - 1)],
                 !.file = NoFile,
                 !.send_and_close = @ \/ Kind(c, k.file.nr) = "get_close"]

\* mg_http_transfer_file_data: as many pieces as there is room for; when the
\* file is through, and there is room, it is closed.
Transfer(c, k) ==
  LET room == Room - Len(k.send_mbuf)
      n == IF room < k.file.left THEN room ELSE k.file.left
      first == FilePieces - k.file.left + 1 IN
  IF k.file.nr = 0 \/ room <= 0 THEN k
  ELSE IF k.file.left > 0
    THEN [k EXCEPT !.send_mbuf = @ \o [i \in 1 .. n |-> Item("piece", k.file.nr, first + i - 1)],
                   !.file.left = @ - n]
  ELSE [k EXCEPT !.file = NoFile,
                 !.send_and_close = @ \/ Kind(c, k.file.nr) = "get_close"]

\* mg_http_send_file2: the file that was still open is closed.
SendFile(c, k, nr) ==
  Transfer(c, [Send(k, Item("head", nr, 0)) EXCEPT
                 !.file = [nr |-> nr, left |-> FilePieces]])

\* send_updates, send_status, send_nothing
SendReply(k, nr) == [Send(k, Item("reply", nr, 0)) EXCEPT !.send_and_close = TRUE]

\* ev_handler, MG_EV_HTTP_REQUEST.  Whether the command was refused shows in
\* the text of the reply only.
HandleRequest(c, k, nr) ==
  LET taken == [k EXCEPT !.handled = Append(@, nr)] IN
  IF Kind(c, nr) = "action"
    THEN SendReply(taken, nr) ELSE SendFile(c, taken, nr)

\* A frame: ev_handler, MG_EV_WEBSOCKET_FRAME, and the test for the close
\* frame.  The text about a daq_end that is refused is sent as it is.
HandleFrame(c, k, nr, refused) ==
  LET taken == [k EXCEPT !.handled = Append(@, nr)] IN
  CASE Kind(c, nr) = "initial_update" -> Send(taken, Frame)
    [] Kind(c, nr) = "close" -> [taken EXCEPT !.send_and_close = TRUE]
    [] Kind(c, nr) = "command" /\ refused ->
         [Send(taken, Item("text", nr, 0)) EXCEPT !.send_and_close = TRUE, !.broken = TRUE]
    [] OTHER -> taken

\* mg_deliver_websocket_data: one frame.  The test for the close frame is made
\* after the frame was removed, so that it is the next frame which is tested,
\* if any of it is there.
DeliverFrame(c, k, nr, refused) ==
  LET done == HandleFrame(c, [k EXCEPT !.recv_mbuf = Without(@, 2)], nr, refused) IN
  [done EXCEPT !.send_and_close =
     @ \/ (done.recv_mbuf # <<>> /\ Kind(c, done.recv_mbuf[1].nr) = "close")]

BadDeliver(c, k, refused) ==  \* one frame each time data come in
  IF Len(k.recv_mbuf) < 2 THEN k
  ELSE DeliverFrame(c, k, k.recv_mbuf[1].nr, refused)

\* mg_websocket_handler: all frames that are complete.
Delivered(c, k, refused) ==
  LET delivered[i \in 0 .. Len(k.recv_mbuf) \div 2] ==
        IF i = 0 THEN k
        ELSE DeliverFrame(c, delivered[i - 1], k.recv_mbuf[2 * i].nr, refused)
  IN delivered
Deliver(c, k, refused) == Delivered(c, k, refused)[Len(k.recv_mbuf) \div 2]

\* The handshake is sent if nothing else waits to be sent.
Upgrade(c, k) ==
  LET websocket == [k EXCEPT !.recv_mbuf = Without(@, 2), !.websocket = TRUE,
                             !.handled = Append(@, k.recv_mbuf[1].nr)] IN
  IF k.send_mbuf = <<>> THEN Send(websocket, Item("handshake", k.recv_mbuf[1].nr, 0))
  ELSE websocket

\* The end of the message's header is there, and the body, of which the header
\* tells the length.
Whole(k) == Len(k.recv_mbuf) >= 2

\* mg_http_handler, MG_EV_RECV: one request at most.
HttpReceive(c, k, refused) ==
  LET nr == k.recv_mbuf[1].nr IN
  IF Kind(c, nr) = "bad" THEN [k EXCEPT !.close_immediately = TRUE]
  ELSE IF ~Whole(k) THEN k
  ELSE IF Kind(c, nr) = "upgrade" THEN Deliver(c, Upgrade(c, k), refused)
  ELSE [HandleRequest(c, k, nr) EXCEPT !.recv_mbuf = Without(@, 2)]

\* What mg_call makes of MG_EV_RECV, ...
Received(c, k, refused) ==
  IF k.websocket THEN Deliver(c, k, refused) ELSE HttpReceive(c, Transfer(c, k), refused)

\* ... and of MG_EV_SEND and MG_EV_POLL, but for pings.
Told(c, k) == IF k.websocket THEN k ELSE Transfer(c, k)

BadRead(c, k, n, refused) ==  \* does nothing when the browser has closed
  IF n = 0 THEN k
  ELSE Received(c, [k EXCEPT !.recv_mbuf = @ \o SubSeq(inflight[c], 1, n)], refused)

\* mg_read_from_socket: n halves; none if the browser has closed.
Read(c, k, n, refused) ==
  IF n = 0 THEN [k EXCEPT !.send_and_close = TRUE]
  ELSE Received(c, [k EXCEPT !.recv_mbuf = @ \o SubSeq(inflight[c], 1, n)], refused)

\* ... which also fails if the browser's side has been reset: what is still on
\* the way from it is lost.
ReadFails(c, k) ==
  [k EXCEPT !.close_immediately = TRUE, !.broken = @ \/ inflight[c] # <<>>]

\* mg_write_to_socket: n items have gone, and MG_EV_SEND; it may fail if the
\* browser has closed.
Write(c, k, n) ==
  IF n = 0 THEN [k EXCEPT !.close_immediately = TRUE, !.broken = TRUE]
  ELSE Told(c, [k EXCEPT !.send_mbuf = Without(@, n)])

---------------------------------------------------------------------------
(* The server: mg_server, mg_mgr_poll                                      *)

\* mg_open_listening_socket may fail.
BindOutcome == {"select", "gone"}

\* mg_bind
Bind ==
  /\ spc = "start" /\ spc' \in BindOutcome
  /\ UNCHANGED <<browserVars, life, inflight, received, conn,
                 active_connections, todo, updates>>

\* select, or its timeout: a browser that has closed can be read, too.
Select ==
  /\ spc = "select" /\ spc' = "handle"
  /\ todo' = [i \in DOMAIN active_connections |->
       LET c == active_connections[i] IN
       [c |-> c, read |-> inflight[c] # <<>> \/ shut[c],
        write |-> conn[c].send_mbuf # <<>>]]
  /\ UNCHANGED <<browserVars, life, inflight, received, conn,
                 active_connections, updates>>

\* mg_mgr_handle_conn for the next connection: read, then write, if select
\* has said so; MG_EV_POLL if it has said neither, where an idle websocket
\* may get a ping.
Handle ==
  /\ spc = "handle" /\ todo # <<>>
  /\ todo' = Tail(todo)
  /\ LET flags == Head(todo)
         c == flags.c IN
     \E n \in IF ~flags.read THEN {0}
              ELSE IF inflight[c] = <<>> THEN {0} ELSE 1 .. Len(inflight[c]) :
     \E refused \in BOOLEAN :
     LET k == IF flags.read THEN Read(c, conn[c], n, refused) ELSE conn[c] IN
     /\ inflight' = [inflight EXCEPT ![c] = Without(@, n)]
     /\ \/ /\ k.close_immediately \/ (flags.read /\ ~flags.write)
           /\ conn' = [conn EXCEPT ![c] = k] /\ UNCHANGED <<received, updates>>
        \/ /\ ~k.close_immediately /\ flags.write
           /\ \E m \in (IF shut[c] THEN {0} ELSE {}) \cup 1 .. Len(k.send_mbuf) :
                /\ conn' = [conn EXCEPT ![c] = Write(c, k, m)]
                /\ received' = IF shut[c] THEN received
                     ELSE [received EXCEPT ![c] = @ \o SubSeq(k.send_mbuf, 1, m)]
           /\ UNCHANGED updates
        \/ /\ ~k.close_immediately /\ ~flags.read /\ ~flags.write
           /\ \/ /\ conn' = [conn EXCEPT ![c] = Told(c, k)]
                 /\ UNCHANGED updates
              \/ /\ k.websocket /\ updates < MaxUpdates
                 /\ conn' = [conn EXCEPT ![c] = Send(k, Frame)]
                 /\ updates' = updates + 1
           /\ UNCHANGED received
  /\ UNCHANGED <<browserVars, life, spc, active_connections>>

\* The same if recv fails.  A reset takes a browser that has closed, or is gone.
HandleReset ==
  /\ spc = "handle" /\ todo # <<>> /\ Head(todo).read /\ shut[Head(todo).c]
  /\ todo' = Tail(todo)
  /\ conn' = [conn EXCEPT ![Head(todo).c] = ReadFails(Head(todo).c, @)]
  /\ UNCHANGED <<browserVars, life, inflight, received, spc, active_connections, updates>>

\* mg_accept_conn: the listener, the last of the list, accepts one connection.
Accepted ==
  LET backlog == {c \in Conns : life[c] = "backlog"} IN
  IF backlog = {} THEN {<<>>} ELSE {<<c>> : c \in backlog}

Finished(k) == k.close_immediately \/ (k.send_and_close /\ k.send_mbuf = <<>>)

\* mg_close_conn: a whole request that is still there is handled, but its
\* answer is not sent.
Closed(c, k) ==
  IF ~k.websocket /\ Whole(k) /\ Kind(c, k.recv_mbuf[1].nr) # "bad"
    THEN HandleRequest(c, k, k.recv_mbuf[1].nr) ELSE k

\* What is left of the list when those in over are taken from it.
Others(list, over) ==
  FlattenSeq([i \in DOMAIN list |-> IF list[i] \in over THEN <<>> ELSE <<list[i]>>])

\* The end of mg_mgr_poll: the listener, then all connections whose flags
\* say that they are to be closed.
AcceptAndClose ==
  LET over == {c \in ToSet(active_connections) : Finished(conn[c])} IN
  /\ spc = "handle" /\ todo = <<>> /\ spc' = "update"
  /\ \E new \in Accepted :
       /\ active_connections' = new \o Others(active_connections, over)
       /\ life' = [c \in Conns |-> IF c \in over THEN "closed"
                                   ELSE IF c \in ToSet(new) THEN "open" ELSE life[c]]
  /\ conn' = [c \in Conns |-> IF c \in over THEN Closed(c, conn[c]) ELSE conn[c]]
  /\ UNCHANGED <<browserVars, inflight, received, todo, updates>>

\* broadcast: a frame for every connection but the listener.
Broadcast ==
  [c \in Conns |->
     IF c \in ToSet(active_connections)
       THEN [Send(conn[c], Frame) EXCEPT !.crossed = @ \/ ~conn[c].websocket]
       ELSE conn[c]]

\* trigger_updates and send_ws_updates, if there is something to tell; then
\* the loop's condition.  The thread leaves its connections as they are.
Update ==
  /\ spc = "update" /\ spc' \in {"select", "gone"}
  /\ \/ UNCHANGED <<conn, updates>>
     \/ updates < MaxUpdates /\ updates' = updates + 1 /\ conn' = Broadcast
  /\ UNCHANGED <<browserVars, life, inflight, received, active_connections, todo>>

Server == Bind \/ Select \/ Handle \/ HandleReset \/ AcceptAndClose \/ Update

Gone == spc = "gone" /\ UNCHANGED vars

Next ==
  \/ \E c \in Conns : Connect(c) \/ SendMessage(c) \/ Shut(c)
  \/ Server \/ Gone

Spec == Init /\ [][Next]_vars

\* The thread is scheduled and select always returns; browsers need do
\* nothing.
FairSpec == Spec /\ WF_vars(Server)

---------------------------------------------------------------------------
(* Properties.                                                             *)

Halves == [nr : Nat, part : {1, 2}]
Items == [kind : {"head", "piece", "reply", "handshake", "frame", "text"},
          nr : Nat, piece : Nat]
Connections ==
  [recv_mbuf : Seq(Halves), send_mbuf : Seq(Items), websocket : BOOLEAN,
   close_immediately : BOOLEAN, send_and_close : BOOLEAN,
   file : [nr : Nat, left : 0 .. FilePieces],
   handled : Seq(Nat), crossed : BOOLEAN, broken : BOOLEAN]

\* All that the server and the browsers keep.
TypeOK ==
  /\ script \in Scripts
  /\ life \in [Conns -> {"new", "backlog", "open", "closed"}]
  /\ sent \in [Conns -> Nat] /\ shut \in [Conns -> BOOLEAN]
  /\ inflight \in [Conns -> Seq(Halves)] /\ received \in [Conns -> Seq(Items)]
  /\ conn \in [Conns -> Connections]
  /\ spc \in {"start", "select", "handle", "update", "gone"}
  /\ active_connections \in Seq(Conns)
  /\ todo \in Seq([c : Conns, read : BOOLEAN, write : BOOLEAN])
  /\ updates \in 0 .. MaxUpdates

\* The answers to the messages handled, in their order.
Answers(c, k) == FlattenSeq([i \in DOMAIN k.handled |-> Answer(c, k.handled[i])])

\* What is still to come of the file that is being served.
Pending(k) ==
  [i \in 1 .. k.file.left |-> Item("piece", k.file.nr, FilePieces - k.file.left + i)]

\* What the browser of c can make sense of: on a websocket the handshake and
\* then frames, else the answers to its requests.
Sensible(c, k, stream) ==
  IF k.websocket
    THEN /\ stream # <<>> /\ stream[1] = Item("handshake", 1, 0)
         /\ \A i \in 2 .. Len(stream) : stream[i] = Frame
    ELSE stream = Answers(c, k)

\* What a browser receives makes sense, whatever the order of events, partial
\* writes and updates: no answer is cut, mixed with another or sent twice, and
\* nothing comes before the handshake of a websocket.  A connection is not
\* closed before its answer is through.  Not so if an update was broadcast
\* while the connection was not, or not yet, a websocket: broadcast does not
\* ask.
AnswersIntact ==
  \A c \in Conns :
    LET k == conn[c] IN
    ~k.crossed /\ ~k.broken /\ ~shut[c] =>
      /\ life[c] = "open" =>
           Sensible(c, k, received[c] \o k.send_mbuf \o Pending(k))
      /\ life[c] = "closed" /\ ~k.close_immediately => Sensible(c, k, received[c])

\* No message is lost, handled twice or out of order, however its halves
\* arrive: when the server goes into its select no whole message is left in
\* its memory, so that none waits until more data happen to come.  A
\* connection is closed only when all it has sent is handled, also when the
\* browser is gone at once after it sent a command.  Exceptions: a write to the
\* browser failed; its connection was reset while messages were on the way; the
\* server had answered that it would close.
CarriedOut ==
  \A c \in Conns :
    LET k == conn[c] IN
    /\ life[c] # "closed" =>
         /\ k.handled = [i \in DOMAIN k.handled |-> i]
         /\ 2 * Len(k.handled) + Len(k.recv_mbuf) + Len(inflight[c]) = 2 * sent[c]
    /\ life[c] = "open" /\ spc = "select" => ~Whole(k)
    /\ life[c] = "closed" =>
         \/ k.broken
         \/ \A nr \in 1 .. sent[c] :
              nr \in ToSet(k.handled) \/ Kind(c, nr) \in {"bad", "close"}

\* The browser waits for an answer, and there is no reason not to get it.
Waiting(c) ==
  /\ sent[c] > 0 /\ ~Answered(c, sent[c])
  /\ ~(conn[c].crossed /\ Kind(c, sent[c]) = "upgrade")

\* Every request is answered or its connection closed, and the connection of
\* a browser that has closed it does not stay; unless the web server ends, or
\* an update was queued where the handshake should have been.
Served ==
  \A c \in Conns :
    /\ Waiting(c) ~> ~Waiting(c) \/ shut[c] \/ life[c] = "closed" \/ spc = "gone"
    /\ shut[c] ~> life[c] = "closed" \/ spc = "gone"

===========================================================================
