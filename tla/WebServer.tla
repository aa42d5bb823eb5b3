----------------------------- MODULE WebServer ------------------------------
(***************************************************************************)
(* The web server of src/webserver/webserver.c: one thread that accepts    *)
(* connections (server_loop), one detached thread per connection           *)
(* (handle_client), and the application's thread that starts, stops and    *)
(* destroys the server.  The three share webserver_t and use no lock, so   *)
(* every access to a shared field is a step of its own.                    *)
(*                                                                         *)
(* The listening socket is the kernel's: connections wait in it until they *)
(* are accepted, shutdown() ends a blocked accept(), close() gives the     *)
(* descriptor's number free, and another thread of the process may be      *)
(* given the same number for a socket of its own.                          *)
(*                                                                         *)
(* start, stop, set_handler and destroy are called by one thread, the way  *)
(* every use in the repository does.                                       *)
(***************************************************************************)
EXTENDS Integers

CONSTANTS
    Connections,    \* what clients open
    Mute,           \* those of them whose client may neither send, read nor hang up
    Handlers,       \* handlers the application registers, each with its user_data
    None,           \* NULL
    MaxStarts,      \* bound: calls of webserver_start
    MaxReuse        \* bound: times a closed descriptor's number is given away

ASSUME MuteAssumption == Mute \subseteq Connections
ASSUME NoneAssumption == None \notin Handlers
ASSUME BoundAssumption == MaxStarts \in Nat /\ MaxReuse \in Nat

VARIABLES
    freed,          \* webserver_destroy has freed the server
    is_running,
    handler,        \* server->handler
    user_data,      \* server->user_data, named after the handler it belongs to
    socket,         \* what server->socket_fd names: "none", "listening", "closed"
                    \* (nothing any more), or "foreign", a socket of somebody else
    shut,           \* the server's socket has been shut down
    app,            \* the application's thread: [at, destroying, fn]
    loop,           \* control point of server_loop
    conn,           \* connection -> where it is
    seen,           \* connection -> [fn, data] its thread has read from the server
    killed,         \* the process has died
    starts, reuses  \* how often each bounded event has happened

vars == <<freed, is_running, handler, user_data, socket, shut, app, loop, conn, seen, killed, starts, reuses>>
bounds == <<starts, reuses>>
dispatch == <<seen, killed>>

Conn == {"none", "pending", "accepted", "started", "parsed", "dispatching", "handling", "closed"}
Loop == {"off", "test", "calling", "blocked", "stray", "got", "exited"}
App == {"idle", "registering", "stopping", "closing", "joining"}

TypeOK ==
    /\ freed \in BOOLEAN
    /\ is_running \in BOOLEAN
    /\ handler \in Handlers \cup {None}
    /\ user_data \in Handlers \cup {None}
    /\ socket \in {"none", "listening", "closed", "foreign"}
    /\ shut \in BOOLEAN
    /\ app \in [at : App, destroying : BOOLEAN, fn : Handlers \cup {None}]
    /\ loop \in Loop
    /\ conn \in [Connections -> Conn]
    /\ seen \in [Connections -> [fn : Handlers \cup {None}, data : Handlers \cup {None}]]
    /\ killed \in BOOLEAN
    /\ starts \in 0 .. MaxStarts
    /\ reuses \in 0 .. MaxReuse

NothingRead == [fn |-> None, data |-> None]
Idle == [at |-> "idle", destroying |-> FALSE, fn |-> None]

(* webserver_create *)
Init ==
    /\ freed = FALSE
    /\ is_running = FALSE
    /\ handler = None
    /\ user_data = None
    /\ socket = "none"
    /\ shut = FALSE
    /\ app = Idle
    /\ loop = "off"
    /\ conn = [i \in Connections |-> "none"]
    /\ seen = [i \in Connections |-> NothingRead]
    /\ killed = FALSE
    /\ starts = 0
    /\ reuses = 0

-----------------------------------------------------------------------------
(* The application's thread. *)

(* webserver_set_handler writes the function, NULL to have none again, ...  *)
SetHandler(h) ==
    /\ ~ freed
    /\ app = Idle
    /\ handler' = h
    /\ app' = [app EXCEPT !.at = "registering", !.fn = h]
    /\ UNCHANGED <<freed, is_running, user_data, socket, shut, loop, conn, dispatch, bounds>>

(* ... and then its data. *)
SetUserData ==
    /\ app.at = "registering"
    /\ user_data' = app.fn
    /\ app' = Idle
    /\ UNCHANGED <<freed, is_running, handler, socket, shut, loop, conn, dispatch, bounds>>

(* webserver_start: the socket listens and the thread runs. *)
Start ==
    /\ ~ freed
    /\ app = Idle
    /\ ~ is_running
    /\ starts < MaxStarts
    /\ starts' = starts + 1
    /\ socket' = "listening"
    /\ shut' = FALSE
    /\ is_running' = TRUE
    /\ loop' = "test"
    /\ UNCHANGED <<freed, handler, user_data, app, conn, dispatch, reuses>>

(* webserver_start when socket(), setsockopt(), bind(), listen() or         *)
(* pthread_create() fails: what was opened is closed, the number is kept.   *)
StartFails ==
    /\ ~ freed
    /\ app = Idle
    /\ ~ is_running
    /\ starts < MaxStarts
    /\ starts' = starts + 1
    /\ socket' \in {"none", "closed"}
    /\ UNCHANGED <<freed, is_running, handler, user_data, shut, app, loop, conn, dispatch, reuses>>

(* webserver_stop, also called by webserver_destroy: is_running is cleared, *)
StopBegin(destroying) ==
    /\ ~ freed
    /\ app = Idle
    /\ is_running
    /\ is_running' = FALSE
    /\ app' = [app EXCEPT !.at = "stopping", !.destroying = destroying]
    /\ UNCHANGED <<freed, handler, user_data, socket, shut, loop, conn, dispatch, bounds>>

Reset == [i \in Connections |-> IF conn[i] = "pending" THEN "closed" ELSE conn[i]]

ShutdownNothing ==
    /\ app.at = "stopping"
    /\ app' = [app EXCEPT !.at = "closing"]
    /\ UNCHANGED <<freed, is_running, handler, user_data, socket, shut, loop, conn, dispatch, bounds>>

(* the socket is shut down, which resets the connections that wait in it    *)
(* and wakes accept(), ...                                                  *)
Shutdown ==
    /\ app.at = "stopping"
    /\ shut' = TRUE
    /\ conn' = Reset
    /\ app' = [app EXCEPT !.at = "closing"]
    /\ UNCHANGED <<freed, is_running, handler, user_data, socket, loop, dispatch, bounds>>

(* closed, ... *)
CloseSocket ==
    /\ app.at = "closing"
    /\ socket' = "closed"
    /\ app' = [app EXCEPT !.at = "joining"]
    /\ UNCHANGED <<freed, is_running, handler, user_data, shut, loop, conn, dispatch, bounds>>

StopWithoutJoin ==
    /\ app.at = "joining"
    /\ freed' = app.destroying
    /\ app' = Idle
    /\ UNCHANGED <<is_running, handler, user_data, socket, shut, loop, conn, dispatch, bounds>>

(* and the accepting thread is joined.  webserver_destroy then frees the    *)
(* server.                                                                  *)
JoinLoop ==
    /\ app.at = "joining"
    /\ loop = "exited"
    /\ loop' = "off"
    /\ freed' = app.destroying
    /\ app' = Idle
    /\ UNCHANGED <<is_running, handler, user_data, socket, shut, conn, dispatch, bounds>>

(* webserver_destroy of a server that is not running. *)
Destroy ==
    /\ ~ freed
    /\ app = Idle
    /\ ~ is_running
    /\ freed' = TRUE
    /\ UNCHANGED <<is_running, handler, user_data, socket, shut, app, loop, conn, dispatch, bounds>>

-----------------------------------------------------------------------------
(* The world outside. *)

(* A client connects; the kernel queues it. *)
Connect(i) ==
    /\ conn[i] = "none"
    /\ socket = "listening" /\ ~ shut
    /\ conn' = [conn EXCEPT ![i] = "pending"]
    /\ UNCHANGED <<freed, is_running, handler, user_data, socket, shut, app, loop, dispatch, bounds>>

(* Another thread of the process opens a listening socket and gets the      *)
(* number that was closed.                                                  *)
ReuseNumber ==
    /\ socket = "closed"
    /\ reuses < MaxReuse
    /\ reuses' = reuses + 1
    /\ socket' = "foreign"
    /\ UNCHANGED <<freed, is_running, handler, user_data, shut, app, loop, conn, dispatch, starts>>

-----------------------------------------------------------------------------
(* server_loop *)

(* The loop's test of is_running. *)
LoopTest ==
    /\ loop = "test"
    /\ loop' = IF is_running THEN "calling" ELSE "exited"
    /\ UNCHANGED <<freed, is_running, handler, user_data, socket, shut, app, conn, dispatch, bounds>>

(* accept() looks the number up: it waits on the socket it names, or fails. *)
EnterAccept ==
    /\ loop = "calling"
    /\ loop' = CASE socket = "listening" /\ ~ shut -> "blocked"
                 [] socket = "foreign" -> "stray"
                 [] OTHER -> "test"
    /\ UNCHANGED <<freed, is_running, handler, user_data, socket, shut, app, conn, dispatch, bounds>>

(* accept() returns a connection ... *)
Accept(i) ==
    /\ loop = "blocked"
    /\ conn[i] = "pending"
    /\ conn' = [conn EXCEPT ![i] = "accepted"]
    /\ loop' = "got"
    /\ UNCHANGED <<freed, is_running, handler, user_data, socket, shut, app, dispatch, bounds>>

(* ... or fails, at any time for want of resources, and for good once the   *)
(* socket is shut down.                                                     *)
AcceptFails ==
    /\ loop \in {"blocked", "stray"}
    /\ loop' = "test"
    /\ UNCHANGED <<freed, is_running, handler, user_data, socket, shut, app, conn, dispatch, bounds>>

(* accept() on a socket of somebody else returns a connection of theirs. *)
AcceptForeign(i) ==
    /\ loop = "stray"
    /\ conn[i] = "none"
    /\ conn' = [conn EXCEPT ![i] = "accepted"]
    /\ loop' = "got"
    /\ UNCHANGED <<freed, is_running, handler, user_data, socket, shut, app, dispatch, bounds>>

(* pthread_create and pthread_detach. *)
Spawn(i) ==
    /\ loop = "got"
    /\ conn[i] = "accepted"
    /\ conn' = [conn EXCEPT ![i] = "started"]
    /\ loop' = "test"
    /\ UNCHANGED <<freed, is_running, handler, user_data, socket, shut, app, dispatch, bounds>>

SpawnFailsSilently(i) ==
    /\ loop = "got"
    /\ conn[i] = "accepted"
    /\ loop' = "test"
    /\ UNCHANGED <<freed, is_running, handler, user_data, socket, shut, app, conn, dispatch, bounds>>

(* pthread_create fails: the connection is closed. *)
SpawnFails(i) ==
    /\ loop = "got"
    /\ conn[i] = "accepted"
    /\ conn' = [conn EXCEPT ![i] = "closed"]
    /\ loop' = "test"
    /\ UNCHANGED <<freed, is_running, handler, user_data, socket, shut, app, dispatch, bounds>>

-----------------------------------------------------------------------------
(* handle_client *)

(* recv() and http_request_parse(): a request, or nothing that is one, in   *)
(* which case the connection is closed without an answer.                   *)
Receive(i, ok) ==
    /\ conn[i] = "started"
    /\ conn' = [conn EXCEPT ![i] = IF ok THEN "parsed" ELSE "closed"]
    /\ UNCHANGED <<freed, is_running, handler, user_data, socket, shut, app, loop, dispatch, bounds>>

(* What a thread gets that reads field v of the server: after the server is *)
(* freed, anything the memory may hold by then.                             *)
Read(v) == IF freed THEN Handlers \cup {None} ELSE {v}

(* The handler is read from the server, NULL for the default answer, ...    *)
ReadHandler(i) ==
    /\ conn[i] = "parsed"
    /\ \E fn \in Read(handler) :
          /\ seen' = [seen EXCEPT ![i].fn = fn]
          /\ conn' = [conn EXCEPT ![i] = IF fn = None THEN "handling" ELSE "dispatching"]
    /\ UNCHANGED <<freed, is_running, handler, user_data, socket, shut, app, loop, killed, bounds>>

(* ... and its data, and it is called.  The source reads the handler twice;  *)
(* the build may use the first value or load it again, and by then it may   *)
(* be NULL, which ends the process.                                         *)
CallHandler(i) ==
    /\ conn[i] = "dispatching"
    /\ \E fn \in {seen[i].fn} \cup Read(handler), data \in Read(user_data) :
          /\ seen' = [seen EXCEPT ![i] = [fn |-> fn, data |-> data]]
          /\ killed' = (fn = None)
          /\ conn' = [conn EXCEPT ![i] = IF fn = None THEN @ ELSE "handling"]
    /\ UNCHANGED <<freed, is_running, handler, user_data, socket, shut, app, loop, bounds>>

(* The handler returns, the response is sent, all of it or what send() took *)
(* at once, and the connection closed.                                      *)
Respond(i) ==
    /\ conn[i] = "handling"
    /\ conn' = [conn EXCEPT ![i] = "closed"]
    /\ seen' = [seen EXCEPT ![i] = NothingRead]
    /\ UNCHANGED <<freed, is_running, handler, user_data, socket, shut, app, loop, killed, bounds>>

(* send() to a client that has gone raises SIGPIPE, which nobody catches    *)
(* and MSG_NOSIGNAL does not suppress: the process ends.                    *)
BrokenPipe(i) ==
    /\ conn[i] = "handling"
    /\ killed' = TRUE
    /\ UNCHANGED <<freed, is_running, handler, user_data, socket, shut, app, loop, conn, seen, bounds>>

-----------------------------------------------------------------------------
LoopStep ==
    \/ LoopTest \/ EnterAccept \/ AcceptFails
    \/ \E i \in Connections : Accept(i) \/ AcceptForeign(i) \/ Spawn(i) \/ SpawnFails(i)

(* accept() need not return while the socket is good and nobody connects. *)
LoopProgress ==
    /\ ~ killed
    /\ \/ LoopTest \/ EnterAccept
       \/ AcceptFails /\ loop = "blocked" /\ shut
       \/ \E i \in Connections : Accept(i) \/ Spawn(i) \/ SpawnFails(i)

StopStep == Shutdown \/ CloseSocket \/ JoinLoop

StopProgress == ~ killed /\ StopStep

ClientStep(i) ==
    \/ Receive(i, TRUE) \/ Receive(i, FALSE)
    \/ ReadHandler(i) \/ CallHandler(i)
    \/ Respond(i) \/ BrokenPipe(i)

(* recv() and send() have no timeout: they need not return for a mute       *)
(* client.                                                                  *)
ClientProgress(i) ==
    /\ ~ killed
    /\ \/ ReadHandler(i) \/ CallHandler(i)
       \/ i \notin Mute /\ (Receive(i, TRUE) \/ Receive(i, FALSE) \/ Respond(i) \/ BrokenPipe(i))

Next ==
    /\ ~ killed
    /\ \/ \E h \in Handlers \cup {None} : SetHandler(h)
       \/ SetUserData
       \/ Start \/ StartFails
       \/ \E d \in BOOLEAN : StopBegin(d)
       \/ StopStep
       \/ Destroy
       \/ ReuseNumber
       \/ LoopStep
       \/ \E i \in Connections : Connect(i) \/ ClientStep(i)

(* Threads are scheduled, webserver_stop goes on once begun, clients other  *)
(* than the mute ones send and read or hang up, and handlers return.        *)
(* Nobody has to connect, start or stop.                                    *)
Fairness ==
    /\ WF_vars(LoopProgress)
    /\ WF_vars(StopProgress)
    /\ \A i \in Connections : WF_vars(ClientProgress(i))

Spec == Init /\ [][Next]_vars

FairSpec == Spec /\ Fairness

-----------------------------------------------------------------------------
(* Properties. *)

(* Once webserver_stop has returned, no connection is accepted and no       *)
(* thread started for one until the server is started again.                *)
NothingAcceptedAfterStop ==
    [][\A i \in Connections :
          conn'[i] \in {"accepted", "started"} /\ conn[i] # conn'[i]
          => is_running \/ app # Idle]_vars

(* webserver_stop returns, although accept() may be blocked when it begins, *)
(* unless the process dies or the accepting thread, about to call accept()  *)
(* again when the socket was closed, has ended up on a socket of somebody   *)
(* else.                                                                    *)
StopReturns == app.at = "stopping" ~> app.at = "idle" \/ loop = "stray" \/ killed

(* Unless the process dies, every connection the server accepted is closed  *)
(* in the end, whether the server is stopped meanwhile or not.  A client    *)
(* that sends or reads nothing holds up its own thread only, in recv() or   *)
(* in send(), for as long as it likes: neither another connection nor       *)
(* webserver_stop (StopReturns) waits for it, and the thread itself gets    *)
(* from the one to the other.                                               *)
ConnectionsAreClosed ==
    /\ \A i \in Connections \ Mute :
          conn[i] \in {"accepted", "started"} ~> conn[i] = "closed" \/ killed
    /\ \A i \in Mute : conn[i] = "accepted" ~> conn[i] \in {"started", "closed"} \/ killed
    /\ \A i \in Mute : conn[i] = "parsed" ~> conn[i] \in {"handling", "closed"} \/ killed

(* Graceful shutdown: no thread of the server, handle_client's included,    *)
(* is still to read the server when webserver_destroy frees it.             *)
ThreadsDoneBeforeFree ==
    freed => /\ loop = "off"
             /\ \A i \in Connections : conn[i] \notin {"started", "parsed", "dispatching"}

(* All shared data is protected: a handler is called with the data it was   *)
(* registered with, whatever was registered before or is being registered.  *)
HandlerGetsItsData ==
    \A i \in Connections : conn[i] = "handling" => seen[i].data = seen[i].fn
=============================================================================
