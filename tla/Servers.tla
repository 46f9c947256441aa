------------------------------- MODULE Servers -------------------------------
(***************************************************************************)
(* The two transports around application control (App): the HTTP server,   *)
(* with its accept loop, its connection threads and their cap, and the     *)
(* control socket with its single thread (httpserver.cpp, pipe.cpp).  Every *)
(* step is a step of App or leaves App alone: AppSpec.                     *)
(***************************************************************************)
EXTENDS App

CONSTANTS
  MaxConnections  \* MAX_CONNECTIONS

ASSUME ServersAssumption ==
  /\ MaxConnections \in Nat \ {0}
  /\ IsFiniteSet(Http)

VARIABLES
  place,             \* what a worker does outside of App
  acceptor,          \* where acceptLoop is
  activeConnections, \* the counter of that name
  listener           \* "off", "up", "closed" or "drain": how far httpServerStop got

serverVars == <<place, acceptor, activeConnections, listener>>
allVars == <<vars, serverVars>>

ServersTypeOK ==
  /\ place \in [Worker -> {"none", "reading", "app", "streaming", "closing"}]
  /\ acceptor \in {"head", "blocked", "client", "counted", "ended"}
  /\ activeConnections \in Nat
  /\ listener \in {"off", "up", "closed", "drain"}

\* With --web off, or when httpServerStart fails, there is no HTTP server.
ServersInit ==
  /\ Init
  /\ place = [w \in Worker |-> "none"]
  /\ activeConnections = 0
  /\ \/ listener = "up" /\ acceptor = "head"
     \/ listener = "off" /\ acceptor = "ended"

Put(w, p) == place' = [place EXCEPT ![w] = p]

\* After the response: a connection thread has still to count itself down, the
\* thread of the control socket polls again.
LastPlace(w) == IF w \in Http THEN "closing" ELSE "none"

------------------------------------------------------------------------------
(* acceptLoop.                                                              *)

\* while (!serverStop), and an accept() that fails on a closed listener.
LoopHead ==
  /\ acceptor = "head"
  /\ acceptor' = IF listener = "up" THEN "blocked" ELSE "ended"
  /\ UNCHANGED <<vars, place, activeConnections, listener>>

\* A client connects, maybe late: close() does not wake an accept() that is
\* blocked on Linux, and what it waits on lives on with it.
Accept ==
  /\ acceptor = "blocked"
  /\ acceptor' = "client"
  /\ UNCHANGED <<vars, place, activeConnections, listener>>

\* "closing the listener wakes the blocking accept()": on other systems.
AcceptWoken ==
  /\ acceptor = "blocked" /\ listener # "up"
  /\ acceptor' = "ended"
  /\ UNCHANGED <<vars, place, activeConnections, listener>>

\* Seeded fault: one too many.
CapPlusOne ==
  /\ acceptor = "client"
  /\ IF activeConnections > MaxConnections
     THEN acceptor' = "head" /\ UNCHANGED activeConnections
     ELSE acceptor' = "counted" /\ activeConnections' = activeConnections + 1
  /\ UNCHANGED <<vars, place, listener>>

\* 503 for a client too many; serverStop is not looked at again.
Cap ==
  /\ acceptor = "client"
  /\ IF activeConnections >= MaxConnections
     THEN acceptor' = "head" /\ UNCHANGED activeConnections
     ELSE acceptor' = "counted" /\ activeConnections' = activeConnections + 1
  /\ UNCHANGED <<vars, place, listener>>

Spawn(w) ==
  /\ acceptor = "counted" /\ place[w] = "none"
  /\ Put(w, "reading")
  /\ acceptor' = "head"
  /\ UNCHANGED <<vars, activeConnections, listener>>

\* CreateThread fails.
SpawnFails ==
  /\ acceptor = "counted"
  /\ activeConnections' = activeConnections - 1
  /\ acceptor' = "head"
  /\ UNCHANGED <<vars, place, listener>>

------------------------------------------------------------------------------
(* connectionThread, readRequest and routeRequest.                          *)

\* POST /api/filter and /api/stop, or the commands of that name.
Route(w) ==
  /\ place[w] = "reading"
  /\ requests < MaxRequests
  /\ requests' = requests + 1
  /\ pc' = [pc EXCEPT ![w] = "check"]
  /\ \E g \in {"filter", "stop"} : goal' = [goal EXCEPT ![w] = g]
  /\ Put(w, "app")
  /\ UNCHANGED <<appLock, capturing, opens, log, quit, accepting, late>>
  /\ UNCHANGED <<acceptor, activeConnections, listener>>

\* POST /api/quit, or the command.
RouteQuit(w) ==
  /\ place[w] = "reading"
  /\ QuitRequest
  /\ Put(w, LastPlace(w))
  /\ UNCHANGED <<acceptor, activeConnections, listener>>

\* GET /api/stream.
RouteStream(w) ==
  /\ place[w] = "reading" /\ w \in Http
  /\ Put(w, "streaming")
  /\ UNCHANGED <<vars, acceptor, activeConnections, listener>>

\* Every other request, well-formed, authorised and known or not; a client that
\* closed; an exception.
Answer(w) ==
  /\ place[w] = "reading"
  /\ Put(w, LastPlace(w))
  /\ UNCHANGED <<vars, acceptor, activeConnections, listener>>

\* Seeded fault: no deadline for a request that is never complete.
NoDeadline(w) == FALSE

\* REQUEST_DEADLINE_MS, or SO_RCVTIMEO, has passed: 408.
Deadline(w) ==
  /\ place[w] = "reading" /\ w \in Http
  /\ Put(w, LastPlace(w))
  /\ UNCHANGED <<vars, acceptor, activeConnections, listener>>

Respond(w) ==
  /\ place[w] = "app" /\ pc[w] = "idle"
  /\ Put(w, LastPlace(w))
  /\ UNCHANGED <<vars, acceptor, activeConnections, listener>>

\* serveEventStream: the client is gone, or serverStop is set.
StreamLost(w) ==
  /\ place[w] = "streaming"
  /\ Put(w, LastPlace(w))
  /\ UNCHANGED <<vars, acceptor, activeConnections, listener>>

StreamEnds(w) ==
  /\ place[w] = "streaming" /\ listener # "up"
  /\ Put(w, LastPlace(w))
  /\ UNCHANGED <<vars, acceptor, activeConnections, listener>>

\* The socket is closed and the connection counted down.
Close(w) ==
  /\ w \in Http /\ place[w] = "closing"
  /\ Put(w, "none")
  /\ activeConnections' = activeConnections - 1
  /\ UNCHANGED <<vars, acceptor, listener>>

------------------------------------------------------------------------------
(* socketServerLoop: one connection at a time.                              *)

\* poll() and accept(), unless pipeServerStop has set pipeStop, which is only
\* looked at between connections.
PipeAccept(w) ==
  /\ w \in Pipe /\ place[w] = "none"
  /\ pc[Main] # "pipeStop"
  /\ Put(w, "reading")
  /\ UNCHANGED <<vars, acceptor, activeConnections, listener>>

------------------------------------------------------------------------------
(* httpServerStop and pipeServerStop, called by the main thread.            *)

\* serverStop is set and the listener closed.
CloseListener ==
  /\ pc[Main] = "httpStop" /\ listener = "up"
  /\ listener' = "closed"
  /\ UNCHANGED <<vars, place, acceptor, activeConnections>>

\* WaitForSingleObject(acceptThread, 3000).
JoinAcceptor ==
  /\ listener = "closed"
  /\ acceptor = "ended" \/ JoinsTimeOut
  /\ listener' = "drain"
  /\ UNCHANGED <<vars, place, acceptor, activeConnections>>

\* Seeded fault: the connections are not waited for.
DrainBlind ==
  /\ pc[Main] = "httpStop" /\ listener \in {"drain", "off"}
  /\ accepting' = accepting \ {"http"}
  /\ Goto(Main, "pipeStop")
  /\ UNCHANGED <<appLock, capturing, opens, log, quit, late, requests, serverVars>>

\* The wait for activeConnections to come down, for RECV_TIMEOUT_MS + 1 s.
Drain ==
  /\ pc[Main] = "httpStop" /\ listener \in {"drain", "off"}
  /\ IF activeConnections = 0 /\ acceptor = "ended"
     THEN accepting' = accepting \ {"http"}
     ELSE JoinsTimeOut /\ UNCHANGED accepting
  /\ Goto(Main, "pipeStop")
  /\ UNCHANGED <<appLock, capturing, opens, log, quit, late, requests, serverVars>>

\* The wait for the control socket's thread, for 3 s.
PipeDrain ==
  /\ pc[Main] = "pipeStop"
  /\ IF \A w \in Pipe : place[w] = "none"
     THEN accepting' = accepting \ {"pipe"}
     ELSE JoinsTimeOut /\ UNCHANGED accepting
  /\ Goto(Main, "exited")
  /\ UNCHANGED <<appLock, capturing, opens, log, quit, late, requests, serverVars>>

------------------------------------------------------------------------------

AcceptStep == LoopHead \/ Accept \/ AcceptWoken \/ Cap \/ SpawnFails \/ \E w \in Http : Spawn(w)

ConnectionStep(w) ==
  \/ Route(w) \/ RouteQuit(w) \/ RouteStream(w) \/ Answer(w) \/ Deadline(w)
  \/ Respond(w) \/ StreamLost(w) \/ StreamEnds(w) \/ Close(w)
  \/ PipeAccept(w)

\* What the transports have no part in; the wish to quit may also come from a
\* signal or from --timeout.
AppStep ==
  /\ \/ \E w \in Worker : Check(w)
     \/ \E p \in Proc : StopStep(p) \/ StartStep(p)
     \/ Tick \/ TickDone \/ LeaveLoop
     \/ QuitRequest
  /\ UNCHANGED serverVars

ServersNext ==
  /\ ~Exited
  /\ \/ AcceptStep
     \/ \E w \in Worker : ConnectionStep(w)
     \/ CloseListener \/ JoinAcceptor \/ Drain \/ PipeDrain
     \/ AppStep

ServersSpec == ServersInit /\ [][ServersNext]_allVars

\* Threads go on with what they began and timed waits end; clients, signals and
\* packets come when they like.  appLock is not a fair lock, and nothing here says
\* that a worker gets it while the main loop ticks.
MainOwn ==
  \/ CloseListener
  \/ JoinAcceptor
  \/ Drain
  \/ PipeDrain
  \/ /\ TickDone \/ LeaveLoop \/ StopStep(Main) \/ StartStep(Main)
     /\ UNCHANGED serverVars

Fairness ==
  /\ WF_allVars(~Exited /\ (LoopHead \/ Cap \/ SpawnFails \/ \E w \in Http : Spawn(w)))
  /\ \A w \in Http :
       WF_allVars(~Exited /\ (Deadline(w) \/ Respond(w) \/ StreamEnds(w) \/ Close(w)))
  /\ \A w \in Pipe : WF_allVars(~Exited /\ Respond(w))
  /\ \A w \in Worker :
       WF_allVars(~Exited /\ (Check(w) \/ StopStep(w) \/ StartStep(w)) /\ UNCHANGED serverVars)
  /\ WF_allVars(~Exited /\ MainOwn)

FairServers == ServersSpec /\ Fairness

------------------------------------------------------------------------------
(* Properties.                                                              *)

Connected == {w \in Http : place[w] # "none"}

\* The counter, which the accept loop tests and raises and two kinds of thread
\* lower, is what it stands for, and never above the cap.
Counted ==
  /\ activeConnections = Cardinality(Connected) + (IF acceptor = "counted" THEN 1 ELSE 0)
  /\ activeConnections <= MaxConnections

\* A worker is inside application control exactly on behalf of a connection.
OnBehalf == \A w \in Worker : pc[w] # "idle" => place[w] = "app"

\* httpServerStop: a transport that was joined has no thread left that could
\* still touch what the clean-up takes down after it (appLock, the plugins).
JoinedQuiet ==
  /\ "http" \notin accepting => Connected = {} /\ acceptor = "ended"
  /\ "pipe" \notin accepting => \A w \in Pipe : place[w] = "none"

\* While the server is there, its transport may send requests.
StillServed ==
  /\ listener = "off" => acceptor = "ended" /\ Connected = {}
  /\ pc[Main] \notin {"pipeStop", "exited"} => "http" \in accepting
  /\ pc[Main] # "exited" => "pipe" \in accepting

ServersInv == ServersTypeOK /\ Counted /\ OnBehalf /\ JoinedQuiet /\ StillServed

\* App with its requests and joins: what it allows is what the servers do.
AppSpec == Spec

\* The cap recovers: no client keeps its connection for ever, but for an event
\* stream while the server runs ("one connection per slow client", httpserver.cpp:52).
ConnectionsEnd ==
  \A w \in Http :
    (place[w] # "none")
      ~> (Exited \/ place[w] \in {"none", "app"} \/ (place[w] = "streaming" /\ listener = "up"))

\* The program ends once that is asked for: no thread keeps appLock, and neither
\* a client nor an accept() that is never woken holds the clean-up up.
QuitEnds == quit ~> Exited
==============================================================================
