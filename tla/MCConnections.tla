--------------------------- MODULE MCConnections ---------------------------
\* A connection on its way through the two servers and to a client: the master and
\* its workers, a script on its socket, the goroutines of a Go connection, and the
\* pool of a Go client; one at a time.
EXTENDS MasterWorkers, ScriptSocket, SocketServer, ClientPool

VARIABLE which

Init ==
  /\ MwInit /\ SockInit /\ ServerInit /\ ClientInit
  /\ which \in {"master", "script", "server", "pool"}
  /\ which # "script" => script = "loop"

vars == <<which, mwVars, sockVars, serverVars, clientVars>>

\* a step of the part that runs
OfMaster(A) == which = "master" /\ A /\ UNCHANGED <<which, sockVars, serverVars, clientVars>>
OfScript(A) == which = "script" /\ A /\ UNCHANGED <<which, mwVars, serverVars, clientVars>>
OfServer(A) == which = "server" /\ A /\ UNCHANGED <<which, mwVars, sockVars, clientVars>>
OfPool(A)   == which = "pool" /\ A /\ UNCHANGED <<which, mwVars, sockVars, serverVars>>

Next == OfMaster(MwNext) \/ OfScript(SockNext) \/ OfServer(ServerNext) \/ OfPool(ClientNext)

\* with the fairness of MwFairSpec, SockFairSpec, ServerFairSpec and ClientFairSpec
Spec ==
  /\ Init /\ [][Next]_vars
  /\ WF_vars(OfMaster(Master)) /\ \A w \in Worker : WF_vars(OfMaster(WorkerStep(w)))
  /\ WF_vars(OfScript(Go))
  /\ WF_vars(OfServer(Handle)) /\ WF_vars(OfServer(ReadBytes))
  /\ \A s \in Sender : WF_vars(OfServer(SendInfoTo(s)))
  /\ WF_vars(OfPool(LoopAlone))
  /\ \A c \in Client : SF_vars(OfPool(PoolGet(c) \/ PoolPut(c)))
=============================================================================
