---------------------------- MODULE LocalRouters -----------------------------
(***************************************************************************)
(* Routers of network/router.go on the in-process network: what NetRouter  *)
(* leaves to an external host is here the LocalConns of LocalConn, and     *)
(* both ends of a connection belong to a router.  Two kinds of mutex are   *)
(* held over several steps: the LocalManager's by Send and Close, which    *)
(* wait for the goroutines start(), and a router's by Stop, which closes   *)
(* connections with it.  A handler needs its router's mutex after every    *)
(* Receive, and start() needs a handler that receives.                     *)
(*                                                                         *)
(* All routers have been started.  Processors return; they are not         *)
(* modelled here.                                                          *)
(***************************************************************************)
EXTENDS LocalConn

CONSTANTS
  Router,  \* routers, named by their addresses
  From,    \* the router that opens a connection
  Dialed   \* the router it is opened to

ASSUME LocalRoutersAssumption ==
  /\ From \in [Pair -> Router] /\ Dialed \in [Pair -> Router]
  /\ \A p \in Pair : From[p] # Dialed[p]
  /\ None \notin End

VARIABLES
  connections,  \* Router.connections
  setup,        \* how far the router is with an end of a connection it has got
  handler,      \* where handleConn is
  stop,         \* progress of Router.Stop
  toClose       \* the registered connections that it has not closed yet

routerVars == <<connections, setup, handler, stop, toClose>>
networkVars == <<connVars, routerVars>>

\* The router that has an end, and Conn.Remote().
Owner(e) == IF e[2] = "out" THEN From[e[1]] ELSE Dialed[e[1]]

Remote(e) == Owner(Peer(e))

RoutersTypeOK ==
  /\ ConnTypeOK
  /\ connections \in [Router -> [Router -> End \cup {None}]]
  /\ setup \in [End -> {"none", "register", "launch", "launched", "refused"}]
  /\ handler \in [End -> {"none", "receive", "check", "failed", "close", "closing",
                          "remove", "returned"}]
  /\ stop \in [Router -> {"no", "called", "host", "locked", "wait", "returned"}]
  /\ toClose \in [Router -> SUBSET End]

RoutersInit ==
  /\ ConnInit
  /\ connections = [r \in Router |-> [x \in Router |-> None]]
  /\ setup = [e \in End |-> "none"]
  /\ handler = [e \in End |-> "none"]
  /\ stop = [r \in Router |-> "no"]
  /\ toClose = [r \in Router |-> {}]

\* Mutant: Stop keeps the router's mutex over wg.Wait().
Locked_OverWait(r) == stop[r] \in {"locked", "wait"}

\* Stop has the router's mutex; all others have it for one step only.
Locked(r) == stop[r] = "locked"

\* Router.isClosed, and the router's entry in LocalManager.listening.
IsClosed(r) == stop[r] \in {"locked", "wait", "returned"}

Listening(r) == stop[r] \in {"no", "called"}

-----------------------------------------------------------------------------
(***************************************************************************)
(* Send connects when it has found no connection, or one that is closed;   *)
(* what it has found may be old by then.  Both ends of the new connection  *)
(* are registered by goroutines of their own.                              *)
(***************************************************************************)
RouterConnects(p) ==
  /\ Listening(Dialed[p])
  /\ NewConns(p)
  /\ setup' = [e \in End |-> IF e[1] = p THEN "register" ELSE setup[e]]
  /\ UNCHANGED <<connections, handler, stop, toClose>>

\* registerConnection, which keeps the connection that the address has.  When it
\* refuses nobody closes the connection.
RegisterConnection(e) == LET r == Owner(e) IN
  /\ setup[e] = "register"
  /\ ~Locked(r)
  /\ setup' = [setup EXCEPT ![e] = IF IsClosed(r) THEN "refused" ELSE "launch"]
  /\ connections' = IF IsClosed(r) \/ connections[r][Remote(e)] # None
                    THEN connections
                    ELSE [connections EXCEPT ![r][Remote(e)] = e]
  /\ UNCHANGED <<connVars, handler, stop, toClose>>

\* launchHandleRoutine.
LaunchHandleRoutine(e) ==
  /\ setup[e] = "launch"
  /\ ~Locked(Owner(e))
  /\ IF IsClosed(Owner(e))
     THEN setup' = [setup EXCEPT ![e] = "refused"] /\ UNCHANGED handler
     ELSE /\ setup' = [setup EXCEPT ![e] = "launched"]
          /\ handler' = [handler EXCEPT ![e] = "receive"]
  /\ UNCHANGED <<connVars, connections, stop, toClose>>

\* Send, on a connection that connect has returned or that is in the registry.
Send(e) ==
  /\ setup[e] = "launched" \/ connections[Owner(e)][Remote(e)] = e
  /\ SendStart(e)
  /\ UNCHANGED routerVars

-----------------------------------------------------------------------------
(***************************************************************************)
(* handleConn.                                                             *)
(***************************************************************************)
Moves(e, from, next) ==
  /\ handler[e] = from
  /\ handler' = [handler EXCEPT ![e] = next]

HandlerReceives(e) ==
  /\ Moves(e, "receive", "check")
  /\ Receive(e)
  /\ UNCHANGED <<connections, setup, stop, toClose>>

\* Receive returns ErrClosed when the closed outgoingQueue is empty.
HandlerFails(e) ==
  /\ Moves(e, "receive", "failed")
  /\ outgoing[e] = <<>>
  /\ routine[e] \in {"confirm", "returned"}
  /\ UNCHANGED <<connVars, connections, setup, stop, toClose>>

\* r.Closed(), which needs the mutex, after every Receive.
HandlerChecks(e) ==
  /\ ~Locked(Owner(e))
  /\ \/ Moves(e, "check", IF IsClosed(Owner(e)) THEN "close" ELSE "receive")
     \/ Moves(e, "failed", "close")
  /\ UNCHANGED <<connVars, connections, setup, stop, toClose>>

\* Mutant: r.wg.Done() and what follows come before c.Close().
HandlerCloses_Late(e) ==
  /\ Moves(e, "close", "remove")
  /\ UNCHANGED <<connVars, connections, setup, stop, toClose>>

\* The deferred function: Close, which returns at once if closeCh is closed...
HandlerCloses(e) ==
  /\ \/ Moves(e, "close", "closing") /\ CloseStart(e)
     \/ Moves(e, "close", "remove") /\ closeCh[e] /\ UNCHANGED connVars
  /\ UNCHANGED <<connections, setup, stop, toClose>>

\* A Close of this end has the manager's mutex.
InClose(e) == holder # None /\ holder.op # "send" /\ holder.end = e

\* ... r.wg.Done() when it has returned...
HandlerClosed(e) ==
  /\ Moves(e, "closing", "remove")
  /\ ~InClose(e)
  /\ UNCHANGED <<connVars, connections, setup, stop, toClose>>

\* ... and removeConnection, whichever connection is registered.
RemoveConnection(e) ==
  /\ Moves(e, "remove", "returned")
  /\ ~Locked(Owner(e))
  /\ connections' = [connections EXCEPT ![Owner(e)][Remote(e)] = None]
  /\ UNCHANGED <<connVars, setup, stop, toClose>>

\* Router.wg counts these.
Active(e) == handler[e] \notin {"none", "remove", "returned"}

-----------------------------------------------------------------------------
(***************************************************************************)
(* Stop.                                                                   *)
(***************************************************************************)
Progress(r, from, next) ==
  /\ stop[r] = from
  /\ stop' = [stop EXCEPT ![r] = next]

StopCalled(r) ==
  /\ Progress(r, "no", "called")
  /\ UNCHANGED <<connVars, connections, setup, handler, toClose>>

\* host.Stop: unsetListening needs the manager's mutex.
StopHost(r) ==
  /\ Progress(r, "called", "host")
  /\ holder = None
  /\ UNCHANGED <<connVars, connections, setup, handler, toClose>>

\* r.Lock(), isClosed, and the loop over the connections.
StopLocks(r) ==
  /\ Progress(r, "host", "locked")
  /\ toClose' = [toClose EXCEPT ![r] = {connections[r][x] : x \in Router} \ {None}]
  /\ UNCHANGED <<connVars, connections, setup, handler>>

\* c.Close(); the second one always finds the connection closed.
StopCloses(r, e) ==
  /\ e \in toClose[r]
  /\ toClose' = [toClose EXCEPT ![r] = @ \ {e}]
  /\ CloseStart(e) \/ (closeCh[e] /\ UNCHANGED connVars)
  /\ UNCHANGED <<connections, setup, handler, stop>>

\* r.Unlock() when all calls of Close have returned.
StopUnlocks(r) ==
  /\ Progress(r, "locked", "wait")
  /\ toClose[r] = {}
  /\ \A e \in End : Owner(e) = r /\ InClose(e) => handler[e] = "closing"
  /\ UNCHANGED <<connVars, connections, setup, handler, toClose>>

\* r.wg.Wait() returns.
StopReturn(r) ==
  /\ Progress(r, "wait", "returned")
  /\ \A e \in End : Owner(e) = r => ~Active(e)
  /\ UNCHANGED <<connVars, connections, setup, handler, toClose>>

-----------------------------------------------------------------------------
SetUp(e) == RegisterConnection(e) \/ LaunchHandleRoutine(e)

HandlerGoes(e) ==
  \/ HandlerReceives(e) \/ HandlerFails(e) \/ HandlerChecks(e)
  \/ HandlerCloses(e) \/ HandlerClosed(e) \/ RemoveConnection(e)

StopGoes(r) ==
  \/ StopHost(r) \/ StopLocks(r) \/ StopUnlocks(r) \/ StopReturn(r)
  \/ \E e \in End : StopCloses(r, e)

Goroutine(e) == (RoutineStep(e) \/ CallGoesOn(e)) /\ UNCHANGED routerVars

\* What goroutines do by themselves: nobody has to connect, to send or to call Stop.
GoesOn ==
  \/ \E e \in End : SetUp(e) \/ HandlerGoes(e) \/ Goroutine(e)
  \/ \E r \in Router : StopGoes(r)

RoutersNext ==
  \/ \E p \in Pair : RouterConnects(p)
  \/ \E e \in End : Send(e)
  \/ \E r \in Router : StopCalled(r)
  \/ GoesOn

RoutersSpec == RoutersInit /\ [][RoutersNext]_networkVars

-----------------------------------------------------------------------------
(***************************************************************************)
(* Properties.                                                             *)
(***************************************************************************)

\* What Stop leaves behind: a connection that was being set up when the router was
\* closed may stay open, and then it is not in the registry; every other one, the
\* second of an address too, is unregistered and told to close at both ends when
\* Stop returns, whoever closes it (Stop, handleConn, LocalManager.close).
StoppedIsClosed == \A r \in Router : stop[r] = "returned" =>
  \A e \in End : Owner(e) = r =>
    \/ setup[e] \in {"none", "register", "launch", "refused"} /\ connections[r][Remote(e)] # e
    \/ {e, Peer(e)} \cap conns = {} /\ closeCh[e] /\ closeCh[Peer(e)]

\* start() of an end has a message in hand that nobody will take: the queue is full,
\* and there is no handler, or it does not come back from Closed() to Receive.
NoReader(e) ==
  /\ routine[e] = "forward" /\ ~HasRoom(outgoing[e])
  /\ \/ handler[e] \notin {"receive", "check"}
     \/ handler[e] = "check" /\ IsClosed(Owner(e))

\* The end whose goroutine the holder of the manager's mutex waits for.
WaitsFor == IF holder.op = "close" THEN holder.end ELSE Peer(holder.end)

ManagerStuck == holder # None /\ NoReader(WaitsFor)

\* A handler waits on an open connection that is not the registered one, which
\* Stop does not close.
Orphan(e) == handler[e] = "receive" /\ e \in conns /\ connections[Owner(e)][Remote(e)] # e

\* A Close of this end goes on, or returns at once.
CanClose(e) == closeCh[e] \/ (holder = None /\ Closable(e))

\* No goroutine can go on by itself (there is no step GoesOn), told by what each
\* one waits for.
AtRest ==
  /\ \A e \in End :
       /\ setup[e] \in {"register", "launch"} => Locked(Owner(e))
       /\ handler[e] = "receive" => outgoing[e] = <<>> /\ routine[e] \notin {"confirm", "returned"}
       /\ handler[e] \in {"check", "failed", "remove"} => Locked(Owner(e))
       /\ handler[e] = "close" => ~CanClose(e)
       /\ handler[e] = "closing" => InClose(e)
       /\ routine[e] = "select" => incoming[e] = <<>> /\ ~closeCh[e]
       /\ routine[e] = "forward" => ~HasRoom(outgoing[e])
       /\ holder = [op |-> "send", end |-> e] => ~HasRoom(incoming[Peer(e)])
       /\ holder = [op |-> "close", end |-> e] => routine[e] # "confirm"
       /\ holder = [op |-> "closePeer", end |-> e] => routine[Peer(e)] # "confirm"
  /\ \A r \in Router :
       /\ stop[r] = "called" => holder # None
       /\ stop[r] # "host"
       /\ stop[r] = "locked" =>
            /\ \A e \in toClose[r] : ~CanClose(e)
            /\ toClose[r] # {} \/ \E e \in End : Owner(e) = r /\ InClose(e) /\ handler[e] # "closing"
       /\ stop[r] = "wait" => \E e \in End : Owner(e) = r /\ Active(e)

\* "Stop the listening routine, and stop any routine of handling connections": on the
\* in-process network, too, it returns.  No step of a goroutine is ever undone, so that
\* all come to rest; then every Stop that has been called has returned, unless a call
\* has the manager's mutex and waits for a start() without a reader, or a handler of
\* this router waits on a second connection with the same router.  Neither the order
\* of the two mutexes nor Stops of both routers at once keep it from returning (Stop,
\* handleConn, LocalManager.close).
StopReturnsOrStuck == AtRest => \A r \in Router :
  \/ stop[r] \in {"no", "returned"}
  \/ ManagerStuck
  \/ \E e \in End : Owner(e) = r /\ Orphan(e)

=============================================================================
