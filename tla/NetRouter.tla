------------------------------ MODULE NetRouter ------------------------------
(***************************************************************************)
(* Router of network/router.go: the registry of connections by address,    *)
(* one goroutine handleConn per connection, the callers of Send, which     *)
(* connect when they have to, and Stop, which closes the registered        *)
(* connections and waits for the goroutines (wg).                          *)
(*                                                                         *)
(* The host below is external: it accepts and opens connections, and the   *)
(* peer closes them.  Receive on a TCP connection fails when nothing comes *)
(* for readTimeout, on a local one it waits for ever.  A mutex protects    *)
(* the registry; every critical section is one step.  An error that        *)
(* handleConn takes for temporary changes nothing.                         *)
(***************************************************************************)
EXTENDS Integers, FiniteSets, Functions

CONSTANTS
  Address,      \* remote addresses
  Conn,         \* connections, each used once: a bound of the model
  Caller,       \* goroutines that call Send
  ReadTimeout,  \* Receive has a timeout: TCP, not local
  MaxRx,        \* bound of the model: messages received on a connection
  MaxSends,     \* bound of the model: calls of Send by one goroutine
  None          \* no connection, no address

ASSUME NetRouterAssumption ==
  /\ IsFiniteSet(Conn) /\ IsFiniteSet(Address)
  /\ None \notin Conn /\ None \notin Address
  /\ ReadTimeout \in BOOLEAN
  /\ MaxRx \in Nat /\ MaxSends \in Nat

VARIABLES
  connections,  \* Router.connections
  isClosed,     \* Router.isClosed
  wg,           \* Router.wg
  traffic,      \* Router.traffic, messages received on connections that ended
  remote,       \* Conn.Remote()
  open,         \* neither end has closed the connection
  setup,        \* how far the goroutine that has got the connection is with it
  handler,      \* where handleConn is
  rx,           \* Conn.Rx(), counted in messages
  listening,    \* the host accepts connections
  stop,         \* progress of Stop
  pc,           \* where a call of Send is
  to,           \* its destination
  conn,         \* its connection
  again,        \* it is trying again after an error
  sends         \* history: number of calls of Send

connVars == <<remote, open, setup, handler, rx>>
sendVars == <<pc, to, conn, again, sends>>
stopVars == <<listening, stop>>
vars == <<connections, isClosed, wg, traffic, connVars, sendVars, stopVars>>

TypeOK ==
  /\ connections \in [Address -> Conn \cup {None}]
  /\ isClosed \in BOOLEAN
  /\ wg \in Nat
  /\ traffic \in Nat
  /\ remote \in [Conn -> Address \cup {None}]
  /\ open \in [Conn -> BOOLEAN]
  /\ setup \in [Conn -> {"unused", "register", "launch", "launched", "refused"}]
  /\ handler \in [Conn -> {"none", "receive", "check", "dispatch", "process",
                           "closing", "done", "remove", "returned"}]
  /\ rx \in [Conn -> 0..MaxRx]
  /\ listening \in BOOLEAN
  /\ stop \in {"no", "host", "wait", "returned"}
  /\ pc \in [Caller -> {"idle", "connect", "wait", "send"}]
  /\ to \in [Caller -> Address \cup {None}]
  /\ conn \in [Caller -> Conn \cup {None}]
  /\ again \in [Caller -> BOOLEAN]
  /\ sends \in [Caller -> 0..MaxSends]

Init ==
  /\ connections = [a \in Address |-> None]
  /\ isClosed = FALSE
  /\ wg = 0
  /\ traffic = 0
  /\ remote = [c \in Conn |-> None]
  /\ open = [c \in Conn |-> FALSE]
  /\ setup = [c \in Conn |-> "unused"]
  /\ handler = [c \in Conn |-> "none"]
  /\ rx = [c \in Conn |-> 0]
  /\ listening = TRUE
  /\ stop = "no"
  /\ pc = [s \in Caller |-> "idle"]
  /\ to = [s \in Caller |-> None]
  /\ conn = [s \in Caller |-> None]
  /\ again = [s \in Caller |-> FALSE]
  /\ sends = [s \in Caller |-> 0]

-----------------------------------------------------------------------------
(***************************************************************************)
(* A new connection: accepted by the host, whose callback runs in a        *)
(* goroutine of its own, or opened by connect in a call of Send.  Either   *)
(* way registerConnection comes next and then launchHandleRoutine.         *)
(***************************************************************************)
Opens(c, a) ==
  /\ setup[c] = "unused"
  /\ setup' = [setup EXCEPT ![c] = "register"]
  /\ remote' = [remote EXCEPT ![c] = a]
  /\ open' = [open EXCEPT ![c] = TRUE]

HostAccepts(c, a) ==
  /\ listening
  /\ Opens(c, a)
  /\ UNCHANGED <<connections, isClosed, wg, traffic, handler, rx, sendVars, stopVars>>

RegisterRefused == isClosed

\* registerConnection: the first connection of an address stays the registered
\* one.  A closed router refuses; nobody closes the connection then.
RegisterConnection(c) ==
  /\ setup[c] = "register"
  /\ IF RegisterRefused
     THEN setup' = [setup EXCEPT ![c] = "refused"] /\ UNCHANGED connections
     ELSE /\ setup' = [setup EXCEPT ![c] = "launch"]
          /\ connections' = IF connections[remote[c]] = None
                            THEN [connections EXCEPT ![remote[c]] = c]
                            ELSE connections
  /\ UNCHANGED <<isClosed, wg, traffic, remote, open, handler, rx, sendVars, stopVars>>

\* Mutant: the router may have been closed since registerConnection.
LaunchRefused_Never == FALSE

LaunchRefused == isClosed

WgAdd == wg + 1

\* launchHandleRoutine.
LaunchHandleRoutine(c) ==
  /\ setup[c] = "launch"
  /\ IF LaunchRefused
     THEN setup' = [setup EXCEPT ![c] = "refused"] /\ UNCHANGED <<wg, handler>>
     ELSE /\ setup' = [setup EXCEPT ![c] = "launched"]
          /\ wg' = WgAdd
          /\ handler' = [handler EXCEPT ![c] = "receive"]
  /\ UNCHANGED <<connections, isClosed, traffic, remote, open, rx, sendVars, stopVars>>

\* The peer, or the network, closes the connection.
PeerCloses(c) ==
  /\ open[c]
  /\ open' = [open EXCEPT ![c] = FALSE]
  /\ UNCHANGED <<connections, isClosed, wg, traffic, remote, setup, handler, rx,
                 sendVars, stopVars>>

-----------------------------------------------------------------------------
(***************************************************************************)
(* handleConn.                                                             *)
(***************************************************************************)
Moves(c, from, next) ==
  /\ handler[c] = from
  /\ handler' = [handler EXCEPT ![c] = next]

\* Receive returns a packet.
HandlerReceives(c) ==
  /\ Moves(c, "receive", "check")
  /\ open[c]
  /\ rx[c] < MaxRx
  /\ rx' = [rx EXCEPT ![c] = @ + 1]
  /\ UNCHANGED <<connections, isClosed, wg, traffic, remote, open, setup, sendVars, stopVars>>

\* Mutant: a timeout is taken for a temporary error.
TimesOut_Temporary == FALSE

TimesOut == ReadTimeout

\* Receive returns ErrClosed, ErrEOF or ErrTimeout.
HandlerFails(c) ==
  /\ Moves(c, "receive", "closing")
  /\ ~open[c] \/ TimesOut
  /\ UNCHANGED <<connections, isClosed, wg, traffic, remote, open, setup, rx, sendVars, stopVars>>

\* r.Closed() after Receive: a closed router drops the packet.
HandlerChecks(c) ==
  /\ Moves(c, "check", IF isClosed THEN "closing" ELSE "dispatch")
  /\ UNCHANGED <<connections, isClosed, wg, traffic, remote, open, setup, rx, sendVars, stopVars>>

\* The mutex of the BlockingDispatcher.
DispatcherFree == \A d \in Conn : handler[d] # "process"

\* Dispatch: one Process at a time, under the dispatcher's mutex.
HandlerDispatches(c) ==
  /\ Moves(c, "dispatch", "process")
  /\ DispatcherFree
  /\ UNCHANGED <<connections, isClosed, wg, traffic, remote, open, setup, rx, sendVars, stopVars>>

HandlerProcessed(c) ==
  /\ Moves(c, "process", "receive")
  /\ UNCHANGED <<connections, isClosed, wg, traffic, remote, open, setup, rx, sendVars, stopVars>>

\* Mutant: what an ended connection has received is forgotten.
Keep_Nothing(c) == traffic

Keep(c) == traffic + rx[c]

\* The deferred function: the connection is closed and its traffic kept...
HandlerCloses(c) ==
  /\ Moves(c, "closing", "done")
  /\ open' = [open EXCEPT ![c] = FALSE]
  /\ traffic' = Keep(c)
  /\ UNCHANGED <<connections, isClosed, wg, remote, setup, rx, sendVars, stopVars>>

\* ... then r.wg.Done() ...
HandlerDone(c) ==
  /\ Moves(c, "done", "remove")
  /\ wg' = wg - 1
  /\ UNCHANGED <<connections, isClosed, traffic, remote, open, setup, rx, sendVars, stopVars>>

\* ... then removeConnection, which forgets whichever connection is registered
\* for the address.
RemoveConnection(c) ==
  /\ Moves(c, "remove", "returned")
  /\ connections' = [connections EXCEPT ![remote[c]] = None]
  /\ UNCHANGED <<isClosed, wg, traffic, remote, open, setup, rx, sendVars, stopVars>>

-----------------------------------------------------------------------------
(***************************************************************************)
(* Send.                                                                   *)
(***************************************************************************)

\* Send looks the address up.
SendStart(s, a) ==
  /\ pc[s] = "idle"
  /\ sends[s] < MaxSends
  /\ sends' = [sends EXCEPT ![s] = @ + 1]
  /\ to' = [to EXCEPT ![s] = a]
  /\ conn' = [conn EXCEPT ![s] = connections[a]]
  /\ again' = [again EXCEPT ![s] = FALSE]
  /\ pc' = [pc EXCEPT ![s] = IF connections[a] = None THEN "connect" ELSE "send"]
  /\ UNCHANGED <<connections, isClosed, wg, traffic, connVars, stopVars>>

\* host.Connect gives a connection.
SendConnects(s, c) ==
  /\ pc[s] = "connect"
  /\ Opens(c, to[s])
  /\ conn' = [conn EXCEPT ![s] = c]
  /\ pc' = [pc EXCEPT ![s] = "wait"]
  /\ UNCHANGED <<connections, isClosed, wg, traffic, handler, rx, to, again, sends, stopVars>>

SendReturns(s) == pc' = [pc EXCEPT ![s] = "idle"]

\* connect returns an error, and so does Send.
ConnectFails(s) ==
  /\ \/ pc[s] = "connect"
     \/ pc[s] = "wait" /\ setup[conn[s]] = "refused"
  /\ SendReturns(s)
  /\ UNCHANGED <<connections, isClosed, wg, traffic, connVars, to, conn, again, sends, stopVars>>

\* connect returns the connection.
SendConnected(s) ==
  /\ pc[s] = "wait" /\ setup[conn[s]] = "launched"
  /\ pc' = [pc EXCEPT ![s] = "send"]
  /\ UNCHANGED <<connections, isClosed, wg, traffic, connVars, to, conn, again, sends, stopVars>>

\* c.Send succeeds...
SendSent(s) ==
  /\ pc[s] = "send"
  /\ open[conn[s]]
  /\ SendReturns(s)
  /\ UNCHANGED <<connections, isClosed, wg, traffic, connVars, to, conn, again, sends, stopVars>>

\* ... or fails, and Send connects anew, once.
SendFails(s) ==
  /\ pc[s] = "send"
  /\ ~open[conn[s]]
  /\ IF again[s]
     THEN SendReturns(s) /\ UNCHANGED again
     ELSE pc' = [pc EXCEPT ![s] = "connect"] /\ again' = [again EXCEPT ![s] = TRUE]
  /\ UNCHANGED <<connections, isClosed, wg, traffic, connVars, to, conn, sends, stopVars>>

-----------------------------------------------------------------------------
(***************************************************************************)
(* Stop.                                                                   *)
(***************************************************************************)

\* host.Stop.
StopHost ==
  /\ stop = "no"
  /\ stop' = "host"
  /\ listening' = FALSE
  /\ UNCHANGED <<connections, isClosed, wg, traffic, connVars, sendVars>>

\* With the mutex: isClosed, and every registered connection is closed.
StopConnections ==
  /\ stop = "host"
  /\ stop' = "wait"
  /\ isClosed' = TRUE
  /\ open' = [c \in Conn |-> open[c] /\ \A a \in Address : connections[a] # c]
  /\ UNCHANGED <<connections, wg, traffic, remote, setup, handler, rx, sendVars, listening>>

\* r.wg.Wait() returns.
StopReturn ==
  /\ stop = "wait"
  /\ wg = 0
  /\ stop' = "returned"
  /\ UNCHANGED <<connections, isClosed, wg, traffic, connVars, sendVars, listening>>

-----------------------------------------------------------------------------
HandlerGoes(c) ==
  \/ HandlerFails(c) \/ HandlerChecks(c)
  \/ HandlerDispatches(c) \/ HandlerProcessed(c)
  \/ HandlerCloses(c) \/ HandlerDone(c) \/ RemoveConnection(c)

SendGoes(s) ==
  \/ \E c \in Conn : SendConnects(s, c)
  \/ ConnectFails(s) \/ SendConnected(s) \/ SendSent(s) \/ SendFails(s)

SetUp(c) == RegisterConnection(c) \/ LaunchHandleRoutine(c)

Stops == StopHost \/ StopConnections \/ StopReturn

Next ==
  \/ \E c \in Conn, a \in Address : HostAccepts(c, a)
  \/ \E c \in Conn : SetUp(c) \/ HandlerReceives(c) \/ HandlerGoes(c) \/ PeerCloses(c)
  \/ \E s \in Caller : SendGoes(s) \/ \E a \in Address : SendStart(s, a)
  \/ Stops

Spec == Init /\ [][Next]_vars

(***************************************************************************)
(* Fairness: goroutines go on, processors return, host.Connect returns,    *)
(* and a timeout expires.  No packet has to arrive and nobody has to       *)
(* connect, to send or to call Stop, but who has called Stop goes on.      *)
(***************************************************************************)
FairSpec ==
  /\ Spec
  /\ \A c \in Conn : WF_vars(SetUp(c)) /\ WF_vars(HandlerGoes(c))
  /\ \A s \in Caller : WF_vars(SendGoes(s))
  /\ WF_vars(StopConnections \/ StopReturn)

-----------------------------------------------------------------------------
(***************************************************************************)
(* Properties.                                                             *)
(***************************************************************************)

\* handleConn has been launched for c and has not called wg.Done() yet.
Active(c) == handler[c] \notin {"none", "remove", "returned"}

\* wg counts the handlers that have not finished, and when Stop has returned
\* there is none left and none can come: no handler is launched by a Send or an
\* accepted connection that overlaps with Stop (launchHandleRoutine, Stop).
NoHandlerAfterStop ==
  /\ wg = Cardinality({c \in Conn : Active(c)})
  /\ stop = "returned" => \A c \in Conn : ~Active(c)

RegisteredRx == [a \in Address |-> IF connections[a] = None THEN 0 ELSE rx[connections[a]]]

\* Router.Rx().
Rx == SumFunction(RegisteredRx) + traffic

\* Rx() "returns the Rx for all connections managed by this router" whenever no
\* handler is running: nothing is lost when connections end, in any order and
\* registered or not (handleConn, Rx).
RxAtRest == (\A c \in Conn : handler[c] \in {"none", "returned"}) => Rx = SumFunction(rx)

\* "Stop the listening routine, and stop any routine of handling connections": it
\* returns, whatever Sends, accepted connections and ends of connections overlap
\* with it, if Receive has a timeout.
StopEnds == stop = "host" ~> stop = "returned"

=============================================================================
