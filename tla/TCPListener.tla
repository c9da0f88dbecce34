----------------------------- MODULE TCPListener -----------------------------
(***************************************************************************)
(* The listener of network/tcp.go.  A call of Listen loops on Accept; a    *)
(* call of Stop closes the Go channel quit and the socket, and waits, with *)
(* listeningLock held, until the loop has confirmed on the unbuffered Go    *)
(* channel quitListener.  The loop reads quit without the lock.            *)
(*                                                                         *)
(* The socket is external: Accept returns a connection as long as it is     *)
(* open, may fail now and then, and always fails once it is closed.        *)
(***************************************************************************)
EXTENDS Naturals, FiniteSets

CONSTANTS
  Listens,     \* calls of Listen
  Stops,       \* calls of Stop
  CloseFails,  \* closing the socket may fail otherwise than by being closed
  MaxAccepted, \* bound of the model: connections accepted
  None         \* nobody holds listeningLock

ASSUME ListenerAssumption ==
  /\ CloseFails \in BOOLEAN
  /\ MaxAccepted \in Nat
  /\ None \notin Stops

VARIABLES
  lock,       \* listeningLock: the call of Stop that holds it
  listening,  \* TCPListener.listening
  closed,     \* TCPListener.closed
  quit,       \* the present Go channel TCPListener.quit has been closed
  socket,     \* the socket is open
  loop,       \* where a call of Listen is
  stop,       \* where a call of Stop is
  result,     \* what it has returned
  accepted,   \* number of connections handed over
  panicked,   \* a closed Go channel has been closed again
  twice       \* history: Listen has been called while another Listen was in its loop

vars == <<lock, listening, closed, quit, socket, loop, stop, result, accepted, panicked,
          twice>>

TypeOK ==
  /\ lock \in Stops \cup {None}
  /\ listening \in BOOLEAN
  /\ closed \in BOOLEAN
  /\ quit \in BOOLEAN
  /\ socket \in BOOLEAN
  /\ loop \in [Listens -> {"new", "accept", "select", "confirm", "returned"}]
  /\ stop \in [Stops -> {"new", "socket", "wait", "returned"}]
  /\ result \in [Stops -> {"none", "nil", "error"}]
  /\ accepted \in 0..MaxAccepted
  /\ panicked \in BOOLEAN
  /\ twice \in BOOLEAN
  /\ lock # None => stop[lock] \in {"socket", "wait"}

Init ==
  /\ lock = None
  /\ listening = FALSE
  /\ closed = FALSE
  /\ quit = FALSE
  /\ socket = TRUE
  /\ loop = [l \in Listens |-> "new"]
  /\ stop = [s \in Stops |-> "new"]
  /\ result = [s \in Stops |-> "none"]
  /\ accepted = 0
  /\ panicked = FALSE
  /\ twice = FALSE

-----------------------------------------------------------------------------
(***************************************************************************)
(* listen.                                                                 *)
(***************************************************************************)

\* Mutant: nobody looks whether the listener has been stopped before.
Refused_Never == FALSE

Refused == closed

\* It returns at once on a listener that has been stopped; one that is already
\* listening is no obstacle.
Listen(l) ==
  /\ loop[l] = "new"
  /\ lock = None
  /\ IF Refused
     THEN loop' = [loop EXCEPT ![l] = "returned"] /\ UNCHANGED <<listening, twice>>
     ELSE /\ loop' = [loop EXCEPT ![l] = "accept"]
          /\ listening' = TRUE
          /\ twice' = (twice \/ listening)
  /\ UNCHANGED <<lock, closed, quit, socket, stop, result, accepted, panicked>>

\* A connection, handed over in a goroutine of its own.
Accept(l) ==
  /\ loop[l] = "accept"
  /\ socket
  /\ accepted < MaxAccepted
  /\ accepted' = accepted + 1
  /\ UNCHANGED <<lock, listening, closed, quit, socket, loop, stop, result, panicked, twice>>

\* An error of Accept...
AcceptFails(l) ==
  /\ loop[l] = "accept"
  /\ loop' = [loop EXCEPT ![l] = "select"]
  /\ UNCHANGED <<lock, listening, closed, quit, socket, stop, result, accepted, panicked, twice>>

\* Mutant: the loop looks at closed instead, which Stop sets last.
Quits_Closed == closed

Quits == quit

\* ... for which the loop looks at quit.
Select(l) ==
  /\ loop[l] = "select"
  /\ loop' = [loop EXCEPT ![l] = IF Quits THEN "confirm" ELSE "accept"]
  /\ UNCHANGED <<lock, listening, closed, quit, socket, stop, result, accepted, panicked, twice>>

-----------------------------------------------------------------------------
(***************************************************************************)
(* Stop.                                                                   *)
(***************************************************************************)
\* Stop takes the lock and closes quit.
StopStart(s) ==
  /\ stop[s] = "new"
  /\ lock = None
  /\ lock' = s
  /\ quit' = TRUE
  /\ panicked' = (panicked \/ quit)
  /\ stop' = [stop EXCEPT ![s] = "socket"]
  /\ UNCHANGED <<listening, closed, socket, loop, result, accepted, twice>>

\* Stop returns and releases the lock.
Returns(s, res) ==
  /\ stop' = [stop EXCEPT ![s] = "returned"]
  /\ result' = [result EXCEPT ![s] = res]
  /\ lock' = None

\* Mutant: the Go channel that has been closed is kept.
FreshQuit_Kept == quit

FreshQuit == FALSE

\* The last lines of Stop: a fresh quit, and the listener is closed.
Finish(s) ==
  /\ Returns(s, "nil")
  /\ quit' = FreshQuit
  /\ listening' = FALSE
  /\ closed' = TRUE

\* The socket is closed, whether or not it was before.
StopSocket(s) ==
  /\ stop[s] = "socket"
  /\ socket' = FALSE
  /\ IF listening
     THEN /\ stop' = [stop EXCEPT ![s] = "wait"]
          /\ UNCHANGED <<lock, listening, closed, quit, result>>
     ELSE Finish(s)
  /\ UNCHANGED <<loop, accepted, panicked, twice>>

\* An error other than ErrClosed is returned at once.
StopFails(s) ==
  /\ stop[s] = "socket"
  /\ CloseFails
  /\ Returns(s, "error")
  /\ UNCHANGED <<listening, closed, quit, socket, loop, accepted, panicked, twice>>

\* The loop confirms, and both return.
StopConfirmed(s, l) ==
  /\ stop[s] = "wait"
  /\ loop[l] = "confirm"
  /\ loop' = [loop EXCEPT ![l] = "returned"]
  /\ Finish(s)
  /\ UNCHANGED <<socket, accepted, panicked, twice>>

-----------------------------------------------------------------------------
LoopGoes(l) == (~socket /\ AcceptFails(l)) \/ Select(l)

StopGoes(s) == StopSocket(s) \/ StopFails(s) \/ \E l \in Listens : StopConfirmed(s, l)

\* A panic ends the program.
Next ==
  /\ ~panicked
  /\ \/ \E l \in Listens : Listen(l) \/ Accept(l) \/ AcceptFails(l) \/ Select(l)
     \/ \E s \in Stops : StopStart(s) \/ StopGoes(s)

Spec == Init /\ [][Next]_vars

-----------------------------------------------------------------------------
(***************************************************************************)
(* Properties.                                                             *)
(***************************************************************************)
InLoop(l) == loop[l] \in {"accept", "select", "confirm"}

\* Once a Stop has returned nil, Listen has returned and never gets into its loop
\* again, even if it is called at the same time as Stop or after it ("Stop() should
\* return when the Listener really has stopped listening"); only of two Listens at
\* once may one be left.
NoLoopAfterStop == (\E s \in Stops : result[s] = "nil") =>
  \/ \A l \in Listens : ~InLoop(l)
  \/ twice /\ \E l \in Listens : loop[l] = "returned"

\* No Stop closes the quit of an earlier one, unless the earlier one has returned
\* the error of closing the socket and left its quit closed (Stop).
NoPanic == panicked => \E s \in Stops : result[s] = "error"

\* Stop is "a blocking call" that returns, whether Listen was called before, at the
\* same time or not at all, unless it panics.
StopReturns == \A s \in Stops : stop[s] # "new" ~> (stop[s] = "returned" \/ panicked)

=============================================================================
