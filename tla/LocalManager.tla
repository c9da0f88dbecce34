---------------------------- MODULE LocalManager -----------------------------
(***************************************************************************)
(* The in-process network of network/local.go: the LocalManager with its   *)
(* connections (LocalConn), and the listeners and hosts that use it.        *)
(* LocalManager.listening has the functions to call for connections to an   *)
(* address.  Listen registers one and then waits on the Go channel quit     *)
(* that Stop closes; it makes a new quit each time, and reads it after it   *)
(* has released the listener's mutex.  Everything that looks at the         *)
(* LocalManager needs its mutex, which a Send or a Close may hold.          *)
(***************************************************************************)
EXTENDS LocalConn, FiniteSets

CONSTANTS
  Listener,         \* LocalListeners
  Address,          \* local addresses
  Addr,             \* the address of a listener
  Call,             \* calls of Listen
  Of,               \* the listener of a call
  To,               \* the address a connection is for
  MaxStops,         \* bound of the model: calls of Stop
  MaxRetryConnect   \* tries of Connect, in two nested loops

ASSUME LocalManagerAssumption ==
  /\ Addr \in [Listener -> Address]
  /\ Of \in [Call -> Listener]
  /\ To \in [Pair -> Address]
  /\ MaxStops \in Nat
  /\ MaxRetryConnect \in Nat \ {0}
  /\ IsFiniteSet(Call)
  /\ None \notin Listener

VARIABLES
  manager,    \* LocalManager.listening: whose function is called
  created,    \* listeners that NewLocalListenerWithManager has returned
  listening,  \* LocalListener.listening
  quit,       \* LocalListener.quit, by its number; 0 is the one it is created with
  open,       \* the quits of a listener that have not been closed
  pc,         \* where a call of Listen is
  waitsFor,   \* the quit that it waits for
  tries,      \* of a call of Connect
  accepted,   \* the listener whose function has got its connection
  stops       \* history: number of calls of Stop

listenVars == <<manager, created, listening, quit, open, pc, waitsFor>>
connectVars == <<tries, accepted>>
vars == <<connVars, listenVars, connectVars, stops>>

Quit == 0..Cardinality(Call)

TypeOK ==
  /\ ConnTypeOK
  /\ manager \in [Address -> Listener \cup {None}]
  /\ created \subseteq Listener
  /\ listening \in [Listener -> BOOLEAN]
  /\ quit \in [Listener -> Quit]
  /\ open \in [Listener -> SUBSET Quit]
  /\ pc \in [Call -> {"new", "unlocked", "wait", "returned", "refused"}]
  /\ waitsFor \in [Call -> Quit]
  /\ tries \in [Pair -> 0..(MaxRetryConnect * MaxRetryConnect)]
  /\ accepted \in [Pair -> Listener \cup {None}]
  /\ stops \in 0..MaxStops

Init ==
  /\ ConnInit
  /\ manager = [a \in Address |-> None]
  /\ created = {}
  /\ listening = [l \in Listener |-> FALSE]
  /\ quit = [l \in Listener |-> 0]
  /\ open = [l \in Listener |-> {0}]
  /\ pc = [c \in Call |-> "new"]
  /\ waitsFor = [c \in Call |-> 0]
  /\ tries = [k \in Pair |-> 0]
  /\ accepted = [k \in Pair |-> None]
  /\ stops = 0

-----------------------------------------------------------------------------
IsListening(a) == manager[a] # None

\* NewLocalListenerWithManager, on an address where nobody is listening now.
NewListener(l) ==
  /\ l \notin created
  /\ holder = None
  /\ ~IsListening(Addr[l])
  /\ created' = created \cup {l}
  /\ UNCHANGED <<connVars, manager, listening, quit, open, pc, waitsFor, connectVars, stops>>

\* setListening, whoever is registered for the address.
SetListening(l) == [manager EXCEPT ![Addr[l]] = l]

\* Listen: an error if the listener is listening...
ListenRefused(c) ==
  /\ pc[c] = "new"
  /\ listening[Of[c]]
  /\ pc' = [pc EXCEPT ![c] = "refused"]
  /\ UNCHANGED <<connVars, manager, created, listening, quit, open, waitsFor, connectVars, stops>>

\* ... otherwise a new quit and setListening...
Listen(c) == LET l == Of[c] IN
  /\ pc[c] = "new"
  /\ l \in created
  /\ ~listening[l]
  /\ holder = None
  /\ pc' = [pc EXCEPT ![c] = "unlocked"]
  /\ quit' = [quit EXCEPT ![l] = @ + 1]
  /\ open' = [open EXCEPT ![l] = @ \cup {quit'[l]}]
  /\ manager' = SetListening(l)
  /\ listening' = [listening EXCEPT ![l] = TRUE]
  /\ UNCHANGED <<connVars, created, waitsFor, connectVars, stops>>

\* ... then it reads ll.quit, without the listener's mutex...
ReadQuit(c) ==
  /\ pc[c] = "unlocked"
  /\ pc' = [pc EXCEPT ![c] = "wait"]
  /\ waitsFor' = [waitsFor EXCEPT ![c] = quit[Of[c]]]
  /\ UNCHANGED <<connVars, manager, created, listening, quit, open, connectVars, stops>>

\* ... and waits for it to be closed.
ListenReturns(c) ==
  /\ pc[c] = "wait"
  /\ waitsFor[c] \notin open[Of[c]]
  /\ pc' = [pc EXCEPT ![c] = "returned"]
  /\ UNCHANGED <<connVars, manager, created, listening, quit, open, waitsFor, connectVars, stops>>

\* Mutant: quit is not closed.
StillOpen_All(l) == open[l]

StillOpen(l) == open[l] \ {quit[l]}

\* unsetListening, whoever is registered for the address.
Unset(l) == [manager EXCEPT ![Addr[l]] = None]

\* Mutant: ll.listening stays.
Stopped_StillListening(l) == listening

Stopped(l) == [listening EXCEPT ![l] = FALSE]

\* Stop, which does nothing when the listener is not listening.
Stop(l) ==
  /\ stops < MaxStops
  /\ listening[l]
  /\ holder = None
  /\ stops' = stops + 1
  /\ manager' = Unset(l)
  /\ open' = [open EXCEPT ![l] = StillOpen(l)]
  /\ listening' = Stopped(l)
  /\ UNCHANGED <<connVars, created, quit, pc, waitsFor, connectVars>>

\* LocalHost.Connect: its loop around the loop of NewLocalConnWithManager.
MoreTries(k) == tries[k] < MaxRetryConnect * MaxRetryConnect

\* One try: the function registered for the address gets the connection...
Connect(k) ==
  /\ accepted[k] = None
  /\ MoreTries(k)
  /\ IsListening(To[k])
  /\ NewConns(k)
  /\ accepted' = [accepted EXCEPT ![k] = manager[To[k]]]
  /\ UNCHANGED <<listenVars, tries, stops>>

\* ... or nobody is listening, and the next try follows after a while.
ConnectFails(k) ==
  /\ accepted[k] = None
  /\ MoreTries(k)
  /\ holder = None
  /\ ~IsListening(To[k])
  /\ tries' = [tries EXCEPT ![k] = @ + 1]
  /\ UNCHANGED <<connVars, listenVars, accepted, stops>>

-----------------------------------------------------------------------------
ListenGoes(c) == ReadQuit(c) \/ ListenReturns(c)

Next ==
  \/ \E l \in Listener : NewListener(l) \/ Stop(l)
  \/ \E c \in Call : Listen(c) \/ ListenRefused(c) \/ ListenGoes(c)
  \/ \E k \in Pair : Connect(k) \/ ConnectFails(k)
  \/ ConnNext /\ UNCHANGED <<listenVars, connectVars, stops>>

Spec == Init /\ [][Next]_vars

(***************************************************************************)
(* Fairness: a goroutine that can go on goes on.  Nobody has to call       *)
(* anything, but the users of connections go on receiving, as handleConn   *)
(* and the multiplexer do.  The select of start() is fair to closeCh, of   *)
(* which the bound on messages makes sure.                                  *)
(***************************************************************************)
FairSpec ==
  /\ Spec
  /\ \A e \in End : /\ WF_vars(RoutineStep(e) /\ UNCHANGED <<listenVars, connectVars, stops>>)
                    /\ WF_vars(CallGoesOn(e) /\ UNCHANGED <<listenVars, connectVars, stops>>)
                    /\ WF_vars(Receive(e) /\ UNCHANGED <<listenVars, connectVars, stops>>)
  /\ \A c \in Call : WF_vars(ListenGoes(c))

-----------------------------------------------------------------------------
(***************************************************************************)
(* Properties.                                                             *)
(***************************************************************************)

Alone(l) == \A m \in created : Addr[m] = Addr[l] => m = l

\* "Listening returns true if this Listener is listening for incoming connections":
\* as long as it has its address for itself, the manager hands a listener the
\* connections to its address exactly while it is listening; and the connections to
\* an address always go to a listener of this address (Listen, Stop, setListening,
\* unsetListening).
ListeningIsRegistered ==
  /\ \A l \in Listener : Alone(l) => (listening[l] <=> manager[Addr[l]] = l)
  /\ \A a \in Address : manager[a] # None => Addr[manager[a]] = a /\ listening[manager[a]]

InListen(c) == pc[c] \in {"unlocked", "wait"}

\* When a listener has been stopped for good, every Listen on it returns, whenever
\* it gets round to reading quit (Listen, Stop).
ListenEnds == \A c \in Call : <>[](~listening[Of[c]]) => <>[](~InListen(c))

\* If both ends are read, whoever takes the manager's mutex gives it back: no
\* Send and no Close keeps it for ever, and with it every Listen, Stop and Connect.
MutexReleased == holder # None ~> holder = None

=============================================================================
