--------------------------- MODULE NetRouterProofs ---------------------------
(***************************************************************************)
(* Proofs about NetRouter, for any number of addresses, connections and    *)
(* callers of Send: the types, and that wg counts the handlers.  The       *)
(* inductive invariant adds that a closed router is one whose Stop waits   *)
(* or has returned, so that none of its handlers is new, and that a        *)
(* connection whose handler is about to be launched has none yet.          *)
(***************************************************************************)
EXTENDS NetRouter, FiniteSetTheorems, WellFoundedInduction, TLAPS

Handlers == {c \in Conn : Active(c)}

RouterInv ==
  /\ TypeOK
  /\ isClosed <=> stop \in {"wait", "returned"}
  /\ \A c \in Conn : setup[c] # "launched" => handler[c] = "none"
  /\ NoHandlerAfterStop

\* The handlers are finitely many.
LEMMA HandlersFinite == IsFiniteSet(Handlers)
BY NetRouterAssumption, FS_Subset DEF Handlers

\* A handler is launched.
LEMMA HandlerComes ==
  ASSUME NEW c \in Conn, ~Active(c), Active(c)',
         \A d \in Conn : d # c => (Active(d)' <=> Active(d))
  PROVE  Cardinality(Handlers)' = Cardinality(Handlers) + 1
<1>1. Handlers' = Handlers \cup {c} /\ c \notin Handlers
  BY DEF Handlers
<1>. QED
  BY <1>1, HandlersFinite, FS_AddElement

\* A handler has finished.
LEMMA HandlerGoesAway ==
  ASSUME NEW c \in Conn, Active(c), ~Active(c)',
         \A d \in Conn : d # c => (Active(d)' <=> Active(d))
  PROVE  /\ Cardinality(Handlers) \in Nat \ {0}
         /\ Cardinality(Handlers)' = Cardinality(Handlers) - 1
<1>1. Handlers' = Handlers \ {c} /\ c \in Handlers
  BY DEF Handlers
<1>2. Cardinality(Handlers) \in Nat /\ Cardinality(Handlers) # 0
  BY <1>1, HandlersFinite, FS_CardinalityType, FS_EmptySet
<1>. QED
  BY <1>1, <1>2, HandlersFinite, FS_RemoveElement

\* The handlers stay those they are.
LEMMA HandlersStay ==
  ASSUME \A d \in Conn : Active(d)' <=> Active(d)
  PROVE  Cardinality(Handlers)' = Cardinality(Handlers)
<1>1. Handlers' = Handlers
  BY DEF Handlers
<1>. QED
  BY <1>1

\* No connection at first.
LEMMA RouterInitInv == Init => RouterInv
<1>. SUFFICES ASSUME Init PROVE RouterInv
  OBVIOUS
<1>1. TypeOK
  <2>1. 0 \in 0..MaxRx /\ 0 \in 0..MaxSends
    BY NetRouterAssumption
  <2>. QED
    BY <2>1 DEF Init, TypeOK
<1>2. {c \in Conn : Active(c)} = {}
  BY DEF Init, Active
<1>3. NoHandlerAfterStop
  BY <1>2, FS_EmptySet DEF Init, NoHandlerAfterStop
<1>. QED
  BY <1>1, <1>3 DEF Init, RouterInv

-----------------------------------------------------------------------------
(***************************************************************************)
(* Steps that leave wg, isClosed and stop alone: those of Send and of the  *)
(* host, and those of handleConn but for its end.                          *)
(***************************************************************************)

\* A new connection.
LEMMA OpensInv ==
  ASSUME RouterInv, NEW c \in Conn, NEW a, a \in Address \cup {None}, Opens(c, a)
  PROVE  /\ remote' \in [Conn -> Address \cup {None}] /\ open' \in [Conn -> BOOLEAN]
         /\ setup' \in [Conn -> {"unused", "register", "launch", "launched", "refused"}]
         /\ \A d \in Conn : setup'[d] # "launched" => setup[d] # "launched"
BY DEF Opens, RouterInv, TypeOK

\* The host accepts a connection.
LEMMA HostAcceptsInv ==
  ASSUME RouterInv, NEW c \in Conn, NEW a \in Address, HostAccepts(c, a) PROVE RouterInv'
<1>1. Opens(c, a) /\ UNCHANGED <<connections, isClosed, wg, traffic, handler, rx, sendVars, stopVars>>
  BY DEF HostAccepts
<1>2. TypeOK'
  BY <1>1, OpensInv DEF RouterInv, TypeOK, sendVars, stopVars
<1>3. NoHandlerAfterStop'
  BY <1>1 DEF RouterInv, NoHandlerAfterStop, Active, stopVars
<1>. QED
  BY <1>1, <1>2, <1>3, OpensInv DEF RouterInv, stopVars

\* registerConnection.
LEMMA RegisterInv ==
  ASSUME RouterInv, NEW c \in Conn, RegisterConnection(c) PROVE RouterInv'
<1>1. /\ setup[c] = "register"
      /\ setup' \in {[setup EXCEPT ![c] = "refused"], [setup EXCEPT ![c] = "launch"]}
      /\ connections' \in {connections, [connections EXCEPT ![remote[c]] = c]}
      /\ UNCHANGED <<isClosed, wg, traffic, remote, open, handler, rx, sendVars, stopVars>>
  BY DEF RegisterConnection
<1>2. TypeOK'
  BY <1>1 DEF RouterInv, TypeOK, sendVars, stopVars
<1>3. NoHandlerAfterStop'
  BY <1>1 DEF RouterInv, NoHandlerAfterStop, Active, stopVars
<1>4. \A d \in Conn : setup'[d] # "launched" => setup[d] # "launched"
  BY <1>1 DEF RouterInv, TypeOK
<1>. QED
  BY <1>1, <1>2, <1>3, <1>4 DEF RouterInv, stopVars

\* launchHandleRoutine: wg counts the new handler.
LEMMA LaunchInv ==
  ASSUME RouterInv, NEW c \in Conn, LaunchHandleRoutine(c) PROVE RouterInv'
<1>1. /\ setup[c] = "launch"
      /\ UNCHANGED <<connections, isClosed, traffic, remote, open, rx, sendVars, stopVars>>
  BY DEF LaunchHandleRoutine
<1>2. CASE isClosed
  <2>1. setup' = [setup EXCEPT ![c] = "refused"] /\ wg' = wg /\ handler' = handler
    BY <1>2 DEF LaunchHandleRoutine, LaunchRefused
  <2>2. TypeOK'
    BY <1>1, <2>1 DEF RouterInv, TypeOK, sendVars, stopVars
  <2>3. NoHandlerAfterStop'
    BY <1>1, <2>1 DEF RouterInv, NoHandlerAfterStop, Active, stopVars
  <2>4. \A d \in Conn : setup'[d] # "launched" => setup[d] # "launched"
    BY <1>1, <2>1 DEF RouterInv, TypeOK
  <2>. QED
    BY <1>1, <2>1, <2>2, <2>3, <2>4 DEF RouterInv, stopVars
<1>3. CASE ~isClosed
  <2>1. /\ setup' = [setup EXCEPT ![c] = "launched"] /\ wg' = wg + 1
        /\ handler' = [handler EXCEPT ![c] = "receive"]
    BY <1>3 DEF LaunchHandleRoutine, LaunchRefused, WgAdd
  <2>2. TypeOK'
    BY <1>1, <2>1 DEF RouterInv, TypeOK, sendVars, stopVars
  <2>3. handler[c] = "none"
    BY <1>1 DEF RouterInv
  <2>4. ~Active(c) /\ Active(c)' /\ \A d \in Conn : d # c => (Active(d)' <=> Active(d))
    BY <2>1, <2>3 DEF RouterInv, TypeOK, Active
  <2>5. Cardinality(Handlers)' = Cardinality(Handlers) + 1
    BY <2>4, HandlerComes
  <2>6. wg' = Cardinality(Handlers)'
    BY <2>1, <2>5 DEF RouterInv, NoHandlerAfterStop, Handlers
  <2>7. stop' # "returned"
    BY <1>1, <1>3 DEF RouterInv, stopVars
  <2>8. NoHandlerAfterStop'
    BY <2>6, <2>7 DEF NoHandlerAfterStop, Handlers
  <2>9. \A d \in Conn : setup'[d] # "launched" => setup[d] # "launched" /\ d # c
    BY <1>1, <2>1 DEF RouterInv, TypeOK
  <2>10. \A d \in Conn : setup'[d] # "launched" => handler'[d] = "none"
    BY <2>1, <2>9 DEF RouterInv, TypeOK
  <2>. QED
    BY <1>1, <2>2, <2>8, <2>10 DEF RouterInv, stopVars
<1>. QED
  BY <1>2, <1>3

\* A step of Send that opens no connection.
LEMMA SendInv ==
  ASSUME RouterInv, NEW s \in Caller,
         \/ ConnectFails(s) \/ SendConnected(s) \/ SendSent(s) \/ SendFails(s)
         \/ \E a \in Address : SendStart(s, a)
  PROVE  RouterInv'
<1>1. UNCHANGED <<connections, isClosed, wg, traffic, connVars, stopVars>>
  BY DEF ConnectFails, SendConnected, SendSent, SendFails, SendStart
<1>2. /\ pc' \in [Caller -> {"idle", "connect", "wait", "send"}]
      /\ to' \in [Caller -> Address \cup {None}]
      /\ conn' \in [Caller -> Conn \cup {None}]
      /\ again' \in [Caller -> BOOLEAN]
      /\ sends' \in [Caller -> 0..MaxSends]
  <2>1. CASE ConnectFails(s) \/ SendConnected(s) \/ SendSent(s) \/ SendFails(s)
    <3>1. /\ to' = to /\ conn' = conn /\ sends' = sends
          /\ again' \in {again, [again EXCEPT ![s] = TRUE]}
          /\ \E p \in {"idle", "connect", "send"} : pc' = [pc EXCEPT ![s] = p]
      BY <2>1 DEF ConnectFails, SendConnected, SendSent, SendFails, SendReturns
    <3>2. pc' \in [Caller -> {"idle", "connect", "wait", "send"}]
      BY <3>1 DEF RouterInv, TypeOK
    <3>3. again' \in [Caller -> BOOLEAN]
      BY <3>1 DEF RouterInv, TypeOK
    <3>. QED
      BY <3>1, <3>2, <3>3 DEF RouterInv, TypeOK
  <2>2. ASSUME NEW a \in Address, SendStart(s, a)
        PROVE  /\ pc' \in [Caller -> {"idle", "connect", "wait", "send"}]
               /\ to' \in [Caller -> Address \cup {None}]
               /\ conn' \in [Caller -> Conn \cup {None}]
               /\ again' \in [Caller -> BOOLEAN]
               /\ sends' \in [Caller -> 0..MaxSends]
    <3>1. sends[s] + 1 \in 0..MaxSends
      BY <2>2, NetRouterAssumption DEF SendStart, RouterInv, TypeOK
    <3>. QED
      BY <2>2, <3>1 DEF SendStart, RouterInv, TypeOK
  <2>. QED
    BY <2>1, <2>2
<1>3. TypeOK'
  BY <1>1, <1>2 DEF RouterInv, TypeOK, connVars, stopVars
<1>4. NoHandlerAfterStop'
  BY <1>1 DEF RouterInv, NoHandlerAfterStop, Active, connVars, stopVars
<1>. QED
  BY <1>1, <1>3, <1>4 DEF RouterInv, connVars, stopVars

\* Send opens a connection.
LEMMA SendConnectsInv ==
  ASSUME RouterInv, NEW s \in Caller, NEW c \in Conn, SendConnects(s, c) PROVE RouterInv'
<1>1. /\ Opens(c, to[s]) /\ conn' = [conn EXCEPT ![s] = c] /\ pc' = [pc EXCEPT ![s] = "wait"]
      /\ UNCHANGED <<connections, isClosed, wg, traffic, handler, rx, to, again, sends, stopVars>>
      /\ to[s] \in Address \cup {None}
  BY DEF SendConnects, RouterInv, TypeOK
<1>2. TypeOK'
  BY <1>1, OpensInv DEF RouterInv, TypeOK, stopVars
<1>3. NoHandlerAfterStop'
  BY <1>1 DEF RouterInv, NoHandlerAfterStop, Active, stopVars
<1>. QED
  BY <1>1, <1>2, <1>3, OpensInv DEF RouterInv, stopVars

-----------------------------------------------------------------------------
(***************************************************************************)
(* handleConn, Stop and the peer.                                          *)
(***************************************************************************)

\* A handler that moves has been launched.
LEMMA MovesInv ==
  ASSUME RouterInv, NEW c \in Conn, NEW from, NEW next, Moves(c, from, next),
         from # "none",
         next \in {"receive", "check", "dispatch", "process", "closing", "done", "remove",
                   "returned"}
  PROVE  /\ handler' \in [Conn -> {"none", "receive", "check", "dispatch", "process",
                                   "closing", "done", "remove", "returned"}]
         /\ \A d \in Conn : d # c => (Active(d)' <=> Active(d))
         /\ setup' = setup => \A d \in Conn : setup'[d] # "launched" => handler'[d] = "none"
BY DEF Moves, RouterInv, TypeOK, Active

\* A step of a handler before its end.
LEMMA HandlerInv ==
  ASSUME RouterInv, NEW c \in Conn,
         \/ HandlerReceives(c) \/ HandlerFails(c) \/ HandlerChecks(c)
         \/ HandlerDispatches(c) \/ HandlerProcessed(c) \/ HandlerCloses(c)
  PROVE  RouterInv'
<1>1. /\ UNCHANGED <<connections, isClosed, wg, remote, setup, sendVars, stopVars>>
      /\ traffic' \in {traffic, traffic + rx[c]}
      /\ open' \in {open, [open EXCEPT ![c] = FALSE]}
      /\ rx' = rx \/ (rx[c] < MaxRx /\ rx' = [rx EXCEPT ![c] = @ + 1])
  <2>1. CASE HandlerReceives(c)
    BY <2>1 DEF HandlerReceives
  <2>2. CASE HandlerFails(c) \/ HandlerChecks(c) \/ HandlerDispatches(c) \/ HandlerProcessed(c)
    BY <2>2 DEF HandlerFails, HandlerChecks, HandlerDispatches, HandlerProcessed
  <2>3. CASE HandlerCloses(c)
    BY <2>3 DEF HandlerCloses, Keep
  <2>. QED
    BY <2>1, <2>2, <2>3
<1>2. \E from \in {"receive", "check", "dispatch", "process", "closing"},
         next \in {"receive", "check", "dispatch", "process", "closing", "done"} :
           Moves(c, from, next)
  BY DEF HandlerReceives, HandlerFails, HandlerChecks, HandlerDispatches, HandlerProcessed,
         HandlerCloses
<1>3. /\ handler' \in [Conn -> {"none", "receive", "check", "dispatch", "process",
                                "closing", "done", "remove", "returned"}]
      /\ \A d \in Conn : setup'[d] # "launched" => handler'[d] = "none"
      /\ \A d \in Conn : Active(d)' <=> Active(d)
  <2>1. PICK from \in {"receive", "check", "dispatch", "process", "closing"},
             next \in {"receive", "check", "dispatch", "process", "closing", "done"} :
               Moves(c, from, next)
    BY <1>2
  <2>2. Active(c)' <=> Active(c)
    BY <2>1 DEF Moves, Active, RouterInv, TypeOK
  <2>. QED
    BY <2>1, <2>2, <1>1, MovesInv
<1>4. rx' \in [Conn -> 0..MaxRx] /\ traffic' \in Nat /\ open' \in [Conn -> BOOLEAN]
  <2>1. rx[c] \in Nat /\ (rx[c] < MaxRx => rx[c] + 1 \in 0..MaxRx)
    BY NetRouterAssumption DEF RouterInv, TypeOK
  <2>2. traffic' \in Nat
    BY <1>1, <2>1 DEF RouterInv, TypeOK
  <2>3. rx' \in [Conn -> 0..MaxRx]
    BY <1>1, <2>1 DEF RouterInv, TypeOK
  <2>4. open' \in [Conn -> BOOLEAN]
    BY <1>1 DEF RouterInv, TypeOK
  <2>. QED
    BY <2>2, <2>3, <2>4
<1>5. TypeOK'
  BY <1>1, <1>3, <1>4 DEF RouterInv, TypeOK, sendVars, stopVars
<1>6. NoHandlerAfterStop'
  BY <1>1, <1>3, HandlersStay DEF RouterInv, NoHandlerAfterStop, Handlers, stopVars
<1>. QED
  BY <1>1, <1>3, <1>5, <1>6 DEF RouterInv, stopVars

\* wg.Done.
LEMMA HandlerDoneInv ==
  ASSUME RouterInv, NEW c \in Conn, HandlerDone(c) PROVE RouterInv'
<1>1. /\ Moves(c, "done", "remove") /\ wg' = wg - 1
      /\ UNCHANGED <<connections, isClosed, traffic, remote, open, setup, rx, sendVars, stopVars>>
  BY DEF HandlerDone
<1>2. /\ handler' \in [Conn -> {"none", "receive", "check", "dispatch", "process",
                                "closing", "done", "remove", "returned"}]
      /\ \A d \in Conn : setup'[d] # "launched" => handler'[d] = "none"
      /\ \A d \in Conn : d # c => (Active(d)' <=> Active(d))
  BY <1>1, MovesInv
<1>3. Active(c) /\ ~Active(c)'
  BY <1>1 DEF Moves, Active, RouterInv, TypeOK
<1>4. /\ Cardinality(Handlers) \in Nat \ {0}
      /\ Cardinality(Handlers)' = Cardinality(Handlers) - 1
  BY <1>2, <1>3, HandlerGoesAway
<1>5. wg' = Cardinality(Handlers)' /\ wg' \in Nat
  BY <1>1, <1>4 DEF RouterInv, NoHandlerAfterStop, Handlers
<1>6. TypeOK'
  BY <1>1, <1>2, <1>5 DEF RouterInv, TypeOK, sendVars, stopVars
<1>7. stop' # "returned"
  BY <1>1, <1>3 DEF RouterInv, NoHandlerAfterStop, stopVars
<1>8. NoHandlerAfterStop'
  BY <1>5, <1>7 DEF NoHandlerAfterStop, Handlers
<1>. QED
  BY <1>1, <1>2, <1>6, <1>8 DEF RouterInv, stopVars

\* removeConnection.
LEMMA RemoveInv ==
  ASSUME RouterInv, NEW c \in Conn, RemoveConnection(c) PROVE RouterInv'
<1>1. /\ Moves(c, "remove", "returned")
      /\ connections' = [connections EXCEPT ![remote[c]] = None]
      /\ UNCHANGED <<isClosed, wg, traffic, remote, open, setup, rx, sendVars, stopVars>>
  BY DEF RemoveConnection
<1>2. /\ handler' \in [Conn -> {"none", "receive", "check", "dispatch", "process",
                                "closing", "done", "remove", "returned"}]
      /\ \A d \in Conn : setup'[d] # "launched" => handler'[d] = "none"
      /\ \A d \in Conn : d # c => (Active(d)' <=> Active(d))
  BY <1>1, MovesInv
<1>3. Active(c)' <=> Active(c)
  BY <1>1 DEF Moves, Active, RouterInv, TypeOK
<1>4. TypeOK'
  BY <1>1, <1>2 DEF RouterInv, TypeOK, sendVars, stopVars
<1>5. NoHandlerAfterStop'
  BY <1>1, <1>2, <1>3, HandlersStay DEF RouterInv, NoHandlerAfterStop, Handlers, stopVars
<1>. QED
  BY <1>1, <1>2, <1>4, <1>5 DEF RouterInv, stopVars

\* The peer closes a connection.
LEMMA PeerClosesInv ==
  ASSUME RouterInv, NEW c \in Conn, PeerCloses(c) PROVE RouterInv'
<1>1. /\ open' = [open EXCEPT ![c] = FALSE]
      /\ UNCHANGED <<connections, isClosed, wg, traffic, remote, setup, handler, rx,
                     sendVars, stopVars>>
  BY DEF PeerCloses
<1>2. TypeOK'
  BY <1>1 DEF RouterInv, TypeOK, sendVars, stopVars
<1>3. NoHandlerAfterStop'
  BY <1>1 DEF RouterInv, NoHandlerAfterStop, Active, stopVars
<1>. QED
  BY <1>1, <1>2, <1>3 DEF RouterInv, stopVars

\* Stop: it returns when wg is 0, that is, when there is no handler.
LEMMA StopsInv == ASSUME RouterInv, Stops PROVE RouterInv'
<1>1. UNCHANGED <<connections, wg, traffic, remote, setup, handler, rx, sendVars>>
  BY DEF Stops, StopHost, StopConnections, StopReturn, connVars
<1>2. TypeOK'
  <2>1. open' \in [Conn -> BOOLEAN]
    BY DEF Stops, StopHost, StopConnections, StopReturn, connVars, RouterInv, TypeOK
  <2>2. isClosed' \in BOOLEAN /\ listening' \in BOOLEAN
    BY DEF Stops, StopHost, StopConnections, StopReturn, RouterInv, TypeOK
  <2>3. stop' \in {"no", "host", "wait", "returned"}
    BY DEF Stops, StopHost, StopConnections, StopReturn
  <2>. QED
    BY <1>1, <2>1, <2>2, <2>3 DEF sendVars, RouterInv, TypeOK
<1>3. isClosed' <=> stop' \in {"wait", "returned"}
  BY DEF Stops, StopHost, StopConnections, StopReturn, RouterInv
<1>4. \A c \in Conn : Active(c)' <=> Active(c)
  BY <1>1 DEF Active
<1>5. stop' = "returned" => \A c \in Conn : ~Active(c)
  <2>1. CASE StopReturn
    <3>1. Cardinality(Handlers) = 0
      BY <2>1 DEF StopReturn, RouterInv, NoHandlerAfterStop, Handlers
    <3>2. Handlers = {}
      BY <3>1, HandlersFinite, FS_EmptySet
    <3>. QED
      BY <3>2 DEF Handlers
  <2>2. CASE StopHost \/ StopConnections
    BY <2>2 DEF StopHost, StopConnections
  <2>. QED
    BY <2>1, <2>2 DEF Stops
<1>6. NoHandlerAfterStop'
  BY <1>1, <1>4, <1>5, HandlersStay DEF RouterInv, NoHandlerAfterStop, Handlers
<1>. QED
  BY <1>1, <1>2, <1>3, <1>6 DEF RouterInv

-----------------------------------------------------------------------------
(***************************************************************************)
(* The sum of a function over a finite set.                                *)
(***************************************************************************)

\* The element that the sum of a set begins with.
Pick(T) == CHOOSE x \in T : TRUE

\* h is the function that MapThenFoldSet defines to add the values of f.
Sums(f, S, h) ==
  h = [T \in SUBSET S |-> IF T = {} THEN 0 ELSE f[Pick(T)] + h[T \ {Pick(T)}]]

\* The definition of SumFunction.
LEMMA SumIsFold ==
  ASSUME NEW f PROVE SumFunction(f) = (CHOOSE h : Sums(f, DOMAIN f, h))[DOMAIN f]
BY DEF Sums, SumFunction, SumFunctionOnSet, FoldFunctionOnSet, MapThenFoldSet, Pick

\* A set of natural numbers has a least element.
LEMMA Least == ASSUME NEW B, B \subseteq Nat, B # {} PROVE \E n \in B : \A m \in B : n <= m
<1>1. PICK R : R = {ss \in Nat \X Nat : ss[1] < ss[2]}
  OBVIOUS
<1>2. IsWellFoundedOn(R, Nat)
  BY <1>1, NatLessThanWellFounded DEF OpToRel
<1>3. PICK x \in B : \A y \in B : ~ (<<y, x>> \in R)
  BY <1>2, WFMin
<1>4. \A y \in B : ~(y < x)
  BY <1>1, <1>3
<1>. QED
  BY <1>4

\* One element less.
LEMMA PickFacts ==
  ASSUME NEW S, IsFiniteSet(S), NEW T \in SUBSET S
  PROVE  /\ Cardinality(T) \in Nat /\ Cardinality(T) <= Cardinality(S)
         /\ Cardinality(T) = 0 <=> T = {}
         /\ T # {} => \E x \in T : /\ x = Pick(T) /\ x \in S /\ T \ {x} \in SUBSET S
                                   /\ Cardinality(T \ {x}) = Cardinality(T) - 1
<1>1. IsFiniteSet(T) /\ Cardinality(T) <= Cardinality(S)
  BY FS_Subset
<1>2. Cardinality(T) \in Nat /\ (Cardinality(T) = 0 <=> T = {})
  BY <1>1, FS_CardinalityType, FS_EmptySet
<1>3. T # {} => Pick(T) \in T
  BY DEF Pick
<1>4. ASSUME T # {} PROVE \E x \in T : /\ x = Pick(T) /\ x \in S /\ T \ {x} \in SUBSET S
                                       /\ Cardinality(T \ {x}) = Cardinality(T) - 1
  <2>1. PICK x \in T : x = Pick(T)
    BY <1>3, <1>4
  <2>2. Cardinality(T \ {x}) = Cardinality(T) - 1
    BY <1>1, FS_RemoveElement
  <2>. QED
    BY <2>1, <2>2
<1>. QED
  BY <1>1, <1>2, <1>4

\* Induction over the subsets of a finite set.
LEMMA PickInduction ==
  ASSUME NEW S, IsFiniteSet(S), NEW G, {} \in G,
         \A T \in SUBSET S : T # {} /\ T \ {Pick(T)} \in G => T \in G
  PROVE  SUBSET S \subseteq G
<1>. SUFFICES ASSUME NEW T0 \in SUBSET S, T0 \notin G PROVE FALSE
  OBVIOUS
<1>. DEFINE B == {n \in Nat : \E T \in SUBSET S : T \notin G /\ Cardinality(T) = n}
<1>1. B # {} /\ B \subseteq Nat
  BY PickFacts
<1>2. PICK n \in B : \A m \in B : n <= m
  BY <1>1, Least
<1>3. PICK T \in SUBSET S : T \notin G /\ Cardinality(T) = n
  BY <1>2
<1>4. T # {}
  BY <1>3
<1>5. PICK x \in T : /\ x = Pick(T) /\ T \ {x} \in SUBSET S
                     /\ Cardinality(T \ {x}) = Cardinality(T) - 1
  BY <1>4, PickFacts
<1>6. T \ {x} \notin G
  BY <1>3, <1>4, <1>5
<1>7. Cardinality(T \ {x}) \in Nat /\ n \in Nat
  BY <1>5, PickFacts
<1>8. Cardinality(T \ {x}) \in B
  BY <1>5, <1>6, <1>7
<1>9. ~(n <= Cardinality(T \ {x}))
  BY <1>3, <1>5, <1>7
<1>. QED
  BY <1>2, <1>8, <1>9

\* The recursion that a sum is defined by, on the sets of at most n elements.
Small(S, n) == {T \in SUBSET S : Cardinality(T) <= n}

Part(f, S, n, h) ==
  /\ h \in [Small(S, n) -> Nat]
  /\ \A T \in Small(S, n) : h[T] = IF T = {} THEN 0 ELSE f[Pick(T)] + h[T \ {Pick(T)}]

\* Sets of at most n elements.
LEMMA SmallFacts ==
  ASSUME NEW S, IsFiniteSet(S), NEW n \in Nat
  PROVE  /\ \A T \in Small(S, 0) : T = {}
         /\ Small(S, n) \subseteq Small(S, n + 1)
         /\ Small(S, Cardinality(S)) = SUBSET S
         /\ \A T \in Small(S, n + 1) : T # {} => Pick(T) \in S /\ T \ {Pick(T)} \in Small(S, n)
<1>1. \A T \in SUBSET S : Cardinality(T) \in Nat /\ Cardinality(T) <= Cardinality(S)
  BY PickFacts
<1>2. \A T \in SUBSET S : Cardinality(T) = 0 => T = {}
  BY PickFacts
<1>3. ASSUME NEW T \in Small(S, n + 1), T # {}
      PROVE  Pick(T) \in S /\ T \ {Pick(T)} \in Small(S, n)
  <2>1. T \in SUBSET S /\ Cardinality(T) \in Nat /\ Cardinality(T) <= n + 1
    BY <1>1 DEF Small
  <2>2. PICK x \in T : /\ x = Pick(T) /\ x \in S /\ T \ {x} \in SUBSET S
                       /\ Cardinality(T \ {x}) = Cardinality(T) - 1
    BY <1>3, <2>1, PickFacts
  <2>3. T \ {x} \in Small(S, n)
    BY <2>1, <2>2 DEF Small
  <2>. QED
    BY <2>2, <2>3
<1>4. \A T \in Small(S, 0) : T = {}
  BY <1>1, <1>2 DEF Small
<1>5. Small(S, n) \subseteq Small(S, n + 1)
  BY <1>1 DEF Small
<1>6. Small(S, Cardinality(S)) = SUBSET S
  BY <1>1 DEF Small
<1>. QED
  BY <1>3, <1>4, <1>5, <1>6

\* The sums of a function with finite domain exist.
LEMMA SumsExist ==
  ASSUME NEW S, IsFiniteSet(S), NEW f \in [S -> Nat]
  PROVE  \E h \in [SUBSET S -> Nat] : Sums(f, S, h)
<1>1. \E h : Part(f, S, 0, h)
  <2>1. PICK h : h = [T \in Small(S, 0) |-> 0]
    OBVIOUS
  <2>2. Part(f, S, 0, h)
    BY <2>1, SmallFacts DEF Part
  <2>. QED
    BY <2>2
<1>2. ASSUME NEW n \in Nat, NEW h, Part(f, S, n, h) PROVE \E g : Part(f, S, n + 1, g)
  <2>1. PICK g : g = [T \in Small(S, n + 1) |->
                       IF T = {} THEN 0 ELSE f[Pick(T)] + h[T \ {Pick(T)}]]
    OBVIOUS
  <2>2. \A T \in Small(S, n + 1) : T # {} => Pick(T) \in S /\ T \ {Pick(T)} \in Small(S, n)
    BY SmallFacts
  <2>3. Small(S, n) \subseteq Small(S, n + 1)
    BY SmallFacts
  <2>4. \A T \in Small(S, n + 1) : T # {} => f[Pick(T)] \in Nat /\ h[T \ {Pick(T)}] \in Nat
    BY <1>2, <2>2 DEF Part
  <2>5. g \in [Small(S, n + 1) -> Nat]
    BY <2>1, <2>4
  <2>6. \A T \in Small(S, n) : g[T] = h[T]
    BY <1>2, <2>1, <2>3 DEF Part
  <2>7. ASSUME NEW T \in Small(S, n + 1), T # {} PROVE g[T] = f[Pick(T)] + g[T \ {Pick(T)}]
    BY <2>1, <2>2, <2>6, <2>7
  <2>8. {} \in Small(S, n + 1) => g[{}] = 0
    BY <2>1
  <2>9. Part(f, S, n + 1, g)
    BY <2>5, <2>7, <2>8 DEF Part
  <2>. QED
    BY <2>9
<1>3. PICK B : B = {n \in Nat : ~\E h : Part(f, S, n, h)}
  OBVIOUS
<1>4. B = {}
  <2>. SUFFICES ASSUME B # {} PROVE FALSE
    OBVIOUS
  <2>1. PICK n \in B : \A m \in B : n <= m
    BY <1>3, Least
  <2>2. n \in Nat /\ ~\E h : Part(f, S, n, h)
    BY <1>3
  <2>3. n # 0
    BY <1>1, <2>2
  <2>4. PICK m \in Nat : n = m + 1
    <3>1. n - 1 \in Nat /\ n = (n - 1) + 1
      BY <2>2, <2>3
    <3>. QED
      BY <3>1
  <2>5. m \notin B
    BY <2>1, <2>4
  <2>. QED
    BY <1>2, <1>3, <2>2, <2>4, <2>5
<1>5. PICK n \in Nat : n = Cardinality(S)
  BY FS_CardinalityType
<1>6. PICK h : Part(f, S, n, h)
  BY <1>3, <1>4
<1>7. Small(S, n) = SUBSET S
  BY <1>5, SmallFacts
<1>8. /\ h \in [SUBSET S -> Nat]
      /\ \A T \in SUBSET S : h[T] = IF T = {} THEN 0 ELSE f[Pick(T)] + h[T \ {Pick(T)}]
  BY <1>6, <1>7 DEF Part
<1>9. Sums(f, S, h)
  BY <1>8 DEF Sums
<1>. QED
  BY <1>8, <1>9

\* h has the sums of f over the subsets of S.
Adds(f, S, h) ==
  /\ SumFunction(f) = h[S]
  /\ h[{}] = 0
  /\ \A T \in SUBSET S : h[T] \in Nat
  /\ \A T \in SUBSET S : T # {} => h[T] = f[Pick(T)] + h[T \ {Pick(T)}]

\* What SumFunction computes.
LEMMA SumFacts ==
  ASSUME NEW S, IsFiniteSet(S), NEW f \in [S -> Nat] PROVE \E h : Adds(f, S, h)
<1>1. PICK h : h = CHOOSE g : Sums(f, S, g)
  OBVIOUS
<1>2. Sums(f, S, h)
  BY <1>1, SumsExist
<1>3. DOMAIN f = S
  OBVIOUS
<1>4. SumFunction(f) = h[S]
  BY <1>1, <1>3, SumIsFold
<1>5. h[{}] = 0 /\ \A T \in SUBSET S : T # {} => h[T] = f[Pick(T)] + h[T \ {Pick(T)}]
  BY <1>2 DEF Sums
<1>6. \A T \in SUBSET S : T # {} => Pick(T) \in S
  BY DEF Pick
<1>7. PICK G : G = {T \in SUBSET S : h[T] \in Nat}
  OBVIOUS
<1>8. \A T \in SUBSET S : T # {} /\ T \ {Pick(T)} \in G => T \in G
  BY <1>5, <1>6, <1>7
<1>9. SUBSET S \subseteq G
  BY <1>5, <1>7, <1>8, PickInduction
<1>10. Adds(f, S, h)
  BY <1>4, <1>5, <1>7, <1>9 DEF Adds
<1>. QED
  BY <1>10

\* Nothing to add.
LEMMA SumZero ==
  ASSUME NEW S, IsFiniteSet(S), NEW f \in [S -> Nat], \A x \in S : f[x] = 0
  PROVE  SumFunction(f) = 0
<1>1. PICK h : Adds(f, S, h)
  BY SumFacts
<1>2. \A T \in SUBSET S : T # {} => Pick(T) \in S
  BY DEF Pick
<1>3. PICK G : G = {T \in SUBSET S : h[T] = 0}
  OBVIOUS
<1>4. ASSUME NEW T \in SUBSET S, T # {}, T \ {Pick(T)} \in G PROVE T \in G
  <2>1. f[Pick(T)] = 0 /\ h[T \ {Pick(T)}] = 0
    BY <1>2, <1>3, <1>4
  <2>2. h[T] = f[Pick(T)] + h[T \ {Pick(T)}]
    BY <1>1, <1>4 DEF Adds
  <2>. QED
    BY <2>1, <2>2, <1>3
<1>5. {} \in G
  BY <1>1, <1>3 DEF Adds
<1>6. SUBSET S \subseteq G
  BY <1>4, <1>5, PickInduction
<1>7. h[S] = 0
  BY <1>3, <1>6
<1>. QED
  BY <1>1, <1>7 DEF Adds

\* One value grows.
LEMMA SumAdds ==
  ASSUME NEW S, IsFiniteSet(S), NEW f \in [S -> Nat], NEW g \in [S -> Nat],
         NEW c \in S, NEW k \in Nat, g[c] = f[c] + k, \A x \in S : x # c => g[x] = f[x]
  PROVE  SumFunction(g) = SumFunction(f) + k
<1>1. PICK hf : Adds(f, S, hf)
  BY SumFacts
<1>2. PICK hg : Adds(g, S, hg)
  BY SumFacts
<1>3. PICK G : G = {T \in SUBSET S : hg[T] = IF c \in T THEN hf[T] + k ELSE hf[T]}
  OBVIOUS
<1>4. ASSUME NEW T \in SUBSET S, T # {}, T \ {Pick(T)} \in G PROVE T \in G
  <2>1. PICK x \in T : x = Pick(T) /\ x \in S
    BY <1>4, PickFacts
  <2>2. PICK U \in SUBSET S : U = T \ {x}
    OBVIOUS
  <2>3. /\ hf[T] = f[x] + hf[U] /\ hg[T] = g[x] + hg[U]
        /\ hf[U] \in Nat /\ hg[U] \in Nat /\ f[x] \in Nat /\ g[x] \in Nat
    BY <1>1, <1>2, <1>4, <2>1, <2>2 DEF Adds
  <2>4. hg[U] = IF c \in U THEN hf[U] + k ELSE hf[U]
    BY <1>3, <1>4, <2>1, <2>2
  <2>5. CASE x = c
    BY <2>1, <2>2, <2>3, <2>4, <2>5, <1>3
  <2>6. CASE x # c
    <3>1. c \in T <=> c \in U
      BY <2>2, <2>6
    <3>. QED
      BY <2>3, <2>4, <2>6, <3>1, <1>3
  <2>. QED
    BY <2>5, <2>6
<1>5. {} \in G
  BY <1>1, <1>2, <1>3 DEF Adds
<1>6. SUBSET S \subseteq G
  BY <1>4, <1>5, PickInduction
<1>7. hg[S] = hf[S] + k
  BY <1>3, <1>6
<1>. QED
  BY <1>1, <1>2, <1>7 DEF Adds

-----------------------------------------------------------------------------
(***************************************************************************)
(* The traffic.                                                            *)
(***************************************************************************)

\* handleConn has added what the connection has received to Router.traffic.
Kept(c) == handler[c] \in {"done", "remove", "returned"}

KeptRx == [c \in Conn |-> IF Kept(c) THEN rx[c] ELSE 0]

\* traffic has what ended connections have received; nothing is received without a
\* handler; who is registered, under its own address, has a handler that has not
\* returned, or none yet.
RestInv ==
  /\ traffic = SumFunction(KeptRx)
  /\ \A c \in Conn : handler[c] = "none" => rx[c] = 0
  /\ \A a \in Address, c \in Conn : connections[a] = c =>
       remote[c] = a /\ handler[c] # "returned" /\ setup[c] # "unused"

\* RxAtRest, from the invariant.
LEMMA RestRx == RouterInv /\ RestInv => RxAtRest
<1>. SUFFICES ASSUME RouterInv, RestInv, \A c \in Conn : handler[c] \in {"none", "returned"}
              PROVE  Rx = SumFunction(rx)
  BY DEF RxAtRest
<1>1. KeptRx = rx
  <2>1. \A c \in Conn : rx[c] = IF Kept(c) THEN rx[c] ELSE 0
    BY DEF RestInv, Kept
  <2>2. rx = [c \in Conn |-> rx[c]]
    BY DEF RouterInv, TypeOK
  <2>. QED
    BY <2>1, <2>2 DEF KeptRx
<1>2. \A a \in Address : RegisteredRx[a] = 0
  <2>1. ASSUME NEW a \in Address, connections[a] # None PROVE rx[connections[a]] = 0
    <3>1. PICK c \in Conn : connections[a] = c
      BY <2>1 DEF RouterInv, TypeOK
    <3>. QED
      BY <3>1 DEF RestInv
  <2>. QED
    BY <2>1 DEF RegisteredRx
<1>3. SumFunction(RegisteredRx) = 0
  <2>1. RegisteredRx \in [Address -> Nat]
    <3>1. RegisteredRx = [a \in Address |-> RegisteredRx[a]]
      BY DEF RegisteredRx
    <3>. QED
      BY <3>1, <1>2
  <2>. QED
    BY <2>1, <1>2, NetRouterAssumption, SumZero
<1>4. Rx = 0 + traffic /\ traffic \in Nat
  BY <1>3 DEF Rx, RouterInv, TypeOK
<1>. QED
  BY <1>1, <1>4 DEF RestInv

\* No traffic at first.
LEMMA RestInit == Init => RestInv
<1>. SUFFICES ASSUME Init PROVE RestInv
  OBVIOUS
<1>1. KeptRx \in [Conn -> Nat] /\ \A c \in Conn : KeptRx[c] = 0
  BY DEF Init, KeptRx
<1>2. SumFunction(KeptRx) = 0
  BY <1>1, NetRouterAssumption, SumZero
<1>. QED
  BY <1>2, NetRouterAssumption DEF Init, RestInv

\* A step that keeps, registers and receives nothing.
LEMMA QuietRest ==
  ASSUME RestInv, UNCHANGED <<connections, traffic, rx>>,
         \A c \in Conn : /\ Kept(c)' <=> Kept(c)
                         /\ handler'[c] = "none" => handler[c] = "none"
                         /\ handler'[c] = "returned" => handler[c] = "returned"
                         /\ setup'[c] = "unused" => setup[c] = "unused"
                         /\ setup[c] # "unused" => remote'[c] = remote[c]
  PROVE  RestInv'
<1>1. KeptRx' = KeptRx
  <2>1. \A c \in Conn : (IF Kept(c)' THEN rx'[c] ELSE 0) = (IF Kept(c) THEN rx[c] ELSE 0)
    OBVIOUS
  <2>. QED
    BY <2>1 DEF KeptRx
<1>2. traffic' = SumFunction(KeptRx)'
  BY <1>1 DEF RestInv
<1>3. \A c \in Conn : handler'[c] = "none" => rx'[c] = 0
  BY DEF RestInv
<1>4. ASSUME NEW a \in Address, NEW c \in Conn, connections'[a] = c
      PROVE  remote'[c] = a /\ handler'[c] # "returned" /\ setup'[c] # "unused"
  BY <1>4 DEF RestInv
<1>. QED
  BY <1>2, <1>3, <1>4 DEF RestInv

\* A new connection.
LEMMA OpensRest ==
  ASSUME RouterInv, RestInv, NEW c \in Conn, NEW a, Opens(c, a),
         UNCHANGED <<connections, traffic, rx, handler>>
  PROVE  RestInv'
<1>1. /\ \A d \in Conn : setup'[d] = "unused" => setup[d] = "unused"
      /\ \A d \in Conn : setup[d] # "unused" => remote'[d] = remote[d]
      /\ \A d \in Conn : Kept(d)' <=> Kept(d)
  BY DEF Opens, RouterInv, TypeOK, Kept
<1>. QED
  BY <1>1, QuietRest

\* registerConnection and launchHandleRoutine.
LEMMA SetUpRest ==
  ASSUME RouterInv, RestInv, NEW c \in Conn, SetUp(c)
  PROVE  RestInv'
<1>1. CASE RegisterConnection(c)
  <2>1. /\ UNCHANGED <<traffic, rx, handler, remote>>
        /\ setup[c] = "register"
        /\ setup' \in {[setup EXCEPT ![c] = "refused"], [setup EXCEPT ![c] = "launch"]}
        /\ connections' \in {connections, [connections EXCEPT ![remote[c]] = c]}
    BY <1>1 DEF RegisterConnection
  <2>2. \A d \in Conn : setup'[d] = "unused" => setup[d] = "unused" /\ d # c
    BY <2>1 DEF RouterInv, TypeOK
  <2>3. handler[c] = "none"
    BY <2>1 DEF RouterInv
  <2>4. KeptRx' = KeptRx
    BY <2>1 DEF KeptRx, Kept
  <2>5. ASSUME NEW a \in Address, NEW d \in Conn, connections'[a] = d
        PROVE  connections[a] = d \/ (d = c /\ remote[c] = a)
    BY <2>1, <2>5 DEF RouterInv, TypeOK
  <2>6. ASSUME NEW a \in Address, NEW d \in Conn, connections'[a] = d
        PROVE  remote'[d] = a /\ handler'[d] # "returned" /\ setup'[d] # "unused"
    <3>1. CASE connections[a] = d
      BY <3>1, <2>1, <2>2 DEF RestInv
    <3>2. CASE d = c /\ remote[c] = a
      BY <3>2, <2>1, <2>2, <2>3
    <3>. QED
      BY <3>1, <3>2, <2>5, <2>6
  <2>. QED
    BY <2>1, <2>4, <2>6 DEF RestInv
<1>2. CASE LaunchHandleRoutine(c)
  <2>1. /\ UNCHANGED <<connections, traffic, rx, remote>>
        /\ setup[c] = "launch" /\ handler[c] = "none"
        /\ setup' \in {[setup EXCEPT ![c] = "refused"], [setup EXCEPT ![c] = "launched"]}
        /\ handler' \in {handler, [handler EXCEPT ![c] = "receive"]}
    BY <1>2 DEF LaunchHandleRoutine, RouterInv
  <2>2. \A d \in Conn : /\ Kept(d)' <=> Kept(d)
                        /\ handler'[d] = "none" => handler[d] = "none"
                        /\ handler'[d] = "returned" => handler[d] = "returned"
    BY <2>1 DEF Kept, RouterInv, TypeOK
  <2>3. \A d \in Conn : setup'[d] = "unused" => setup[d] = "unused"
    BY <2>1 DEF RouterInv, TypeOK
  <2>. QED
    BY <2>1, <2>2, <2>3, QuietRest
<1>. QED
  BY <1>1, <1>2 DEF SetUp

\* handleConn, as long as it does not keep the traffic.
LEMMA HandlerRest ==
  ASSUME RouterInv, RestInv, NEW c \in Conn,
         \/ HandlerReceives(c) \/ HandlerFails(c) \/ HandlerChecks(c)
         \/ HandlerDispatches(c) \/ HandlerProcessed(c) \/ HandlerDone(c)
  PROVE  RestInv'
<1>1. PICK from, next :
        /\ Moves(c, from, next)
        /\ \/ from = "done" /\ next = "remove"
           \/ /\ from \in {"receive", "check", "dispatch", "process"}
              /\ next \in {"receive", "check", "dispatch", "process", "closing"}
  BY DEF HandlerReceives, HandlerFails, HandlerChecks, HandlerDispatches, HandlerProcessed,
         HandlerDone
<1>2. \A d \in Conn : /\ Kept(d)' <=> Kept(d)
                      /\ handler'[d] = "none" => handler[d] = "none"
                      /\ handler'[d] = "returned" => handler[d] = "returned"
  BY <1>1 DEF Moves, Kept, RouterInv, TypeOK
<1>3. UNCHANGED <<connections, traffic, remote, setup>>
  BY DEF HandlerReceives, HandlerFails, HandlerChecks, HandlerDispatches, HandlerProcessed,
         HandlerDone
<1>4. CASE rx' = rx
  BY <1>2, <1>3, <1>4, QuietRest
<1>5. CASE HandlerReceives(c)
  <2>1. handler[c] = "receive" /\ rx' = [rx EXCEPT ![c] = @ + 1]
    BY <1>5 DEF HandlerReceives, Moves
  <2>2. ~Kept(c)
    BY <2>1 DEF Kept
  <2>3. \A d \in Conn : d # c => rx'[d] = rx[d]
    BY <2>1 DEF RouterInv, TypeOK
  <2>4. KeptRx' = KeptRx
    <3>1. \A d \in Conn : (IF Kept(d)' THEN rx'[d] ELSE 0) = (IF Kept(d) THEN rx[d] ELSE 0)
      BY <2>2, <2>3, <1>2
    <3>. QED
      BY <3>1 DEF KeptRx
  <2>5. \A d \in Conn : handler'[d] = "none" => rx'[d] = 0
    BY <2>1, <2>3, <1>2 DEF RestInv
  <2>. QED
    BY <2>4, <2>5, <1>2, <1>3 DEF RestInv
<1>. QED
  BY <1>4, <1>5 DEF HandlerFails, HandlerChecks, HandlerDispatches, HandlerProcessed, HandlerDone

\* The deferred function keeps the traffic...
LEMMA ClosesRest ==
  ASSUME RouterInv, RestInv, NEW c \in Conn, HandlerCloses(c)
  PROVE  RestInv'
<1>1. /\ handler[c] = "closing" /\ handler' = [handler EXCEPT ![c] = "done"]
      /\ traffic' = traffic + rx[c]
      /\ UNCHANGED <<connections, remote, setup, rx>>
  BY DEF HandlerCloses, Moves, Keep
<1>2. /\ ~Kept(c) /\ Kept(c)'
      /\ \A d \in Conn : d # c => (Kept(d)' <=> Kept(d))
      /\ \A d \in Conn : handler'[d] = "none" => handler[d] = "none"
      /\ \A d \in Conn : handler'[d] = "returned" => handler[d] = "returned"
  BY <1>1 DEF Kept, RouterInv, TypeOK
<1>3. \A d \in Conn : rx[d] \in Nat
  BY NetRouterAssumption DEF RouterInv, TypeOK
<1>4. PICK f \in [Conn -> Nat] : f = KeptRx
  BY <1>3 DEF KeptRx
<1>5. PICK g \in [Conn -> Nat] : g = KeptRx'
  BY <1>1, <1>3 DEF KeptRx
<1>6. g[c] = f[c] + rx[c] /\ \A d \in Conn : d # c => g[d] = f[d]
  BY <1>1, <1>2, <1>3, <1>4, <1>5 DEF KeptRx
<1>7. SumFunction(g) = SumFunction(f) + rx[c]
  BY <1>3, <1>6, NetRouterAssumption, SumAdds
<1>8. traffic' = SumFunction(KeptRx)'
  BY <1>1, <1>4, <1>5, <1>7 DEF RestInv
<1>. QED
  BY <1>1, <1>2, <1>8 DEF RestInv

\* ... and removeConnection forgets the connection, if it is the registered one.
LEMMA RemoveRest ==
  ASSUME RouterInv, RestInv, NEW c \in Conn, RemoveConnection(c)
  PROVE  RestInv'
<1>1. /\ handler[c] = "remove" /\ handler' = [handler EXCEPT ![c] = "returned"]
      /\ connections' = [connections EXCEPT ![remote[c]] = None]
      /\ UNCHANGED <<traffic, remote, setup, rx>>
  BY DEF RemoveConnection, Moves
<1>2. \A d \in Conn : /\ Kept(d)' <=> Kept(d)
                      /\ handler'[d] = "none" => handler[d] = "none"
                      /\ handler'[d] = "returned" => handler[d] = "returned" \/ d = c
  BY <1>1 DEF Kept, RouterInv, TypeOK
<1>3. KeptRx' = KeptRx
  BY <1>1, <1>2 DEF KeptRx
<1>4. ASSUME NEW a \in Address, NEW d \in Conn, connections'[a] = d
      PROVE  connections[a] = d /\ d # c
  <2>1. a # remote[c] /\ connections[a] = d
    BY <1>1, <1>4, NetRouterAssumption DEF RouterInv, TypeOK
  <2>. QED
    BY <2>1 DEF RestInv
<1>5. ASSUME NEW a \in Address, NEW d \in Conn, connections'[a] = d
      PROVE  remote'[d] = a /\ handler'[d] # "returned" /\ setup'[d] # "unused"
  BY <1>1, <1>2, <1>4, <1>5 DEF RestInv
<1>. QED
  BY <1>1, <1>2, <1>3, <1>5 DEF RestInv

\* Send, Stop and the peer.
LEMMA OtherRest ==
  ASSUME RouterInv, RestInv,
         \/ \E s \in Caller : \/ ConnectFails(s) \/ SendConnected(s) \/ SendSent(s) \/ SendFails(s)
                              \/ \E a \in Address : SendStart(s, a)
         \/ \E c \in Conn : PeerCloses(c)
         \/ Stops
         \/ UNCHANGED vars
  PROVE  RestInv'
<1>1. UNCHANGED <<connections, traffic, rx, handler, setup, remote>>
  BY DEF ConnectFails, SendConnected, SendSent, SendFails, SendStart, PeerCloses, Stops, StopHost,
         StopConnections, StopReturn, connVars, vars
<1>2. \A c \in Conn : Kept(c)' <=> Kept(c)
  BY <1>1 DEF Kept
<1>. QED
  BY <1>1, <1>2, QuietRest

-----------------------------------------------------------------------------
\* The invariant is inductive.
LEMMA RouterInvariant == Spec => []RouterInv
<1>1. ASSUME RouterInv, [Next]_vars PROVE RouterInv'
  <2>1. CASE Next
    BY <1>1, <2>1, HostAcceptsInv, RegisterInv, LaunchInv, SendInv, SendConnectsInv, HandlerInv,
       HandlerDoneInv, RemoveInv, PeerClosesInv, StopsInv
       DEF Next, SetUp, HandlerGoes, SendGoes
  <2>2. CASE UNCHANGED vars
    BY <1>1, <2>2 DEF vars, connVars, sendVars, stopVars, RouterInv, TypeOK,
                      NoHandlerAfterStop, Active
  <2>. QED
    BY <1>1, <2>1, <2>2
<1>. QED
  BY <1>1, RouterInitInv, PTL DEF Spec

\* The variables of the Router have their types; wg never becomes negative, which would
\* make wg.Done() panic (Router, handleConn).
THEOREM TypeCorrect == Spec => []TypeOK
<1>1. RouterInv => TypeOK
  BY DEF RouterInv
<1>. QED
  BY <1>1, RouterInvariant, PTL

\* wg counts the handlers that have not finished, and when Stop has returned there is
\* none left, whatever connections, Sends and ends of connections overlap with it
\* (launchHandleRoutine, handleConn, Stop).
THEOREM NoHandlerCorrect == Spec => []NoHandlerAfterStop
<1>1. RouterInv => NoHandlerAfterStop
  BY DEF RouterInv
<1>. QED
  BY <1>1, RouterInvariant, PTL

\* When no handler runs, Rx() is what all connections have received: whatever connection
\* removeConnection removes, nothing is lost or counted twice (handleConn, Rx).
THEOREM RxCorrect == Spec => []RxAtRest
<1>1. ASSUME RouterInv, RestInv, [Next]_vars PROVE RestInv'
  <2>1. ASSUME NEW c \in Conn, NEW a \in Address, HostAccepts(c, a) PROVE RestInv'
    BY <1>1, <2>1, OpensRest DEF HostAccepts
  <2>2. ASSUME NEW s \in Caller, NEW c \in Conn, SendConnects(s, c) PROVE RestInv'
    BY <1>1, <2>2, OpensRest DEF SendConnects
  <2>. QED
    BY <1>1, <2>1, <2>2, SetUpRest, HandlerRest, ClosesRest, RemoveRest, OtherRest
       DEF Next, HandlerGoes, SendGoes
<1>2. Spec => []RestInv
  BY <1>1, RestInit, RouterInvariant, PTL DEF Spec
<1>. QED
  BY <1>2, RestRx, RouterInvariant, PTL

-----------------------------------------------------------------------------
(***************************************************************************)
(* Where the Router comes to rest: the safety half of StopEnds.            *)
(***************************************************************************)

\* Nobody has a step to take by itself under FairSpec.
AtRest ==
  /\ \A c \in Conn :
       /\ setup[c] \notin {"register", "launch"}
       /\ handler[c] \in {"none", "receive", "dispatch", "returned"}
       /\ handler[c] = "receive" => open[c] /\ ~ReadTimeout
       /\ handler[c] = "dispatch" => ~DispatcherFree
  /\ \A s \in Caller :
       /\ pc[s] \notin {"connect", "send"}
       /\ pc[s] = "wait" => setup[conn[s]] \notin {"refused", "launched"}
  /\ stop # "host"
  /\ stop = "wait" => wg # 0

\* A handler waits, without a timeout, on an open connection that is not registered:
\* Stop cannot have closed it.
Forgotten(c) ==
  /\ handler[c] = "receive" /\ open[c] /\ ~ReadTimeout
  /\ \A a \in Address : connections[a] # c

\* The inductive invariant, beside RouterInv.
Closing ==
  /\ \A s \in Caller : pc[s] = "wait" => conn[s] \in Conn /\ setup[conn[s]] # "unused"
  /\ \A a \in Address : connections[a] # None =>
       setup[connections[a]] # "unused" /\ (isClosed => ~open[connections[a]])

\* A step that opens no connection, registers none and lets no Send wait.
LEMMA QuietClosing ==
  ASSUME RouterInv, Closing,
         \A a \in Address : connections'[a] = connections[a] \/ connections'[a] = None,
         \A c \in Conn : setup[c] # "unused" => setup'[c] # "unused",
         \A c \in Conn : open'[c] => open[c],
         isClosed' = isClosed,
         \A s \in Caller : pc'[s] = "wait" => pc[s] = "wait" /\ conn'[s] = conn[s]
  PROVE  Closing'
BY DEF Closing, RouterInv, TypeOK

\* A new connection is not registered.
LEMMA OpensClosing ==
  ASSUME RouterInv, Closing, NEW c \in Conn, NEW a, Opens(c, a),
         connections' = connections, isClosed' = isClosed,
         \A s \in Caller : pc'[s] = "wait" =>
           conn'[s] = c \/ (pc[s] = "wait" /\ conn'[s] = conn[s])
  PROVE  Closing'
<1>1. /\ setup[c] = "unused"
      /\ \A d \in Conn : setup'[d] = (IF d = c THEN "register" ELSE setup[d])
      /\ \A d \in Conn : open'[d] = (IF d = c THEN TRUE ELSE open[d])
  BY DEF Opens, RouterInv, TypeOK
<1>2. ASSUME NEW b \in Address, connections[b] # None
      PROVE  /\ connections[b] # c /\ connections[b] \in Conn
             /\ setup[connections[b]] # "unused"
             /\ isClosed => ~open[connections[b]]
  BY <1>1, <1>2 DEF Closing, RouterInv, TypeOK
<1>3. ASSUME NEW s \in Caller, pc'[s] = "wait" PROVE conn'[s] \in Conn /\ setup'[conn'[s]] # "unused"
  BY <1>1, <1>3 DEF Closing
<1>. QED
  BY <1>1, <1>2, <1>3 DEF Closing

\* Every step keeps it.
LEMMA ClosingNext == RouterInv /\ Closing /\ [Next]_vars => Closing'
<1>. SUFFICES ASSUME RouterInv, Closing, [Next]_vars PROVE Closing'
  OBVIOUS
<1>. USE DEF RouterInv, TypeOK
<1>1. ASSUME NEW c \in Conn, NEW a \in Address, HostAccepts(c, a) PROVE Closing'
  BY <1>1, OpensClosing DEF HostAccepts, sendVars
<1>2. ASSUME NEW s \in Caller, NEW c \in Conn, SendConnects(s, c) PROVE Closing'
  <2>1. \A r \in Caller : pc'[r] = "wait" => conn'[r] = c \/ (pc[r] = "wait" /\ conn'[r] = conn[r])
    BY <1>2 DEF SendConnects
  <2>. QED
    BY <1>2, <2>1, OpensClosing DEF SendConnects
<1>3. ASSUME NEW c \in Conn, RegisterConnection(c) PROVE Closing'
  <2>1. CASE RegisterRefused
    BY <1>3, <2>1, QuietClosing DEF RegisterConnection, sendVars
  <2>2. CASE ~RegisterRefused
    <3>1. /\ ~isClosed /\ isClosed' = isClosed /\ open' = open /\ pc' = pc /\ conn' = conn
          /\ \A d \in Conn : setup'[d] = "unused" <=> setup[d] = "unused"
          /\ setup[c] # "unused"
          /\ \A a \in Address : connections'[a] \in {connections[a], c}
      BY <1>3, <2>2 DEF RegisterConnection, RegisterRefused, sendVars
    <3>. QED
      BY <3>1 DEF Closing
  <2>. QED
    BY <2>1, <2>2
<1>4. ASSUME NEW c \in Conn, LaunchHandleRoutine(c) PROVE Closing'
  BY <1>4, QuietClosing DEF LaunchHandleRoutine, sendVars
<1>5. ASSUME NEW c \in Conn, HandlerReceives(c) \/ HandlerGoes(c) \/ PeerCloses(c) PROVE Closing'
  <2>1. /\ isClosed' = isClosed /\ setup' = setup /\ pc' = pc /\ conn' = conn
        /\ \A d \in Conn : open'[d] => open[d]
    BY <1>5 DEF HandlerReceives, HandlerGoes, HandlerFails, HandlerChecks, HandlerDispatches,
       HandlerProcessed, HandlerCloses, HandlerDone, RemoveConnection, PeerCloses, sendVars
  <2>2. \A a \in Address : connections'[a] = connections[a] \/ connections'[a] = None
    BY <1>5 DEF HandlerReceives, HandlerGoes, HandlerFails, HandlerChecks, HandlerDispatches,
       HandlerProcessed, HandlerCloses, HandlerDone, RemoveConnection, PeerCloses
  <2>. QED
    BY <2>1, <2>2, QuietClosing
<1>6. ASSUME NEW s \in Caller,
             \/ \E a \in Address : SendStart(s, a)
             \/ ConnectFails(s) \/ SendConnected(s) \/ SendSent(s) \/ SendFails(s)
      PROVE  Closing'
  <2>1. connections' = connections /\ isClosed' = isClosed /\ setup' = setup /\ open' = open
    BY <1>6 DEF SendStart, ConnectFails, SendConnected, SendSent, SendFails, connVars
  <2>2. \A r \in Caller : pc'[r] = "wait" => pc[r] = "wait" /\ conn'[r] = conn[r]
    BY <1>6 DEF SendStart, ConnectFails, SendConnected, SendSent, SendFails, SendReturns
  <2>. QED
    BY <2>1, <2>2, QuietClosing
<1>7. CASE StopHost \/ StopReturn
  BY <1>7, QuietClosing DEF StopHost, StopReturn, connVars, sendVars
<1>8. CASE StopConnections
  <2>1. /\ connections' = connections /\ setup' = setup /\ pc' = pc /\ conn' = conn
        /\ \A c \in Conn : open'[c] <=> open[c] /\ \A a \in Address : connections[a] # c
    BY <1>8 DEF StopConnections, sendVars
  <2>. QED
    BY <2>1 DEF Closing
<1>9. CASE UNCHANGED vars
  BY <1>9, QuietClosing DEF vars, connVars, sendVars
<1>. QED
  BY <1>1, <1>2, <1>3, <1>4, <1>5, <1>6, <1>7, <1>8, <1>9 DEF Next, SetUp, SendGoes, Stops

\* What rest means: the handlers wait for packets and the Sends have returned.
LEMMA RestEnds ==
  ASSUME RouterInv, Closing, AtRest
  PROVE  /\ \A s \in Caller : pc[s] = "idle"
         /\ stop \in {"no", "returned"} \/ \E c \in Conn : Forgotten(c)
<1>1. ASSUME NEW s \in Caller PROVE pc[s] = "idle"
  <2>1. pc[s] \in {"idle", "wait"}
    BY DEF AtRest, RouterInv, TypeOK
  <2>2. pc[s] # "wait"
    BY DEF AtRest, Closing, RouterInv, TypeOK
  <2>. QED
    BY <2>1, <2>2
<1>2. \A c \in Conn : handler[c] \in {"none", "receive", "returned"}
  BY DEF AtRest, DispatcherFree
<1>3. ASSUME stop \notin {"no", "returned"} PROVE \E c \in Conn : Forgotten(c)
  <2>1. stop = "wait" /\ wg # 0 /\ isClosed
    BY <1>3 DEF AtRest, RouterInv, TypeOK
  <2>2. PICK c \in Conn : Active(c)
    BY <2>1, FS_EmptySet DEF RouterInv, NoHandlerAfterStop
  <2>3. handler[c] = "receive" /\ open[c] /\ ~ReadTimeout
    BY <1>2, <2>2 DEF Active, AtRest
  <2>4. \A a \in Address : connections[a] # c
    BY <2>1, <2>3, NetRouterAssumption DEF Closing
  <2>. QED
    BY <2>3, <2>4 DEF Forgotten
<1>. QED
  BY <1>1, <1>3

\* Once nobody can go on by himself, every Send has returned, and so has Stop if it was
\* called, unless Receive has no timeout and a handler waits on an open connection that
\* is not the registered one of its address, which Stop cannot close: nothing else keeps
\* Stop from returning, whatever connections and Sends overlap with it (Stop, handleConn,
\* registerConnection, Send).
THEOREM RestCorrect ==
  Spec => [](AtRest => /\ \A s \in Caller : pc[s] = "idle"
                       /\ stop \in {"no", "returned"} \/ \E c \in Conn : Forgotten(c))
<1>1. Init => Closing
  BY DEF Init, Closing
<1>2. RouterInv /\ Closing =>
        (AtRest => /\ \A s \in Caller : pc[s] = "idle"
                   /\ stop \in {"no", "returned"} \/ \E c \in Conn : Forgotten(c))
  BY RestEnds
<1>. QED
  BY <1>1, <1>2, ClosingNext, RouterInvariant, PTL DEF Spec

=============================================================================
