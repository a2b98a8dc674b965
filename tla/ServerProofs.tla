---------------------------- MODULE ServerProofs ----------------------------
(***************************************************************************)
(* Proofs about Server, for every set of valid configurations, any number  *)
(* of listeners, connections and signals.                                  *)
(*                                                                         *)
(* The invariants follow from one inductive invariant, which says how far  *)
(* ListenAndServe is (Progress), that connections exist only after the     *)
(* start (Started), and why an accept loop may have ended (EndCause).      *)
(***************************************************************************)
EXTENDS Server, FiniteSetTheorems, TLAPS

\* The channels, and what ListenAndServe has to bind.
Channels ==
    /\ sig \in {<<>>, <<"HUP">>, <<"TERM">>}
    /\ serveErr \in {<<>>, <<"nil">>, <<"error">>}

\* Until main has left its first part there is nothing; from then on the
\* configuration of the start is a valid one.
Started ==
    /\ main = "boot" => sem = 0 /\ las = "none" /\ start = Faulty
    /\ main \in {"select", "drain"} => start \in Configs /\ cfg \in Configs
    /\ las # "none" => start \in Configs /\ cfg \in Configs

\* The accept loops are those of the listeners before the loop index, and
\* there is a listener to bind.
Progress ==
    /\ \A l \in Lns : loop[l] # "none" <=> l < next
    /\ las \in {"none", "start"} => next = 1
    /\ las \notin {"none", "start"} => Len(want) \in 1..MaxListeners
    /\ las \in {"bind", "append"} => next <= Len(want) + 1
    /\ las = "append" => next <= Len(want)

\* A listener is closed, and an accept loop ends, because of an error or
\* because main has left its select.
EndCause ==
    /\ las = "wait" => errs
    /\ main \in {"boot", "select"} =>
          /\ closing => errs
          /\ \A l \in Lns : loop[l] = "ended" => errs
          /\ serveErr # <<"nil">>

IInv ==
    /\ TypeOK /\ Channels /\ Started /\ Progress /\ EndCause
    /\ IsFiniteSet(InUse) /\ SlotsCounted
    /\ ServedIsRegistered /\ DrainFirst

-----------------------------------------------------------------------------

\* A faulty file has no slots.
LEMMA ConfigFacts ==
    ASSUME NEW c \in Configs
    PROVE  /\ c # Faulty
           /\ c.conns \in Nat \ {0}
           /\ Len(c.listeners) \in 1..MaxListeners
           /\ MaxListeners \in Nat
  <1>1. c.conns \in Nat \ {0} /\ Len(c.listeners) \in 1..MaxListeners
        /\ MaxListeners \in Nat
    BY ServerAssumption DEF ServerAssumption
  <1>2. Faulty.conns = 0
    BY DEF Faulty
  <1> QED BY <1>1, <1>2

\* The process starts with nothing.
LEMMA InitIInv == Init => IInv
  <1> SUFFICES ASSUME Init PROVE IInv
    OBVIOUS
  <1>1. MaxListeners \in Nat
    BY ServerAssumption DEF ServerAssumption
  <1>2. TypeOK
    <2>1. Len(sig) <= 1 /\ Len(serveErr) <= 1 /\ next \in 1..MaxListeners + 1
      BY <1>1 DEF Init
    <2>2. {start, cfg} \subseteq Configs \cup {Faulty} /\ listeners \subseteq Lns
      BY DEF Init
    <2> QED BY <2>1, <2>2 DEF Init, TypeOK
  <1>3. InUse = {}
    BY DEF Init, InUse
  <1>4. IsFiniteSet(InUse) /\ SlotsCounted
    BY <1>3, FS_EmptySet DEF Init, SlotsCounted
  <1>5. Channels /\ Started /\ Progress /\ EndCause
    BY <1>1 DEF Init, Channels, Started, Progress, EndCause, Lns
  <1>6. ServedIsRegistered /\ DrainFirst
    BY DEF Init, ServedIsRegistered, DrainFirst, Lns
  <1> QED BY <1>2, <1>4, <1>5, <1>6 DEF IInv

\* A step that leaves the connections alone leaves the count alone.
LEMMA CountFrame ==
    ASSUME IInv, UNCHANGED <<conn, sem, start>>
    PROVE  IsFiniteSet(InUse)' /\ SlotsCounted'
  <1>1. InUse' = InUse
    BY DEF InUse
  <1> QED BY <1>1 DEF IInv, SlotsCounted

-----------------------------------------------------------------------------
(* main *)

\* main reaches its select with a valid configuration, or ends.
LEMMA BootIInv ==
    ASSUME IInv, Boot
    PROVE  IInv'
  <1> USE DEF Boot, lnv, connv
  <1>1. TypeOK' /\ Channels'
    BY DEF IInv, TypeOK, Channels
  <1>2. Started' /\ Progress' /\ EndCause'
    BY DEF IInv, TypeOK, Channels, Started, Progress, EndCause, Lns
  <1>3. InUse' = InUse
    BY DEF InUse
  <1>4. start' # Faulty => 0 <= start'.conns
    BY ConfigFacts DEF IInv, Started
  <1>5. IsFiniteSet(InUse)' /\ SlotsCounted'
    BY <1>3, <1>4 DEF IInv, SlotsCounted, Started
  <1>6. ServedIsRegistered' /\ DrainFirst'
    BY DEF IInv, ServedIsRegistered, DrainFirst, Started, Lns
  <1> QED BY <1>1, <1>2, <1>5, <1>6 DEF IInv

\* A reload replaces the pointer and nothing else.
LEMMA ReceiveHUPIInv ==
    ASSUME IInv, ReceiveHUP
    PROVE  IInv'
  <1> USE DEF ReceiveHUP, mainv, lasv, lnv, connv
  <1>1. TypeOK' /\ Channels'
    BY DEF IInv, TypeOK, Channels
  <1>2. Started' /\ Progress' /\ EndCause'
    BY DEF IInv, Started, Progress, EndCause
  <1>3. IsFiniteSet(InUse)' /\ SlotsCounted'
    BY CountFrame
  <1>4. ServedIsRegistered' /\ DrainFirst'
    BY DEF IInv, ServedIsRegistered, DrainFirst
  <1> QED BY <1>1, <1>2, <1>3, <1>4 DEF IInv

\* A stop signal closes the listeners and leads to Drain.
LEMMA ReceiveTERMIInv ==
    ASSUME IInv, ReceiveTERM
    PROVE  IInv'
  <1> USE DEF ReceiveTERM, CloseAll, Leave, lasv, connv
  <1>1. TypeOK' /\ Channels'
    BY DEF IInv, TypeOK, Channels
  <1>2. Started' /\ Progress' /\ EndCause'
    BY DEF IInv, Started, Progress, EndCause
  <1>3. IsFiniteSet(InUse)' /\ SlotsCounted'
    BY CountFrame
  <1>4. ServedIsRegistered'
    BY DEF IInv, TypeOK, ServedIsRegistered
  <1>5. DrainFirst'
    BY DEF IInv, DrainFirst
  <1> QED BY <1>1, <1>2, <1>3, <1>4, <1>5 DEF IInv

\* What ListenAndServe returned while main was in its select is an error.
LEMMA ReceiveErrIInv ==
    ASSUME IInv, ReceiveErr
    PROVE  IInv'
  <1> USE DEF ReceiveErr, Leave, lasv, lnv, connv
  <1>1. serveErr = <<"error">>
    BY DEF IInv, Channels, EndCause
  <1>2. TypeOK' /\ Channels'
    BY <1>1 DEF IInv, TypeOK, Channels
  <1>3. Started' /\ Progress' /\ EndCause'
    BY <1>1 DEF IInv, Started, Progress, EndCause
  <1>4. IsFiniteSet(InUse)' /\ SlotsCounted'
    BY CountFrame
  <1>5. ServedIsRegistered' /\ DrainFirst'
    BY <1>1 DEF IInv, ServedIsRegistered, DrainFirst
  <1> QED BY <1>2, <1>3, <1>4, <1>5 DEF IInv

\* Drain returns.
LEMMA DrainIInv ==
    ASSUME IInv, Drain
    PROVE  IInv'
  <1> USE DEF Drain, lasv, lnv, connv
  <1>1. TypeOK' /\ Channels'
    BY DEF IInv, TypeOK, Channels
  <1>2. Started' /\ Progress' /\ EndCause'
    BY DEF IInv, Started, Progress, EndCause
  <1>3. IsFiniteSet(InUse)' /\ SlotsCounted'
    BY CountFrame
  <1>4. ServedIsRegistered' /\ DrainFirst'
    BY DEF IInv, ServedIsRegistered, DrainFirst
  <1> QED BY <1>1, <1>2, <1>3, <1>4 DEF IInv

\* A signal is put into the channel or dropped.
LEMMA SignalIInv ==
    ASSUME IInv, NEW s \in {"HUP", "TERM"}, Signal(s)
    PROVE  IInv'
  <1> USE DEF Signal, mainv, lasv, lnv, connv
  <1>1. TypeOK' /\ Channels'
    BY DEF IInv, TypeOK, Channels
  <1>2. Started' /\ Progress' /\ EndCause'
    BY DEF IInv, Started, Progress, EndCause
  <1>3. IsFiniteSet(InUse)' /\ SlotsCounted'
    BY CountFrame
  <1>4. ServedIsRegistered' /\ DrainFirst'
    BY DEF IInv, ServedIsRegistered, DrainFirst
  <1> QED BY <1>1, <1>2, <1>3, <1>4 DEF IInv

-----------------------------------------------------------------------------
(* ListenAndServe and the accept loops *)

\* The goroutine reads the listeners of the configuration in force.
LEMMA ListenAndServeIInv ==
    ASSUME IInv, ListenAndServe
    PROVE  IInv'
  <1> USE DEF ListenAndServe, mainv, lnv, connv
  <1>1. cfg \in Configs
    BY DEF IInv, Started
  <1>2. Len(want') \in 1..MaxListeners /\ MaxListeners \in Nat
    BY <1>1, ConfigFacts
  <1>3. TypeOK' /\ Channels'
    BY DEF IInv, TypeOK, Channels
  <1>4. Started' /\ EndCause'
    BY DEF IInv, Started, EndCause
  <1>5. Progress'
    BY <1>2 DEF IInv, Progress
  <1>6. IsFiniteSet(InUse)' /\ SlotsCounted'
    BY CountFrame
  <1>7. ServedIsRegistered' /\ DrainFirst'
    BY DEF IInv, ServedIsRegistered, DrainFirst
  <1> QED BY <1>3, <1>4, <1>5, <1>6, <1>7 DEF IInv

\* bind opens the next listener, which no accept loop serves yet, or closes
\* the registered ones.
LEMMA BindIInv ==
    ASSUME IInv, Bind
    PROVE  IInv'
  <1> USE DEF Bind, CloseAll, mainv, connv
  <1>1. MaxListeners \in Nat /\ Len(want) \in 1..MaxListeners
    BY ServerAssumption DEF ServerAssumption, IInv, Progress
  <1>2. next \in Lns /\ loop[next] = "none"
    BY <1>1 DEF IInv, TypeOK, Progress, Lns
  <1>3. TypeOK' /\ Channels'
    BY DEF IInv, TypeOK, Channels
  <1>4. Started' /\ EndCause'
    BY DEF IInv, Started, EndCause
  <1>5. Progress'
    BY DEF IInv, Progress
  <1>6. IsFiniteSet(InUse)' /\ SlotsCounted'
    BY CountFrame
  <1>7. ServedIsRegistered'
    BY <1>2 DEF IInv, TypeOK, ServedIsRegistered
  <1>8. DrainFirst'
    BY DEF IInv, DrainFirst
  <1> QED BY <1>3, <1>4, <1>5, <1>6, <1>7, <1>8 DEF IInv

\* The listener is registered and served in one step.
LEMMA RegisterIInv ==
    ASSUME IInv, Register
    PROVE  IInv'
  <1> USE DEF Register, mainv, connv
  <1>1. MaxListeners \in Nat /\ Len(want) \in 1..MaxListeners
    BY ServerAssumption DEF ServerAssumption, IInv, Progress
  <1>2. next \in Lns
    BY <1>1 DEF IInv, TypeOK, Progress, Lns
  <1>3. next' \in 1..MaxListeners + 1
    BY <1>1, <1>2 DEF Lns
  <1>4. TypeOK' /\ Channels'
    BY <1>2, <1>3 DEF IInv, TypeOK, Channels
  <1>5. Started' /\ EndCause'
    BY DEF IInv, TypeOK, Started, EndCause
  <1>6. Progress'
    BY <1>1, <1>2 DEF IInv, TypeOK, Progress, Lns
  <1>7. IsFiniteSet(InUse)' /\ SlotsCounted'
    BY CountFrame
  <1>8. ServedIsRegistered'
    BY DEF IInv, TypeOK, ServedIsRegistered
  <1>9. DrainFirst'
    BY DEF IInv, DrainFirst
  <1> QED BY <1>4, <1>5, <1>6, <1>7, <1>8, <1>9 DEF IInv

\* ListenAndServe returns nil only when main has left its select: its first
\* accept loop has ended, and for a reason.
LEMMA ReturnIInv ==
    ASSUME IInv, Return
    PROVE  IInv'
  <1> USE DEF Return, mainv, lnv, connv
  <1>1. serveErr' \in {<<"nil">>, <<"error">>}
    BY DEF Outcome
  <1>2. ASSUME main \in {"boot", "select"}
        PROVE  errs
    <2>1. CASE las = "wait"
      BY <2>1 DEF IInv, EndCause
    <2>2. CASE las = "bind" /\ next > Len(want)
      <3>1. Len(want) \in 1..MaxListeners /\ MaxListeners \in Nat
        BY <2>2, ServerAssumption DEF ServerAssumption, IInv, Progress
      <3>2. 1 \in Lns /\ 1 < next
        BY <2>2, <3>1 DEF IInv, TypeOK, Lns
      <3>3. loop[1] = "ended"
        BY <3>2 DEF IInv, Progress, NoneServed
      <3> QED BY <1>2, <3>2, <3>3 DEF IInv, EndCause
    <2> QED BY <2>1, <2>2 DEF NoneServed
  <1>3. TypeOK' /\ Channels'
    BY <1>1 DEF IInv, TypeOK, Channels
  <1>4. Started'
    BY DEF IInv, Started, NoneServed
  <1>5. Progress'
    BY DEF IInv, Progress, NoneServed
  <1>6. EndCause'
    BY <1>2 DEF IInv, EndCause, Outcome
  <1>7. IsFiniteSet(InUse)' /\ SlotsCounted'
    BY CountFrame
  <1>8. ServedIsRegistered' /\ DrainFirst'
    BY DEF IInv, ServedIsRegistered, DrainFirst
  <1> QED BY <1>3, <1>4, <1>5, <1>6, <1>7, <1>8 DEF IInv

\* An accept loop ends with an error unless the server is closing.
LEMMA AcceptFailsIInv ==
    ASSUME IInv, NEW l \in Lns, AcceptFails(l)
    PROVE  IInv'
  <1> USE DEF AcceptFails, mainv, lnv, connv
  <1>1. TypeOK' /\ Channels'
    BY DEF IInv, TypeOK, Channels
  <1>2. Started' /\ EndCause'
    BY DEF IInv, TypeOK, Started, EndCause
  <1>3. Progress'
    BY DEF IInv, TypeOK, Progress
  <1>4. IsFiniteSet(InUse)' /\ SlotsCounted'
    BY CountFrame
  <1>5. ServedIsRegistered' /\ DrainFirst'
    BY DEF IInv, TypeOK, ServedIsRegistered, DrainFirst
  <1> QED BY <1>1, <1>2, <1>3, <1>4, <1>5 DEF IInv

-----------------------------------------------------------------------------
(* Connections *)

\* A step that leaves everything but the connections alone.
LEMMA ConnFrame ==
    ASSUME IInv, conn' \in [Conns -> {"idle", "refused", "spawned", "session",
                                      "over", "gone"}],
           sem' \in Nat, Up, IsFiniteSet(InUse)', SlotsCounted',
           UNCHANGED <<mainv, cfg, sig, signals, serveErr, lasv, lnv, loop>>
    PROVE  IInv'
  <1> USE DEF mainv, lasv, lnv
  <1>1. TypeOK' /\ Channels'
    BY DEF IInv, TypeOK, Channels
  <1>2. Started' /\ Progress' /\ EndCause'
    BY DEF IInv, Started, Progress, EndCause, Up
  <1>3. ServedIsRegistered' /\ DrainFirst'
    BY DEF IInv, ServedIsRegistered, DrainFirst
  <1> QED BY <1>1, <1>2, <1>3 DEF IInv

\* A connection takes a slot of the semaphore, or is refused.
LEMMA AcceptIInv ==
    ASSUME IInv, NEW l \in Lns, Accept(l)
    PROVE  IInv'
  <1>1. PICK c \in Conns :
          /\ conn[c] = "idle"
          /\ \/ /\ sem < start.conns
                /\ sem' = sem + 1
                /\ conn' = [conn EXCEPT ![c] = "spawned"]
             \/ /\ sem >= start.conns
                /\ conn' = [conn EXCEPT ![c] = "refused"]
                /\ UNCHANGED sem
    BY DEF Accept
  <1>2. Up /\ UNCHANGED <<mainv, cfg, sig, signals, serveErr, lasv, lnv, loop>>
    BY DEF Accept
  <1>3. start \in Configs
    BY <1>2 DEF IInv, TypeOK, Started, Up
  <1>4. start.conns \in Nat
    BY <1>3, ConfigFacts
  <1>5. sem' \in Nat
    BY <1>1 DEF IInv, TypeOK
  <1>6. conn' \in [Conns -> {"idle", "refused", "spawned", "session", "over",
                             "gone"}]
    BY <1>1 DEF IInv, TypeOK
  <1>7. c \notin InUse
    BY <1>1 DEF InUse
  <1>8. IsFiniteSet(InUse)' /\ SlotsCounted'
    <2>1. CASE sem < start.conns
      <3>1. InUse' = InUse \cup {c} /\ sem' = sem + 1
        BY <1>1, <1>4, <2>1 DEF IInv, TypeOK, InUse
      <3>2. IsFiniteSet(InUse') /\ Cardinality(InUse') = sem + 1
        BY <1>7, <3>1, FS_AddElement DEF IInv, SlotsCounted
      <3> QED BY <1>2, <1>4, <2>1, <3>1, <3>2
              DEF SlotsCounted, IInv, TypeOK, mainv
    <2>2. CASE sem >= start.conns
      <3>1. InUse' = InUse /\ sem' = sem
        BY <1>1, <1>4, <2>2 DEF IInv, TypeOK, InUse
      <3> QED BY <1>2, <3>1 DEF SlotsCounted, IInv, mainv
    <2> QED BY <1>4, <2>1, <2>2 DEF IInv, TypeOK
  <1> QED BY <1>2, <1>5, <1>6, <1>8, ConnFrame

\* A session keeps its slot to the end, and returns it once.
LEMMA SessionIInv ==
    ASSUME IInv, NEW c \in Conns,
           SessionStarts(c) \/ SessionEnds(c) \/ SlotReturned(c)
    PROVE  IInv'
  <1> USE DEF SessionStarts, SessionEnds, SlotReturned, Session
  <1>1. Up /\ UNCHANGED <<mainv, cfg, sig, signals, serveErr, lasv, lnv, loop>>
    OBVIOUS
  <1>2. conn' \in [Conns -> {"idle", "refused", "spawned", "session", "over",
                             "gone"}]
    BY DEF IInv, TypeOK
  <1>3. c \in InUse
    BY DEF InUse
  <1>4. CASE SessionStarts(c) \/ SessionEnds(c)
    <2>1. InUse' = InUse
      BY <1>4 DEF IInv, TypeOK, InUse
    <2>2. sem' = sem
      BY <1>4 DEF IInv, TypeOK
    <2>3. IsFiniteSet(InUse)' /\ SlotsCounted'
      BY <1>1, <2>1, <2>2 DEF IInv, SlotsCounted, mainv
    <2>4. sem' \in Nat
      BY <2>2 DEF IInv, TypeOK
    <2> QED BY <1>1, <1>2, <2>3, <2>4, ConnFrame
  <1>5. CASE SlotReturned(c)
    <2>1. InUse' = InUse \ {c}
      BY <1>5 DEF IInv, TypeOK, InUse
    <2>2. sem' = sem - 1
      BY <1>5 DEF IInv, TypeOK
    <2>3. IsFiniteSet(InUse') /\ Cardinality(InUse') = sem - 1
      BY <1>3, <2>1, FS_RemoveElement DEF IInv, SlotsCounted
    <2>4. sem' \in Nat
      BY <2>2, <2>3, FS_CardinalityType
    <2>5. start # Faulty => start.conns \in Nat
      BY ConfigFacts DEF IInv, TypeOK
    <2>6. SlotsCounted'
      BY <1>1, <2>2, <2>3, <2>5 DEF IInv, TypeOK, SlotsCounted, mainv
    <2> QED BY <1>1, <1>2, <2>3, <2>4, <2>6, ConnFrame
  <1> QED BY <1>4, <1>5

-----------------------------------------------------------------------------
(* The theorems *)

\* Every step of main, of ListenAndServe, of the accept loops and of the
\* sessions keeps IInv.
THEOREM Invariance == Spec => []IInv
  <1>1. IInv /\ [Next]_vars => IInv'
    <2> SUFFICES ASSUME IInv, [Next]_vars
                 PROVE  IInv'
      OBVIOUS
    <2>1. CASE UNCHANGED vars
      <3> USE <2>1 DEF vars
      <3>1. TypeOK' /\ Channels'
        BY DEF IInv, TypeOK, Channels
      <3>2. Started' /\ Progress' /\ EndCause'
        BY DEF IInv, Started, Progress, EndCause
      <3>3. IsFiniteSet(InUse)' /\ SlotsCounted'
        BY CountFrame
      <3>4. ServedIsRegistered' /\ DrainFirst'
        BY DEF IInv, ServedIsRegistered, DrainFirst
      <3> QED BY <3>1, <3>2, <3>3, <3>4 DEF IInv
    <2>2. CASE Boot \/ Main
      BY <2>2, BootIInv, ReceiveHUPIInv, ReceiveTERMIInv, ReceiveErrIInv,
         DrainIInv
      DEF Main
    <2>3. CASE Serve
      BY <2>3, ListenAndServeIInv, BindIInv, RegisterIInv, ReturnIInv
      DEF Serve
    <2>4. CASE \E l \in Lns : Accept(l) \/ AcceptFails(l)
      BY <2>4, AcceptIInv, AcceptFailsIInv
    <2>5. CASE \E c \in Conns : \/ SessionStarts(c) \/ SessionEnds(c)
                                \/ SlotReturned(c)
      BY <2>5, SessionIInv
    <2>6. CASE \E s \in {"HUP", "TERM"} : Signal(s)
      BY <2>6, SignalIInv
    <2> QED BY <2>1, <2>2, <2>3, <2>4, <2>5, <2>6 DEF Next
  <1> QED BY InitIInv, <1>1, PTL DEF Spec

\* Every variable of the process keeps its type.
THEOREM TypeCorrect == Spec => []TypeOK
  BY Invariance, PTL DEF IInv

\* The semaphore of the accept loops counts the sessions, and sessions never
\* exceed max_connections of the start.
THEOREM SlotsAreCounted == Spec => []SlotsCounted
  BY Invariance, PTL DEF IInv

\* Close finds every listener that an accept loop serves.
THEOREM ServedAreRegistered == Spec => []ServedIsRegistered
  BY Invariance, PTL DEF IInv

\* main never ends a process that has a queue without Drain: the case of a
\* ListenAndServe that returned nil does not occur in its select.
THEOREM DrainComesFirst == Spec => []DrainFirst
  BY Invariance, PTL DEF IInv
=============================================================================
