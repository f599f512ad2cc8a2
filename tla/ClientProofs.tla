---------------------------- MODULE ClientProofs ----------------------------
(***************************************************************************)
(* Proofs about Client: for every persist mode, both protocols, and any    *)
(* number of signals and failures.                                         *)
(***************************************************************************)
EXTENDS Client, TLAPS

\* linkfd.c's handlers are installed exactly while linkfd() is past its start.
HandlerInstalled ==
  handler = "linker" <=>
    pc \in {"io_init", "greet", "loop", "closing", "cleanup", "hung"}

\* Nothing says SIGTERM unless it was sent, and host->persist is cleared for
\* no other reason.
ToldTerm ==
  /\ client_term = "TERM" \/ linker_term = "TERM" \/ opt = "TERM" => "TERM" \in told
  /\ persist # mode => "TERM" \in told

\* The client leaves its loop for the reasons client() gives.
LeftFor ==
  pc = "exit" => ~Goes \/ ~Persistent

\* Within an attempt one socket is open beside those that were lost.
Attempting == pc \notin {"top", "sleep", "prepare", "exit"}
SocketsCounted == sockets = lost + (IF Attempting THEN 1 ELSE 0)

Inv == TypeOK /\ HandlerInstalled /\ FreshIO /\ ToldTerm /\ LeftFor /\ SocketsCounted

\* The client starts with its own handlers and nobody having told it anything.
LEMMA InitInv == Init => Inv
<1> SUFFICES ASSUME Init PROVE Inv
  OBVIOUS
<1> USE ClientAssumption DEF Init
<1>1. ControlOK
  BY DEF ControlOK, Labels, Terms
<1>2. CountersOK
  BY DEF CountersOK
<1>3. HandlerInstalled /\ FreshIO /\ ToldTerm /\ LeftFor /\ SocketsCounted
  BY DEF HandlerInstalled, FreshIO, ToldTerm, LeftFor, SocketsCounted, Attempting
<1> QED
  BY <1>1, <1>2, <1>3 DEF Inv, TypeOK

\* The steps that move on and change nothing else.
LEMMA MoveInv ==
  ASSUME Inv, mode' = mode, Leave \/ Sleep \/ Connect \/ Proto \/ Fork \/ Signalled \/ LoopBreaks \/ CheckUp
  PROVE  Inv'
<1> USE DEF Inv, Leave, Sleep, Connect, Proto, Fork, Signalled, LoopBreaks, CheckUp,
            Step, flags, held, modules, bounds
<1>1. TypeOK'
  <2>1. ControlOK'
    BY DEF TypeOK, ControlOK, Labels
  <2>2. CountersOK'
    BY DEF TypeOK, CountersOK
  <2> QED
    BY <2>1, <2>2 DEF TypeOK
<1>2. HandlerInstalled' /\ FreshIO'
  BY DEF HandlerInstalled, FreshIO
<1>3. ToldTerm'
  BY DEF ToldTerm
<1>4. LeftFor'
  BY DEF LeftFor, Goes, Again, Persistent
<1>5. SocketsCounted'
  BY DEF SocketsCounted, Attempting
<1> QED
  BY <1>1, <1>2, <1>3, <1>4, <1>5

\* The other steps of client().
LEMMA ClientInv ==
  ASSUME Inv, mode' = mode, Wake \/ Attempt \/ Prepare \/ AttemptFails \/ BindFails
  PROVE  Inv'
<1> USE DEF Inv, Wake, Attempt, Prepare, AttemptFails, BindFails, Step, flags, held, modules, bounds
<1>1. TypeOK'
  <2>1. ControlOK'
    BY DEF TypeOK, ControlOK, Labels
  <2>2. CountersOK'
    BY ClientAssumption DEF TypeOK, CountersOK, SocketsCounted, Attempting
  <2> QED
    BY <2>1, <2>2 DEF TypeOK
<1>2. HandlerInstalled' /\ FreshIO'
  BY DEF HandlerInstalled, FreshIO
<1>3. ToldTerm' /\ LeftFor'
  BY DEF ToldTerm, LeftFor
<1>4. SocketsCounted'
  BY DEF SocketsCounted, Attempting, TypeOK, CountersOK
<1> QED
  BY <1>1, <1>2, <1>3, <1>4

\* The other steps of tunnel().
LEMMA TunnelInv ==
  ASSUME Inv, mode' = mode, OpenDevice \/ OpenFails \/ ProtoFails \/ ForkFails \/ Down
  PROVE  Inv'
<1> USE ClientAssumption
        DEF Inv, OpenDevice, OpenFails, ProtoFails, ForkFails, Down, Return,
            ClosesDevice, Fault, Step, flags, held, modules, bounds
<1>1. TypeOK'
  <2>1. ControlOK'
    <3>1. pc' \in Labels
      BY DEF TypeOK, ControlOK, Labels
    <3>2. client_term' \in Terms /\ linker_term' \in Terms \ {"ERR"} /\ opt' \in Terms \ {"ERR"}
      BY DEF TypeOK, ControlOK, Terms
    <3>3. /\ reconnect' \in BOOLEAN /\ canceled' \in BOOLEAN /\ device' \in BOOLEAN
          /\ stale' \in BOOLEAN /\ cyclic' \in BOOLEAN /\ tired' \in BOOLEAN
      BY DEF TypeOK, ControlOK
    <3>4. handler' \in {"client", "linker"} /\ told' \subseteq Signals
      BY DEF TypeOK, ControlOK
    <3> QED
      BY <3>1, <3>2, <3>3, <3>4 DEF ControlOK
  <2>2. CountersOK'
    BY ClientAssumption DEF TypeOK, CountersOK, SocketsCounted, Attempting
  <2> QED
    BY <2>1, <2>2 DEF TypeOK
<1>2. HandlerInstalled' /\ FreshIO'
  BY DEF HandlerInstalled, FreshIO
<1>3. ToldTerm' /\ LeftFor'
  BY DEF ToldTerm, LeftFor
<1>4. SocketsCounted'
  BY DEF SocketsCounted, Attempting, TypeOK, CountersOK
<1> QED
  BY <1>1, <1>2, <1>3, <1>4

\* The other steps of linkfd().
LEMMA LinkInv ==
  ASSUME Inv, mode' = mode, Modules \/ ModulesFail \/ IoInit \/ Greet \/ GreetFails \/ Closing \/ Cleanup
  PROVE  Inv'
<1> USE ClientAssumption
        DEF Inv, Modules, ModulesFail, IoInit, Greet, GreetFails, Closing, Cleanup,
            Fault, Step, flags, held, modules, bounds
<1>1. TypeOK'
  <2>1. ControlOK'
    <3>1. pc' \in Labels
      BY DEF TypeOK, ControlOK, Labels
    <3>2. client_term' \in Terms /\ linker_term' \in Terms \ {"ERR"} /\ opt' \in Terms \ {"ERR"}
      BY DEF TypeOK, ControlOK, Terms
    <3>3. /\ reconnect' \in BOOLEAN /\ canceled' \in BOOLEAN /\ device' \in BOOLEAN
          /\ stale' \in BOOLEAN /\ cyclic' \in BOOLEAN /\ tired' \in BOOLEAN
      BY DEF TypeOK, ControlOK
    <3>4. handler' \in {"client", "linker"} /\ told' \subseteq Signals
      BY DEF TypeOK, ControlOK
    <3> QED
      BY <3>1, <3>2, <3>3, <3>4 DEF ControlOK
  <2>2. CountersOK'
    BY DEF TypeOK, CountersOK
  <2> QED
    BY <2>1, <2>2 DEF TypeOK
<1>2. HandlerInstalled' /\ FreshIO'
  BY DEF HandlerInstalled, FreshIO
<1>3. ToldTerm' /\ LeftFor'
  BY DEF ToldTerm, LeftFor, TypeOK, ControlOK
<1>4. SocketsCounted'
  BY DEF SocketsCounted, Attempting, TypeOK, CountersOK
<1> QED
  BY <1>1, <1>2, <1>3, <1>4

\* A signal cancels I/O only where linkfd.c's handlers are installed.
LEMMA SignalInv ==
  ASSUME Inv, mode' = mode, NEW sig \in Signals, Signal(sig)
  PROVE  Inv'
<1> USE ClientAssumption DEF Inv, Signal, held, modules
<1>1. TypeOK'
  <2>1. ControlOK'
    <3>1. pc' \in Labels
      BY DEF TypeOK, ControlOK, Labels
    <3>2. client_term' \in Terms /\ linker_term' \in Terms \ {"ERR"} /\ opt' \in Terms \ {"ERR"}
      BY DEF TypeOK, ControlOK, Terms
    <3>3. /\ reconnect' \in BOOLEAN /\ canceled' \in BOOLEAN /\ device' \in BOOLEAN
          /\ stale' \in BOOLEAN /\ cyclic' \in BOOLEAN /\ tired' \in BOOLEAN
      BY DEF TypeOK, ControlOK
    <3>4. handler' \in {"client", "linker"} /\ told' \subseteq Signals
      BY DEF TypeOK, ControlOK
    <3> QED
      BY <3>1, <3>2, <3>3, <3>4 DEF ControlOK
  <2>2. CountersOK'
    BY DEF TypeOK, CountersOK
  <2> QED
    BY <2>1, <2>2 DEF TypeOK
<1>2. HandlerInstalled' /\ FreshIO'
  BY DEF HandlerInstalled, FreshIO
<1>3. ToldTerm' /\ LeftFor'
  BY DEF ToldTerm, LeftFor
<1>4. SocketsCounted'
  BY DEF SocketsCounted, Attempting, TypeOK, CountersOK
<1> QED
  BY <1>1, <1>2, <1>3, <1>4

\* Every step preserves the invariant.
LEMMA NextInv == Inv /\ [Next]_vars => Inv'
<1> SUFFICES ASSUME Inv, [Next]_vars PROVE Inv'
  OBVIOUS
<1>0. mode' = mode
  BY DEF Next, Proceed, Fails, Signal, vars
<1>1. CASE Proceed
  BY <1>0, <1>1, MoveInv, ClientInv, TunnelInv, LinkInv DEF Proceed
<1>2. CASE Fails
  BY <1>0, <1>2, MoveInv, ClientInv, TunnelInv, LinkInv DEF Fails
<1>3. CASE \E sig \in Signals : Signal(sig)
  BY <1>0, <1>3, SignalInv
<1>4. CASE UNCHANGED vars
  <2> USE <1>4 DEF vars, flags, held, modules, bounds, Inv
  <2>1. TypeOK'
    <3>1. ControlOK'
      BY DEF TypeOK, ControlOK
    <3>2. CountersOK'
      BY DEF TypeOK, CountersOK
    <3> QED
      BY <3>1, <3>2 DEF TypeOK
  <2>2. HandlerInstalled' /\ FreshIO' /\ ToldTerm'
    BY DEF HandlerInstalled, FreshIO, ToldTerm
  <2>3. LeftFor'
    BY DEF LeftFor, Goes, Persistent
  <2>4. SocketsCounted'
    BY DEF SocketsCounted, Attempting
  <2> QED
    BY <2>1, <2>2, <2>3, <2>4
<1> QED
  BY <1>1, <1>2, <1>3, <1>4 DEF Next

\* The invariant holds throughout.
LEMMA Invariance == Spec => []Inv
<1>1. Init => Inv
  BY InitInv
<1>2. Inv /\ [Next]_vars => Inv'
  BY NextInv
<1> QED
  BY <1>1, <1>2, PTL DEF Spec

----------------------------------------------------------------------------
\* Every variable stays in its range; host->persist, in particular, is what
\* the configuration says or cleared.
THEOREM TypeCorrect == Spec => []TypeOK
<1>1. Inv => TypeOK
  BY DEF Inv
<1> QED
  BY <1>1, Invariance, PTL

\* __io_canceled is clear in connect_t(), auth_client() and udp_session(),
\* however the last session ended.
THEOREM NewConnectionNotCancelled == Spec => []FreshIO
<1>1. Inv => FreshIO
  BY DEF Inv
<1> QED
  BY <1>1, Invariance, PTL

\* A persistent client() returns only after SIGTERM or without a device.
THEOREM PersistentGoesOn == Spec => []PersistentEnds
<1>1. Inv => PersistentEnds
  BY DEF Inv, PersistentEnds, LeftFor, ToldTerm, Goes, Persistent, TypeOK, ControlOK, Terms
<1> QED
  BY <1>1, Invariance, PTL

\* Every way through client(), tunnel() and udp_session() closes what it opened,
\* but for the three failures that the property names.
THEOREM NoSocketLeft == Spec => []SocketsClosed
<1>1. Inv => SocketsClosed
  BY DEF Inv, SocketsCounted, Attempting, SocketsClosed, TypeOK, CountersOK
<1> QED
  BY <1>1, Invariance, PTL

\* With "persist keep" no path through tunnel() removes the interface unless
\* SIGTERM was sent.
THEOREM InterfaceKept == Spec => KeepsInterface
<1> DEFINE Kept == mode = 2 /\ device /\ ~device' => "TERM" \in told
<1>1. Inv /\ [Next]_vars => [Kept]_vars
  <2> SUFFICES ASSUME Inv, Next PROVE Kept
    OBVIOUS
  <2>1. device' = device \/ device' = TRUE \/ ClosesDevice
    BY DEF Next, Proceed, Fails, Leave, Sleep, Wake, Attempt, Prepare, Connect, OpenDevice,
       Proto, Fork, Down, Modules, IoInit, Greet, Signalled, Closing, Cleanup,
       AttemptFails, BindFails, OpenFails, ProtoFails, ForkFails, ModulesFail, GreetFails,
       LoopBreaks, CheckUp, Signal, held
  <2> QED
    BY <2>1 DEF ClosesDevice, Inv, ToldTerm
<1> QED
  BY <1>1, Invariance, PTL DEF Spec, KeepsInterface

\* Nothing says SIGHUP unless it was sent; there is an attempt that failed only
\* after the first; and unless SIGHUP is the reason the next one comes after a sleep.
ToldHup == client_term = "HUP" \/ linker_term = "HUP" \/ opt = "HUP" => "HUP" \in told
Reconnects == tired \/ pc \notin {"top", "exit"} => reconnect
Rested ==
  tired => \/ pc \in {"top", "sleep", "exit"} \/ client_term = "HUP"
           \/ client_term = "TERM" /\ "HUP" \in told

RestInv == ToldHup /\ Reconnects /\ Rested

\* Every step preserves it.
LEMMA RestStep == RestInv /\ [Next]_vars => RestInv'
<1> SUFFICES ASSUME RestInv, [Next]_vars PROVE RestInv'
  OBVIOUS
<1> USE DEF RestInv, ToldHup, Reconnects, Rested
<1>1. CASE \/ Leave \/ Sleep \/ Connect \/ Proto \/ Fork \/ Signalled \/ LoopBreaks \/ CheckUp
           \/ IoInit \/ Modules \/ OpenDevice
  BY <1>1 DEF Leave, Sleep, Again, Connect, Proto, Fork, Signalled, LoopBreaks, CheckUp, IoInit,
     Modules, OpenDevice, Step, flags, bounds
<1>2. CASE Wake \/ Attempt \/ Prepare \/ AttemptFails \/ BindFails
  BY <1>2 DEF Wake, Attempt, Again, Prepare, AttemptFails, BindFails, Step, flags, bounds
<1>3. CASE OpenFails \/ ProtoFails \/ ForkFails \/ Down
  BY <1>3 DEF OpenFails, ProtoFails, ForkFails, Down, Return, Fault, Step, bounds
<1>4. CASE ModulesFail \/ Greet \/ GreetFails \/ Closing \/ Cleanup
  BY <1>4 DEF ModulesFail, Greet, GreetFails, Closing, Cleanup, Fault, Step, flags, bounds
<1>5. ASSUME NEW sig \in Signals, Signal(sig)
      PROVE  RestInv'
  BY <1>5 DEF Signal
<1>6. CASE UNCHANGED vars
  BY <1>6 DEF vars, flags, bounds
<1> QED
  BY <1>1, <1>2, <1>3, <1>4, <1>5, <1>6 DEF Next, Proceed, Fails

\* After an attempt that failed client() sleeps before it calls connect() again,
\* unless the last session ended by SIGHUP.
THEOREM SleepsBetween == Spec => []SleepsBetweenAttempts
<1>1. Init => RestInv
  BY DEF Init, RestInv, ToldHup, Reconnects, Rested
<1>2. RestInv => SleepsBetweenAttempts
  BY DEF RestInv, Rested, SleepsBetweenAttempts
<1> QED
  BY <1>1, <1>2, RestStep, PTL DEF Spec
=============================================================================
