------------------------------- MODULE Client -------------------------------
(***************************************************************************)
(* The life of a vtund client: the reconnection loop of client.c, tunnel() *)
(* inside it, linkfd() inside that, and the signals that may come between  *)
(* any two of their steps.                                                 *)
(*                                                                         *)
(* SIGTERM and SIGHUP have one meaning while linkfd() runs and another (or *)
(* none) elsewhere, and what a handler left in a flag may be overwritten   *)
(* before anybody looks at it.                                             *)
(***************************************************************************)
EXTENDS Naturals

CONSTANTS
  Modes,        \* the persist modes of the configuration: 0, 1 or 2 (VTUN_PERSIST_KEEPIF)
  VtunPersist,  \* vtun.persist, the option -p
  Udp,          \* VTUN_UDP, as opposed to VTUN_TCP
  MaxSockets,   \* the sockets that the client's table of descriptors has room for
  Signals,      \* the signals that the client is sent
  MaxSignals,   \* bound on how many
  MaxFaults     \* bound on what the machine denies: devices, processes, memory

ASSUME ClientAssumption ==
  /\ Modes \subseteq 0 .. 2 /\ VtunPersist \in BOOLEAN /\ Udp \in BOOLEAN
  /\ Signals \subseteq {"TERM", "HUP"}
  /\ MaxSignals \in Nat /\ MaxFaults \in Nat /\ MaxSockets \in Nat

VARIABLES
  pc,
  client_term, linker_term,
  opt,          \* tunnel()'s local: what linkfd() returned
  reconnect,    \* client()'s local
  mode,         \* host->persist as the configuration has it
  persist,      \* host->persist, which the linker clears
  handler,      \* whose sig_term() is installed: client.c's or linkfd.c's
  canceled,     \* __io_canceled
  device,       \* the network interface exists
  sockets,      \* how many are open
  lost,         \* history: the failures that left one open
  stale,        \* the module list was left behind by an earlier linkfd()
  cyclic,       \* its prev pointers have a cycle
  told,         \* history: the signals that were sent
  tired,        \* history: the last attempt failed, and no sleep since
  signals, faults

flags == <<client_term, linker_term, opt>>
held == <<device, sockets, lost>>
modules == <<stale, cyclic>>
bounds == <<told, signals, faults>>
vars == <<pc, flags, reconnect, mode, persist, handler, canceled, held, modules,
          tired, bounds>>

Terms == {"none", "TERM", "HUP", "ERR"}

Labels == {"top", "sleep", "prepare", "connect", "auth", "device", "proto",
           "fork", "modules", "io_init", "greet", "loop", "closing",
           "cleanup", "down", "hung", "exit"}

Init ==
  /\ pc = "top"
  /\ client_term = "none" /\ linker_term = "none" /\ opt = "none"
  /\ reconnect = FALSE /\ mode \in Modes /\ persist = mode /\ handler = "client"
  /\ canceled = FALSE /\ device = FALSE /\ stale = FALSE /\ cyclic = FALSE
  /\ sockets = 0 /\ lost = 0
  /\ told = {} /\ tired = FALSE /\ signals = 0 /\ faults = 0

Step(from, to) == pc = from /\ pc' = to

Fault ==
  /\ faults < MaxFaults
  /\ faults' = faults + 1
  /\ UNCHANGED <<told, signals>>

----------------------------------------------------------------------------
\* client().

Goes == client_term \in {"none", "HUP"}
Again == reconnect /\ client_term # "HUP"
Persistent == VtunPersist \/ persist # 0

\* Faulty: any signal ends the client.
Leave_signal ==
  /\ Step("top", "exit")
  /\ client_term # "none" \/ (Again /\ ~Persistent)
  /\ UNCHANGED <<flags, reconnect, persist, handler, canceled, held, modules,
                 tired, bounds>>

\* The loop ends: by its condition, or after one session if not persistent.
Leave ==
  /\ Step("top", "exit")
  /\ ~Goes \/ (Again /\ ~Persistent)
  /\ UNCHANGED <<flags, reconnect, persist, handler, canceled, held, modules,
                 tired, bounds>>

\* sleep(5) before the next attempt.
Sleep ==
  /\ Step("top", "sleep")
  /\ Goes /\ Again /\ Persistent
  /\ UNCHANGED <<flags, reconnect, persist, handler, canceled, held, modules,
                 tired, bounds>>

Wake ==
  /\ Step("sleep", "prepare")
  /\ tired' = FALSE
  /\ UNCHANGED <<flags, reconnect, persist, handler, canceled, held, modules,
                 bounds>>

\* Faulty: a persistent client does not sleep.
Attempt_now ==
  /\ Step("top", "prepare")
  /\ Goes /\ (~Again \/ Persistent)
  /\ reconnect' = TRUE
  /\ UNCHANGED <<flags, persist, handler, canceled, held, modules, tired, bounds>>

\* The first attempt, and the one SIGHUP asked for.
Attempt ==
  /\ Step("top", "prepare")
  /\ Goes /\ ~Again
  /\ reconnect' = TRUE
  /\ UNCHANGED <<flags, persist, handler, canceled, held, modules, tired, bounds>>

\* Addresses, a socket, bind() and io_init().
Prepare ==
  /\ Step("prepare", "connect")
  /\ sockets < MaxSockets /\ sockets' = sockets + 1
  /\ canceled' = FALSE
  /\ UNCHANGED <<flags, reconnect, persist, handler, device, lost, modules, tired, bounds>>

\* connect_t(), then auth_client().
Connect ==
  /\ Step("connect", "auth") \/ Step("auth", "device")
  /\ UNCHANGED <<flags, reconnect, persist, handler, canceled, held, modules,
                 tired, bounds>>

\* One of the above goes wrong: "continue" before there is a socket, or the end
\* of the loop's body with close(s).
AttemptFails ==
  /\ pc \in {"prepare", "connect", "auth"} /\ pc' = "top"
  /\ sockets' = IF pc = "prepare" THEN sockets ELSE sockets - 1
  /\ tired' = TRUE
  /\ UNCHANGED <<flags, reconnect, persist, handler, canceled, device, lost,
                 modules, bounds>>

\* "Can't bind socket": the socket is not closed.
BindFails ==
  /\ Step("prepare", "top")
  /\ sockets < MaxSockets
  /\ sockets' = sockets + 1 /\ lost' = lost + 1
  /\ tired' = TRUE
  /\ UNCHANGED <<flags, reconnect, persist, handler, canceled, device, modules, bounds>>

----------------------------------------------------------------------------
\* tunnel().

\* tunnel() returns, and client() stores what it returns and calls close(s).
\* Over UDP that is closed already, once udp_session() has replaced it.
Return(result) == client_term' = result /\ UNCHANGED <<linker_term, opt>>

\* With "keep", an interface that is there is used again.
OpenDevice ==
  /\ Step("device", "proto")
  /\ device' = TRUE
  /\ UNCHANGED <<flags, reconnect, persist, handler, canceled, sockets, lost,
                 modules, tired, bounds>>

OpenFails ==
  /\ Step("device", "top")
  /\ ~(persist = 2 /\ device)
  /\ Fault
  /\ Return("ERR")
  /\ sockets' = sockets - 1
  /\ UNCHANGED <<reconnect, persist, handler, canceled, device, lost, modules, tired>>

\* udp_session() succeeds, and puts its socket in place of the other; or is not
\* needed.
Proto ==
  /\ Step("proto", "fork")
  /\ Udp => sockets < MaxSockets
  /\ UNCHANGED <<flags, reconnect, persist, handler, canceled, held, modules,
                 tired, bounds>>

\* Faulty: the interface is closed whatever the persist mode.
ClosesDevice_always == device' = FALSE

ClosesDevice == device' = (device /\ persist = 2)

\* udp_session() fails, whoever is to blame, and leaves its socket open, if it
\* got one.
ProtoFails ==
  /\ Step("proto", "top")
  /\ Udp
  /\ ClosesDevice
  /\ Return("none")
  /\ IF sockets < MaxSockets THEN lost' = lost + 1 /\ UNCHANGED sockets
                             ELSE sockets' = sockets - 1 /\ UNCHANGED lost
  /\ UNCHANGED <<reconnect, persist, handler, canceled, modules, tired, bounds>>

\* A process for the "up" commands, which tunnel() does not wait for.  If there
\* is none, tunnel() returns without close(rmt_fd).
Fork ==
  /\ Step("fork", "modules")
  /\ UNCHANGED <<flags, reconnect, persist, handler, canceled, held, modules,
                 tired, bounds>>

ForkFails ==
  /\ Step("fork", "top")
  /\ Fault
  /\ ClosesDevice
  /\ Return("none")
  /\ IF Udp THEN lost' = lost + 1 /\ UNCHANGED sockets
            ELSE sockets' = sockets - 1 /\ UNCHANGED lost
  /\ UNCHANGED <<reconnect, persist, handler, canceled, modules, tired>>

\* Faulty: close(s) is thought to be enough.
Down_once ==
  /\ Step("down", "top")
  /\ ClosesDevice
  /\ Return(opt)
  /\ sockets' = IF Udp THEN sockets ELSE sockets - 1
  /\ UNCHANGED <<reconnect, persist, handler, canceled, lost, modules, tired, bounds>>

\* The "down" commands; the interface is removed and rmt_fd is closed.
Down ==
  /\ Step("down", "top")
  /\ ClosesDevice
  /\ Return(opt)
  /\ sockets' = sockets - 1
  /\ UNCHANGED <<reconnect, persist, handler, canceled, lost, modules, tired, bounds>>

----------------------------------------------------------------------------
\* linkfd().

\* lfd_add_mod() for every module, lfd_alloc_mod(), and the signal handlers.
\* Modules added to a list that they are on already have prev pointers that
\* never come to an end.  (The session has modules.)
Modules ==
  /\ Step("modules", "io_init")
  /\ cyclic' = stale
  /\ stale' = TRUE
  /\ handler' = "linker"
  /\ UNCHANGED <<flags, reconnect, persist, canceled, held, tired, bounds>>

\* lfd_alloc_mod() fails: linkfd() returns at once and the list stays.
ModulesFail ==
  /\ Step("modules", "down")
  /\ Fault
  /\ stale' = TRUE /\ cyclic' = stale
  /\ opt' = "none"
  /\ UNCHANGED <<client_term, linker_term, reconnect, persist, handler,
                 canceled, held, tired>>

\* The alarm, the statistics and io_init().
IoInit ==
  /\ Step("io_init", "greet")
  /\ canceled' = FALSE
  /\ UNCHANGED <<flags, reconnect, persist, handler, held, modules, tired, bounds>>

\* lfd_linker(): the buffer, a first echo request, and linker_term = 0.
Greet ==
  /\ Step("greet", "loop")
  /\ linker_term' = "none"
  /\ UNCHANGED <<client_term, opt, reconnect, persist, handler, canceled,
                 held, modules, tired, bounds>>

\* There is no memory for the buffer, and linker_term keeps its old value.
GreetFails ==
  /\ Step("greet", "cleanup")
  /\ Fault
  /\ UNCHANGED <<flags, reconnect, persist, handler, canceled, held, modules, tired>>

\* Faulty: the loop goes on until SIGHUP.
Signalled_hup ==
  /\ Step("loop", "closing")
  /\ linker_term = "HUP"
  /\ UNCHANGED <<flags, reconnect, persist, handler, canceled, held, modules,
                 tired, bounds>>

\* while( !linker_term ).
Signalled ==
  /\ Step("loop", "closing")
  /\ linker_term # "none"
  /\ UNCHANGED <<flags, reconnect, persist, handler, canceled, held, modules,
                 tired, bounds>>

\* The peer closes, the network or the device fails, or nobody answers.
LoopBreaks ==
  /\ Step("loop", "closing")
  /\ linker_term = "none"
  /\ UNCHANGED <<flags, reconnect, persist, handler, canceled, held, modules,
                 tired, bounds>>

\* A frame arrives, and lfd_check_up() follows the prev pointers.
CheckUp ==
  /\ Step("loop", "hung")
  /\ cyclic
  /\ UNCHANGED <<flags, reconnect, persist, handler, canceled, held, modules,
                 tired, bounds>>

\* No reconnection after SIGTERM, and a frame that says goodbye.
Closing ==
  /\ Step("closing", "cleanup")
  /\ persist' = IF linker_term = "TERM" THEN 0 ELSE persist
  /\ UNCHANGED <<flags, reconnect, handler, canceled, held, modules, tired, bounds>>

\* lfd_free_mod(), the old handlers, return linker_term.
Cleanup ==
  /\ Step("cleanup", "down")
  /\ handler' = "client" /\ stale' = FALSE /\ cyclic' = FALSE
  /\ opt' = linker_term
  /\ UNCHANGED <<client_term, linker_term, reconnect, persist, canceled, held,
                 tired, bounds>>

----------------------------------------------------------------------------
\* sig_term() and sig_hup() of linkfd.c; sig_term() of client.c, where SIGHUP
\* is ignored.
Signal(sig) ==
  /\ pc # "exit" /\ signals < MaxSignals
  /\ signals' = signals + 1 /\ told' = told \cup {sig}
  /\ IF handler = "linker"
     THEN linker_term' = sig /\ canceled' = TRUE /\ UNCHANGED client_term
     ELSE /\ client_term' = IF sig = "TERM" THEN "TERM" ELSE client_term
          /\ UNCHANGED <<linker_term, canceled>>
  /\ UNCHANGED <<pc, opt, reconnect, mode, persist, handler, held, modules, tired, faults>>

\* What the client does when nothing goes wrong.
Proceed ==
  /\ \/ Leave \/ Sleep \/ Wake \/ Attempt \/ Prepare \/ Connect
     \/ OpenDevice \/ Proto \/ Fork \/ Down
     \/ Modules \/ IoInit \/ Greet \/ Signalled \/ Closing \/ Cleanup
  /\ UNCHANGED mode

Fails ==
  /\ \/ AttemptFails \/ BindFails \/ OpenFails \/ ProtoFails \/ ForkFails \/ ModulesFail
     \/ GreetFails \/ LoopBreaks \/ CheckUp
  /\ UNCHANGED mode

Next == Proceed \/ Fails \/ \E sig \in Signals : Signal(sig)

Spec == Init /\ [][Next]_vars

\* The process runs; a session or a failure need not come to an end.
FairSpec == Spec /\ WF_vars(Proceed)

----------------------------------------------------------------------------
ControlOK ==
  /\ pc \in Labels
  /\ client_term \in Terms /\ linker_term \in Terms \ {"ERR"}
  /\ opt \in Terms \ {"ERR"}
  /\ reconnect \in BOOLEAN /\ handler \in {"client", "linker"}
  /\ canceled \in BOOLEAN /\ device \in BOOLEAN
  /\ stale \in BOOLEAN /\ cyclic \in BOOLEAN /\ tired \in BOOLEAN
  /\ told \subseteq Signals

CountersOK ==
  /\ sockets \in 0 .. MaxSockets /\ lost \in 0 .. MaxSockets
  /\ mode \in Modes /\ persist \in {0, mode} /\ signals \in 0 .. MaxSignals /\ faults \in 0 .. MaxFaults

TypeOK == ControlOK /\ CountersOK

\* The read_n() and write_n() of a new connection are not cancelled by a
\* signal that ended the last one.
FreshIO == pc \in {"connect", "auth", "device", "proto", "fork"} => ~canceled

\* vtund.conf(5), persist: the client goes on reconnecting.  It ends only if
\* it was told to, or if it could not get its device.
PersistentEnds ==
  pc = "exit" /\ (VtunPersist \/ mode # 0) =>
    "TERM" \in told \/ client_term = "ERR"

\* vtund.conf(5), persist keep: the interface is not removed to reconnect, be
\* it that the peer, a signal, the UDP session or fork() ended the last try.
KeepsInterface == [][mode = 2 /\ device /\ ~device' => "TERM" \in told]_vars

\* Between two attempts the client has no socket open, over TCP or UDP, but for
\* one for each bind(), udp_session() and fork() that failed.
SocketsClosed == pc \in {"top", "sleep", "prepare", "exit"} => sockets = lost

\* ChangeLog, 2.0b2: the client "doesn't eat up CPU".  A failed attempt is
\* followed by five seconds of sleep.  The exception: after a session that
\* SIGHUP ended client_term says VTUN_SIG_HUP until an attempt succeeds, or
\* SIGTERM comes in the midst of one.
SleepsBetweenAttempts ==
  pc = "connect" /\ tired => client_term = "HUP" \/ (client_term = "TERM" /\ "HUP" \in told)

\* SIGTERM in the midst of a session ends the client, in any persist mode, unless
\* SIGHUP comes after it and before linkfd() returns.
TermEndsSession ==
  pc = "loop" /\ linker_term = "TERM" ~>
    pc = "exit" \/ pc = "hung" \/ (handler = "linker" /\ linker_term = "HUP")

\* vtund(8): SIGHUP in the midst of a session reestablishes the connection, in
\* any persist mode, unless SIGTERM comes as well.
HupReconnects ==
  pc = "loop" /\ linker_term = "HUP" ~> pc = "prepare" \/ pc = "hung" \/ "TERM" \in told
=============================================================================
