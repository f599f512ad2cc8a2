---------------------------- MODULE SessionLock ----------------------------
(***************************************************************************)
(* The per-host session lock of a vtund server: lock.c, and the life of    *)
(* the server process around it (connection() in server.c).                *)
(*                                                                         *)
(* Every incoming connection is served by a process of its own.  Once the  *)
(* client is authenticated the process runs lock_host(), which reads the   *)
(* host's lock file, judges the process it names, perhaps kills it, and    *)
(* creates the file anew; unlock_host() removes the file when the session  *)
(* is over.  Each system call on the lock file or on another process is    *)
(* one action, because another process may run between any two of them.    *)
(***************************************************************************)
EXTENDS Naturals, FiniteSets

CONSTANTS
  Procs,      \* server processes, a process being its pid
  Multi,      \* host->multi: "allow", "deny" or "kill"
  Inetd,      \* TRUE: vtund -i; FALSE: processes forked by listener()
  MaxFaults,  \* bound on crashes and failed writes of the temp file
  InitFiles,  \* contents the lock file may have when the server starts
  NoFile,     \* there is no lock file
  Empty,      \* a lock file without contents
  Broken,     \* a lock file that holds no pid
  Old         \* the pid of a process that is long gone

Files == Procs \cup {NoFile, Empty, Broken, Old}

ASSUME ModeAssumption ==
  /\ Multi \in {"allow", "deny", "kill"}
  /\ Inetd \in BOOLEAN
  /\ MaxFaults \in Nat
ASSUME FilesAssumption ==
  /\ InitFiles \subseteq Files
  /\ NoFile \notin Procs /\ Empty \notin Procs
  /\ Broken \notin Procs /\ Old \notin Procs
  /\ NoFile # Empty /\ NoFile # Broken /\ NoFile # Old /\ Empty # Broken

VARIABLES
  pc,      \* where each process is
  file,    \* the lock file of the host
  pid,     \* lock_host()'s local: the process that the lock file named
  faults,  \* faults so far
  stolen   \* history: sessions whose lock another process removed

vars == <<pc, file, pid, faults, stolen>>

\* Between lock_host() and the end of unlock_host(): the session is open.
Holding == {"setup", "linked", "closing"}

Locking == {"read", "broken", "check", "stale", "term", "wait", "kill",
            "remove", "create"}

Labels == {"new", "auth", "exiting", "denied", "dead"} \cup Locking \cup Holding

Init ==
  /\ pc = [p \in Procs |-> "new"]
  /\ file \in InitFiles
  /\ pid = [p \in Procs |-> Old]
  /\ faults = 0
  /\ stolen = {}

----------------------------------------------------------------------------
\* kill(q, 0) succeeds.
Alive(q) == q \in Procs /\ pc[q] \notin {"new", "dead"}

Goto(p, l) == pc' = [pc EXCEPT ![p] = l]

\* unlink(lock_file) by p.  Whoever the file names loses its lock.
Unlink(p) ==
  /\ file' = NoFile
  /\ stolen' = stolen \cup {q \in Procs : q = file /\ q # p /\ pc[q] \in Holding}

Fork(p) ==
  /\ pc[p] = "new"
  /\ Goto(p, "auth")
  /\ UNCHANGED <<file, pid, faults, stolen>>

\* auth_server() refuses the client, times out or loses the connection.
AuthFails(p) ==
  /\ pc[p] = "auth"
  /\ Goto(p, "denied")
  /\ UNCHANGED <<file, pid, faults, stolen>>

\* The response matches the challenge and lock_host() is entered.
LockHost(p) ==
  /\ pc[p] = "auth"
  /\ Goto(p, IF Multi = "allow" THEN "setup" ELSE "read")
  /\ UNCHANGED <<file, pid, faults, stolen>>

\* read_lock(), open() and read(): an empty file is taken for a missing one.
ReadLock(p) ==
  /\ pc[p] = "read"
  /\ Goto(p, CASE file \in {NoFile, Empty} -> "create"
               [] file = Broken -> "broken"
               [] OTHER -> "check")
  /\ pid' = [pid EXCEPT ![p] = file]
  /\ UNCHANGED <<file, faults, stolen>>

\* read_lock(): the broken file is removed.
UnlinkBroken(p) ==
  /\ pc[p] = "broken"
  /\ Unlink(p)
  /\ Goto(p, "create")
  /\ UNCHANGED <<pid, faults>>

\* Faulty: the result of kill() is tested the wrong way round.
CheckAlive_inverted(p) ==
  /\ pc[p] = "check"
  /\ Goto(p, IF Alive(pid[p]) THEN "stale" ELSE "denied")
  /\ UNCHANGED <<file, pid, faults, stolen>>

\* read_lock(), kill(pid, 0), and the choice lock_host() makes on its result.
CheckAlive(p) ==
  /\ pc[p] = "check"
  /\ Goto(p, IF ~Alive(pid[p]) THEN "stale"
             ELSE IF Multi = "kill" THEN "term" ELSE "denied")
  /\ UNCHANGED <<file, pid, faults, stolen>>

\* Faulty: the dead process' lock is left behind.
UnlinkStale_kept(p) ==
  /\ pc[p] = "stale"
  /\ Goto(p, "create")
  /\ UNCHANGED <<file, pid, faults, stolen>>

\* read_lock(): the process was dead, its lock is removed.
UnlinkStale(p) ==
  /\ pc[p] = "stale"
  /\ Unlink(p)
  /\ Goto(p, "create")
  /\ UNCHANGED <<pid, faults>>

\* lock_host(), kill(pid, SIGTERM).  linkfd() closes the session on SIGTERM.
\* Elsewhere a forked process has the listener's handler, which only sets a
\* flag it never looks at, and an inetd process has the default action.
KillTerm(p) ==
  /\ pc[p] = "term"
  /\ LET q == pid[p] IN
     pc' = [r \in Procs |->
              CASE r = q /\ pc[q] = "linked" -> "closing"
                [] r = q /\ pc[q] # "linked" /\ Alive(q) /\ Inetd -> "dead"
                [] r = p /\ (r # q \/ ~Inetd) -> "wait"
                [] OTHER -> pc[r]]
  /\ UNCHANGED <<file, pid, faults, stolen>>

\* lock_host(): kill(pid, SIGTERM) is not permitted.
KillTermFails(p) ==
  /\ pc[p] = "term" /\ Alive(pid[p])
  /\ faults < MaxFaults
  /\ faults' = faults + 1
  /\ Goto(p, "denied")
  /\ UNCHANGED <<file, pid, stolen>>

\* lock_host(): up to ten polls, half a second apart.  They end when the
\* process is gone or when the time is up.
WaitForExit(p) ==
  /\ pc[p] = "wait"
  /\ Goto(p, "kill")
  /\ UNCHANGED <<file, pid, faults, stolen>>

\* lock_host(), kill(pid, SIGKILL).  The lock is removed only on success.
KillKill(p) ==
  /\ pc[p] = "kill"
  /\ LET q == pid[p] IN
     pc' = [r \in Procs |->
              CASE r = q /\ Alive(q) -> "dead"
                [] r = p /\ r # q -> IF Alive(q) THEN "remove" ELSE "create"
                [] OTHER -> pc[r]]
  /\ UNCHANGED <<file, pid, faults, stolen>>

\* Faulty: the killed process' lock is left behind.
UnlinkKilled_kept(p) ==
  /\ pc[p] = "remove"
  /\ Goto(p, "create")
  /\ UNCHANGED <<file, pid, faults, stolen>>

\* lock_host(): the lock of the killed process is removed.
UnlinkKilled(p) ==
  /\ pc[p] = "remove"
  /\ Unlink(p)
  /\ Goto(p, "create")
  /\ UNCHANGED <<pid, faults>>

\* Faulty: rename(2) for link(2), which replaces the lock of another process.
CreateLock_rename(p) ==
  /\ pc[p] = "create"
  /\ file' = p /\ Goto(p, "setup")
  /\ UNCHANGED <<pid, faults, stolen>>

\* Faulty: the pid is written to the lock file itself before the test.
CreateLock_truncate(p) ==
  /\ pc[p] = "create"
  /\ file' = p /\ Goto(p, IF file = NoFile THEN "setup" ELSE "denied")
  /\ UNCHANGED <<pid, faults, stolen>>

\* create_lock(): link(2) fails when the lock file exists.
CreateLock(p) ==
  /\ pc[p] = "create"
  /\ \/ file = NoFile /\ file' = p /\ Goto(p, "setup")
     \/ file # NoFile /\ file' = file /\ Goto(p, "denied")
  /\ UNCHANGED <<pid, faults, stolen>>

\* create_lock(): the temp file cannot be created or written.
CreateLockFails(p) ==
  /\ pc[p] = "create"
  /\ faults < MaxFaults
  /\ faults' = faults + 1
  /\ Goto(p, "denied")
  /\ UNCHANGED <<file, pid, stolen>>

\* tunnel() opens the device and gets to linkfd(), which catches SIGTERM.
Link(p) ==
  /\ pc[p] = "setup"
  /\ Goto(p, "linked")
  /\ UNCHANGED <<file, pid, faults, stolen>>

\* tunnel() returns early: no device, no UDP session, no process.
TunnelFails(p) ==
  /\ pc[p] = "setup"
  /\ Goto(p, "closing")
  /\ UNCHANGED <<file, pid, faults, stolen>>

\* linkfd() returns, because of the peer, the network or the device.
SessionEnds(p) ==
  /\ pc[p] = "linked"
  /\ Goto(p, "closing")
  /\ UNCHANGED <<file, pid, faults, stolen>>

\* The file is removed whatever it holds.
UnlockHost(p) ==
  /\ pc[p] = "closing"
  /\ IF Multi = "allow" THEN UNCHANGED <<file, stolen>> ELSE Unlink(p)
  /\ Goto(p, "exiting")
  /\ UNCHANGED <<pid, faults>>

Exit(p) ==
  /\ pc[p] \in {"exiting", "denied"}
  /\ Goto(p, "dead")
  /\ UNCHANGED <<file, pid, faults, stolen>>

\* The process dies without running any more of its code.
Crash(p) ==
  /\ Alive(p)
  /\ faults < MaxFaults
  /\ faults' = faults + 1
  /\ Goto(p, "dead")
  /\ UNCHANGED <<file, pid, stolen>>

\* The steps a process takes of its own accord once it runs.
Step(p) ==
  \/ LockHost(p) \/ ReadLock(p) \/ UnlinkBroken(p) \/ CheckAlive(p)
  \/ UnlinkStale(p) \/ KillTerm(p) \/ WaitForExit(p) \/ KillKill(p)
  \/ UnlinkKilled(p) \/ CreateLock(p) \/ Link(p) \/ UnlockHost(p) \/ Exit(p)

\* What the client, the network and the machine do to it.
Environment(p) ==
  \/ Fork(p) \/ AuthFails(p) \/ KillTermFails(p) \/ CreateLockFails(p)
  \/ TunnelFails(p) \/ SessionEnds(p) \/ Crash(p)

Next == \E p \in Procs : Step(p) \/ Environment(p)

Spec == Init /\ [][Next]_vars

\* The operating system runs every process; nothing else is promised.
FairSpec == Spec /\ \A p \in Procs : WF_vars(Step(p))

----------------------------------------------------------------------------
TypeOK ==
  /\ pc \in [Procs -> Labels]
  /\ file \in Files
  /\ pid \in [Procs -> Files]
  /\ faults \in 0 .. MaxFaults
  /\ stolen \subseteq Procs

\* vtund.conf(5), multi: with "deny" a second session is refused, with
\* "killold" the old one is gone before the new one opens.
OneSession ==
  Multi # "allow" =>
    \A p, q \in Procs : pc[p] \in Holding /\ pc[q] \in Holding => p = q

\* Two sessions are open at once only if one of them lost its lock to another
\* process: create_lock() itself never lets two in, whatever crashed before
\* and whatever the lock file held at the start.
TwoSessionsOnlyAfterTheft ==
  Multi # "allow" =>
    \A p, q \in Procs :
      pc[p] \in Holding /\ pc[q] \in Holding /\ p # q => {p, q} \cap stolen # {}

\* The inductive form: an open session has its own lock, or lost it.
SessionOwnsLock ==
  Multi # "allow" =>
    \A p \in Procs : pc[p] \in Holding => file = p \/ p \in stolen

\* lock_host() sends SIGTERM and SIGKILL only to a process that once held
\* the lock; a process still authenticating or locking, or one that was
\* refused, is never its target.  (No pid is reused: InitFiles names none.)
Served == Holding \cup {"exiting", "dead"}
TargetsHeldTheLock ==
  /\ file \in Procs => pc[file] \in Served
  /\ \A p \in Procs : pid[p] \in Procs => pc[pid[p]] \in Served

\* The first lock to be removed from under an open session is removed by a
\* process acting on a pid that the lock file no longer holds: the window
\* between reading the file and unlinking it is the only way in, and neither
\* a crash, a kill, a broken file nor unlock_host() is another.
FirstTheftFromStaleRead ==
  [][stolen = {} /\ stolen' # {} =>
       \E p \in Procs : pc[p] \in {"broken", "stale", "remove"} /\ pid[p] # file]_vars

\* The inductive form of the two above: what read_lock() and SIGKILL
\* established about a process is still true when its lock is unlinked.
JudgedDead ==
  \A p \in Procs :
    /\ pc[p] = "broken" => pid[p] = Broken
    /\ pc[p] \in {"stale", "remove"} /\ pid[p] \in Procs => pc[pid[p]] = "dead"

\* vtund.conf(5): killold admits the new connection.  Once lock_host() has
\* found the old process alive a session of another opens, its own or that of
\* a third process that got there first, if nothing fails.
KillOldAdmits ==
  \A p, old \in Procs :
    pc[p] = "term" /\ pid[p] = old
      ~> (\E q \in Procs \ {old} : pc[q] \in Holding) \/ faults > 0

\* A broken lock, or the lock of a process that died, does not keep clients
\* out: once an authenticated client has come to read it a session opens, its
\* own or that of another process that got there first, unless something fails
\* after that.
DeadLockRecovered ==
  \A p \in Procs, n \in 0 .. MaxFaults :
    (pc[p] = "read" /\ file # NoFile /\ file # Empty /\ ~Alive(file) /\ faults = n)
      ~> (\E q \in Procs : pc[q] \in Holding) \/ faults > n
=============================================================================
