------------------------- MODULE SessionLockProofs -------------------------
(***************************************************************************)
(* Proofs about the session lock, for any number of server processes, any  *)
(* multi policy, either way of starting the server and any number of       *)
(* crashes.                                                                *)
(***************************************************************************)
EXTENDS SessionLock, TLAPS

\* Every step changes pc only to a label, and each lock_host() local and the
\* lock file hold a pid or one of the contents read_lock() tells apart.
LEMMA TypeStep == TypeOK /\ [Next]_vars => TypeOK'
<1> SUFFICES ASSUME TypeOK, [Next]_vars PROVE TypeOK'
  OBVIOUS
<1> USE ModeAssumption, FilesAssumption
<1>1. ASSUME NEW p \in Procs, Step(p) PROVE TypeOK'
  <2>1. CASE LockHost(p)
    BY <2>1 DEF TypeOK, LockHost, Goto, Labels, Locking, Holding
  <2>2. CASE ReadLock(p)
    BY <2>2 DEF TypeOK, ReadLock, Goto, Labels, Locking
  <2>3. CASE UnlinkBroken(p)
    BY <2>3 DEF TypeOK, UnlinkBroken, Unlink, Goto, Labels, Locking, Files
  <2>4. CASE CheckAlive(p)
    BY <2>4 DEF TypeOK, CheckAlive, Goto, Labels, Locking
  <2>5. CASE UnlinkStale(p)
    BY <2>5 DEF TypeOK, UnlinkStale, Unlink, Goto, Labels, Locking, Files
  <2>6. CASE KillTerm(p)
    BY <2>6 DEF TypeOK, KillTerm, Labels, Locking, Holding
  <2>7. CASE WaitForExit(p)
    BY <2>7 DEF TypeOK, WaitForExit, Goto, Labels, Locking
  <2>8. CASE KillKill(p)
    BY <2>8 DEF TypeOK, KillKill, Labels, Locking
  <2>9. CASE UnlinkKilled(p)
    BY <2>9 DEF TypeOK, UnlinkKilled, Unlink, Goto, Labels, Locking, Files
  <2>10. CASE CreateLock(p)
    BY <2>10 DEF TypeOK, CreateLock, Goto, Labels, Holding, Files
  <2>11. CASE Link(p)
    BY <2>11 DEF TypeOK, Link, Goto, Labels, Holding
  <2>12. CASE UnlockHost(p)
    BY <2>12 DEF TypeOK, UnlockHost, Unlink, Goto, Labels, Files
  <2>13. CASE Exit(p)
    BY <2>13 DEF TypeOK, Exit, Goto, Labels
  <2> QED
    BY <1>1, <2>1, <2>2, <2>3, <2>4, <2>5, <2>6, <2>7, <2>8, <2>9, <2>10,
       <2>11, <2>12, <2>13 DEF Step
<1>2. ASSUME NEW p \in Procs, Environment(p) PROVE TypeOK'
  BY <1>2 DEF TypeOK, Environment, Fork, AuthFails, KillTermFails,
    CreateLockFails, TunnelFails, SessionEnds, Crash, Goto, Labels, Holding
<1>3. CASE UNCHANGED vars
  BY <1>3 DEF TypeOK, vars
<1> QED
  BY <1>1, <1>2, <1>3 DEF Next

\* The state of the server processes and of the lock file is always well
\* typed.
THEOREM TypeCorrect == Spec => []TypeOK
<1>1. Init => TypeOK
  BY ModeAssumption, FilesAssumption DEF Init, TypeOK, Labels, Files
<1> QED
  BY <1>1, TypeStep, PTL DEF Spec

----------------------------------------------------------------------------
\* Removing the lock file never leaves an open session other than the
\* remover's without either its lock or a place in stolen.
LEMMA UnlinkKeepsOwnership ==
  ASSUME TypeOK, SessionOwnsLock, Multi # "allow", NEW p \in Procs, Unlink(p),
         NEW q \in Procs, q # p, pc[q] \in Holding
  PROVE  q \in stolen'
BY DEF SessionOwnsLock, Unlink, TypeOK

\* Only Unlink takes a session's lock away, and stolen records it.
LEMMA OwnershipStep == TypeOK /\ SessionOwnsLock /\ [Next]_vars => SessionOwnsLock'
<1> SUFFICES ASSUME TypeOK, SessionOwnsLock, [Next]_vars, Multi # "allow",
                    NEW q \in Procs, pc'[q] \in Holding
             PROVE  file' = q \/ q \in stolen'
  BY DEF SessionOwnsLock
<1> USE FilesAssumption
<1>1. ASSUME NEW p \in Procs, Step(p) PROVE file' = q \/ q \in stolen'
  <2>1. CASE \/ UnlinkBroken(p) \/ UnlinkStale(p) \/ UnlinkKilled(p)
             \/ UnlockHost(p)
    <3>1. Unlink(p) /\ q # p /\ pc[q] \in Holding
      BY <2>1 DEF UnlinkBroken, UnlinkStale, UnlinkKilled, UnlockHost, Goto,
        TypeOK, Holding
    <3> QED
      BY <3>1, UnlinkKeepsOwnership
  <2>2. CASE CreateLock(p)
    BY <2>2 DEF CreateLock, Goto, SessionOwnsLock, TypeOK, Holding
  <2>3. CASE \/ LockHost(p) \/ ReadLock(p) \/ CheckAlive(p) \/ KillTerm(p)
             \/ WaitForExit(p) \/ KillKill(p) \/ Link(p) \/ Exit(p)
    <3>1. pc[q] \in Holding /\ UNCHANGED <<file, stolen>>
      <4>1. CASE LockHost(p)
        BY <4>1 DEF LockHost, Goto, TypeOK, Holding
      <4>2. CASE ReadLock(p)
        BY <4>2 DEF ReadLock, Goto, TypeOK, Holding
      <4>3. CASE CheckAlive(p)
        BY <4>3 DEF CheckAlive, Goto, TypeOK, Holding
      <4>4. CASE KillTerm(p)
        BY <4>4 DEF KillTerm, TypeOK, Holding
      <4>5. CASE KillKill(p)
        BY <4>5 DEF KillKill, TypeOK, Holding
      <4>6. CASE WaitForExit(p) \/ Link(p) \/ Exit(p)
        BY <4>6 DEF WaitForExit, Link, Exit, Goto, TypeOK, Holding
      <4> QED
        BY <2>3, <4>1, <4>2, <4>3, <4>4, <4>5, <4>6
    <3> QED
      BY <3>1 DEF SessionOwnsLock
  <2> QED
    BY <1>1, <2>1, <2>2, <2>3 DEF Step
<1>2. ASSUME NEW p \in Procs, Environment(p) PROVE file' = q \/ q \in stolen'
  BY <1>2 DEF Environment, Fork, AuthFails, KillTermFails, CreateLockFails,
    TunnelFails, SessionEnds, Crash, Goto, SessionOwnsLock, TypeOK, Holding
<1>3. CASE UNCHANGED vars
  BY <1>3 DEF vars, SessionOwnsLock
<1> QED
  BY <1>1, <1>2, <1>3 DEF Next

\* An open session still owns the host's lock file or lost it to another
\* process, whatever crashed and whatever the file held at the start.
THEOREM Ownership == Spec => []SessionOwnsLock
<1>1. Init => SessionOwnsLock
  BY DEF Init, SessionOwnsLock, Holding
<1> QED
  BY <1>1, TypeCorrect, OwnershipStep, PTL DEF Spec

\* create_lock() never admits two sessions: two are open only when one of
\* them was robbed of its lock.
THEOREM MutualExclusionUnlessRobbed == Spec => []TwoSessionsOnlyAfterTheft
<1>1. SessionOwnsLock => TwoSessionsOnlyAfterTheft
  BY DEF SessionOwnsLock, TwoSessionsOnlyAfterTheft
<1> QED
  BY <1>1, Ownership, PTL

----------------------------------------------------------------------------
\* A process that has held the lock never locks again, and the dead stay dead.
LEMMA ServedStays ==
  ASSUME TypeOK, [Next]_vars, NEW q \in Procs
  PROVE  /\ pc[q] \in Served => pc'[q] \in Served
         /\ pc[q] = "dead" => pc'[q] = "dead"
<1>1. ASSUME NEW p \in Procs, Step(p)
      PROVE  /\ pc[q] \in Served => pc'[q] \in Served
             /\ pc[q] = "dead" => pc'[q] = "dead"
  <2>1. CASE KillTerm(p)
    BY <2>1 DEF KillTerm, TypeOK, Served, Holding, Alive
  <2>2. CASE KillKill(p)
    BY <2>2 DEF KillKill, TypeOK, Served, Holding, Alive
  <2>3. CASE ReadLock(p) \/ CheckAlive(p) \/ LockHost(p)
    BY <2>3 DEF ReadLock, CheckAlive, LockHost, Goto, TypeOK, Served, Holding
  <2>4. CASE \/ UnlinkBroken(p) \/ UnlinkStale(p) \/ WaitForExit(p)
             \/ UnlinkKilled(p) \/ CreateLock(p) \/ Link(p) \/ UnlockHost(p)
             \/ Exit(p)
    BY <2>4 DEF UnlinkBroken, UnlinkStale, WaitForExit, UnlinkKilled,
      CreateLock, Link, UnlockHost, Exit, Goto, TypeOK, Served, Holding
  <2> QED
    BY <1>1, <2>1, <2>2, <2>3, <2>4 DEF Step
<1>2. ASSUME NEW p \in Procs, Environment(p)
      PROVE  /\ pc[q] \in Served => pc'[q] \in Served
             /\ pc[q] = "dead" => pc'[q] = "dead"
  BY <1>2 DEF Environment, Fork, AuthFails, KillTermFails, CreateLockFails,
    TunnelFails, SessionEnds, Crash, Goto, TypeOK, Served, Holding, Alive
<1> QED
  BY <1>1, <1>2 DEF Next, vars

\* The only ways a pid gets into the lock file and into lock_host()'s local.
LEMMA WhereTargetsComeFrom ==
  ASSUME TypeOK, [Next]_vars
  PROVE  /\ file' \in Procs => file' = file \/ pc'[file'] = "setup"
         /\ \A p \in Procs : pid'[p] = pid[p] \/ pid'[p] = file
<1> USE FilesAssumption
<1>1. ASSUME NEW p \in Procs, Step(p)
      PROVE  /\ file' \in Procs => file' = file \/ pc'[file'] = "setup"
             /\ \A q \in Procs : pid'[q] = pid[q] \/ pid'[q] = file
  <2>1. CASE ReadLock(p)
    BY <2>1 DEF ReadLock, TypeOK
  <2>2. CASE CreateLock(p)
    BY <2>2 DEF CreateLock, Goto, TypeOK
  <2>3. CASE \/ UnlinkBroken(p) \/ UnlinkStale(p) \/ UnlinkKilled(p)
             \/ UnlockHost(p)
    BY <2>3 DEF UnlinkBroken, UnlinkStale, UnlinkKilled, UnlockHost, Unlink
  <2>4. CASE \/ LockHost(p) \/ CheckAlive(p) \/ KillTerm(p) \/ WaitForExit(p)
             \/ KillKill(p) \/ Link(p) \/ Exit(p)
    BY <2>4 DEF LockHost, CheckAlive, KillTerm, WaitForExit, KillKill, Link, Exit
  <2> QED
    BY <1>1, <2>1, <2>2, <2>3, <2>4 DEF Step
<1>2. ASSUME NEW p \in Procs, Environment(p)
      PROVE  UNCHANGED <<file, pid>>
  BY <1>2 DEF Environment, Fork, AuthFails, KillTermFails, CreateLockFails,
    TunnelFails, SessionEnds, Crash
<1> QED
  BY <1>1, <1>2 DEF Next, vars

\* The pid that a process read is one that has held the lock.
LEMMA TargetStep == TypeOK /\ TargetsHeldTheLock /\ [Next]_vars => TargetsHeldTheLock'
<1> SUFFICES ASSUME TypeOK, TargetsHeldTheLock, [Next]_vars
             PROVE  TargetsHeldTheLock'
  OBVIOUS
<1>1. file' \in Procs => pc'[file'] \in Served
  BY WhereTargetsComeFrom, ServedStays DEF TargetsHeldTheLock, Served, Holding
<1>2. ASSUME NEW p \in Procs, pid'[p] \in Procs PROVE pc'[pid'[p]] \in Served
  BY <1>2, WhereTargetsComeFrom, ServedStays DEF TargetsHeldTheLock
<1> QED
  BY <1>1, <1>2 DEF TargetsHeldTheLock

\* lock_host() signals only processes that held the lock, provided that the
\* lock file found at the start does not name a pid that is used again.
THEOREM SignalsOnlyHolders ==
  ASSUME InitFiles \cap Procs = {}
  PROVE  Spec => []TargetsHeldTheLock
<1>1. Init => TargetsHeldTheLock
  BY FilesAssumption DEF Init, TargetsHeldTheLock
<1> QED
  BY <1>1, TypeCorrect, TargetStep, PTL DEF Spec

----------------------------------------------------------------------------
\* A process judged dead stays dead.
LEMMA JudgedDeadStep ==
  TypeOK /\ TargetsHeldTheLock /\ JudgedDead /\ [Next]_vars => JudgedDead'
<1> SUFFICES ASSUME TypeOK, TargetsHeldTheLock, JudgedDead, [Next]_vars,
                    NEW q \in Procs
             PROVE  /\ pc'[q] = "broken" => pid'[q] = Broken
                    /\ pc'[q] \in {"stale", "remove"} /\ pid'[q] \in Procs
                         => pc'[pid'[q]] = "dead"
  BY DEF JudgedDead
<1> USE FilesAssumption
<1>1. CASE pc'[q] = pc[q] /\ pid'[q] = pid[q]
  BY <1>1, ServedStays DEF JudgedDead
<1>2. CASE ReadLock(q)
  BY <1>2 DEF ReadLock, Goto, TypeOK
<1>3. CASE CheckAlive(q)
  BY <1>3 DEF CheckAlive, Goto, TypeOK, Alive, TargetsHeldTheLock, Served,
    Holding
<1>4. CASE KillKill(q)
  BY <1>4 DEF KillKill, TypeOK, Alive
<1>5. CASE \/ pc'[q] \notin {"broken", "stale", "remove"}
  BY <1>5
<1>6. ASSUME NEW p \in Procs, Step(p)
      PROVE  \/ pc'[q] = pc[q] /\ pid'[q] = pid[q]
             \/ pc'[q] \notin {"broken", "stale", "remove"}
             \/ ReadLock(q) \/ CheckAlive(q) \/ KillKill(q)
  <2>1. CASE KillTerm(p)
    BY <2>1 DEF KillTerm, TypeOK
  <2>2. CASE KillKill(p)
    BY <2>2 DEF KillKill, TypeOK
  <2>3. CASE ReadLock(p)
    BY <2>3 DEF ReadLock, Goto, TypeOK
  <2>4. CASE CheckAlive(p) \/ LockHost(p)
    BY <2>4 DEF CheckAlive, LockHost, Goto, TypeOK
  <2>5. CASE \/ UnlinkBroken(p) \/ UnlinkStale(p) \/ WaitForExit(p)
             \/ UnlinkKilled(p) \/ CreateLock(p) \/ Link(p) \/ UnlockHost(p)
             \/ Exit(p)
    BY <2>5 DEF UnlinkBroken, UnlinkStale, WaitForExit, UnlinkKilled,
      CreateLock, Link, UnlockHost, Exit, Goto, TypeOK
  <2> QED
    BY <1>6, <2>1, <2>2, <2>3, <2>4, <2>5 DEF Step
<1>7. ASSUME NEW p \in Procs, Environment(p)
      PROVE  \/ pc'[q] = pc[q] /\ pid'[q] = pid[q]
             \/ pc'[q] \notin {"broken", "stale", "remove"}
  BY <1>7 DEF Environment, Fork, AuthFails, KillTermFails, CreateLockFails,
    TunnelFails, SessionEnds, Crash, Goto, TypeOK
<1>8. CASE UNCHANGED vars
  BY <1>8, <1>1 DEF vars
<1> QED
  BY <1>1, <1>2, <1>3, <1>4, <1>5, <1>6, <1>7, <1>8 DEF Next

\* A lock judged dead by read_lock() or by SIGKILL stays so until its file is
\* unlinked, so a first theft is always the theft of a file that changed
\* hands after it was read.
THEOREM TheftNeedsStaleRead ==
  ASSUME InitFiles \cap Procs = {}
  PROVE  Spec => FirstTheftFromStaleRead
<1> DEFINE Inv == TypeOK /\ SessionOwnsLock /\ TargetsHeldTheLock /\ JudgedDead
<1>1. Init => JudgedDead
  BY DEF Init, JudgedDead
<1>2. Inv /\ [Next]_vars =>
        [stolen = {} /\ stolen' # {} =>
           \E p \in Procs : pc[p] \in {"broken", "stale", "remove"}
                            /\ pid[p] # file]_vars
  <2> SUFFICES ASSUME Inv, Next, stolen = {}, stolen' # {}
               PROVE  \E p \in Procs : pc[p] \in {"broken", "stale", "remove"}
                                       /\ pid[p] # file
    BY DEF vars
  <2>1. PICK p \in Procs : Step(p) \/ Environment(p)
    BY DEF Next
  <2>2. ~Environment(p)
    BY DEF Environment, Fork, AuthFails, KillTermFails, CreateLockFails,
      TunnelFails, SessionEnds, Crash
  <2>3. CASE UnlinkBroken(p) \/ UnlinkStale(p) \/ UnlinkKilled(p)
    <3>1. pc[p] \in {"broken", "stale", "remove"} /\ Unlink(p)
      BY <2>3 DEF UnlinkBroken, UnlinkStale, UnlinkKilled
    <3>2. file \in Procs /\ pc[file] \in Holding
      BY <3>1 DEF Unlink
    <3>3. pid[p] # file
      BY <3>1, <3>2, FilesAssumption DEF JudgedDead, Holding
    <3> QED
      BY <3>1, <3>3
  <2>4. CASE UnlockHost(p)
    BY <2>4 DEF UnlockHost, Unlink, SessionOwnsLock, Holding
  <2>5. CASE \/ LockHost(p) \/ ReadLock(p) \/ CheckAlive(p) \/ KillTerm(p)
             \/ WaitForExit(p) \/ KillKill(p) \/ CreateLock(p) \/ Link(p)
             \/ Exit(p)
    BY <2>5 DEF LockHost, ReadLock, CheckAlive, KillTerm, WaitForExit,
      KillKill, CreateLock, Link, Exit
  <2> QED
    BY <2>1, <2>2, <2>3, <2>4, <2>5 DEF Step
<1> QED
  BY <1>1, <1>2, TypeCorrect, Ownership, SignalsOnlyHolders, JudgedDeadStep,
     PTL DEF Spec, FirstTheftFromStaleRead

----------------------------------------------------------------------------
\* Without a left-over pid the lock file and lock_host()'s local name no
\* process but those that run, and nobody judges itself.
NoLeftOver ==
  /\ file \in Procs \cup {NoFile, Empty}
  /\ \A p \in Procs :
       /\ pc[p] # "broken"
       /\ pc[p] \in {"check", "stale", "term", "wait", "kill", "remove"}
            => pid[p] \in Procs \ {p}

\* lock_host() acts on a pid that it read from a file which names another.
LEMMA NoLeftOverStep ==
  ASSUME TypeOK, TargetsHeldTheLock, NoLeftOver, [Next]_vars
  PROVE  NoLeftOver'
<1> USE FilesAssumption
<1>1. file' \in Procs \cup {NoFile, Empty}
  <2>1. ASSUME NEW p \in Procs, Step(p) PROVE file' \in Procs \cup {NoFile, Empty}
    BY <2>1 DEF Step, LockHost, ReadLock, UnlinkBroken, CheckAlive, UnlinkStale, KillTerm,
      WaitForExit, KillKill, UnlinkKilled, CreateLock, Link, UnlockHost, Exit, Unlink,
      NoLeftOver
  <2>2. ASSUME NEW p \in Procs, Environment(p) PROVE file' = file
    BY <2>2 DEF Environment, Fork, AuthFails, KillTermFails, CreateLockFails,
      TunnelFails, SessionEnds, Crash
  <2> QED
    BY <2>1, <2>2 DEF Next, vars, NoLeftOver
<1>2. ASSUME NEW q \in Procs
      PROVE  /\ pc'[q] # "broken"
             /\ pc'[q] \in {"check", "stale", "term", "wait", "kill", "remove"}
                  => pid'[q] \in Procs \ {q}
  <2> DEFINE Acting == {"check", "stale", "term", "wait", "kill", "remove"}
  <2>1. ASSUME NEW p \in Procs, Step(p)
        PROVE  \/ pid'[q] = pid[q] /\ (pc'[q] = pc[q] \/ pc[q] \in Acting)
               \/ pc'[q] \notin Acting \cup {"broken"}
               \/ ReadLock(q)
    <3>1. CASE KillTerm(p)
      BY <3>1 DEF KillTerm, TypeOK
    <3>2. CASE KillKill(p)
      BY <3>2 DEF KillKill, TypeOK
    <3>3. CASE ReadLock(p)
      BY <3>3 DEF ReadLock, Goto, TypeOK
    <3>4. CASE CheckAlive(p) \/ LockHost(p)
      BY <3>4 DEF CheckAlive, LockHost, Goto, TypeOK
    <3>5. CASE \/ UnlinkBroken(p) \/ UnlinkStale(p) \/ WaitForExit(p)
               \/ UnlinkKilled(p) \/ CreateLock(p) \/ Link(p) \/ UnlockHost(p)
               \/ Exit(p)
      BY <3>5 DEF UnlinkBroken, UnlinkStale, WaitForExit, UnlinkKilled,
        CreateLock, Link, UnlockHost, Exit, Goto, TypeOK
    <3> QED
      BY <2>1, <3>1, <3>2, <3>3, <3>4, <3>5 DEF Step
  <2>2. ASSUME NEW p \in Procs, Environment(p)
        PROVE  \/ pc'[q] = pc[q] /\ pid'[q] = pid[q]
               \/ pc'[q] \notin Acting \cup {"broken"}
    BY <2>2 DEF Environment, Fork, AuthFails, KillTermFails, CreateLockFails,
      TunnelFails, SessionEnds, Crash, Goto, TypeOK
  <2>3. CASE ReadLock(q)
    <3>1. file # q
      BY <2>3 DEF ReadLock, TargetsHeldTheLock, Served, Holding
    <3> QED
      BY <2>3, <3>1 DEF ReadLock, Goto, TypeOK, NoLeftOver
  <2>4. \/ ReadLock(q) \/ pc'[q] \notin Acting \cup {"broken"}
        \/ pid'[q] = pid[q] /\ (pc'[q] = pc[q] \/ (pc[q] \in Acting /\ pc'[q] # "broken"))
    <3>1. ASSUME pc[q] \in Acting, NEW p \in Procs, Step(p) PROVE pc'[q] # "broken"
      BY <3>1, <2>1 DEF Step, LockHost, ReadLock, UnlinkBroken, CheckAlive, UnlinkStale,
        KillTerm, WaitForExit, KillKill, UnlinkKilled, CreateLock, Link, UnlockHost, Exit,
        Goto, TypeOK
    <3> QED
      BY <3>1, <2>1, <2>2 DEF Next, vars
  <2> QED
    BY <2>3, <2>4 DEF NoLeftOver
<1> QED
  BY <1>1, <1>2 DEF NoLeftOver

\* Two processes, that is to say at most two.
AtMostTwo == \A p, q, r \in Procs : p = q \/ q = r \/ p = r

\* With two processes nobody is robbed: one that was judged by the other is
\* dead, and there is no third that could have taken its place.
LEMMA NobodyRobbed ==
  ASSUME AtMostTwo, Multi # "allow", TypeOK, SessionOwnsLock, JudgedDead, NoLeftOver,
         stolen = {}, [Next]_vars
  PROVE  stolen' = {}
<1>1. CASE UNCHANGED vars
  BY <1>1 DEF vars
<1>2. ASSUME NEW p \in Procs, Environment(p) PROVE stolen' = {}
  BY <1>2 DEF Environment, Fork, AuthFails, KillTermFails, CreateLockFails,
    TunnelFails, SessionEnds, Crash
<1>3. ASSUME NEW p \in Procs, Step(p) PROVE stolen' = {}
  <2>1. CASE UnlinkBroken(p)
    BY <2>1 DEF UnlinkBroken, NoLeftOver
  <2>2. CASE UnlinkStale(p) \/ UnlinkKilled(p)
    <3>1. pc[p] \in {"stale", "remove"} /\ Unlink(p)
      BY <2>2 DEF UnlinkStale, UnlinkKilled
    <3>2. pid[p] \in Procs \ {p} /\ pc[pid[p]] = "dead"
      BY <3>1 DEF NoLeftOver, JudgedDead
    <3>3. ASSUME NEW q \in Procs, q # p PROVE pc[q] \notin Holding
      BY <3>2, <3>3 DEF AtMostTwo, Holding
    <3> QED
      BY <3>1, <3>3 DEF Unlink
  <2>3. CASE UnlockHost(p)
    BY <2>3 DEF UnlockHost, Unlink, SessionOwnsLock, Holding
  <2>4. CASE \/ LockHost(p) \/ ReadLock(p) \/ CheckAlive(p) \/ KillTerm(p)
             \/ WaitForExit(p) \/ KillKill(p) \/ CreateLock(p) \/ Link(p)
             \/ Exit(p)
    BY <2>4 DEF LockHost, ReadLock, CheckAlive, KillTerm, WaitForExit,
      KillKill, CreateLock, Link, Exit
  <2> QED
    BY <1>3, <2>1, <2>2, <2>3, <2>4 DEF Step
<1> QED
  BY <1>1, <1>2, <1>3 DEF Next

\* vtund.conf(5), multi: two connections for a host that come at the same time
\* never have a session each, under "deny" as under "killold" and whatever
\* crashes, if the server found no lock file or an empty one.  With a third process,
\* or with a dead process' lock left over, lock_host() does not promise it.
THEOREM TwoNeverCollide ==
  ASSUME AtMostTwo, InitFiles \subseteq {NoFile, Empty}
  PROVE  Spec => []OneSession
<1> DEFINE Known == TypeOK /\ SessionOwnsLock /\ TargetsHeldTheLock
           Quiet == JudgedDead /\ NoLeftOver /\ (Multi # "allow" => stolen = {})
<1>1. Spec => []Known
  <2>1. InitFiles \cap Procs = {}
    BY FilesAssumption
  <2> QED
    BY <2>1, TypeCorrect, Ownership, SignalsOnlyHolders, PTL
<1>2. Init => Quiet
  BY DEF Init, JudgedDead, NoLeftOver
<1>3. Known /\ Quiet /\ [Next]_vars => Quiet'
  BY JudgedDeadStep, NoLeftOverStep, NobodyRobbed
<1>4. Known /\ Quiet => OneSession
  BY DEF SessionOwnsLock, OneSession
<1> QED
  BY <1>1, <1>2, <1>3, <1>4, PTL DEF Spec
=============================================================================
