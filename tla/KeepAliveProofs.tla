-------------------------- MODULE KeepAliveProofs --------------------------
(***************************************************************************)
(* Proofs about KeepAlive, for all intervals, retry counts and flags, with *)
(* and without a network that blocks.                                      *)
(***************************************************************************)
EXTENDS KeepAlive, TLAPS

\* idle counts checks; each but the first sent a probe.
ProbesCounted == echoes = IF idle = 0 THEN 0 ELSE idle - 1

\* The alarm comes no later than the statistics are due, and stat_timer runs
\* out no later than that, however long ago SIGALRM last came.
DumpDue ==
  StatFlag /\ status \in Running =>
    /\ undumped + alarm <= STAT_IVAL
    /\ since = Long \/ undumped + stat_timer <= STAT_IVAL + since

\* Once a check was made and another is due, or a probe sent, SIGALRM has come
\* in this session, so the alarm comes no later than ka_timer runs out.
CheckDue ==
  status \in Running /\ (idle >= 2 \/ (idle >= 1 /\ ka_need_verify)) =>
    KaFlag /\ since + alarm <= ka_timer

\* The keep-alive flag is needed for a check to become due.
NoCheckWithoutFlag == ~KaFlag => ~ka_need_verify

Inv ==
  /\ FlagsOK /\ CountersOK /\ AlarmArmed /\ ProbesCounted /\ DumpDue
  /\ CheckDue /\ NoCheckWithoutFlag

----------------------------------------------------------------------------
\* Inv is inductive: the initial states, then one lemma per kind of step.

\* Arithmetic that the provers find only on its own.
LEMMA ProbesInRange ==
  ASSUME NEW n \in Nat, NEW i \in 0 .. n + 1, NEW e,
         e = IF i = 0 THEN 0 ELSE i - 1
  PROVE  e \in 0 .. n
OBVIOUS

\* What comes no later than a time within a bound.
LEMMA NoLater ==
  \A u, a, s, b \in Int : u + s <= b /\ a <= s => u + a <= b
OBVIOUS

\* lfd_linker() enters its loop with nothing overdue.
LEMMA InitInv == Init => Inv
<1> SUFFICES ASSUME Init PROVE Inv
  OBVIOUS
<1> USE KeepAliveAssumption
        DEF Init, FirstAlarm, SetAlarm, Smaller, Off, Running, Blocked, Ended, Long
<1>1. FlagsOK
  BY DEF FlagsOK
<1>2. CountersOK
  BY DEF CountersOK
<1>3. AlarmArmed
  BY DEF AlarmArmed
<1>4. ProbesCounted /\ CheckDue /\ NoCheckWithoutFlag
  BY DEF ProbesCounted, CheckDue, NoCheckWithoutFlag
<1>5. DumpDue
  BY DEF DumpDue
<1> QED
  BY <1>1, <1>2, <1>3, <1>4, <1>5 DEF Inv

\* The handler re-arms the alarm for the earlier of the two timers.
LEMMA SigAlarmInv == Inv /\ SigAlarm => Inv'
<1> SUFFICES ASSUME Inv, SigAlarm PROVE Inv'
  OBVIOUS
<1> USE KeepAliveAssumption
<1> DEFINE ka == ka_timer - since
           stat == stat_timer - since
<1>0. FlagsOK /\ CountersOK
  BY DEF Inv
<1>1. ka_timer' = (IF ~KaFlag THEN ka_timer
                   ELSE IF ka <= 0 THEN ka_interval + 1 ELSE ka)
  BY DEF SigAlarm, RestartTimer
<1>2. stat_timer' = (IF ~StatFlag THEN stat_timer
                     ELSE IF stat <= 0 THEN STAT_IVAL ELSE stat)
  BY DEF SigAlarm
<1>3. ka_timer' \in 0 .. ka_interval + 1 /\ stat_timer' \in 0 .. STAT_IVAL
  BY <1>0, <1>1, <1>2 DEF CountersOK, Long
<1>4. alarm' = Arm(ka_timer', stat_timer')
  BY DEF SigAlarm
<1>5. alarm' \in Nat \cup {Off}
  BY <1>3, <1>4 DEF Arm, SetAlarm, Smaller, Off
<1>6. CountersOK'
  <2>1. since' \in 0 .. Long /\ timeout' \in 0 .. ka_interval
    BY <1>0 DEF CountersOK, SigAlarm, Long
  <2>2. undumped' \in Nat
    BY <1>0 DEF CountersOK, SigAlarm
  <2>3. UNCHANGED <<status, idle, sessions, silence, echoes, probe>>
    BY DEF SigAlarm
  <2> QED
    BY <1>0, <1>3, <1>5, <2>1, <2>2, <2>3 DEF CountersOK
<1>7. FlagsOK'
  BY <1>0 DEF FlagsOK, SigAlarm
<1>8. KaFlag => alarm' # Off /\ alarm' <= ka_timer'
  BY <1>0, <1>1, <1>3, <1>4 DEF CountersOK, Arm, SetAlarm, Smaller, Off, Long
<1>9. StatFlag => alarm' # Off /\ alarm' <= stat_timer'
  BY <1>0, <1>2, <1>3, <1>4 DEF CountersOK, Arm, SetAlarm, Smaller, Off, Long
<1>10. AlarmArmed'
  BY <1>8, <1>9 DEF AlarmArmed
<1>11. DumpDue'
  <2> SUFFICES ASSUME StatFlag
               PROVE  /\ undumped' + alarm' <= STAT_IVAL
                      /\ undumped' + stat_timer' <= STAT_IVAL + since'
    BY DEF DumpDue
  <2>1. since' = 0 /\ undumped' = IF stat <= 0 THEN 0 ELSE undumped
    BY DEF SigAlarm
  <2>2. undumped' + stat_timer' <= STAT_IVAL
    BY <1>0, <1>2, <2>1 DEF Inv, CountersOK, DumpDue, SigAlarm, Long
  <2>3. undumped' \in Nat /\ alarm' <= stat_timer' /\ alarm' \in Nat
    BY <1>5, <1>6, <1>9 DEF CountersOK
  <2>4. undumped' + alarm' <= STAT_IVAL
    <3>1. {undumped', alarm', stat_timer', STAT_IVAL} \subseteq Int
      BY <1>3, <2>3
    <3> QED
      BY <2>2, <2>3, <3>1, NoLater
  <2>5. STAT_IVAL + since' = STAT_IVAL
    BY <2>1
  <2> QED
    BY <2>2, <2>4, <2>5
<1>12. CheckDue'
  <2>1. NoCheckWithoutFlag /\ CheckDue
    BY DEF Inv
  <2>2. since' = 0 /\ idle' = idle /\ (~KaFlag => ka_need_verify' = ka_need_verify)
    BY <1>0 DEF SigAlarm, FlagsOK
  <2> QED
    BY <1>3, <1>5, <1>8, <2>1, <2>2
    DEF CheckDue, NoCheckWithoutFlag, Off, SigAlarm
<1>13. ProbesCounted' /\ NoCheckWithoutFlag'
  BY <1>0 DEF Inv, SigAlarm, ProbesCounted, NoCheckWithoutFlag, FlagsOK
<1> QED
  BY <1>6, <1>7, <1>10, <1>11, <1>12, <1>13 DEF Inv

\* A session that ends leaves nothing armed and nothing due.
LEMMA EndInv == \A why \in Ended : Inv /\ End(why) => Inv'
<1> SUFFICES ASSUME NEW why \in Ended, Inv, End(why) PROVE Inv'
  OBVIOUS
<1> USE DEF End, handler, history, Ended, Running, Blocked, Off
<1>1. FlagsOK' /\ CountersOK'
  BY DEF Inv, FlagsOK, CountersOK
<1>2. AlarmArmed' /\ DumpDue' /\ CheckDue'
  BY DEF AlarmArmed, DumpDue, CheckDue
<1>3. ProbesCounted' /\ NoCheckWithoutFlag'
  BY DEF Inv, ProbesCounted, NoCheckWithoutFlag
<1> QED
  BY <1>1, <1>2, <1>3 DEF Inv

\* An iteration counts a check at most, and only below the limit.
LEMMA IterateInv == Inv /\ Iterate => Inv'
<1> SUFFICES ASSUME Inv, Iterate PROVE Inv'
  OBVIOUS
<1> USE KeepAliveAssumption DEF Inv, Iterate, Serve, handler
<1>1. idle' \in 0 .. ka_maxfail + 1 /\ ProbesCounted'
  BY DEF CountersOK, CountSilence, TooQuiet, ProbesCounted
<1>2. echoes' = IF idle' = 0 THEN 0 ELSE idle' - 1
  BY <1>1 DEF ProbesCounted
<1>3. echoes' \in 0 .. ka_maxfail
  BY <1>1, <1>2, ProbesInRange
<1>4. silence' \in Nat /\ probe' \in Nat
  BY DEF CountersOK, CountSilence
<1>5. status' \in Running /\ status = "linking"
  BY DEF Selected, Running, Blocked
<1>6. FlagsOK'
  BY DEF FlagsOK
<1>7. CountersOK'
  BY <1>1, <1>3, <1>4, <1>5 DEF CountersOK
<1>8. AlarmArmed' /\ DumpDue' /\ NoCheckWithoutFlag'
  BY <1>5 DEF AlarmArmed, DumpDue, NoCheckWithoutFlag, Running, Blocked, Long
<1>9. CheckDue'
  BY <1>5 DEF CheckDue, CountSilence, CountersOK, Running, Blocked
<1> QED
  BY <1>1, <1>6, <1>7, <1>8, <1>9

\* A probe that has to wait is counted like one that has not.
LEMMA ProbeInv == Inv /\ Probe => Inv'
<1> SUFFICES ASSUME Inv, Probe PROVE Inv'
  OBVIOUS
<1> USE KeepAliveAssumption DEF Inv, Probe, handler
<1>1. idle' \in 0 .. ka_maxfail + 1 /\ ProbesCounted'
  BY DEF CountersOK, TooQuiet, ProbesCounted
<1>2. echoes' = IF idle' = 0 THEN 0 ELSE idle' - 1
  BY <1>1 DEF ProbesCounted
<1>3. echoes' \in 0 .. ka_maxfail
  BY <1>1, <1>2, ProbesInRange
<1>4. status' \in Running /\ status \in Running
  BY DEF Selected, Running, Blocked
<1>5. FlagsOK'
  BY DEF FlagsOK
<1>6. CountersOK'
  BY <1>1, <1>3, <1>4 DEF CountersOK
<1>7. AlarmArmed' /\ DumpDue' /\ NoCheckWithoutFlag'
  BY <1>4 DEF AlarmArmed, DumpDue, NoCheckWithoutFlag, Long
<1>8. CheckDue'
  BY <1>4 DEF CheckDue, CountersOK
<1> QED
  BY <1>1, <1>5, <1>6, <1>7, <1>8

\* A reconnection, with the handler's variables as the last session left them.
LEMMA RestartInv == Inv /\ Restart => Inv'
<1> SUFFICES ASSUME Inv, Restart PROVE Inv'
  OBVIOUS
<1> USE KeepAliveAssumption
        DEF Inv, Restart, handler, Running, Blocked, FirstAlarm, SetAlarm, Smaller, Off
<1>1. FlagsOK'
  BY DEF FlagsOK
<1>2. CountersOK'
  BY DEF CountersOK
<1>3. AlarmArmed'
  BY DEF AlarmArmed
<1>4. DumpDue'
  BY DEF DumpDue, CountersOK, Long
<1>5. CheckDue' /\ ProbesCounted' /\ NoCheckWithoutFlag'
  BY DEF CheckDue, ProbesCounted, NoCheckWithoutFlag
<1> QED
  BY <1>1, <1>2, <1>3, <1>4, <1>5

\* A second passes only while nothing is due.
LEMMA TickInv == Inv /\ Tick => Inv'
<1> SUFFICES ASSUME Inv, Tick PROVE Inv'
  OBVIOUS
<1> USE KeepAliveAssumption, SilenceAssumption DEF Inv, Tick
<1>1. FlagsOK'
  BY DEF FlagsOK
<1>2. CountersOK'
  BY DEF CountersOK, Smaller, Later, Selected, Running, Blocked, Off, Long
<1>3. AlarmArmed'
  BY DEF CountersOK, AlarmArmed, Off
<1>4. ProbesCounted' /\ NoCheckWithoutFlag'
  BY DEF ProbesCounted, NoCheckWithoutFlag
<1>5. DumpDue'
  BY DEF CountersOK, DumpDue, AlarmArmed, Smaller, Later, Off, Long
<1>6. CheckDue'
  BY DEF CountersOK, CheckDue, AlarmArmed, Smaller, Off, Long
<1> QED
  BY <1>1, <1>2, <1>3, <1>4, <1>5, <1>6

\* The steps that change neither the handler nor the loop's counters.
LEMMA QuietInv ==
  ASSUME Inv, Unblock \/ FrameArrives \/ DeviceReady \/ PeerDies
  PROVE  Inv'
<1> USE KeepAliveAssumption
        DEF Inv, Unblock, FrameArrives, DeviceReady, PeerDies, handler, history
<1>1. FlagsOK'
  BY DEF FlagsOK
<1>2. CountersOK'
  BY DEF CountersOK, Running, Blocked
<1>3. AlarmArmed' /\ DumpDue'
  BY DEF AlarmArmed, DumpDue, Running, Blocked, Long
<1>4. (ka_need_verify' => ka_need_verify) /\ status' \in Running /\ status \in Running
  BY DEF FlagsOK, Running, Blocked
<1>5. CheckDue'
  BY <1>4 DEF CheckDue
<1>6. ProbesCounted' /\ NoCheckWithoutFlag'
  BY <1>4 DEF ProbesCounted, NoCheckWithoutFlag
<1> QED
  BY <1>1, <1>2, <1>3, <1>5, <1>6

\* Every step preserves the invariant.
LEMMA NextInv == Inv /\ [Next]_vars => Inv'
<1> SUFFICES ASSUME Inv, [Next]_vars PROVE Inv'
  OBVIOUS
<1>1. CASE SigAlarm
  BY <1>1, SigAlarmInv
<1>2. CASE GiveUp \/ Close
  BY <1>2, EndInv DEF GiveUp, Close, Ended
<1>3. CASE Iterate \/ Probe
  BY <1>3, IterateInv, ProbeInv
<1>4. CASE Restart
  BY <1>4, RestartInv
<1>5. CASE Unblock \/ FrameArrives \/ DeviceReady \/ PeerDies
  BY <1>5, QuietInv
<1>6. CASE Tick
  BY <1>6, TickInv
<1>7. CASE UNCHANGED vars
  <2> USE DEF vars, handler, history
  <2>1. FlagsOK' /\ CountersOK'
    BY <1>7 DEF Inv, FlagsOK, CountersOK
  <2>2. AlarmArmed' /\ DumpDue' /\ CheckDue'
    BY <1>7 DEF Inv, AlarmArmed, DumpDue, CheckDue
  <2>3. ProbesCounted' /\ NoCheckWithoutFlag'
    BY <1>7 DEF Inv, ProbesCounted, NoCheckWithoutFlag
  <2> QED
    BY <2>1, <2>2, <2>3 DEF Inv
<1> QED
  BY <1>1, <1>2, <1>3, <1>4, <1>5, <1>6, <1>7 DEF Next

\* The invariant holds throughout.
LEMMA Invariance == Spec => []Inv
<1>1. Init => Inv
  BY InitInv
<1>2. Inv /\ [Next]_vars => Inv'
  BY NextInv
<1> QED
  BY <1>1, <1>2, PTL DEF Spec

----------------------------------------------------------------------------
\* Every variable stays in its range: idle, in particular, never passes
\* ka_maxfail + 1, and no timer of the handler goes below zero.
THEOREM TypeCorrect == Spec => []TypeOK
<1>1. Inv => TypeOK
  BY DEF Inv, TypeOK
<1> QED
  BY <1>1, Invariance, PTL

\* The alarm that sig_alarm() and linkfd() share between keep-alive and
\* statistics is never left unarmed while a session runs.
THEOREM AlarmAlwaysArmed == Spec => []AlarmArmed
<1>1. Inv => AlarmArmed
  BY DEF Inv
<1> QED
  BY <1>1, Invariance, PTL

\* sig_alarm() writes the statistics every VTUN_STAT_IVAL seconds, for every
\* keep-alive interval, shorter or longer.
THEOREM StatisticsOnTime == Spec => []StatsOnTime
<1>1. Inv => StatsOnTime
  BY KeepAliveAssumption DEF Inv, StatsOnTime, DumpDue, AlarmArmed, CountersOK, Off
<1> QED
  BY <1>1, Invariance, PTL

----------------------------------------------------------------------------
\* The age of the first probe.  Checks since then, counting one that is due,
\* lie a whole interval apart.  One that comes due while a probe waits to be
\* written is forgotten.

Due == IF ka_need_verify /\ status # "probing" THEN 1 ELSE 0
Checks == idle - 2 + Due

ProbeAge ==
  status \in Running /\ idle >= 2 =>
    \/ probe = MaxSilence
    \/ probe >= Checks * (ka_interval + 1) - ka_timer + since

\* Multiplication, as far as the steps below need it.
LEMMA Times ==
  ASSUME NEW n \in Int, NEW k \in Nat
  PROVE  n * k \in Int /\ (n + 1) * k = n * k + k /\ 0 * k = 0
OBVIOUS

\* Multiplication by a natural number is monotonic.
LEMMA TimesMonotonic ==
  ASSUME NEW m \in Int, NEW n \in Int, NEW k \in Nat, m <= n
  PROVE  m * k <= n * k
OBVIOUS

\* A probe that was sent long enough ago for the counter to stop is old enough.
LEMMA StoppedIsOld == MaxSilence >= (ka_maxfail - 1) * (ka_interval + 1)
<1> USE KeepAliveAssumption
<1> DEFINE k == ka_interval + 1
           c == 2 * (ka_maxfail + 2)
<1>1. k \in Nat /\ ka_maxfail - 1 \in Int /\ c \in Int /\ ka_maxfail - 1 <= c
  OBVIOUS
<1>2. MaxSilence > c * k + ka_interval /\ MaxSilence \in Nat
  BY SilenceAssumption DEF Deadline
<1> HIDE DEF k, c
<1>3. (ka_maxfail - 1) * k <= c * k /\ (ka_maxfail - 1) * k \in Int /\ c * k \in Int
  BY <1>1, TimesMonotonic, Times
<1>4. (ka_maxfail - 1) * k <= MaxSilence
  BY <1>2, <1>3
<1> QED
  BY <1>3, <1>4 DEF k

\* A check becomes due a whole interval after the one before it.
LEMMA SigAlarmAge == Inv /\ ProbeAge /\ SigAlarm => ProbeAge'
<1> USE KeepAliveAssumption
<1> DEFINE k == ka_interval + 1
<1> SUFFICES ASSUME Inv, ProbeAge, SigAlarm, status \in Running, idle >= 2,
                    probe # MaxSilence
             PROVE  probe >= Checks' * k - ka_timer' + since'
  BY DEF ProbeAge, SigAlarm
<1>1. /\ KaFlag /\ since <= ka_timer /\ alarm = 0
      /\ idle \in Nat /\ since \in Nat /\ ka_timer \in Nat /\ probe \in Nat
  BY DEF Inv, CheckDue, SigAlarm, CountersOK, Long
<1>2. probe >= Checks * k - ka_timer + since
  BY DEF ProbeAge
<1>3. idle' = idle /\ since' = 0
  BY DEF SigAlarm
<1>4. Checks \in Int /\ k \in Nat /\ Checks * k \in Int
  BY <1>1, Times DEF Checks, Due
<1>5. CASE ka_timer - since <= 0
  <2>1. ka_timer = since /\ ka_timer' = k /\ ka_need_verify'
    <3>1. ka_timer = since
      BY <1>1, <1>5
    <3>2. ka_timer' = k
      BY <1>1, <1>5 DEF SigAlarm, RestartTimer
    <3>3. ka_need_verify'
      BY <1>1, <1>5 DEF SigAlarm
    <3> QED
      BY <3>1, <3>2, <3>3
  <2>2. /\ Checks' \in Int /\ Checks' <= (idle - 2) + 1
        /\ idle - 2 \in Int /\ idle - 2 <= Checks
    BY <1>1, <1>3 DEF Checks, Due
  <2>3. Checks' * k <= (idle - 2) * k + k /\ Checks' * k \in Int
    <3>1. (idle - 2) + 1 \in Int
      BY <2>2
    <3>2. Checks' * k <= ((idle - 2) + 1) * k
      BY <1>4, <2>2, <3>1, TimesMonotonic
    <3> QED
      BY <1>4, <2>2, <3>2, Times
  <2>4. (idle - 2) * k <= Checks * k /\ (idle - 2) * k \in Int
    BY <1>4, <2>2, Times, TimesMonotonic
  <2> HIDE DEF k
  <2> QED
    BY <1>1, <1>2, <1>3, <1>4, <2>1, <2>3, <2>4
<1>6. CASE ka_timer - since > 0
  <2>1. ka_timer' = ka_timer - since /\ Checks' = Checks
    <3>1. ka_timer' = ka_timer - since /\ ka_need_verify' = ka_need_verify
      BY <1>1, <1>6 DEF SigAlarm, Inv, FlagsOK
    <3>2. status' = status
      BY DEF SigAlarm
    <3> QED
      BY <1>3, <3>1, <3>2 DEF Checks, Due
  <2> HIDE DEF k
  <2> QED
    BY <1>1, <1>2, <1>3, <1>4, <2>1
<1> QED
  BY <1>1, <1>5, <1>6

\* A due check is counted, or the first probe is sent.
LEMMA IterateAge == Inv /\ ProbeAge /\ (Iterate \/ Probe) => ProbeAge'
<1> USE KeepAliveAssumption
<1> DEFINE k == ka_interval + 1
<1> SUFFICES ASSUME Inv, ProbeAge, Iterate \/ Probe, idle' >= 2, probe' # MaxSilence
             PROVE  probe' >= Checks' * k - ka_timer' + since'
  BY DEF ProbeAge
<1>1. /\ idle \in Nat /\ since \in Nat /\ ka_timer \in Nat /\ probe \in Nat
      /\ alarm \in Int
  BY DEF Inv, CountersOK, Long, Off
<1>2. /\ probe' = probe /\ ka_timer' = ka_timer /\ since' = since
      /\ idle' = (IF ka_need_verify THEN idle + 1 ELSE idle) /\ ~ka_need_verify'
  <2>1. CASE Iterate
    <3>1. ~inbox
      BY <2>1 DEF Iterate, Serve, CountSilence
    <3> QED
      BY <2>1, <3>1 DEF Iterate, Serve, CountSilence, handler
  <2>2. CASE Probe
    BY <2>2 DEF Probe, handler
  <2> QED
    BY <2>1, <2>2
<1>0. status = "linking" /\ probe # MaxSilence
  BY <1>2 DEF Iterate, Probe, Selected
<1>3. Checks' = idle' - 2
  BY <1>1, <1>2 DEF Checks, Due
<1>4. k \in Nat /\ Checks \in Int /\ Checks * k \in Int
  BY <1>1, Times DEF Checks, Due
<1>5. CASE idle >= 2
  <2>1. Checks' = Checks
    BY <1>0, <1>1, <1>2, <1>3 DEF Checks, Due
  <2>2. probe >= Checks * k - ka_timer + since
    BY <1>0, <1>5 DEF ProbeAge, Running
  <2> QED
    BY <1>2, <2>1, <2>2
<1>6. CASE idle < 2
  <2>1. idle = 1 /\ ka_need_verify /\ Checks' = 0
    BY <1>1, <1>2, <1>3, <1>6
  <2>2. KaFlag /\ since + alarm <= ka_timer /\ alarm >= 0
    BY <1>0, <1>1, <2>1 DEF Inv, CheckDue, AlarmArmed, CountersOK, Running, Off
  <2>3. Checks' * k = 0
    BY <1>4, <2>1, Times
  <2> QED
    BY <1>1, <1>2, <2>2, <2>3
<1> QED
  BY <1>1, <1>5, <1>6

\* The probe and the handler's clock grow old together.
LEMMA TickAge == Inv /\ ProbeAge /\ Tick => ProbeAge'
<1> USE KeepAliveAssumption, SilenceAssumption
<1> DEFINE k == ka_interval + 1
<1> SUFFICES ASSUME Inv, ProbeAge, Tick, status \in Running, idle >= 2
             PROVE  \/ probe' = MaxSilence
                    \/ probe' >= Checks' * k - ka_timer' + since'
  BY DEF ProbeAge, Tick
<1>1. /\ idle \in Nat /\ since \in Nat /\ ka_timer \in Nat /\ probe \in Nat
  BY DEF Inv, CountersOK, Long
<1>2. ka_timer' = ka_timer /\ since' \in Int /\ since' <= since + 1
  BY <1>1 DEF Tick, Smaller, Long
<1>3. Checks' = Checks /\ Checks \in Int /\ Checks * k \in Int
  BY <1>1, Times DEF Tick, Checks, Due
<1>4. CASE Unprobed
  <2>1. probe' = 0 /\ Checks = 0
    BY <1>1, <1>4 DEF Tick, Inv, ProbesCounted, Unprobed, Checks, Due
  <2>2. since + 1 <= ka_timer
    BY <1>1 DEF Tick, Inv, CheckDue, AlarmArmed, CountersOK, Off
  <2>3. Checks' * k = 0
    BY <1>3, <2>1, Times
  <2> HIDE DEF k
  <2> QED
    BY <1>1, <1>2, <2>1, <2>2, <2>3
<1>5. CASE ~Unprobed
  <2>1. probe' = Later(probe)
    BY <1>5 DEF Tick
  <2>2. probe = MaxSilence \/ probe >= Checks * k - ka_timer + since
    BY DEF ProbeAge
  <2> HIDE DEF k
  <2> QED
    BY <1>1, <1>2, <1>3, <2>1, <2>2 DEF Later, Smaller
<1> QED
  BY <1>4, <1>5

\* Every step preserves the age of the first probe.
LEMMA NextAge == Inv /\ ProbeAge /\ [Next]_vars => ProbeAge'
<1> SUFFICES ASSUME Inv, ProbeAge, [Next]_vars PROVE ProbeAge'
  OBVIOUS
<1>1. CASE SigAlarm
  BY <1>1, SigAlarmAge
<1>2. CASE GiveUp \/ Close
  BY <1>2 DEF GiveUp, Close, End, ProbeAge, Running, Blocked
<1>3. CASE Iterate \/ Probe
  BY <1>3, IterateAge
<1>4. CASE Restart
  BY <1>4 DEF Restart, ProbeAge
<1>5. CASE Unblock \/ FrameArrives \/ DeviceReady \/ PeerDies
  <2>1. UNCHANGED <<probe, ka_timer, since, idle>>
    BY <1>5 DEF Unblock, FrameArrives, DeviceReady, PeerDies, handler, history
  <2>2. status' \in Running => status \in Running
    BY <1>5 DEF Unblock, FrameArrives, DeviceReady, PeerDies, Running, Blocked
  <2>3. Due' = Due
    <3>1. CASE Unblock /\ status = "probing"
      BY <3>1 DEF Unblock, Due
    <3>2. CASE Unblock /\ status # "probing"
      <4>1. ka_need_verify' = ka_need_verify /\ status' = "linking"
        BY <3>2 DEF Unblock, Inv, FlagsOK
      <4> QED
        BY <3>2, <4>1 DEF Due
    <3>3. CASE FrameArrives \/ DeviceReady \/ PeerDies
      BY <3>3 DEF FrameArrives, DeviceReady, PeerDies, Due
    <3> QED
      BY <1>5, <3>1, <3>2, <3>3
  <2> QED
    BY <2>1, <2>2, <2>3 DEF ProbeAge, Checks
<1>6. CASE Tick
  BY <1>6, TickAge
<1>7. CASE UNCHANGED vars
  BY <1>7 DEF vars, handler, history, ProbeAge, Checks, Due
<1> QED
  BY <1>1, <1>2, <1>3, <1>4, <1>5, <1>6, <1>7 DEF Next

\* GiveUp is the only step that ends a session with "timeout", and it finds
\* all probes sent and the first of them old enough.
LEMMA GiveUpProbes == Inv /\ ProbeAge /\ GiveUp => ProbesBeforeGivingUp'
<1> USE KeepAliveAssumption
<1> DEFINE k == ka_interval + 1
<1> SUFFICES ASSUME Inv, ProbeAge, GiveUp
             PROVE  /\ echoes = ka_maxfail
                    /\ ka_maxfail > 0 => probe >= (ka_maxfail - 1) * k
  BY DEF ProbesBeforeGivingUp, GiveUp, End, history
<1>1. /\ idle \in Nat /\ since \in Nat /\ ka_timer \in Nat /\ probe \in Nat
      /\ ka_timer <= k /\ idle <= ka_maxfail + 1
  BY DEF Inv, CountersOK, Long
<1>2. status \in Running /\ ka_need_verify /\ idle = ka_maxfail + 1
  BY <1>1 DEF GiveUp, TooQuiet, Selected, Running, Blocked
<1>3. echoes = ka_maxfail
  BY <1>1, <1>2 DEF Inv, ProbesCounted
<1>4. ASSUME ka_maxfail > 0 PROVE probe >= (ka_maxfail - 1) * k
  <2>1. probe = MaxSilence \/ probe >= Checks * k - ka_timer + since
    BY <1>1, <1>2, <1>4 DEF ProbeAge
  <2>2. Checks = (ka_maxfail - 1) + 1 /\ ka_maxfail - 1 \in Int /\ k \in Nat
    BY <1>1, <1>2 DEF Checks, Due, GiveUp, Selected
  <2>3. Checks * k = (ka_maxfail - 1) * k + k /\ (ka_maxfail - 1) * k \in Int
    BY <2>2, Times
  <2>4. MaxSilence >= (ka_maxfail - 1) * k
    BY StoppedIsOld
  <2> HIDE DEF k
  <2> QED
    BY <1>1, <2>1, <2>2, <2>3, <2>4
<1> QED
  BY <1>3, <1>4

\* lfd_linker() gives a session up only when it sent all of its probes, and
\* waited for an answer to the first through all the intervals between them.
THEOREM ProbesFirst == Spec => []ProbesBeforeGivingUp
<1>1. Init => Inv /\ ProbeAge /\ ProbesBeforeGivingUp
  BY InitInv DEF Init, ProbeAge, ProbesBeforeGivingUp
<1>2. Inv /\ ProbeAge /\ ProbesBeforeGivingUp /\ [Next]_vars
        => Inv' /\ ProbeAge' /\ ProbesBeforeGivingUp'
  <2> SUFFICES ASSUME Inv, ProbeAge, ProbesBeforeGivingUp, [Next]_vars
               PROVE  ProbesBeforeGivingUp'
    BY NextInv, NextAge
  <2>1. CASE GiveUp
    BY <2>1, GiveUpProbes
  <2>2. CASE SigAlarm \/ Iterate \/ Probe \/ Restart \/ Unblock \/ Close
    BY <2>2 DEF SigAlarm, Iterate, Serve, Selected, Probe, Restart, Unblock, Close,
         End, Running, Blocked, ProbesBeforeGivingUp
  <2>3. CASE FrameArrives \/ DeviceReady \/ PeerDies \/ UNCHANGED vars
    BY <2>3 DEF FrameArrives, DeviceReady, PeerDies, vars, history,
         ProbesBeforeGivingUp
  <2>4. CASE Tick
    BY <2>4 DEF Tick, Running, Blocked, ProbesBeforeGivingUp
  <2> QED
    BY <2>1, <2>2, <2>3, <2>4 DEF Next
<1> QED
  BY <1>1, <1>2, PTL DEF Spec

----------------------------------------------------------------------------
\* The time a silent session has left, where writes never wait.  The next
\* check comes due in Wait seconds and the next dump in Dump; before the first
\* SIGALRM of a session the alarm may come later than the timers run out.

Longer(m, n) == IF m < n THEN n ELSE m
Wait == Longer(alarm, ka_timer - since)
Dump == Longer(alarm, stat_timer - since)

\* Two intervals, with their extra seconds: the longest from check to check.
Round == 2 * (ka_interval + 1)

\* A due check is made in time if select() ends before the next alarm.
Prompt == ka_need_verify /\ timeout < alarm

\* A due check that an alarm spoils is made in the next interval, if the dump
\* comes before that interval or after it.
Spoilt ==
  ka_need_verify /\ (StatFlag => Dump <= Wait \/ Dump >= Wait + (ka_interval + 1))

Left ==
  Wait - 1 + (ka_maxfail + 2 - idle) * Round
    - (IF Prompt THEN Round ELSE IF Spoilt THEN ka_interval + 1 ELSE 0)

\* The premises of GivesUpInTime.
Checked == KaFlag /\ (StatFlag => STAT_IVAL >= Round)

TimeLeft ==
  Checked /\ status \in Running =>
    /\ alarm <= ka_interval + 1
    /\ silence + Left <= Deadline

NoDumpWithoutFlag == ~StatFlag => stat_timer = 0

NeverBlocked == ~tcp => status \notin Blocked

\* The longer of two times.
LEMMA LongerOf ==
  ASSUME NEW m \in Int, NEW n \in Int
  PROVE  /\ Longer(m, n) \in Int
         /\ m <= n => Longer(m, n) = n
         /\ n <= m => Longer(m, n) = m
         /\ \A b \in Int : m <= b /\ n <= b => Longer(m, n) <= b
BY DEF Longer

\* More arithmetic that the provers find only on its own.
LEMMA NoMore ==
  \A s, m, n, d \in Int : s + n <= d /\ m <= n => s + m <= d
OBVIOUS

\* Less time than a bound allows.
LEMMA Sooner ==
  \A t, s, b \in Int : t <= b /\ s >= 0 => t - s \in Int /\ t - s <= b
OBVIOUS

\* Nothing taken away.
LEMMA MinusZero ==
  \A n \in Int : n - 0 = n
OBVIOUS

LeftInv == TimeLeft /\ NoDumpWithoutFlag /\ NeverBlocked

\* The bound of the property, in rounds.
LEMMA DeadlineInRounds ==
  /\ Round \in Nat
  /\ (ka_maxfail + 2) * Round \in Int
  /\ Deadline = (ka_maxfail + 2) * Round + ka_interval
<1> USE KeepAliveAssumption
<1> DEFINE n == ka_maxfail + 2
           k == ka_interval + 1
<1>1. n \in Int /\ k \in Int
  OBVIOUS
<1> HIDE DEF n, k
<1>2. n * (2 * k) \in Int /\ 2 * n * k = n * (2 * k)
  BY <1>1
<1>3. 2 * k \in Nat
  BY DEF k
<1> QED
  BY <1>2, <1>3 DEF Deadline, Round, n, k

\* A session that just heard its peer has all the time there is.
LEMMA Fresh ==
  ASSUME NEW wait \in Int, wait <= ka_interval + 1, NEW less \in Nat
  PROVE  wait - 1 + (ka_maxfail + 2) * Round - less <= Deadline
<1> DEFINE all == (ka_maxfail + 2) * Round
<1>1. all \in Int /\ Deadline = all + ka_interval
  BY DeadlineInRounds
<1> HIDE DEF all
<1>2. wait - 1 + all - less <= Deadline
  BY <1>1, KeepAliveAssumption
<1> QED
  BY <1>2 DEF all

\* What a step does to Left, in terms of what the checks still take.
LEMMA LeftBy ==
  ASSUME CountersOK
  PROVE  /\ (ka_maxfail + 2 - idle) * Round \in Int
         /\ Wait \in Int /\ Dump \in Int /\ Round \in Nat /\ Left \in Int
         /\ Left = Wait - 1 + (ka_maxfail + 2 - idle) * Round
                     - (IF Prompt THEN Round
                        ELSE IF Spoilt THEN ka_interval + 1 ELSE 0)
<1> USE KeepAliveAssumption
<1>1. alarm \in Int /\ ka_timer \in Int /\ since \in Int /\ stat_timer \in Int
  BY DEF CountersOK, Off, Long
<1>2. Wait \in Int /\ Dump \in Int /\ Round \in Nat
  BY <1>1, DeadlineInRounds DEF Wait, Dump, Longer
<1>3. (ka_maxfail + 2 - idle) * Round \in Int
  <2>1. ka_maxfail + 2 - idle \in Int
    BY DEF CountersOK
  <2> QED
    BY <1>2, <2>1, Times
<1> QED
  BY <1>2, <1>3 DEF Left

\* SIGALRM makes a check due, or spoils one and keeps the next one clear.
LEMMA SigAlarmLeft == Inv /\ LeftInv /\ SigAlarm => LeftInv'
<1> SUFFICES ASSUME Inv, LeftInv, SigAlarm PROVE LeftInv'
  OBVIOUS
<1> USE KeepAliveAssumption
<1> DEFINE k == ka_interval + 1
           rest == (ka_maxfail + 2 - idle) * Round
<1>1. /\ CountersOK /\ FlagsOK /\ status \in Running /\ alarm = 0
      /\ CountersOK' /\ FlagsOK'
  BY SigAlarmInv DEF Inv, SigAlarm
<1>2. /\ ka_timer \in 0 .. k /\ stat_timer \in 0 .. STAT_IVAL /\ since \in Nat
      /\ timeout \in 0 .. ka_interval /\ alarm' \in Int
      /\ timeout' \in 0 .. ka_interval /\ silence \in Nat
  BY <1>1 DEF CountersOK, Long, Off
<1>3. UNCHANGED <<status, idle, silence>> /\ since' = 0
  BY DEF SigAlarm
<1>4. NoDumpWithoutFlag' /\ NeverBlocked'
  BY <1>3 DEF LeftInv, NoDumpWithoutFlag, NeverBlocked, SigAlarm
<1>5. ASSUME Checked
      PROVE  alarm' <= k /\ silence' + Left' <= Deadline
  <2>1. ka_timer' = IF ka_timer - since <= 0 THEN k ELSE ka_timer - since
    BY <1>5 DEF SigAlarm, Checked, RestartTimer
  <2>2. StatFlag => stat_timer' = IF stat_timer - since <= 0 THEN STAT_IVAL
                                  ELSE stat_timer - since
    BY DEF SigAlarm
  <2>3. ~StatFlag => stat_timer' = 0
    BY <1>4 DEF NoDumpWithoutFlag
  <2>4. ka_timer' \in 1 .. k /\ stat_timer' \in 0 .. STAT_IVAL
    BY <1>2, <2>1, <2>2, <2>3
  <2>5. alarm' = Arm(ka_timer', stat_timer')
    BY DEF SigAlarm
  <2>6. /\ StatFlag => stat_timer' > 0
        /\ alarm' = IF StatFlag /\ stat_timer' < ka_timer' THEN stat_timer'
                    ELSE ka_timer'
    BY <1>2, <2>2, <2>3, <2>4, <2>5 DEF Arm, SetAlarm, Smaller
  <2>7. Wait' = ka_timer' /\ (StatFlag => Dump' = stat_timer')
    <3>1. Wait' = Longer(alarm', ka_timer' - 0) /\ Dump' = Longer(alarm', stat_timer' - 0)
      BY <1>3 DEF Wait, Dump
    <3>2. ka_timer' - 0 = ka_timer' /\ stat_timer' - 0 = stat_timer'
      <4>1. ka_timer' \in Int /\ stat_timer' \in Int
        BY <2>4
      <4> QED
        BY <4>1, MinusZero
    <3>3. alarm' <= ka_timer' /\ (StatFlag => alarm' <= stat_timer')
      BY <1>2, <2>4, <2>6
    <3>4. alarm' \in Int /\ ka_timer' \in Int /\ stat_timer' \in Int
      BY <1>2, <2>4
    <3>5. Longer(alarm', ka_timer') = ka_timer'
      BY <3>3, <3>4, LongerOf
    <3>6. StatFlag => Longer(alarm', stat_timer') = stat_timer'
      BY <3>3, <3>4, LongerOf
    <3> QED
      BY <3>1, <3>2, <3>5, <3>6
  <2>8. /\ Wait = (IF ka_timer - since <= 0 THEN 0 ELSE ka_timer - since)
        /\ Dump = (IF stat_timer - since <= 0 THEN 0 ELSE stat_timer - since)
    BY <1>1, <1>2 DEF Wait, Dump, Longer
  <2>9. /\ Wait' = IF Wait = 0 THEN k ELSE Wait
        /\ StatFlag => Dump' = IF Dump = 0 THEN STAT_IVAL ELSE Dump
    BY <1>2, <2>1, <2>2, <2>7, <2>8
  <2>10. /\ ka_need_verify' = (ka_need_verify \/ Wait = 0)
         /\ ~Prompt
    <3>1. ka_need_verify' = (ka_need_verify \/ ka_timer - since <= 0)
      BY <1>5 DEF SigAlarm, Checked
    <3>2. (Wait = 0) = (ka_timer - since <= 0)
      BY <1>2, <2>8
    <3>3. ~(timeout < alarm)
      BY <1>1, <1>2
    <3> QED
      BY <3>1, <3>2, <3>3 DEF Prompt
  <2>11. Wait \in 0 .. k /\ Dump \in Nat
    BY <1>2, <2>8
  <2>12. /\ rest \in Int /\ rest' = rest /\ Round = 2 * k
         /\ Left = Wait - 1 + rest - (IF Spoilt THEN k ELSE 0)
         /\ Left' = Wait' - 1 + rest
                      - (IF Prompt' THEN Round ELSE IF Spoilt' THEN k ELSE 0)
    <3>1. Round = 2 * k /\ rest' = rest /\ Left \in Int /\ rest \in Int
      BY <1>1, <1>3, LeftBy DEF Round
    <3>2. Left = Wait - 1 + rest - (IF Spoilt THEN k ELSE 0)
      BY <1>1, <2>10, LeftBy
    <3>3. Left' = Wait' - 1 + (ka_maxfail + 2 - idle') * Round'
                      - (IF Prompt' THEN Round' ELSE IF Spoilt' THEN k ELSE 0)
      BY <1>3 DEF Left, Round
    <3> QED
      BY <1>3, <3>1, <3>2, <3>3 DEF Round
  <2>13. Prompt' = (ka_need_verify' /\ timeout' < alarm')
    BY DEF Prompt
  <2>14. Spoilt' = (ka_need_verify' /\ (StatFlag => Dump' <= Wait' \/ Dump' >= Wait' + k))
    BY DEF Spoilt
  <2>15. Spoilt = (ka_need_verify /\ (StatFlag => Dump <= Wait \/ Dump >= Wait + k))
    BY DEF Spoilt
  <2>16. StatFlag => STAT_IVAL >= 2 * k
    BY <1>5 DEF Checked, Round
  <2>17. alarm' = IF StatFlag /\ Dump' < Wait' THEN Dump' ELSE Wait'
    BY <2>6, <2>7
  <2>18. Left' <= Left
    <3> HIDE DEF k, rest
    <3>1. k \in Nat /\ k > 0 /\ ka_interval = k - 1
      BY DEF k
    <3>2. CASE Wait = 0 /\ ~Spoilt
      <4>1. Wait' = k /\ ka_need_verify'
        BY <2>9, <2>10, <3>2
      <4>2. ASSUME StatFlag, Dump' <= Wait' PROVE Spoilt'
        BY <2>14, <4>1, <4>2
      <4>3. ASSUME ~(StatFlag /\ Dump' <= Wait') PROVE Prompt'
        <5>1. alarm' = k
          BY <2>9, <2>11, <2>17, <3>1, <4>1, <4>3
        <5>2. timeout' < k
          BY <1>2, <3>1
        <5> QED
          BY <2>13, <4>1, <5>1, <5>2
      <4>4. Prompt' \/ Spoilt'
        BY <4>2, <4>3
      <4> QED
        BY <2>12, <3>1, <3>2, <4>1, <4>4
    <3>3. CASE Wait = 0 /\ Spoilt
      <4>1. Wait' = k /\ ka_need_verify'
        BY <2>9, <2>10, <3>3
      <4>2. Prompt'
        BY <1>2, <2>9, <2>11, <2>13, <2>15, <2>16, <2>17, <3>1, <3>3, <4>1
      <4> QED
        BY <2>12, <3>1, <3>3, <4>1, <4>2
    <3>4. CASE Wait # 0 /\ ~Spoilt
      <4>1. Wait' = Wait
        BY <2>9, <3>4
      <4> QED
        BY <2>11, <2>12, <3>1, <3>4, <4>1
    <3>5. CASE Wait # 0 /\ Spoilt
      <4>1. Wait' = Wait /\ ka_need_verify'
        BY <2>9, <2>10, <2>15, <3>5
      <4>2. Spoilt'
        BY <2>9, <2>11, <2>14, <2>15, <2>16, <3>1, <3>5, <4>1
      <4> QED
        BY <2>11, <2>12, <3>1, <3>5, <4>1, <4>2
    <3> QED
      BY <3>2, <3>3, <3>4, <3>5
  <2>19. silence + Left <= Deadline /\ Left \in Int /\ Deadline \in Int
    BY <1>1, <1>5, LeftBy, DeadlineInRounds DEF LeftInv, TimeLeft
  <2>20. Left' \in Int
    BY <2>9, <2>11, <2>12
  <2>21. alarm' <= k
    BY <2>4, <2>6
  <2>22. silence + Left' <= Deadline
    <3>1. silence \in Int
      BY <1>2
    <3> QED
      BY <2>18, <2>19, <2>20, <3>1, NoMore
  <2> QED
    BY <1>3, <2>21, <2>22
<1> QED
  BY <1>4, <1>5 DEF LeftInv, TimeLeft, Deadline, Checked, Round

\* A second that passes is a second less.
LEMMA TickLeft == Inv /\ LeftInv /\ Tick /\ ~tcp => LeftInv'
<1> SUFFICES ASSUME Inv, LeftInv, Tick, ~tcp PROVE LeftInv'
  OBVIOUS
<1> USE KeepAliveAssumption
<1> DEFINE k == ka_interval + 1
           rest == (ka_maxfail + 2 - idle) * Round
<1>1. NoDumpWithoutFlag' /\ NeverBlocked'
  BY DEF LeftInv, NoDumpWithoutFlag, NeverBlocked, Tick
<1>2. CountersOK /\ CountersOK' /\ AlarmArmed /\ ~Selected /\ alarm # 0
  BY TickInv DEF Inv, Tick
<1>3. ASSUME Checked, status \in Running
      PROVE  alarm' <= k /\ silence' + Left' <= Deadline
  <2>1. status = "linking" /\ alarm # Off /\ timeout # 0
    BY <1>2, <1>3 DEF LeftInv, NeverBlocked, Running, AlarmArmed, Checked, Selected
  <2>2. /\ alarm \in Nat /\ alarm > 0 /\ timeout \in Nat
        /\ ka_timer \in 0 .. k /\ stat_timer \in 0 .. STAT_IVAL /\ since \in 0 .. Long
        /\ silence \in Nat
    BY <1>2, <2>1 DEF CountersOK, Off
  <2>3. /\ alarm' = alarm - 1 /\ timeout' = timeout - 1
        /\ UNCHANGED <<ka_timer, stat_timer, idle, ka_need_verify>>
        /\ silence' = Later(silence) /\ since' = Smaller(since + 1, Long)
    BY <1>3, <2>1 DEF Tick
  <2>4. silence' \in Int /\ silence' <= silence + 1
    BY <2>2, <2>3, SilenceAssumption DEF Later, Smaller
  <2>5. Wait' = Wait - 1 /\ Wait \in Int
    BY <2>2, <2>3 DEF Wait, Longer, Smaller, Long
  <2>6. Dump' = Dump - 1 /\ Dump \in Int
    BY <2>2, <2>3 DEF Dump, Longer, Smaller, Long
  <2>7. Prompt' = Prompt
    BY <2>2, <2>3 DEF Prompt
  <2>8. Spoilt' = Spoilt
    <3>1. (Dump' <= Wait') = (Dump <= Wait)
          /\ (Dump' >= Wait' + k) = (Dump >= Wait + k)
      BY <2>5, <2>6
    <3> QED
      BY <2>3, <3>1 DEF Spoilt
  <2>9. Left' = Left - 1 /\ Left \in Int
    <3>1. Left' = (Wait - 1) - 1 + rest
                    - (IF Prompt THEN Round ELSE IF Spoilt THEN k ELSE 0)
      BY <2>3, <2>5, <2>7, <2>8 DEF Left, Round
    <3>2. rest \in Int /\ Round \in Nat
      BY <1>2, LeftBy
    <3>3. Left = Wait - 1 + rest - (IF Prompt THEN Round ELSE IF Spoilt THEN k ELSE 0)
      BY DEF Left
    <3> HIDE DEF rest
    <3> QED
      BY <2>5, <3>1, <3>2, <3>3
  <2>10. alarm <= k /\ silence + Left <= Deadline /\ Deadline \in Int
    BY <1>3, DeadlineInRounds DEF LeftInv, TimeLeft
  <2> HIDE DEF rest
  <2> QED
    BY <2>2, <2>3, <2>4, <2>9, <2>10
<1>4. status' = status
  BY DEF Tick
<1> QED
  BY <1>1, <1>3, <1>4 DEF LeftInv, TimeLeft, Deadline, Checked, Round

\* An iteration hears the peer, or makes the check that is due.
LEMMA IterateLeft == Inv /\ LeftInv /\ Iterate /\ ~tcp => LeftInv'
<1> SUFFICES ASSUME Inv, LeftInv, Iterate, ~tcp PROVE LeftInv'
  OBVIOUS
<1> USE KeepAliveAssumption
<1> DEFINE k == ka_interval + 1
           rest == (ka_maxfail + 2 - idle) * Round
<1>1. /\ status = "linking" /\ status' = "linking" /\ ~ka_need_verify'
      /\ UNCHANGED <<alarm, ka_timer, stat_timer, since>> /\ CountSilence
  BY DEF Iterate, Serve, Selected, handler
<1>2. NoDumpWithoutFlag' /\ NeverBlocked'
  BY <1>1 DEF LeftInv, NoDumpWithoutFlag, NeverBlocked, Blocked
<1>3. CountersOK /\ CountersOK'
  BY IterateInv DEF Inv
<1>4. ASSUME Checked
      PROVE  alarm' <= k /\ silence' + Left' <= Deadline
  <2>1. alarm <= k /\ silence + Left <= Deadline /\ Deadline \in Int
    BY <1>1, <1>4, DeadlineInRounds DEF LeftInv, TimeLeft, Running
  <2>2. CASE inbox
    <3>1. idle' = 0 /\ silence' = 0 /\ alarm' <= k
      BY <1>1, <2>1, <2>2 DEF CountSilence
    <3>2. Left' = Wait' - 1 + (ka_maxfail + 2) * Round - 0
      <4>1. ka_maxfail + 2 - 0 = ka_maxfail + 2
        OBVIOUS
      <4> QED
        BY <1>1, <3>1, <4>1 DEF Left, Prompt, Spoilt, Round
    <3>3. Wait' \in Int /\ Wait' <= k
      <4>1. /\ alarm' \in Int /\ ka_timer' <= k /\ since' >= 0
            /\ ka_timer' \in Int /\ since' \in Int
        BY <1>3 DEF CountersOK, Off, Long
      <4>2. ka_interval + 1 \in Int
        OBVIOUS
      <4>3. Wait' = Longer(alarm', ka_timer' - since')
        BY DEF Wait
      <4>4. ka_timer' - since' \in Int /\ ka_timer' - since' <= k
        BY <4>1, <4>2, Sooner
      <4>5. alarm' <= k
        BY <3>1
      <4> QED
        BY <4>1, <4>2, <4>3, <4>4, <4>5, LongerOf
    <3>4. Left' <= Deadline /\ Left' \in Int
      <4>1. (ka_maxfail + 2) * Round \in Int
        BY DeadlineInRounds
      <4>2. Wait' - 1 + (ka_maxfail + 2) * Round - 0 <= Deadline
        BY <3>3, Fresh
      <4> HIDE DEF k
      <4> QED
        BY <3>2, <3>3, <4>1, <4>2
    <3> QED
      BY <3>1, <3>4
  <2>3. CASE ~inbox
    <3>1. silence' = silence /\ idle' = IF ka_need_verify THEN idle + 1 ELSE idle
      BY <1>1, <2>3 DEF CountSilence
    <3>2. Left' = Wait - 1 + (ka_maxfail + 2 - idle') * Round - 0
      BY <1>1 DEF Left, Prompt, Spoilt, Round, Wait
    <3>3. /\ rest \in Int /\ Wait \in Int /\ Round \in Nat /\ Round = 2 * k
          /\ Left = Wait - 1 + rest
                      - (IF Prompt THEN Round ELSE IF Spoilt THEN k ELSE 0)
      BY <1>3, LeftBy DEF Round
    <3>4. silence \in Nat /\ idle \in Nat
      BY <1>3 DEF CountersOK
    <3>5. CASE ka_need_verify
      <4>1. (ka_maxfail + 2 - idle') * Round = rest - Round
        <5>1. ka_maxfail + 2 - idle' \in Int
              /\ (ka_maxfail + 2 - idle') + 1 = ka_maxfail + 2 - idle
          BY <3>1, <3>4, <3>5
        <5>2. rest = (ka_maxfail + 2 - idle') * Round + Round
              /\ (ka_maxfail + 2 - idle') * Round \in Int
          BY <3>3, <5>1, Times
        <5> QED
          BY <3>3, <5>2
      <4> HIDE DEF rest
      <4>2. Left' <= Left /\ Left' \in Int /\ Left \in Int
        BY <3>2, <3>3, <4>1
      <4>3. silence + Left' <= Deadline
        <5>1. silence \in Int
          BY <3>4
        <5> QED
          BY <2>1, <4>2, <5>1, NoMore
      <4> QED
        BY <1>1, <2>1, <3>1, <4>3
    <3>6. CASE ~ka_need_verify
      <4>1. Left = Wait - 1 + rest - 0
        BY <3>6 DEF Left, Prompt, Spoilt
      <4> QED
        BY <1>1, <2>1, <3>1, <3>2, <3>6, <4>1
    <3> QED
      BY <3>5, <3>6
  <2> QED
    BY <2>2, <2>3
<1> QED
  BY <1>2, <1>4 DEF LeftInv, TimeLeft, Deadline, Checked, Round

\* The start of a session, the first or a later one.
LEMMA StartLeft ==
  /\ Init => LeftInv
  /\ Inv /\ LeftInv /\ Restart => LeftInv'
<1> USE KeepAliveAssumption
<1>1. Checked => FirstAlarm <= ka_interval + 1
  BY DEF FirstAlarm, Checked, SetAlarm, Smaller, Off
<1>2. Round \in Nat /\ ka_maxfail + 2 - 0 = ka_maxfail + 2
  BY DeadlineInRounds
<1>3. ASSUME Init PROVE LeftInv
  <2>1. /\ CountersOK /\ idle = 0 /\ silence = 0 /\ alarm = FirstAlarm
        /\ stat_timer = 0 /\ status = "linking" /\ ~ka_need_verify
    BY <1>3, InitInv DEF Inv, Init
  <2>2. ASSUME Checked PROVE silence + Left <= Deadline
    <3>1. Left = Wait - 1 + (ka_maxfail + 2) * Round - 0
      BY <1>2, <2>1 DEF Left, Prompt, Spoilt
    <3>2. Wait \in Int /\ Wait <= ka_interval + 1
      BY <1>1, <2>1, <2>2 DEF Wait, Longer, CountersOK, Long, Off
    <3>3. Left <= Deadline /\ Left \in Int
      BY <2>1, <3>1, <3>2, Fresh, LeftBy
    <3> QED
      BY <2>1, <3>3
  <2> QED
    BY <1>1, <2>1, <2>2
    DEF LeftInv, TimeLeft, NoDumpWithoutFlag, NeverBlocked, Blocked
<1>4. ASSUME Inv, LeftInv, Restart PROVE LeftInv'
  <2> DEFINE less == IF Prompt THEN Round ELSE IF Spoilt THEN ka_interval + 1 ELSE 0
  <2>1. /\ CountersOK' /\ idle' = 0 /\ silence' = 0 /\ alarm' = FirstAlarm
        /\ stat_timer' = stat_timer /\ status' = "linking"
    BY <1>4, RestartInv DEF Inv, Restart, handler
  <2>2. ASSUME Checked PROVE silence' + Left' <= Deadline
    <3>1. Left' = Wait' - 1 + (ka_maxfail + 2) * Round - less'
      BY <1>2, <2>1 DEF Left, Round
    <3>2. Wait' \in Int /\ Wait' <= ka_interval + 1
      <4>1. /\ alarm' \in Int /\ ka_timer' <= ka_interval + 1 /\ since' >= 0
            /\ ka_timer' \in Int /\ since' \in Int
        BY <2>1 DEF CountersOK, Off, Long
      <4>2. ka_interval + 1 \in Int
        OBVIOUS
      <4>3. Wait' = Longer(alarm', ka_timer' - since')
        BY DEF Wait
      <4>4. ka_timer' - since' \in Int /\ ka_timer' - since' <= ka_interval + 1
        BY <4>1, <4>2, Sooner
      <4>5. alarm' <= ka_interval + 1
        BY <1>1, <2>1, <2>2
      <4> QED
        BY <4>1, <4>2, <4>3, <4>4, <4>5, LongerOf
    <3>3. less' \in Nat
      BY <1>2 DEF Round
    <3>4. (ka_maxfail + 2) * Round \in Int
      BY DeadlineInRounds
    <3> HIDE DEF less
    <3>5. Left' <= Deadline /\ Left' \in Int
      BY <3>1, <3>2, <3>3, <3>4, Fresh
    <3> QED
      BY <2>1, <3>5
  <2> QED
    BY <1>1, <1>4, <2>1, <2>2
    DEF LeftInv, TimeLeft, NoDumpWithoutFlag, NeverBlocked, Blocked, Checked, Round,
        Deadline
<1> QED
  BY <1>3, <1>4

\* A session's protocol is that of its configuration.
LEMMA RunsOn == [Next]_vars => tcp' = tcp
BY DEF Next, vars, SigAlarm, GiveUp, Iterate, Serve, Probe, Unblock, Close, End, Restart,
   FrameArrives, DeviceReady, PeerDies, Tick

\* Every step keeps the time that is left within the deadline.
LEMMA NextLeft == Inv /\ LeftInv /\ [Next]_vars /\ ~tcp => LeftInv'
<1> SUFFICES ASSUME Inv, LeftInv, [Next]_vars, ~tcp PROVE LeftInv'
  OBVIOUS
<1>1. CASE SigAlarm
  BY <1>1, SigAlarmLeft
<1>2. CASE GiveUp \/ Close
  <2>1. status' \in Ended /\ stat_timer' = stat_timer
    BY <1>2 DEF GiveUp, Close, End, Ended, handler
  <2> QED
    BY <2>1 DEF LeftInv, TimeLeft, NoDumpWithoutFlag, NeverBlocked, Ended, Running,
       Blocked
<1>3. CASE Iterate
  BY <1>3, IterateLeft
<1>4. CASE Probe \/ Unblock
  BY <1>4 DEF Probe, Unblock, LeftInv, NeverBlocked
<1>5. CASE Restart
  BY <1>5, StartLeft
<1>6. CASE FrameArrives \/ DeviceReady \/ PeerDies \/ UNCHANGED vars
  <2>1. UNCHANGED <<status, alarm, timeout, ka_timer, stat_timer, since,
                    ka_need_verify, idle, silence>>
    BY <1>6 DEF FrameArrives, DeviceReady, PeerDies, vars, handler, history
  <2>2. TimeLeft'
    BY <2>1 DEF LeftInv, TimeLeft, Checked, Left, Wait, Dump, Prompt, Spoilt, Round,
       Deadline
  <2> QED
    BY <2>1, <2>2 DEF LeftInv, NoDumpWithoutFlag, NeverBlocked
<1>7. CASE Tick
  BY <1>7, TickLeft
<1> QED
  BY <1>1, <1>2, <1>3, <1>4, <1>5, <1>6, <1>7 DEF Next

\* There is always some time left, so the deadline has not passed.
LEMMA LeftInTime == Inv /\ LeftInv => GivesUpInTime
<1> SUFFICES ASSUME Inv, LeftInv, Checked, status \in Running
             PROVE  silence <= Deadline
  BY DEF GivesUpInTime, Checked, Round
<1> USE KeepAliveAssumption
<1> DEFINE k == ka_interval + 1
           c == ka_maxfail + 2 - idle
<1>1. CountersOK /\ silence + Left <= Deadline /\ Deadline \in Int
  BY DeadlineInRounds DEF Inv, LeftInv, TimeLeft
<1>2. silence \in Nat /\ c \in Int /\ 1 <= c /\ alarm \in Nat /\ timeout \in Nat
  BY <1>1 DEF Inv, AlarmArmed, Checked, CountersOK, Off
<1>3. Wait \in Int /\ Wait >= alarm
  BY <1>1, <1>2, LeftBy DEF Wait, Longer, CountersOK, Long
<1>4. Round = 2 * k /\ Round \in Nat /\ c * Round \in Int
  BY <1>1, LeftBy DEF Round
<1>5. c * Round >= Round
  <2>1. 1 * Round <= c * Round
    BY <1>2, <1>4, TimesMonotonic
  <2> QED
    BY <1>4, <2>1
<1>6. Left = Wait - 1 + c * Round - (IF Prompt THEN Round ELSE IF Spoilt THEN k ELSE 0)
  BY DEF Left
<1> HIDE DEF c
<1>7. CASE Prompt
  BY <1>1, <1>2, <1>3, <1>4, <1>5, <1>6, <1>7 DEF Prompt
<1>8. CASE ~Prompt
  BY <1>1, <1>2, <1>3, <1>4, <1>5, <1>6, <1>8
<1> QED
  BY <1>7, <1>8

\* vtund.conf(5), keepalive: where a write never waits, lfd_linker() ends a
\* session whose peer is not heard within Deadline seconds, for all intervals
\* and retry counts and however often the session is started again.
THEOREM GivenUpInTime == Spec => []GivesUpInTime
<1>1. Init => Inv /\ (~tcp => LeftInv)
  BY InitInv, StartLeft
<1>2. Inv /\ (~tcp => LeftInv) /\ [Next]_vars => Inv' /\ (~tcp => LeftInv)'
  BY NextInv, NextLeft, RunsOn
<1>3. Inv /\ (~tcp => LeftInv) => GivesUpInTime
  BY LeftInTime DEF GivesUpInTime
<1> QED
  BY <1>1, <1>2, <1>3, PTL DEF Spec
=============================================================================
