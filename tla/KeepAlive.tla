----------------------------- MODULE KeepAlive -----------------------------
(***************************************************************************)
(* The keep-alive monitor of linkfd.c: the signal handler sig_alarm(),     *)
(* which shares one alarm between the keep-alive check and the statistics  *)
(* dump, against the select() loop of lfd_linker(), which it interrupts.   *)
(*                                                                         *)
(* Time passes in seconds.  What is due is done before the next second; if *)
(* the alarm and select()'s timeout are due at once, either comes first.   *)
(***************************************************************************)
EXTENDS Integers

CONSTANTS
  KaFlag,       \* VTUN_KEEP_ALIVE
  StatFlag,     \* VTUN_STAT
  ka_interval,  \* seconds
  ka_maxfail,
  STAT_IVAL,    \* VTUN_STAT_IVAL, 300 in the source
  Networks,     \* TRUE stands for TCP, FALSE for UDP
  MaxSilence,   \* the history variables that count seconds stop here
  MaxSessions   \* bound on the sessions of one process

ASSUME KeepAliveAssumption ==
  /\ KaFlag \in BOOLEAN /\ StatFlag \in BOOLEAN /\ Networks \subseteq BOOLEAN
  /\ ka_interval \in Nat \ {0} /\ STAT_IVAL \in Nat \ {0}
  /\ ka_maxfail \in Nat
  /\ MaxSessions \in Nat

VARIABLES
  tcp,             \* the network is TCP: a write waits when the buffer is full
  status,          \* of the session: Running, or why it ended
  alarm,           \* seconds to SIGALRM
  timeout,         \* seconds to the end of select()
  ka_timer, stat_timer, ka_need_verify,
  since,           \* tm - tm_old at the next SIGALRM
  idle,
  inbox, device,   \* there is something to read on fd1, on fd2
  peer,            \* the peer and the path to it are up
  sessions,
  silence,         \* history: seconds since a frame was read, counted over UDP
  echoes,          \* history: probes sent since a frame was read
  probe,           \* history: seconds since the first of them was sent
  undumped         \* history: seconds without a line in the statistics

handler == <<ka_timer, stat_timer, since>>
history == <<silence, echoes, probe, undumped>>
vars == <<tcp, status, alarm, timeout, handler, ka_need_verify, idle, inbox, device,
          peer, sessions, history>>

\* A blocked session waits in write_n(): with a frame of the device or an echo
\* reply at the end of an iteration, or with a probe at the start of one.
Blocked == {"blocked", "probing"}
Running == {"linking"} \cup Blocked
Ended == {"timeout", "closed"}

Off == -1
SetAlarm(n) == IF n = 0 THEN Off ELSE n
Smaller(m, n) == IF m < n THEN m ELSE n

\* More than any timer: tm_old is 0, the epoch, in the first SIGALRM.
Long == ka_interval + 1 + STAT_IVAL

\* linkfd() up to the loop of lfd_linker().
FirstAlarm ==
  IF KaFlag \/ StatFlag THEN SetAlarm(Smaller(ka_interval, STAT_IVAL)) ELSE Off

Init ==
  /\ tcp \in Networks
  /\ status = "linking" /\ alarm = FirstAlarm /\ timeout = ka_interval
  /\ ka_timer = 0 /\ stat_timer = 0 /\ ka_need_verify = FALSE /\ since = Long
  /\ idle = 0 /\ inbox = FALSE /\ device = FALSE /\ peer = TRUE
  /\ sessions = 1
  /\ silence = 0 /\ echoes = 0 /\ probe = 0 /\ undumped = 0

----------------------------------------------------------------------------
\* Faulty: without the second that lets select() complete.
RestartTimer_exact == ka_interval

\* "We have to complete select() on idle."
RestartTimer == ka_interval + 1

\* Faulty: the statistics have to wait for the next check.
Arm_check(ka, stat) == SetAlarm(IF ka # 0 THEN ka ELSE stat)

Arm(ka, stat) ==
  SetAlarm(IF ka # 0 /\ stat # 0 THEN Smaller(ka, stat)
           ELSE IF ka # 0 THEN ka ELSE stat)

\* sig_alarm().  select() returns EINTR and is called again with a full
\* timeout, unless it had just returned; an interrupted write is resumed.
SigAlarm ==
  /\ status \in Running /\ alarm = 0
  /\ LET ka   == ka_timer - since
         stat == stat_timer - since
     IN  /\ ka_timer' = IF ~KaFlag THEN ka_timer
                        ELSE IF ka <= 0 THEN RestartTimer ELSE ka
         /\ ka_need_verify' = (ka_need_verify \/ (KaFlag /\ ka <= 0))
         /\ stat_timer' = IF ~StatFlag THEN stat_timer
                          ELSE IF stat <= 0 THEN STAT_IVAL ELSE stat
         /\ undumped' = IF StatFlag /\ stat <= 0 THEN 0 ELSE undumped
  /\ alarm' = Arm(ka_timer', stat_timer')
  /\ since' = 0
  /\ timeout' = ka_interval \/ (timeout = 0 /\ timeout' = 0)
  /\ UNCHANGED <<tcp, status, idle, inbox, device, peer, sessions, silence, echoes, probe>>

\* select() returns: something to read, or the timeout.
Selected == status = "linking" /\ (inbox \/ device \/ timeout = 0)

\* lfd_linker() returns, and linkfd() cancels the alarm.
End(why) ==
  /\ status' = why
  /\ alarm' = Off
  /\ UNCHANGED <<tcp, timeout, handler, ka_need_verify, idle, inbox, device, peer,
                 sessions, history>>

\* The peer was not heard at too many checks in a row.
TooQuiet == ka_need_verify /\ idle > ka_maxfail

\* Faulty: gives up one check early.
GiveUp_early ==
  /\ Selected /\ ka_need_verify /\ idle >= ka_maxfail
  /\ End("timeout")

GiveUp ==
  /\ Selected /\ TooQuiet
  /\ End("timeout")

\* What the check and a frame from the network do to the counters.
CountSilence ==
  IF inbox
  THEN idle' = 0 /\ silence' = 0 /\ echoes' = 0 /\ probe' = 0
  ELSE /\ idle' = IF ka_need_verify THEN idle + 1 ELSE idle
       /\ echoes' = IF ka_need_verify /\ idle > 0 THEN echoes + 1 ELSE echoes
       /\ UNCHANGED <<silence, probe>>

\* The rest of the iteration.  A frame with flags ends it before the device
\* is read; a device frame or an echo reply may have to wait for room in the
\* network.
Serve ==
  /\ CountSilence
  /\ ka_need_verify' = FALSE
  /\ inbox' = FALSE
  /\ \/ inbox /\ UNCHANGED <<device, status>>
     \/ inbox /\ tcp /\ UNCHANGED device /\ status' = "blocked"
     \/ device' = FALSE /\ UNCHANGED status
     \/ device /\ tcp /\ device' = FALSE /\ status' = "blocked"
  /\ timeout' = ka_interval
  /\ UNCHANGED <<tcp, alarm, handler, peer, sessions, undumped>>

Iterate == Selected /\ ~TooQuiet /\ Serve

\* The probe itself has to wait.  What ka_need_verify is until the write is
\* over does not matter: it is cleared then.
Probe ==
  /\ Selected /\ ~TooQuiet
  /\ tcp /\ ka_need_verify /\ idle > 0
  /\ status' = "probing"
  /\ idle' = idle + 1 /\ echoes' = echoes + 1
  /\ ka_need_verify' = FALSE
  /\ timeout' = ka_interval
  /\ UNCHANGED <<tcp, alarm, handler, inbox, device, peer, sessions, silence, probe,
                 undumped>>

\* write_n(): there is room again.
Unblock ==
  /\ status \in Blocked /\ peer
  /\ status' = "linking"
  /\ ka_need_verify' = (ka_need_verify /\ status # "probing")
  /\ timeout' = ka_interval
  /\ UNCHANGED <<tcp, alarm, handler, idle, inbox, device, peer, sessions, history>>

\* A close frame, end of file, an error, a signal; TCP's own timeout.
Close == status \in Running /\ End("closed")

\* client() connects again.  The handler's static variables are not reset.
Restart ==
  /\ status \in Ended /\ sessions < MaxSessions
  /\ sessions' = sessions + 1
  /\ status' = "linking" /\ alarm' = FirstAlarm /\ timeout' = ka_interval
  /\ idle' = 0 /\ inbox' = FALSE /\ device' = FALSE /\ peer' = TRUE
  /\ silence' = 0 /\ echoes' = 0 /\ probe' = 0 /\ undumped' = 0
  /\ UNCHANGED <<tcp, handler, ka_need_verify>>

----------------------------------------------------------------------------
FrameArrives ==
  /\ status \in Running /\ peer /\ ~inbox
  /\ inbox' = TRUE
  /\ UNCHANGED <<tcp, status, alarm, timeout, handler, ka_need_verify, idle, device,
                 peer, sessions, history>>

DeviceReady ==
  /\ status \in Running /\ ~device
  /\ device' = TRUE
  /\ UNCHANGED <<tcp, status, alarm, timeout, handler, ka_need_verify, idle, inbox,
                 peer, sessions, history>>

\* The peer crashes or the path breaks, and nobody is told.
PeerDies ==
  /\ status \in Running /\ peer
  /\ peer' = FALSE
  /\ UNCHANGED <<tcp, status, alarm, timeout, handler, ka_need_verify, idle, inbox,
                 device, sessions, history>>

Later(n) == Smaller(n + 1, MaxSilence)

\* No probe has left since a frame was read.
Unprobed == echoes = 0 \/ (echoes = 1 /\ status = "probing")

Tick ==
  /\ ~Selected /\ alarm # 0
  /\ since' = Smaller(since + 1, Long)
  /\ IF status \in Running
     THEN /\ alarm' = IF alarm = Off THEN Off ELSE alarm - 1
          /\ timeout' = IF status = "linking" THEN timeout - 1 ELSE timeout
          /\ silence' = IF tcp THEN silence ELSE Later(silence)
          /\ probe' = IF Unprobed THEN 0 ELSE Later(probe)
          /\ undumped' = Later(undumped)
     ELSE UNCHANGED <<alarm, timeout, silence, probe, undumped>>
  /\ UNCHANGED <<tcp, status, ka_timer, stat_timer, ka_need_verify, idle, inbox,
                 device, peer, sessions, echoes>>

Next ==
  \/ SigAlarm \/ GiveUp \/ Iterate \/ Probe \/ Unblock \/ Close \/ Restart
  \/ FrameArrives \/ DeviceReady \/ PeerDies \/ Tick

Spec == Init /\ [][Next]_vars

\* The process is scheduled and time passes.
FairSpec ==
  Spec /\ WF_vars(SigAlarm) /\ WF_vars(GiveUp) /\ WF_vars(Iterate \/ Probe)
       /\ SF_vars(Tick)

----------------------------------------------------------------------------
FlagsOK ==
  /\ tcp \in Networks /\ ka_need_verify \in BOOLEAN /\ inbox \in BOOLEAN /\ device \in BOOLEAN
  /\ peer \in BOOLEAN

CountersOK ==
  /\ status \in Running \cup Ended
  /\ alarm \in Nat \cup {Off} /\ timeout \in 0 .. ka_interval
  /\ ka_timer \in 0 .. ka_interval + 1 /\ stat_timer \in 0 .. STAT_IVAL
  /\ since \in 0 .. Long
  /\ idle \in 0 .. ka_maxfail + 1 /\ echoes \in 0 .. ka_maxfail
  /\ sessions \in Nat
  /\ silence \in Nat /\ probe \in Nat /\ undumped \in Nat

TypeOK == FlagsOK /\ CountersOK

\* While a session with keep-alive or statistics runs, SIGALRM is on its way:
\* no order of alarms, timeouts and reconnections leaves the alarm unarmed.
AlarmArmed == (KaFlag \/ StatFlag) /\ status \in Running => alarm # Off

\* The time in which an unheard peer is given up: one check more than the
\* ka_maxfail probes before it and one after them, each an interval (and its
\* extra second) long, twice, and the last select().  Twice because an alarm
\* for the statistics spoils a check, at most every other one if there are two
\* to each dump.
Deadline == 2 * (ka_maxfail + 2) * (ka_interval + 1) + ka_interval

\* The counters of the history do not stop before it.
ASSUME SilenceAssumption == MaxSilence \in Nat /\ MaxSilence > Deadline

\* vtund.conf(5), keepalive: a session whose peer is not heard ends in time.
GivesUpInTime ==
  /\ KaFlag /\ ~tcp
  /\ StatFlag => STAT_IVAL >= 2 * (ka_interval + 1)
  /\ status \in Running
  => silence <= Deadline

\* No session is given up before ka_maxfail probes went unanswered, the first
\* of them for all the intervals between it and the last.
ProbesBeforeGivingUp ==
  status = "timeout" =>
    /\ echoes = ka_maxfail
    /\ ka_maxfail > 0 => probe >= (ka_maxfail - 1) * (ka_interval + 1)

\* vtund.conf(5), stat: a line every VTUN_STAT_IVAL seconds of a session,
\* whatever the keep-alive does with the alarm the two share.
StatsOnTime == StatFlag /\ status \in Running => undumped <= STAT_IVAL

\* vtund.conf(5), keepalive: the loss of the peer is noticed.
DeadPeerNoticed == ~peer /\ ~tcp ~> status \in Ended
=============================================================================
