# A TLA+ verification of VTun

VTun connects two hosts by a tunnel.  A `vtund` **server** accepts TCP
connections and serves each in a process of its own; a `vtund` **client**
connects, authenticates, opens a device (tun, tap, pty or pipe) and from then on
both ends run the same *linker*, which copies frames between the device and the
network through a stack of modules (compression, encryption, shaping), over the
TCP connection or over UDP.

This directory models the parts of it whose correctness depends on the order of
events: processes that share a lock file, signal handlers that interrupt a loop,
packets that get lost between two stateful ends, a session that one end leaves in
the middle of a frame, a configuration that is read again by a running process,
and a client that reconnects with what the last session left in its static
variables.

## Inventory

| Part | Source | State | Operations | What makes it correct |
|---|---|---|---|---|
| Session lock | `lock.c` | one lock file per host; the pid a process read from it | `create_lock`, `read_lock`, `lock_host`, `unlock_host` | one session per host unless `multi` allows more; `killold` lets the newcomer in; dead locks are recovered; only lock holders are killed |
| Server process | `server.c` | where the process is; its SIGTERM handler | `listener`, `connection` | the lock is released on every way out |
| Authentication | `auth.c` | stage of the exchange | `auth_server`, `auth_client` | only who knows the password; both ends agree on the flags |
| Client | `client.c` | `client_term`, `reconnect` | the loop of `client`, `sig_term` | persistent clients go on, SIGTERM ends, SIGHUP reconnects, no busy loop |
| Tunnel | `tunnel.c`, `netlib.c` | device descriptor, `host->persist` | `tunnel`, `udp_session` | the interface is kept or closed as configured, on every path |
| Linker | `linkfd.c` | `linker_term`, `idle`, the module list | `linkfd`, `lfd_linker`, `sig_term`, `sig_hup` | frames are passed, echoes answered, signals obeyed; when one end stops, so does the other |
| Monitor | `linkfd.c` | `ka_timer`, `stat_timer`, `ka_need_verify`, the alarm | `sig_alarm` and the checks in `lfd_linker` | a dead peer is noticed in time and a live one not given up; statistics on time |
| Encryption | `lfd_encrypt.c` | cipher states and contexts, gibberish count, `send_a_packet` | `encrypt_buf`, `decrypt_buf` and the in-band messages | the two chains stay in step, or find each other again |
| Framing | `generic/tcp_proto.c`, `generic/udp_proto.c`, `lib.h` | `__io_canceled`; `is_rmt_fd_connected` (UDP) | read and write | frames arrive whole with their flags, also when a signal cancels I/O |
| Compression | `lfd_zlib.c`, `lfd_lzo.c` | zlib's two streams | encode, decode | decode inverts encode as long as nothing is missing |
| Shaper | `lfd_shaper.c` | `bytes`, `last_time` | `shaper_avail`, `shaper_counter` | the rate is kept, the device not shut out |
| Legacy encryption | `lfd_legacy_encrypt.c` | none | encode, decode | decode inverts encode |
| Configuration, start-up | `cfg_file.y`, `cfg_file.l`, `main.c` | list of hosts, `default_host`, the scanner's stack and buffer | parse, reload, `find_host` | what is served is what is written, also after a reload |
| Helpers | `lib.c`, `llist.c` | — | `split_args`, `subst_opt`, lists | pure functions |
| Device drivers | `generic/*_dev.c`, `linux/`, … | — | open, read, write, close | pure I/O |

How they interact: `listener` forks `connection`, which calls `auth_server`
(which takes the lock), `tunnel`, `unlock_host`.  `client` calls `connect_t`,
`auth_client`, `tunnel`.  `tunnel` opens the device, forks a process for the up
commands, and calls `linkfd`, which builds the module list, takes over the
signal handlers and runs `lfd_linker`.  Shared between handlers and loops:
`client_term`, `linker_term`, `ka_need_verify`, `__io_canceled`; between modules
and the linker: `send_a_packet`; between processes: the lock file and signals.

What is hard to test here: two processes between any two system calls of each
other; a signal between any two statements; a packet lost at one particular
moment of a restart; timers that are due in the same second; what survives from
one session of a client to the next.  `PROJECT.json` lists these hazards at the
lines where they bite.

## Modules

| Module | Models | Extended by |
|---|---|---|
| `SessionLock` | `lock.c`, the server process around it | `MCSessionLock`, `SessionLockProofs` |
| `Encrypt` | `lfd_encrypt.c` at both ends, the linker's loop as far as it drives it, the network | `MCEncrypt`, `EncryptProofs` |
| `KeepAlive` | `sig_alarm()` against `lfd_linker()`, in seconds, over several sessions | `MCKeepAlive`, `KeepAliveProofs` |
| `Client` | `client()`, `tunnel()`, `linkfd()` and their signals | `MCClient`, `ClientProofs` |
| `Auth` | `auth.c` at both ends, the ports of `udp_session()`, over several attempts | `MCAuth`, `AuthProofs` |
| `Session` | what a session promises the two devices: an abstract specification | – |
| `Linker` | `lfd_linker()` at both ends over `tcp_proto.c` or `udp_proto.c`, with zlib's streams; implements `Session` | `MCLinker`, `LinkerProofs` |
| `Shaper` | `lfd_shaper.c` under the system's clock | `MCShaper`, `ShaperProofs` |
| `Config` | `cfg_file.l`, `cfg_file.y`, `main()`'s start, SIGHUP's reload, `find_host()` | `MCConfig`, `ConfigProofs` |

Definitions whose name ends in `_something` and whose comment starts with
"Faulty" are not part of any specification: each is a plausible mistake in the
definition that follows it, and shows that a property would notice.

### SessionLock

`pc[p]` says where server process `p` is, a process being named by its pid;
`file` is what the lock file holds (a pid, nothing, garbage, or a pid that is
long gone); `pid[p]` is `lock_host()`'s local variable.  Every system call on the
file or on another process is one action: `ReadLock` (open and read), `UnlinkBroken`,
`CheckAlive` (`kill(pid, 0)`), `UnlinkStale`, `KillTerm` (or `KillTermFails`, if the signal is not
permitted), `WaitForExit`, `KillKill`, `UnlinkKilled`, `CreateLock` (`link(2)`, which is atomic),
`UnlockHost`.  `KillTerm` does to the target what its handler does there: linkfd()
closes the session, a forked process elsewhere has the listener's handler, which
only sets a flag, and an inetd process elsewhere dies.  The polls of `lock_host()`
may end at any time, so the target may or may not have ended by then.  A process
may crash anywhere.  `stolen` is a history variable: the processes whose lock
another process unlinked while their session was open.

The temp file of `create_lock()` is private to the process (its name holds the
pid) and is not modelled; failing to write it is `CreateLockFails`.

### Encrypt

A chained cipher is its chaining value, a token; a packet records the token it
was encoded with and the one it leaves behind, and whether it carries an
initialisation vector.  `SelfSync` tells CBC and CFB, which find the chain again
after one packet, from OFB, which does not; it is a variable that no step changes, so
that one run has both kinds (`Ciphers`).  A chaining value from which no
packet is decoded is `Lost`.  Tokens are recycled once neither end nor a packet
under way uses them.  The operators `send_msg`, `send_ib_mesg`, `recv_msg`,
`recv_ib_mesg`, `encrypt_buf`, `decrypt_buf` are functions on an endpoint's state
record and follow the functions of the same name.  `None` is a context that was
never initialised or was cleaned up; encrypting with it sets `crashed`.  `rest`
keeps the order of an iteration of `lfd_linker()`: filler, network, device.  The
two seconds of `MAX_GIBBERISH_TIME` may have passed at any packet after the first.

An undecodable packet is taken never to show a valid tag by chance (a probability
of 2^-31 per packet).  Sequence numbers are sent but never looked at by the code.

### KeepAlive

Time advances in `Tick`s of a second, only when neither `select()` nor the alarm
is due; when both are due either may come first, which is the race that the extra
second in `sig_alarm()` is there for.  `SigAlarm` is the handler; it makes
`select()` start over.  `GiveUp` and `Iterate` are an iteration of the loop;
`Probe` is an iteration that waits in `write_n()` with an echo request, `Serve`
may end in such a wait with a device frame or an echo reply, both over TCP only
(`tcp`, a variable that no step changes).
`Restart` is the next session of the same client process, which inherits
`ka_timer`, `stat_timer`, `ka_need_verify` and the handler's clock.  The history
variables count seconds of silence, probes, the age of the first probe and the
seconds since the last dump.

The filler packets of the encryption module and the shaper are left out: the
former is a write like that of a device frame, the latter delays the device side.

### Client

`pc` walks through `client()`, `tunnel()` and `linkfd()`.  Each of them has its
failures as actions of their own; those that the peer or the network may cause
are unbounded, those of the machine (no device, no process, no memory) are bounded
by `MaxFaults`.  `Signal` may come between any two steps and does what the handler
installed at that point does; `handler` says whose that is.  `mode` is what `persist`
says in the configuration (no, yes or keep), any of `Modes`, and never changes.  `stale` and `cyclic`
abstract the module list: whether it was left behind by an earlier `linkfd()`, and
whether its `prev` pointers have a cycle.  `sockets` counts the descriptors that
`client()`, `udp_session()` and `tunnel()` hold, of which the table takes
`MaxSockets`; `lost` is history and counts the failures that leave one open
(`bind()` in `client()`, `udp_session()`, `fork()`).  `told` and `tired` are
history, too.

### Auth

`pc` says where the two ends are, by the stages of `auth.c` and then in `tunnel()`;
`net` and `open` are the TCP connection, `cut` says that it is dead without either
end knowing.  Every message is one action of its reader, which includes the
answer: `ClientHost`, `ClientChal`, `ClientFlags` are the cases of `auth_client()`,
`Greet`, `ServerHost`, `ServerChal`, `ServerFlags` those of `auth_server()`, with
`lock_host()` between the last two (here it succeeds or, in `ServerDenies`, does
not; how it decides is `SessionLock`).  `StartUdp` and `ReadPort` are the halves of
`udp_session()`.  `readn_t()` ends in `ReadEof`, in `Timeout` (the connection is
dead, or both ends wait) or, as a fault, in `Late` (the peer was only slow).  If the
connection dies within a message `read_n()` has part of it and, having no timeout
of its own, is `stuck`.  At a dead peer `udp_session()` takes the end of file for
a port, its own (`ReadPortEof`).

`host` is what each end will run the session with.  The client's is changed by
every attempt and lives on; the server's is that of `entry`, the configuration when
its process was forked, and `config`, the present one, may change between
connections.  Flags are sets, the string of letters and numbers is a function from
flags to numbers, and challenges are functions on bytes, converted to half bytes
and back as `cl2cs()` and `cs2cl()` do.  The cipher is any permutation for each
password that agrees nowhere with another's.  A new connection starts when both
ends are idle: an earlier server process of the same host that has not ended meets
the new one in `lock_host()` only.  `Reload` stands for whatever made the
configuration another one between two attempts; SIGHUP in a child that has not called
`find_host()` yet (`server.c:84`) is in `Config`.  `refused` and `excused` are history.

### Session and Linker

`Session` knows frames taken from a device, frames written to the other device,
and two ends that are open or not.  It promises order and completeness where the
transport does (`reliable`), and that no frame is spoilt (`intact`), save one: an
end that is told to stop may hand its device the first part of a frame, as the last
thing it does.

`Linker` is what both ends do to keep that.  `st[e]` is the place in `lfd_linker()`:
waiting in `select()`, writing, between the length and the rest of a frame, closing,
and after `linkfd()`.  Over TCP a data frame travels as two units, so a writer can be
stopped between them by a full connection (`Room`) or a signal, and a reader by a
signal or the end of file; over UDP a frame is a packet that may be lost, doubled or
overtaken.  `term[e]` is `linker_term` together with `__io_canceled`, which the
handlers set together: `read_n()` then returns 0 or what it has, `write_n()` writes
nothing (over UDP `CONN_CLOSE` is still sent), and a signal that arrives just before
the system call is noticed at the next interruption only (`Interrupted`).  `Start` is
the first `ECHO_REQ`, which the NAT hack puts off; `conn` is `is_rmt_fd_connected`,
without which `udp_write()` drops what it is given;
`udp_read()` sets it before the frame it has read is answered (`Connected`).  `Verify` is the keep-alive part
of the loop, at any time (when is `KeepAlive`).  `inflate` is the place of zlib's
decompressor in the stream: out of step it fails, which ends the loop, or produces
something.

Left out of the module: `encrypt_buf()`'s filler (in `Encrypt`), `VTUN_BAD_FRAME`, a
frame longer than the buffer, EAGAIN of a device, a length of which only one byte was
read, and signals during the first `ECHO_REQ` (in `Client`).

### Shaper

A state is a moment of the system's clock: `ms`, its place in the current second, and
`age`, the time since `last_time`; both as in `shaper_counter()`, which compares
seconds of the clock, and `shaper_avail()`, which divides by the interval.  `speed` is
computed in words of `Word` values.  `SetBack` sets the clock back once in a session;
then nothing is promised of the rate (the difference is a huge unsigned number and the
speed is 0) but the device must still be read.  `bucket` is history: a leaky bucket
that loses `max_speed + 1` bytes in a second, the one for the rounding down of the
division.  A bound on it bounds what any interval carries.  Keep-alive frames and
filler pass the shaper by in the source.

### Config

A configuration file is a sequence of lexemes, `text`, next to what its writer meant,
`sections`.  If the writer made no mistake (`~flawed`) the one is the other written down
(`Text`, an assumption about the constant `Files`), and otherwise `text` is anything.
What a sequence of sections means is defined without the parser: `Sessions` for the list
of hosts, `Defaults` for what `default` sections leave to later files, `FirstSaid` for
the general options that are set once, `LastSaid` over all files for the others.
`Scanned` and `Token` are the start conditions and the stack of `cfg_file.l`, `Parsed`
the grammar of `cfg_file.y` for one option of each kind: of the general options `port`
and `timeout`, which "don't override" what is there (as `type` and `iface` do not), and
`syslog`, which is assigned whenever it is read (as `ppp`, `ifconfig`, `route`,
`firewall`, `ip` and `bindaddr` are); `ParseFrom` runs them over a file.  What outlives
a load is kept: the scanner's start condition and stack, what flex has buffered and not
read after a syntax error, and `default_host`.  `heap` has the device names, which
sections share by pointer; `sound` becomes false if one is freed twice.  `find_host()`
frees the list one element at a time (`FindHost`), so SIGHUP may come in between, where
the outcome is undefined. flex's buffering is modelled from how `read_config()`
uses it.

The scanner's stack is assumed to have 4 places (16 in the source): the brace of
a section, the keyword `up`, its brace and a command take that many.

## Runs

All bounds are constants of the configurations.  The type invariants, and the
invariants that are only the reason for another (`SessionOwnsLock`, `PathUntilLoss`,
`AlarmArmed`, `FreshIO`, `WindowBound`), are proved for all values of the constants
and not checked again here.

| Run | Bounds | Checks |
|---|---|---|
| `LockTheft` | 3 processes, killold, stand-alone server, 2 faults, any left-over lock | `TargetsHeldTheLock`, `TwoSessionsOnlyAfterTheft`, `FirstTheftFromStaleRead`, `KillOldAdmits`, `DeadLockRecovered` |
| `LockDeny3` | 3 processes, deny | `OneSession`: *violated* |
| `EncryptLoss` | OFB, and CBC or CFB; 2 losses, swaps or duplicates, 2 packets each way, of which 1 is data | `DecryptorReady`, `InStepUntilLoss`, `Delivers` |
| `EncryptFirst` | 1 loss | `NeverWithoutCipher`: *violated* |
| `KeepAlive` | UDP and TCP; interval 1 s, 2 retries, dump every 5 s, 2 sessions | `GivesUpInTime`, `StatsOnTime`, `ProbesBeforeGivingUp`, `DeadPeerNoticed` |
| `ClientKeep` | no persist, persist and keep; UDP, 3 signals, 2 faults, room for 3 sockets | `PersistentEnds`, `SocketsClosed`, `SleepsBetweenAttempts`, `KeepsInterface`, `TermEndsSession`, `HupReconnects` |
| `AuthSetup` | 2 attempts, 6 server configurations, 2 faults, challenges of 1 byte | `FlagsAgree`, `SessionNeedsPassword`, `RefusedForCause`, `PairConnected`, `SetupEnds` |
| `AuthKeepAlive` | as `AuthSetup` | `KeepAliveOwn`: *violated* |
| `Link` | TCP with zlib and 3 frames each way, TCP with keep-alive, UDP with and without zlib, with the NAT hack at one and at both ends; 1 fault | `StreamWhole`, `InStepUnlessLoss`, `KeepsPromise`, `HackedOneConnects`, `Delivered`, `CloseSpreads`, `SignalEnds` |
| `Shape` | 5 ticks to a second, 6 bytes a second, frames of 0, 1 and 4 bytes, words of 64 values, 5 seconds, the clock set back by up to 4 ticks | `RateBound`, `NoOverflow`, `AcceptsAgain` |
| `Config` | 17 files, 6 with mistakes, 3 loads, 2 command lines, server and client, a stack of 4 | `HostsAsWritten`, `WithdrawnStayOut`, `FoundAsWritten`, `OptionsAsGiven`, `HeapSound`, `OwnDevices`, `ListenerSurvives` |
| `NatHackReload` | the same files, 2 loads | `OtherSideIgnored`: *violated* |

What they show, beyond the names:

* **Lock.**  With three clients two sessions may be open (`LockDeny3`), and
  `LockTheft` says exactly how far the protocol fails: two sessions are open only when a
  process removed another's lock, and the first such removal acted on a lock file
  that had changed since it was read.  `lock_host()` kills nobody but lock holders.
  A newcomer under killold gets in and a dead process' lock keeps nobody out, for the
  stand-alone server.  (Under inetd a process that is still setting up dies of SIGTERM,
  `kill(SIGKILL)` then fails, its lock stays and the newcomer is refused:
  `KillOldAdmits` is false with `Inetd = TRUE`.)
* **Cipher.**  As long as nothing is lost the restart machinery stays quiet, even
  though a client may begin a session with the filler flag left by the last one.
  After losses the ends find each other again, provided the losses stop and both
  ends have something to send, and provided no end was driven to encrypt with no
  cipher, which is what `EncryptFirst` shows can happen.
* **Keep-alive.**  The extra second in `sig_alarm()` is needed and suffices: the
  interrupted `select()` completes.  A dump of the statistics costs a check, so the
  deadline allows twice the checks.  Over TCP a blocked write, which `write_n()`
  resumes after every SIGALRM, voids the deadline (which `GivesUpInTime` claims over
  UDP only) but not the dumps, and not the promise that probes come first.
* **Client.**  Some properties state an exception, because the code has it:
  after a session that SIGHUP ended, `client_term` stays `VTUN_SIG_HUP` until an attempt
  succeeds, and failed attempts follow each other without `sleep(5)`
  (`SleepsBetweenAttempts`, which also excepts a SIGTERM that comes on top of it); after a failed allocation of a
  module the list is left behind, gets a cycle in the next session, and
  `lfd_check_up()` hangs (`pc = "hung"` in `TermEndsSession` and `HupReconnects`).
  `SocketsClosed` counts exactly the sockets that the failing paths leave open.  What
  the run leaves out, because the code does not do it: SIGTERM while the client
  connects, authenticates or sets up the tunnel is stored in `client_term` and
  overwritten by `tunnel()`'s result, so a persistent client goes on;
  `TermEndsSession` speaks of SIGTERM during a session, and excepts only a SIGHUP that
  overwrites it before `linkfd()` returns.
* **Set-up.**  What one session leaves in the client's options never reaches the next,
  although `cf2bf()` only ever adds to them; the two ends never wait for each other;
  and both ends of a pair connect to each other's port, whichever closes TCP first.
  Two exceptions are the code's: `cf2bf()` compares the *number* with `ERANGE`, so a
  server that shapes at 34 kbit/s is refused (`RefusedForCause`), and a connection
  that dies within a message leaves `read_n()` waiting (`SetupEnds`).
  `FlagsAgree` is about the options that the server is to supply; keep-alive, which
  vtund.conf(5) leaves to each end and the code to the server, is the question of
  `AuthKeepAlive`.
* **Session.**  `KeepsPromise` is the refinement: the linker at both ends, with `st`
  mapped to open or not and `term` to being told, implements `Session`, over TCP with
  every short write, cut frame and reset, over UDP with its faults.  `StreamWhole` is
  the reason over TCP, and shows that skipping `CONN_CLOSE` after a signal is not just
  impolite but needed: after half a frame the peer would read it as data.  Two
  exceptions are the code's: `Delivered` excepts two ends that wait in `write_n()` for
  each other (`CrossBlocked`), which keep-alive does not
  notice either, as its check is in the loop; and `SignalEnds` needs the alarm of
  keep-alive over TCP, as a signal between the test of `__io_canceled` and the system
  call is not noticed.  The NAT hack drops what an end compressed before it was
  connected, which costs zlib its stream (`InStepUnlessLoss`), and at both
  ends it leaves each waiting for the other (`HackedOneConnects` excludes it).
* **Shaper.**  Windows that begin with the seconds of the clock, the rounding and the
  frame that is counted after the check add up to a burst of a second and a frame, and
  no more; a count that is never reset in a silent hour does not overflow either.  The bound is
  one for each session: `shaper_init()` starts anew, and so does `bucket`.
* **Configuration.**  With files that have no mistakes, what is served is what is
  written, with these exceptions, each spelled out in a property: the numbers of a
  `default` section outlive the file (its commands do not); the general options that are
  set once, the general `persist` among them, keep the first value they ever had, and the
  others take the last, which a reload changes (for `syslog` to no effect: only `main()`
  opens the log, `main.c:151`); device names are shared with `default_host`, so
  one may be freed while in use, if a session that got its name from a `default` section
  names its own or is followed by a `default` section that does (`DeviceShared`); a password, or a command without a
  path, in `default` ends the process (`DefaultUnbearable`).  `HostsAsWritten` and
  `FoundAsWritten` leave open whether a reload clears the NAT hack's flag of the other
  side, which is the question of `NatHackReload`.  A general `persist`, which vtund.conf(5)
  lists, is a mistake to the grammar, and so are files that have it.  After a mistake the
  scanner stays inside the section, the rest of the old file is read before the
  next one, and only `WithdrawnStayOut`, `OwnDevices` and, of the options that are set
  once, `OptionsAsGiven` (if the first file has none) are claimed.  `WithdrawnStayOut` then says that a session served is in a file that was
  read at or after the first mistake, perhaps in one without a mistake that is not the
  last: it waits in flex's buffer behind a rest that stops the parser more than once.

Why the bounds are enough: a lock is lost through a process that judges, one
that ends and one that takes its place, so three processes show every pairwise
race with a bystander; the proofs remove the bound for the safety properties.
A restart of the ciphers involves one request and one answer in each direction,
and `MAX_GIBBERISH` (10 in the source, 3 here) only has to exceed the one packet
of `MIN_GIBBERISH`.  A device is read only while a direction has room for another
packet (`MaxData < MaxChan`), so that requests and answers are never kept out by data.  The deadline in `KeepAlive` is reached: one second less is
violated.  `MaxSilence` is above the deadline, as an assumption of the module
states.  Two sessions are enough for state that survives a session; two retries
for the intervals between probes.  The configurations of `AuthSetup` differ from each
other and from the client's own in every option, so whatever an attempt leaves behind
would show in the second; the challenges have a byte at each end of its range.
In `Link` a frame is cut, lost or overtaken with one before it and one behind it, a
connection that takes one unit blocks every write there is, and a second fault would
only add its own.  In `Shape` a second is not a multiple of a frame, `RateBound`
is violated without the frame in it, and 5 seconds let a window be over by more than one second; the proofs
remove these bounds.  In `Config` three loads are one that leaves something behind,
one that finds it and one that shows whether it is still there; the files have every
kind of option twice, in both orders, and mistakes inside and between sections.  The
scanner's stack (16 in the source) is just deep enough for a file without mistakes, so
that one that was left in the middle of a section fills it.

No run checks for deadlock: server processes and clients end, a session may end
for good, and the packet bound may stop the model of a lossy network.

### What the violated runs show

* **`LockDeny3`** – B reads A's lock; A ends and unlocks; C locks; B finds A dead,
  unlinks C's lock and creates its own.
* **`EncryptFirst`** – A's first packet, which carries its vector, is lost; the
  second reaches B, which has not sent anything; B's encryptor goes from INIT to
  REQ_INIT and B encrypts with a context that was never initialised.
* **`AuthKeepAlive`** – a client whose own entry has no keep-alive connects to a server
  whose entry has, or the other way round; `client()` clears its own flag, takes the
  server's, and the session runs with that.  vtund.conf(5): "This option is ignored by
  the server."  (The comment in the sample `vtund.conf` agrees with the code.)
* **`NatHackReload`** – a server gets SIGHUP, reads a session with `nat_hack client`, and
  runs it with that flag: `reread_config()` does not call `clear_nat_hack_flags()`, as
  `main()` does.  vtund.conf(5): the setting of the other side "is ignored".

## Fairness

* `SessionLock`: weak fairness of each process' own steps – the operating system
  runs it.  Sessions need not end and clients need not come.
* `Encrypt`: weak fairness of the three parts of each end's loop.  That of
  `SendData` says that both devices keep having something to send, without which
  a lost request to restart is never repeated; `Delivers` depends on it.  Losses
  stop, by `MaxFaults`.
* `KeepAlive`: weak fairness of the handler and the loop, strong fairness of
  `Tick`: time passes even if frames of the device keep interrupting it (a step
  of theirs takes no time in the model).
* `Client`: weak fairness of what the process does when nothing goes wrong.
  Nothing makes a session end or an attempt fail.
* `Auth`: weak fairness of each end's own steps, of which the timeout of `readn_t()` is
  one.  Nothing makes a session end, a client connect or the network deliver.
* `Linker`: weak fairness of each process' own steps and, with keep-alive, of the
  alarm, which `alarm(2)` repeats.  Devices need not send, signals need not come, and
  without keep-alive nothing interrupts a blocked system call.
* `Shaper`: time passes, and while a frame waits the loop turns: `select()` returns at
  once for a readable device.

## Proofs

All hold for every value of the constants.

* **SessionLockProofs** – `SessionOwnsLock` is inductive with `TypeOK`: `link(2)`
  only succeeds without a file, so a process enters a session owning the lock,
  and only `Unlink` takes it away, which `stolen` records.
  `TwoSessionsOnlyAfterTheft` follows, as the file names one process.
  `TargetsHeldTheLock` and `FirstTheftFromStaleRead` assume that no left-over lock
  names a pid in use (`InitFiles \cap Procs = {}`).  The second needs `JudgedDead`:
  a process judged dead is still dead when its lock is unlinked, so if the file
  still held that pid no session would lose its lock.  `TwoNeverCollide` says how far
  `vtund.conf(5)`'s `multi` holds: with two processes, and no pid left over in the lock
  file, there is one session.  A robber would have to judge a third process
  (`NoLeftOver`: nobody judges itself), and whoever it has judged dead has no session
  to lose (`JudgedDead`).  Neither hypothesis can go: `LockDeny3` has a third process,
  and with the lock of a dead process both newcomers may judge that one.
* **EncryptProofs** – `TypeOK` and `DecryptorReady` for any faults.  Until the first
  fault (for ever over TCP) `Path /\ InStep /\ NeverWithoutCipher` is inductive with
  the types: the packets under way are a path in the chain, so the next one is
  always decodable and no restart is ever asked for.
* **KeepAliveProofs** – `Inv` adds to the types: echoes and idle count together,
  the alarm comes no later than the dump is due (`DumpDue`), and, once a check was
  made, no later than the keep-alive timer runs out (`CheckDue`).  The latter
  cannot be claimed of the start of a session, whose timers are those of the last.
  `ProbesFirst` needs `ProbeAge`: the age of the first probe is at least the checks
  made since, times the interval, less what is left of the timer.  `GivenUpInTime`
  needs a measure, `Left`: the most seconds that the timers and the checks still to
  come can take.  A second of silence takes one from it, a check that counts takes a
  round, and an alarm that only dumps the statistics spoils at most one round; so
  silence and `Left` never add up to more than `Deadline`.  All that holds while no
  write waits, which over UDP is always.
* **ClientProofs** – `Inv` adds where the linker's handlers are installed, that
  SIGTERM is the only way to `persist = 0`, why the loop is left, and which sockets
  are open at which point of an attempt (`SocketsCounted`): the TCP socket from
  `socket()` on, the UDP socket from `udp_session()` on, and the lost ones.
  `SleepsBetween` needs that the loop is entered again with `sleep(5)` done or not
  needed, and what `client_term` can be at each point of the next attempt.
* **AuthProofs** – `Inv` holds, besides the types, what is true of every message under
  way (`NetInv`): a challenge is the server's present one, a response is that one under
  the client's password, options are those of the server process.  From it and
  `CryptAssumption` (a response is undone only by its own key) a response that is
  accepted shows the password.  `FlagsAgree` needs that the client's options hold
  nothing of the server's kind until the server's arrive (`ClientClear`), which is what
  clearing them before every attempt is for, and that its own are kept (`OwnKept`).
  `NoNeedlessRefusal` rests on `Smooth`: an attempt that nothing from outside disturbs
  is at one of the points of the exchange where the two ends, and what is under way
  between them, fit (`OnTheWay`); a refusal is a step to none of them.  It needs that a
  key's permutation is one (two challenges have two responses).  `PairsConnected` rests
  on `Pairing`: an end that knows its peer's port got it in a message, and one that took
  the end of file for it has no peer any more.
* **LinkerProofs** – `Inv` adds to the types that an end has something to write exactly
  in `write_n()`, that what is under way was taken from a device, that over TCP the
  decompressor is where the reader is, and that over UDP, until a fault, the packets
  under way go on from where it is.  The proofs do not go through the actions one by
  one but through what a step of one process can be to the two directions: it reads
  nothing, a control frame, a length or the rest of a frame, or stops (`Reads`), and it
  writes nothing, a whole frame or a part, or gives up; the other process stands by
  (`Bystander`).  Each action is shown to be of that shape once, and each invariant to
  survive the shapes.  `PromiseKept` is the refinement: `Linker`'s initial states are
  those of `Session` under the mapping, and each shape is a step of `Session` or leaves
  it as it is.
* **ConfigProofs** – about any set of files, in two parts.

  *Whatever is in the files*: texts of any length, of any lexemes, in any order, with the
  scanner left wherever an earlier mistake stopped it.  `yyparse` is a recursive
  function of the text; that it has a value at every text, and that it keeps `Parsing`, is
  shown by taking the shortest text for which it does not (`LeastNumber`, from which
  `UpTo` makes an induction over a set of numbers).  For one lexeme, `ParsedShape` shows
  that whatever the grammar does has one of three shapes (`Plain`, `Adds` a session to
  the list, `Renames` a device), and `ShapeOwn` that these keep `Own`: the names made in
  this load belong to one session each, and the earlier ones are not touched, as long as
  `default_host` has none.  So `Inv` is invariant, and `DevicesOwned`,
  `OnlyWithPassword`, `ScannerStaysSound`, `CommandLineWins` and `OptionsKept` follow;
  the latter four are stated by `PasswordNeeded`, `ScannerSound`, `CommandLineFirst` and
  `OptionsFixed` in `Config`, which no run needs to check.

  *What files without a mistake mean*: the parser undoes the printer.  The lexemes of
  one option have one `Effect` (`ReadPair`), those of `up` by induction on its commands;
  the options of a section make a `Body`, by induction on their number (`ReadBody`);
  with its name and its `}` a section leads from `AtTop` to `AtTop` and does what `After`
  says (`ReadSection`).  On the other side `Said` and `Sessions` of one section more are
  those of the sections before and a `Part` (`SaidStep`, `SessionsStep`); that rests on
  lemmas about `FlattenSeq` and about the first and the last place where an option is
  said in a sequence of pairs (`SaidTwice`).  `Good` holds both sides together: after k
  sections the list shows `Sessions`, `default_host` what was said in `default` sections
  (`Filed`), and the heap is as `HeapIn` says: no name was freed that a session still
  has, unless a session and a later section are of the kind that `DeviceShared`
  excludes.  `GoodStep` is a section more, `ReadFile` the whole file.  `Meant` is the
  invariant over any number of loads: `History` (which files were read), `AtRest` (between
  two files the scanner is where it began, `default_host` is what all `default`
  sections so far have made of it, which is what the next file inherits, and `syslog` is
  what was said last), `FirstCounts` (the options that are set once), `Listed`,
  `Walked` (`find_host()` has the last match of the elements it has passed), `HeapOK`, and
  `Sourced`: once a file had a mistake, every name in flex's buffer and in the list is a
  word of a file from that one on, which holds for texts of any kind (`ParsedName`,
  `ReadTold`: only the name of a section makes a name).  `HostsWritten`, `Withdrawn`,
  `FoundWritten`, `OptionsGiven` and `HeapStaysSound` follow, and from the same lemmas
  `ListenerGoesOn`.  The invariant is about what a load really leaves (`Left`), the other
  side's `nat_hack` after a reload included; `LeftMeaning` gets from there to `Meaning`,
  for which it is ignored.

  The proof changed two properties, which were true of the run's files and loads and
  false of others.  `DeviceShared` had left out a session that inherits a device's name
  from an earlier file and is followed by a `default` section that names another; the
  run has such a file now.  `WithdrawnStayOut` had allowed only the names of the last
  file and of those with a mistake, not of the ones that wait in flex's buffer.
* **ShaperProofs** – `RateBound` is not inductive: it says nothing of how a full bucket
  and a full window go together.  `WindowBound` is the strengthening (the bucket is
  at most what the window has counted plus the time that is left of its second), and
  keeps itself with `CountBound` (the count is at most what its age allows and a
  frame), `BytesBound` (and a second's worth, which rules out overflow and makes the
  modular product of `speed` the true one) and `AgeOK`.  A frame within a window adds
  to both sides; a tick takes `max_speed + 1` from both; a frame that begins a window
  uses that `shaper_avail()` found the old count below its age's worth (`SpeedKept`,
  `Quotient`), so the old bucket fits into a second.

Assumptions on the constants are stated in the modules that declare them.

Only model-checked: everything under fairness (`KillOldAdmits`,
`DeadLockRecovered`, `Delivers`, `DeadPeerNoticed`, `TermEndsSession`,
`HupReconnects`, `SetupEnds`, `HackedOneConnects`, `Delivered`, `CloseSpreads`,
`SignalEnds`, `AcceptsAgain`), which the proof system does not reach.  Every other
property of a passing run is a theorem.

## Not modelled

* The ciphers, the compression libraries and the device drivers: calls into libraries
  and the kernel.  ECB mode and `lfd_legacy_encrypt.c` have no state between packets,
  and neither has LZO.
* `subst_opt()`, `split_args()` and `run_cmd()`, which prepare and run the commands of a
  session: pure functions on strings, and a process that nobody waits for.
* Daemonising, the pid file, log messages and process titles; address resolution.
* The listener's socket: it accepts and forks.
* Options of the configuration that assign a number, flag or string as the modelled
  ones do; a reload within `malloc()`, where the outcome is undefined.
* The order of several modules in the stack: `lfd_run_down()` and `lfd_run_up()` walk
  one list in opposite directions.

## Plan

1. *Done*: `SessionLock`, `Encrypt`, `KeepAlive`, `Client`, `Auth` with their proofs.
2. *Done*: `Session` and `Linker` with the framing and the refinement between them,
   `Shaper` with its proofs, `Config`, the sockets of `Client`.
3. *Done*: proofs of `StreamWhole`, `InStepUnlessLoss` and the refinement of `Session`;
   of `GivesUpInTime`, `RefusedForCause`, `PairConnected` and `SleepsBetweenAttempts`;
   of one session for two processes; of what `Config` keeps for every file.
4. *Done*: the parser of `Config` as the inverse of `Text`, and with it proofs of
   `HostsAsWritten`, `WithdrawnStayOut`, `FoundAsWritten`, `OptionsAsGiven`, `HeapSound`
   and `ListenerSurvives`.
5. An abstract lock (a set of holders, at most one unless robbed) that `SessionLock`
   implements.
