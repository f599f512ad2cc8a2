------------------------------- MODULE Linker -------------------------------
(***************************************************************************)
(* The two ends of a session: lfd_linker()'s loop of linkfd.c over the     *)
(* framing of tcp_proto.c or udp_proto.c, with read_n() and write_n() of   *)
(* lib.h, which a signal cancels, and with zlib's two streams.             *)
(*                                                                         *)
(* A TCP connection carries units: a control frame is one, a data frame is *)
(* two, its length with the first bytes and the rest, so that a reader or  *)
(* a writer can be caught in the middle of it.  UDP carries whole frames.  *)
(***************************************************************************)
EXTENDS Integers, Sequences, SequencesExt

Ends == {"client", "server"}
Peer(e) == IF e = "client" THEN "server" ELSE "client"

CONSTANTS
  Links,       \* the sessions to consider: see LinkerAssumption
  Room,        \* units that a TCP connection takes before a write waits
  MaxFlight,   \* packets that a UDP path holds before it drops them
  MaxFaults    \* bound on what the network, the devices and the machine do

\* hack: the ends with VTUN_USE_NAT_HACK.  ka: VTUN_KEEP_ALIVE.  frames: a
\* bound on the frames read from one device.
ASSUME LinkerAssumption ==
  /\ Links \subseteq [proto : {"TCP", "UDP"}, hack : SUBSET Ends,
                      zlib : BOOLEAN, ka : BOOLEAN, ka_maxfail : Nat,
                      frames : Nat]
  /\ Room \in Nat \ {0} /\ MaxFlight \in Nat \ {0}
  /\ MaxFaults \in Nat

VARIABLES
  link,
  st,       \* where each process is in lfd_linker()
  dev,      \* the network part of the iteration is over
  idle,
  term,     \* linker_term and __io_canceled: a signal was caught
  conn,     \* is_rmt_fd_connected
  chan,     \* chan[e]: the units or packets on their way to e
  out,      \* what write_n() has still to write
  inflate,  \* the frames that zlib's decompressor has consumed in order
  sent,     \* frames read from the device
  got,      \* frames written to the device
  faults

vars == <<link, st, dev, idle, term, conn, chan, out, inflate, sent, got, faults>>

TCP == link.proto = "TCP"
UDP == link.proto = "UDP"

Off == -1      \* the decompressor has lost the stream
Spoilt == 0    \* a frame that is not what was sent

\* n is the last frame that the sender took from its device.
Frame == [k : {"DATA", "REST", "ECHO_REQ", "ECHO_REP", "CONN_CLOSE"}, n : Nat]

Units(k, n) ==
  IF TCP /\ k = "DATA" THEN <<[k |-> k, n |-> n], [k |-> "REST", n |-> n]>>
                       ELSE <<[k |-> k, n |-> n]>>

\* write: in write_n() with a frame; body: in tcp_read(), the length is read;
\* close: out of the loop; closing: in write_n() with CONN_CLOSE; down:
\* linkfd() has returned; done: the socket is closed.
Linking == {"start", "loop", "write", "body"}
States == Linking \cup {"close", "closing", "down", "done"}

\* udp_session() and linkfd().
Init ==
  /\ link \in Links
  /\ st = [e \in Ends |-> "start"]
  /\ dev = [e \in Ends |-> FALSE]
  /\ idle = [e \in Ends |-> 0]
  /\ term = [e \in Ends |-> FALSE]
  /\ conn = [e \in Ends |-> TCP \/ e \notin link.hack]
  /\ chan = [e \in Ends |-> <<>>]
  /\ out = [e \in Ends |-> <<>>]
  /\ inflate = [e \in Ends |-> 0]
  /\ sent = [e \in Ends |-> 0]
  /\ got = [e \in Ends |-> <<>>]
  /\ faults = 0

----------------------------------------------------------------------------
\* Writing.

Goto(e, s) == st' = [st EXCEPT ![e] = s]

\* while( !linker_term ), at the end of an iteration.
Again(e) == IF term[e] THEN "close" ELSE "loop"

\* c is the network without what e has just read, which connects its socket.
Connected(c, e) == conn[e] \/ c[e] # chan[e]

\* Faulty: drops a packet while another is under way.
udp_write_busy(c, e, k, n) ==
  IF Connected(c, e) /\ st[Peer(e)] # "done" /\ c[Peer(e)] = <<>>
  THEN [c EXCEPT ![Peer(e)] = Append(@, [k |-> k, n |-> n])]
  ELSE c

\* A UDP packet leaves, if the socket is connected; a full path loses it.
udp_write(c, e, k, n) ==
  IF Connected(c, e) /\ st[Peer(e)] # "done" /\ Len(c[Peer(e)]) < MaxFlight
  THEN [c EXCEPT ![Peer(e)] = Append(@, [k |-> k, n |-> n])]
  ELSE c

\* proto_write() from within the loop, which goes on at s.  write_n() writes
\* nothing once I/O is cancelled.
proto_write(c, e, k, n, s) ==
  \/ /\ UDP
     /\ chan' = udp_write(c, e, k, n)
     /\ Goto(e, s)
     /\ UNCHANGED out
  \/ /\ TCP /\ term[e]
     /\ chan' = c
     /\ Goto(e, "close")
     /\ UNCHANGED out
  \/ /\ TCP /\ ~term[e]
     /\ chan' = c
     /\ Goto(e, "write")
     /\ out' = [out EXCEPT ![e] = Units(k, n)]

\* Faulty: neither end sends it if one has the NAT hack.
Start_both(e) ==
  /\ st[e] = "start"
  /\ IF link.hack # {}
     THEN Goto(e, "loop") /\ UNCHANGED <<chan, out>>
     ELSE proto_write(chan, e, "ECHO_REQ", 0, "loop")
  /\ UNCHANGED <<link, dev, idle, term, conn, inflate, sent, got, faults>>

\* The first ECHO_REQ, which the NAT hack puts off.
Start(e) ==
  /\ st[e] = "start"
  /\ IF e \in link.hack
     THEN Goto(e, "loop") /\ UNCHANGED <<chan, out>>
     ELSE proto_write(chan, e, "ECHO_REQ", 0, "loop")
  /\ UNCHANGED <<link, dev, idle, term, conn, inflate, sent, got, faults>>

\* Faulty: what a short write leaves is never written.
WriteSome_once(e) ==
  /\ st[e] \in {"write", "closing"}
  /\ st[Peer(e)] # "done" /\ Len(chan[Peer(e)]) < Room
  /\ chan' = [chan EXCEPT ![Peer(e)] = Append(@, Head(out[e]))]
  /\ out' = [out EXCEPT ![e] = <<>>]
  /\ Goto(e, IF st[e] = "closing" THEN "down" ELSE Again(e))
  /\ UNCHANGED <<link, dev, idle, term, conn, inflate, sent, got, faults>>

\* write(2) takes the next bytes; a signal that came in the meantime ends
\* write_n().
WriteSome(e) ==
  /\ st[e] \in {"write", "closing"}
  /\ st[Peer(e)] # "done" /\ Len(chan[Peer(e)]) < Room
  /\ chan' = [chan EXCEPT ![Peer(e)] = Append(@, Head(out[e]))]
  /\ out' = [out EXCEPT ![e] = IF term[e] THEN <<>> ELSE Tail(@)]
  /\ Goto(e, IF out'[e] # <<>> THEN st[e]
             ELSE IF st[e] = "closing" THEN "down" ELSE Again(e))
  /\ UNCHANGED <<link, dev, idle, term, conn, inflate, sent, got, faults>>

\* The peer has closed the connection: the bytes go nowhere, or EPIPE.
WriteFails(e) ==
  /\ st[e] \in {"write", "closing"}
  /\ st[Peer(e)] = "done"
  /\ out' = [out EXCEPT ![e] = <<>>]
  /\ Goto(e, IF st[e] = "closing" THEN "down" ELSE "close")
  /\ UNCHANGED <<link, dev, idle, term, conn, chan, inflate, sent, got, faults>>

----------------------------------------------------------------------------
\* Reading.

Eof(e) == TCP /\ chan[e] = <<>> /\ st[Peer(e)] = "done"
NetReady(e) == chan[e] # <<>> \/ Eof(e)

\* Faulty: end of file returns what was read before it; is no reason to stop.
ReadNothing_partial(e) ==
  /\ TCP
  /\ st[e] \in {"loop", "body"} /\ Eof(e)
  /\ Goto(e, "close")
  /\ got' = IF st[e] = "body" THEN [got EXCEPT ![e] = Append(@, Spoilt)] ELSE got
  /\ UNCHANGED <<link, dev, idle, term, conn, chan, out, inflate, sent, faults>>
ReadNothing_ignored(e) ==
  /\ TCP /\ st[e] = "loop" /\ term[e] /\ chan[e] # <<>>
  /\ Goto(e, "close")
  /\ UNCHANGED <<link, dev, idle, term, conn, chan, out, inflate, sent, got, faults>>

\* read_n() returns 0: end of file, or I/O is cancelled.
ReadNothing(e) ==
  /\ TCP
  /\ \/ st[e] \in {"loop", "body"} /\ Eof(e)
     \/ st[e] = "loop" /\ term[e] /\ chan[e] # <<>>
  /\ Goto(e, "close")
  /\ UNCHANGED <<link, dev, idle, term, conn, chan, out, inflate, sent, got, faults>>

\* Faulty: EINTR resumes whatever was asked for in the meantime.
Interrupted_resumed(e) == term[e] /\ UNCHANGED vars

\* The signal interrupted read() or write(), or an alarm did after it.  Of a
\* frame of which some bytes were read these are decoded and written to the
\* device; the rest of a frame that was being written is left out.
Interrupted(e) ==
  /\ term[e]
  /\ st[e] \in {"write", "body", "closing"}
  /\ Goto(e, IF st[e] = "closing" THEN "down" ELSE "close")
  /\ out' = [out EXCEPT ![e] = <<>>]
  /\ \/ UNCHANGED got
     \/ st[e] = "body" /\ got' = [got EXCEPT ![e] = Append(@, Spoilt)]
  /\ UNCHANGED <<link, dev, idle, term, conn, chan, inflate, sent, faults>>

\* zlib's stream is the sequence of frames: zlib_comp() gives a frame its place
\* in it, and zlib_decomp() needs all frames in their order.
zlib_comp(e) == sent[e] + 1
zlib_decomp(e, n) == inflate[e] = n - 1

\* lfd_run_up() and dev_write().  Out of step zlib fails or makes something of
\* what it finds.  The other modules need only the frame.
Decode(e, n) ==
  LET inStep == link.zlib => zlib_decomp(e, n)
  IN  /\ inflate' = [inflate EXCEPT ![e] = IF inStep THEN n ELSE Off]
      /\ \/ /\ inStep
            /\ got' = [got EXCEPT ![e] = Append(@, n)]
            /\ Goto(e, Again(e))
         \/ /\ ~inStep
            /\ got' = [got EXCEPT ![e] = Append(@, Spoilt)]
            /\ Goto(e, Again(e))
         \/ /\ ~inStep
            /\ Goto(e, "close")
            /\ UNCHANGED got

\* if( fl ): a frame without data ends the iteration.
Control(e, k, c) ==
  /\ \/ k = "ECHO_REQ" /\ proto_write(c, e, "ECHO_REP", sent[e], Again(e))
     \/ k = "ECHO_REP" /\ chan' = c /\ Goto(e, Again(e)) /\ UNCHANGED out
     \/ k = "CONN_CLOSE" /\ chan' = c /\ Goto(e, "close") /\ UNCHANGED out
  /\ dev' = [dev EXCEPT ![e] = FALSE]
  /\ UNCHANGED <<inflate, got>>

\* The first packet connects the socket.
udp_read(e) == conn' = [conn EXCEPT ![e] = TRUE]

\* proto_read() and what follows it.  Of a TCP data frame only the length is
\* read here.
ReadFrame(e) ==
  /\ st[e] = "loop" /\ chan[e] # <<>>
  /\ TCP => ~term[e]
  /\ idle' = [idle EXCEPT ![e] = 0]
  /\ udp_read(e)
  /\ LET f == Head(chan[e])
         c == [chan EXCEPT ![e] = Tail(@)]
     IN  \/ Control(e, f.k, c)
         \/ /\ f.k = "DATA" /\ TCP
            /\ chan' = c
            /\ Goto(e, "body")
            /\ UNCHANGED <<dev, out, inflate, got>>
         \/ /\ f.k = "DATA" /\ UDP
            /\ chan' = c
            /\ Decode(e, f.n)
            /\ dev' = [dev EXCEPT ![e] = TRUE]
            /\ UNCHANGED out
  /\ UNCHANGED <<link, term, sent, faults>>

ReadBody(e) ==
  /\ st[e] = "body" /\ chan[e] # <<>>
  /\ Head(chan[e]).k = "REST"
  /\ chan' = [chan EXCEPT ![e] = Tail(@)]
  /\ Decode(e, Head(chan[e]).n)
  /\ dev' = [dev EXCEPT ![e] = TRUE]
  /\ UNCHANGED <<link, idle, term, conn, out, sent, faults>>

----------------------------------------------------------------------------
\* The rest of the loop.

\* A frame from the device.  The network comes first in an iteration, and is
\* looked at again before the next frame from the device is.
ReadDevice(e) ==
  /\ st[e] = "loop" /\ (dev[e] \/ ~NetReady(e))
  /\ sent[e] < link.frames
  /\ UDP => Len(chan[Peer(e)]) < MaxFlight
  /\ sent' = [sent EXCEPT ![e] = @ + 1]
  /\ dev' = [dev EXCEPT ![e] = FALSE]
  /\ proto_write(chan, e, "DATA", zlib_comp(e), Again(e))
  /\ UNCHANGED <<link, idle, term, conn, inflate, got, faults>>

\* Faulty: never gives up.
Verify_forever(e) ==
  /\ link.ka /\ st[e] = "loop"
  /\ dev' = [dev EXCEPT ![e] = FALSE]
  /\ idle' = [idle EXCEPT ![e] = @ + 1]
  /\ IF idle[e] > 0
     THEN proto_write(chan, e, "ECHO_REQ", sent[e], "loop")
     ELSE UNCHANGED <<st, chan, out>>
  /\ UNCHANGED <<link, term, conn, inflate, sent, got, faults>>

\* if( ka_need_verify ): the alarm may come at any time.
Verify(e) ==
  /\ link.ka /\ st[e] = "loop"
  /\ dev' = [dev EXCEPT ![e] = FALSE]
  /\ IF idle[e] > link.ka_maxfail
     THEN Goto(e, "close") /\ UNCHANGED <<idle, chan, out>>
     ELSE /\ idle' = [idle EXCEPT ![e] = @ + 1]
          /\ IF idle[e] > 0
             THEN proto_write(chan, e, "ECHO_REQ", sent[e], "loop")
             ELSE UNCHANGED <<st, chan, out>>
  /\ UNCHANGED <<link, term, conn, inflate, sent, got, faults>>

\* select() fails with EINTR, or the iteration was the last.
Leave(e) ==
  /\ st[e] = "loop" /\ term[e]
  /\ Goto(e, "close")
  /\ UNCHANGED <<link, dev, idle, term, conn, chan, out, inflate, sent, got, faults>>

\* Faulty: notifies even after a signal, perhaps within a frame.
Close_always(e) ==
  /\ st[e] = "close"
  /\ \/ /\ TCP /\ Goto(e, "closing")
        /\ out' = [out EXCEPT ![e] = Units("CONN_CLOSE", sent[e])]
        /\ UNCHANGED chan
     \/ /\ UDP /\ Goto(e, "down")
        /\ chan' = udp_write(chan, e, "CONN_CLOSE", sent[e])
        /\ UNCHANGED out
  /\ UNCHANGED <<link, dev, idle, term, conn, inflate, sent, got, faults>>

\* "Notify other end about our close."  After a signal write_n() does not.
Close(e) ==
  /\ st[e] = "close"
  /\ \/ TCP /\ term[e] /\ Goto(e, "down") /\ UNCHANGED <<chan, out>>
     \/ /\ TCP /\ ~term[e] /\ Goto(e, "closing")
        /\ out' = [out EXCEPT ![e] = Units("CONN_CLOSE", sent[e])]
        /\ UNCHANGED chan
     \/ /\ UDP /\ Goto(e, "down")
        /\ chan' = udp_write(chan, e, "CONN_CLOSE", sent[e])
        /\ UNCHANGED out
  /\ UNCHANGED <<link, dev, idle, term, conn, inflate, sent, got, faults>>

\* The socket is closed.  A TCP connection with bytes that were not read is
\* reset, and the last bytes that this end wrote may be lost.
Disconnect(e) ==
  /\ \E kept \in 0 .. Len(chan[Peer(e)]) :
       /\ UDP \/ chan[e] = <<>> => kept = Len(chan[Peer(e)])
       /\ chan' = [chan EXCEPT ![e] = <<>>, ![Peer(e)] = SubSeq(@, 1, kept)]
  /\ Goto(e, "done")
  /\ out' = [out EXCEPT ![e] = <<>>]
  /\ UNCHANGED <<link, dev, idle, term, conn, inflate, sent, got>>

\* tunnel(), after the down commands.
CloseSocket(e) == st[e] = "down" /\ Disconnect(e) /\ UNCHANGED faults

----------------------------------------------------------------------------
\* The world outside.

\* SIGTERM, SIGINT or SIGHUP.
Signal(e) ==
  /\ st[e] \in (Linking \ {"start"}) \cup {"closing"} /\ ~term[e]
  /\ term' = [term EXCEPT ![e] = TRUE]
  /\ UNCHANGED <<link, st, dev, idle, conn, chan, out, inflate, sent, got, faults>>

Fault == faults < MaxFaults /\ faults' = faults + 1

\* The process is killed.
Killed(e) == st[e] # "done" /\ Fault /\ Disconnect(e)

\* dev_read() or dev_write() fails.
DeviceFails(e) ==
  /\ st[e] = "loop" /\ Fault
  /\ Goto(e, "close")
  /\ UNCHANGED <<link, dev, idle, term, conn, chan, out, inflate, sent, got>>

\* UDP: the port of a process that has ended is unreachable.
Refused(e) ==
  /\ UDP /\ conn[e] /\ st[e] = "loop" /\ st[Peer(e)] = "done"
  /\ Goto(e, "close")
  /\ UNCHANGED <<link, dev, idle, term, conn, chan, out, inflate, sent, got, faults>>

Network(e, packets) ==
  /\ UDP /\ Fault
  /\ chan' = [chan EXCEPT ![e] = packets]
  /\ UNCHANGED <<link, st, dev, idle, term, conn, out, inflate, sent, got>>

Lose(e) == \E i \in DOMAIN chan[e] : Network(e, RemoveAt(chan[e], i))

Duplicate(e) ==
  /\ chan[e] # <<>> /\ Len(chan[e]) < MaxFlight
  /\ Network(e, <<Head(chan[e])>> \o chan[e])

Swap(e) ==
  \E i \in 1 .. Len(chan[e]) - 1 :
    Network(e, [chan[e] EXCEPT ![i] = chan[e][i + 1], ![i + 1] = chan[e][i]])

\* What a process does of its own accord; the device and the alarm are the
\* world's.
Step(e) ==
  \/ Start(e) \/ WriteSome(e) \/ WriteFails(e) \/ ReadNothing(e)
  \/ ReadFrame(e) \/ ReadBody(e) \/ Leave(e) \/ Close(e) \/ CloseSocket(e)

Next ==
  \E e \in Ends :
    \/ Step(e) \/ ReadDevice(e) \/ Verify(e) \/ Interrupted(e)
    \/ Signal(e) \/ Killed(e) \/ DeviceFails(e) \/ Refused(e)
    \/ Lose(e) \/ Duplicate(e) \/ Swap(e)

Spec == Init /\ [][Next]_vars

\* Both processes run, and with keep-alive the alarm comes again and again.
FairSpec ==
  Spec /\ \A e \in Ends :
    /\ WF_vars(Step(e))
    /\ WF_vars(Verify(e)) /\ WF_vars(link.ka /\ Interrupted(e))

----------------------------------------------------------------------------
ControlOK ==
  /\ link \in Links
  /\ st \in [Ends -> States]
  /\ dev \in [Ends -> BOOLEAN] /\ term \in [Ends -> BOOLEAN] /\ conn \in [Ends -> BOOLEAN]
  /\ idle \in [Ends -> 0 .. link.ka_maxfail + 1]
  /\ faults \in 0 .. MaxFaults

DataOK ==
  /\ chan \in [Ends -> Seq(Frame)] /\ out \in [Ends -> Seq(Frame)]
  /\ inflate \in [Ends -> Nat \cup {Off}]
  /\ sent \in [Ends -> 0 .. link.frames]
  /\ got \in [Ends -> Seq(0 .. link.frames)]

TypeOK == ControlOK /\ DataOK

\* The promise: TCP delivers every frame once, in order and unspoilt, but for
\* the first part of one that a signal cut; UDP delivers frames that were sent,
\* unspoilt unless zlib lost its stream; an end that left the loop delivers
\* nothing more and never comes back.
Promise == INSTANCE Session
             WITH reliable <- TCP, intact <- TCP \/ ~link.zlib, told <- term,
                  open <- [e \in Ends |-> st[e] \in Linking]

KeepsPromise == Promise!Spec

\* The reason for it over TCP.  What e has read, what is under way to it and
\* what its peer is still writing are one sequence of whole frames, in which
\* only the peer's own end may be missing, when it was told to stop.  Were
\* CONN_CLOSE written after a frame that a signal cut, e would read it as data.
Follows(u, v) ==
  CASE v.k = "DATA" -> u.k # "DATA" /\ v.n = u.n + 1
    [] v.k = "REST" -> u.k = "DATA" /\ v.n = u.n
    [] OTHER -> u.k # "DATA" /\ v.n = u.n

LastRead(e) ==
  IF st[e] = "body" THEN [k |-> "DATA", n |-> Len(got[e]) + 1]
                    ELSE [k |-> "REST", n |-> Len(got[e])]

Stream(e) == <<LastRead(e)>> \o chan[e] \o out[Peer(e)]

Chained(s) == \A i \in 1 .. Len(s) - 1 : Follows(s[i], s[i + 1])

Writing(e) == st[e] \in Linking \cup {"closing"} \/ (st[e] = "close" /\ ~term[e])

\* The last unit of a stream says how many frames its writer has sent.
UpToDate(s, n) == s[Len(s)].k # "DATA" /\ s[Len(s)].n = n

StreamWhole ==
  TCP => \A e \in Ends : st[e] \in Linking =>
    /\ Chained(Stream(e))
    /\ Writing(Peer(e)) => UpToDate(Stream(e), sent[Peer(e)])

\* zlib's streams stay in step unless the network lost something, or unless
\* the NAT hack did: udp_write() drops the frames that an end compressed
\* before it was connected.
InStepUnlessLoss ==
  \A e \in Ends :
    inflate[e] = Off => UDP /\ link.zlib /\ (faults > 0 \/ Peer(e) \in link.hack)

Closed == \E e \in Ends : st[e] \notin Linking

\* vtund.conf(5), nat_hack: it works for one side only.  With both, each waits for
\* the other's first packet for ever.  With one, that end is connected by the
\* peer's first ECHO_REQ, if that is not lost and the session lasts.
HackedOneConnects ==
  UDP /\ link.hack # Ends ~> (\A e \in Ends : conn[e]) \/ faults > 0 \/ Closed

\* Each process waits in write_n() for the other to read.
CrossBlocked ==
  TCP /\ \A e \in Ends : st[e] \in {"write", "closing"} /\ Len(chan[e]) = Room

\* Over TCP every frame read from a device reaches the other, unless an end
\* stops or both are blocked.
Delivered ==
  \A e \in Ends :
    TCP /\ Len(got[Peer(e)]) < sent[e]
      ~> Len(got[Peer(e)]) = sent[e] \/ Closed \/ CrossBlocked

\* When one end is gone so is the other: told by CONN_CLOSE, by the end of
\* file, or, over UDP, by keep-alive.
CloseSpreads ==
  \A e \in Ends :
    (TCP \/ link.ka) /\ st[e] = "done" ~> st[Peer(e)] = "done"

\* A signal ends the session whatever it waits for, if the alarm runs: the one
\* that arrives just before read() or write() is noticed at the next alarm.
SignalEnds ==
  \A e \in Ends : (UDP \/ link.ka) /\ term[e] ~> st[e] = "done"
=============================================================================
