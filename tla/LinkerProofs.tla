---------------------------- MODULE LinkerProofs ----------------------------
(***************************************************************************)
(* Proofs about Linker: for any number of frames, any room in a connection *)
(* and any number of faults, and that it implements Session.               *)
(***************************************************************************)
EXTENDS Linker, SequenceTheorems, TLAPS

\* The two ends, to each other.
LEMMA PeerFact ==
  ASSUME NEW e \in Ends
  PROVE  /\ Peer(e) \in Ends /\ Peer(e) # e /\ Peer(Peer(e)) = e
         /\ \A d \in Ends : d = e \/ d = Peer(e)
  BY DEF Ends, Peer

\* What is known of a session's parameters.
LEMMA LinkFact ==
  ASSUME link \in Links
  PROVE  /\ link.frames \in Nat /\ link.ka_maxfail \in Nat
         /\ link.ka \in BOOLEAN /\ link.zlib \in BOOLEAN /\ link.hack \subseteq Ends
         /\ TCP <=> ~UDP
  BY LinkerAssumption DEF TCP, UDP

Kinds == {"DATA", "ECHO_REQ", "ECHO_REP", "CONN_CLOSE"}

\* The frames that an end has taken from its device when a unit of this kind
\* is on its way.
Count(k, n) == IF k = "DATA" THEN n + 1 ELSE n

\* The units of a frame, in the transport.
LEMMA UnitsType ==
  ASSUME NEW k \in Kinds, NEW n \in Nat
  PROVE  /\ [k |-> k, n |-> n] \in Frame
         /\ Units(k, n) \in Seq(Frame) /\ Units(k, n) # <<>>
<1>1. [k |-> k, n |-> n] \in Frame /\ [k |-> "REST", n |-> n] \in Frame
  BY DEF Kinds, Frame
<1> QED
  BY <1>1 DEF Units

----------------------------------------------------------------------------
\* The inductive invariant.

\* A process has something to write when it is in write_n(), and only then.
OutOK == \A e \in Ends : out[e] # <<>> <=> st[e] \in {"write", "closing"}

\* No frame is under way that was not taken from the device.
Sent(f, n) == f.n <= n /\ (f.k = "DATA" => f.n > 0)
AllSent(s, n) == \A i \in 1 .. Len(s) : Sent(s[i], n)
FramesSent ==
  \A e \in Ends : AllSent(chan[e], sent[Peer(e)]) /\ AllSent(out[e], sent[e])

\* Over TCP the decompressor is where the reader is.
InflateOK ==
  TCP => \A e \in Ends :
    inflate[e] # Off /\ (st[e] \in Linking => inflate[e] = Len(got[e]))

\* Without the NAT hack an end is connected from the start.
ConnOK == \A e \in Ends : e \notin link.hack => conn[e]

\* Until the first fault the packets to e go on where its decompressor is.
Counted(f, n) == f.n = Count(f.k, n)
Before(s, a, i) == IF i = 1 THEN a ELSE s[i - 1].n
Run(s, a, b) ==
  /\ \A i \in 1 .. Len(s) : Counted(s[i], Before(s, a, i))
  /\ Before(s, a, Len(s) + 1) = b
InOrder(e) == inflate[e] # Off /\ Run(chan[e], inflate[e], sent[Peer(e)])
UdpInOrder ==
  UDP /\ faults = 0 => \A e \in Ends :
    /\ Peer(e) \notin link.hack /\ st[e] # "done" => InOrder(e)

\* A datagram is read and written whole.
WholePackets == UDP => \A e \in Ends : st[e] \notin {"write", "closing", "body"}

\* The first frame comes from nobody's device.
StartOK == \A e \in Ends : st[e] = "start" => sent[e] = 0

Inv ==
  /\ TypeOK /\ StartOK /\ OutOK /\ WholePackets /\ FramesSent /\ InflateOK /\ ConnOK
  /\ StreamWhole /\ UdpInOrder /\ InStepUnlessLoss

----------------------------------------------------------------------------
\* Streams of units.

\* Where the units of a stream are.
LEMMA StreamAt ==
  ASSUME NEW a \in Frame, NEW c \in Seq(Frame), NEW o \in Seq(Frame)
  PROVE  LET s == <<a>> \o c \o o
         IN  /\ s \in Seq(Frame) /\ Len(s) = 1 + Len(c) + Len(o) /\ s[1] = a
             /\ \A i \in 1 .. Len(c) : s[i + 1] = c[i]
             /\ \A i \in 1 .. Len(o) : s[1 + Len(c) + i] = o[i]
<1> DEFINE r == <<a>> \o c
<1>1. r \in Seq(Frame) /\ Len(r) = 1 + Len(c) /\ r[1] = a /\ \A i \in 1 .. Len(c) : r[i + 1] = c[i]
  OBVIOUS
<1>2. r \o o \in Seq(Frame) /\ Len(r \o o) = 1 + Len(c) + Len(o)
  BY <1>1
<1>3. \A i \in 1 .. 1 + Len(c) : (r \o o)[i] = r[i]
  BY <1>1
<1>4. \A i \in 1 .. Len(o) : (r \o o)[1 + Len(c) + i] = o[i]
  BY <1>1
<1> QED
  BY <1>1, <1>2, <1>3, <1>4

\* Whether v may follow u depends only on this much of u.
LEMMA FollowsAlike ==
  ASSUME NEW u \in Frame, NEW w \in Frame, NEW v \in Frame,
         w.n = u.n, w.k = "DATA" <=> u.k = "DATA", Follows(u, v)
  PROVE  Follows(w, v)
  BY DEF Follows, Frame

\* A unit is read: it becomes the one that was read last.
LEMMA StreamRead ==
  ASSUME NEW a \in Frame, NEW b \in Frame, NEW c \in Seq(Frame), NEW o \in Seq(Frame),
         NEW n, c # <<>>, b.n = c[1].n, b.k = "DATA" <=> c[1].k = "DATA",
         Chained(<<a>> \o c \o o)
  PROVE  /\ Chained(<<b>> \o Tail(c) \o o)
         /\ UpToDate(<<a>> \o c \o o, n) => UpToDate(<<b>> \o Tail(c) \o o, n)
<1> DEFINE s == <<a>> \o c \o o
           t == <<b>> \o Tail(c) \o o
<1>1. /\ Tail(c) \in Seq(Frame) /\ Len(Tail(c)) = Len(c) - 1 /\ Len(c) >= 1
      /\ \A i \in 1 .. Len(c) - 1 : Tail(c)[i] = c[i + 1]
  OBVIOUS
<1>2. /\ s \in Seq(Frame) /\ Len(s) = 1 + Len(c) + Len(o)
      /\ \A i \in 1 .. Len(c) : s[i + 1] = c[i]
      /\ \A i \in 1 .. Len(o) : s[1 + Len(c) + i] = o[i]
  BY StreamAt
<1>3. /\ t \in Seq(Frame) /\ Len(t) = Len(c) + Len(o) /\ t[1] = b
      /\ \A i \in 1 .. Len(c) - 1 : t[i + 1] = c[i + 1]
      /\ \A i \in 1 .. Len(o) : t[Len(c) + i] = o[i]
  BY <1>1, StreamAt
<1>4. \A i \in 2 .. Len(t) : t[i] = s[i + 1]
  <2>1. ASSUME NEW i \in 2 .. Len(t), i <= Len(c)
        PROVE  t[i] = s[i + 1]
    <3>1. i - 1 \in 1 .. Len(c) - 1
      BY <1>1, <2>1
    <3> QED
      BY <1>2, <1>3, <1>1, <2>1, <3>1
  <2>2. ASSUME NEW i \in 2 .. Len(t), i > Len(c)
        PROVE  t[i] = s[i + 1]
    <3>1. i - Len(c) \in 1 .. Len(o)
      BY <1>1, <1>3, <2>2
    <3> QED
      BY <1>2, <1>3, <1>1, <2>2, <3>1
  <2> QED
    BY <2>1, <2>2, <1>1, <1>3
<1>5. s[2] = c[1] /\ c[1] \in Frame
  BY <1>1, <1>2
<1>0. Chained(s)
  OBVIOUS
<1> HIDE DEF s, t
<1>6. \A i \in 1 .. Len(t) - 1 : Follows(s[i + 1], s[i + 2])
  <2>1. TAKE i \in 1 .. Len(t) - 1
  <2>2. i + 1 \in 1 .. Len(s) - 1 /\ (i + 1) + 1 = i + 2
    BY <1>1, <1>2, <1>3
  <2> QED
    BY <1>0, <2>2 DEF Chained
<1>7. ASSUME NEW i \in 1 .. Len(t) - 1
      PROVE  Follows(t[i], t[i + 1])
  <2>1. t[i + 1] = s[i + 2] /\ t[i + 1] \in Frame
    BY <1>3, <1>4
  <2>2. CASE i = 1
    <3>1. Follows(c[1], t[2])
      BY <1>5, <1>6, <2>1, <2>2
    <3> QED
      BY <1>3, <1>5, <2>1, <2>2, <3>1, FollowsAlike
  <2>3. CASE i > 1
    BY <1>3, <1>4, <1>6, <2>1, <2>3
  <2> QED
    BY <2>2, <2>3
<1>8. UpToDate(s, n) => UpToDate(t, n)
  <2>1. CASE Len(t) = 1
    BY <1>2, <1>3, <1>5, <2>1, SMTT(30) DEF UpToDate
  <2>2. CASE Len(t) > 1
    <3>1. Len(t) \in 2 .. Len(t) /\ Len(s) = Len(t) + 1
      BY <1>1, <1>2, <1>3, <2>2
    <3> QED
      BY <1>4, <3>1 DEF UpToDate
  <2> QED
    BY <1>1, <1>3, <2>1, <2>2
<1> QED
  BY <1>7, <1>8 DEF Chained, s, t

\* A unit is handed to the connection: the stream is the same.
LEMMA StreamMoved ==
  ASSUME NEW a \in Frame, NEW c \in Seq(Frame), NEW o \in Seq(Frame), o # <<>>
  PROVE  /\ Append(c, Head(o)) \in Seq(Frame) /\ Tail(o) \in Seq(Frame)
         /\ <<a>> \o Append(c, Head(o)) \o Tail(o) = <<a>> \o c \o o
  BY SMTT(30)

\* A prefix that keeps what was read is chained as well.
LEMMA StreamPrefix ==
  ASSUME NEW a \in Frame, NEW c \in Seq(Frame), NEW o \in Seq(Frame),
         NEW m \in 0 .. Len(c), Chained(<<a>> \o c \o o)
  PROVE  Chained(<<a>> \o SubSeq(c, 1, m) \o <<>>)
<1> DEFINE s == <<a>> \o c \o o
           p == SubSeq(c, 1, m)
           t == <<a>> \o p \o <<>>
<1>1. p \in Seq(Frame) /\ Len(p) = m /\ \A i \in 1 .. m : p[i] = c[i]
  OBVIOUS
<1>2. /\ Len(s) = 1 + Len(c) + Len(o) /\ s[1] = a
      /\ \A i \in 1 .. Len(c) : s[i + 1] = c[i]
  BY StreamAt
<1>3. /\ Len(t) = 1 + m /\ t[1] = a
      /\ \A i \in 1 .. m : t[i + 1] = c[i]
  <2> HIDE DEF p
  <2>1. <<>> \in Seq(Frame) /\ Len(<<>>) = 0
    OBVIOUS
  <2>2. Len(t) = 1 + Len(p) + Len(<<>>) /\ t[1] = a /\ \A i \in 1 .. Len(p) : t[i + 1] = p[i]
    BY <1>1, <2>1, StreamAt
  <2> QED
    BY <1>1, <2>1, <2>2
<1>4. \A i \in 1 .. Len(t) : t[i] = s[i]
  <2> HIDE DEF t, s, p
  <2>1. ASSUME NEW i \in 1 .. Len(t), i # 1
        PROVE  t[i] = s[i]
    <3>1. i - 1 \in 1 .. m /\ i = (i - 1) + 1 /\ i - 1 \in 1 .. Len(c)
      BY <1>3, <2>1
    <3>2. t[(i - 1) + 1] = c[i - 1] /\ s[(i - 1) + 1] = c[i - 1]
      BY <1>2, <1>3, <3>1
    <3> QED
      BY <3>1, <3>2
  <2> QED
    BY <2>1, <1>2, <1>3
<1>5. Len(t) <= Len(s) /\ Len(t) \in Nat /\ Len(s) \in Nat
  BY <1>2, <1>3
<1>6. Chained(s)
  OBVIOUS
<1> HIDE DEF s, t
<1>7. Chained(t)
  BY <1>4, <1>5, <1>6 DEF Chained
<1> QED
  BY <1>7 DEF t

\* A writer that is up to date begins a frame.
LEMMA StreamBegun ==
  ASSUME NEW a \in Frame, NEW c \in Seq(Frame), NEW n \in Nat, NEW k \in Kinds, TCP,
         Chained(<<a>> \o c \o <<>>), UpToDate(<<a>> \o c \o <<>>, n)
  PROVE  /\ Chained(<<a>> \o c \o Units(k, Count(k, n)))
         /\ UpToDate(<<a>> \o c \o Units(k, Count(k, n)), Count(k, n))
<1> DEFINE m == Count(k, n)
           u == Units(k, m)
           s == <<a>> \o c \o <<>>
           t == <<a>> \o c \o u
<1>0. /\ <<>> \in Seq(Frame) /\ m \in Nat
      /\ [k |-> k, n |-> m] \in Frame /\ [k |-> "REST", n |-> m] \in Frame
  BY DEF Count, Frame, Kinds
<1>1. u \in Seq(Frame) /\ Len(u) \in {1, 2}
  BY <1>0 DEF Units
<1>2. /\ s \in Seq(Frame) /\ Len(s) = 1 + Len(c) /\ s[1] = a
      /\ \A i \in 1 .. Len(c) : s[i + 1] = c[i]
  <2>1. Len(s) = 1 + Len(c) + Len(<<>>) /\ Len(<<>>) = 0
    BY <1>0, StreamAt
  <2> QED
    BY <1>0, <2>1, StreamAt
<1>3. /\ t \in Seq(Frame) /\ Len(t) = 1 + Len(c) + Len(u) /\ t[1] = a
      /\ \A i \in 1 .. Len(c) : t[i + 1] = c[i]
      /\ \A i \in 1 .. Len(u) : t[1 + Len(c) + i] = u[i]
  <2> HIDE DEF u
  <2> QED
    BY <1>1, StreamAt
<1>4. Chained(s) /\ UpToDate(s, n)
  OBVIOUS
<1>5. Len(c) \in Nat
  OBVIOUS
<1>6. /\ u[1].k = k /\ u[1].n = m
      /\ Len(u) = 2 => k = "DATA" /\ u[2].k = "REST" /\ u[2].n = m
      /\ Len(u) = 1 => k # "DATA"
  BY DEF Units, Kinds
<1>7. m = IF k = "DATA" THEN n + 1 ELSE n
  BY DEF Count
<1>8. k \in {"DATA", "ECHO_REQ", "ECHO_REP", "CONN_CLOSE"}
  BY DEF Kinds
<1> HIDE DEF s, t, u, m
<1>9. \A i \in 1 .. Len(s) : t[i] = s[i]
  <2>1. ASSUME NEW i \in 1 .. Len(s), i # 1
        PROVE  t[i] = s[i]
    <3>1. i = (i - 1) + 1 /\ i - 1 \in 1 .. Len(c)
      BY <1>2, <1>5, <2>1
    <3>2. t[(i - 1) + 1] = c[i - 1] /\ s[(i - 1) + 1] = c[i - 1]
      BY <1>2, <1>3, <3>1
    <3> QED
      BY <3>1, <3>2
  <2> QED
    BY <2>1, <1>2, <1>3
<1>10. t[Len(s) + 1] = u[1] /\ (Len(u) = 2 => t[Len(s) + 2] = u[2])
  BY <1>1, <1>2, <1>3, <1>5, SMTT(30)
<1>11. Len(t) = Len(s) + Len(u) /\ Len(s) \in Nat \ {0}
  BY <1>2, <1>3, <1>5
<1>12. Follows(s[Len(s)], u[1])
  BY <1>4, <1>6, <1>7, <1>8 DEF UpToDate, Follows
<1>13. Len(u) = 2 => Follows(u[1], u[2])
  BY <1>6, <1>8 DEF Follows
<1>14. Chained(t)
  <2> SUFFICES ASSUME NEW i \in 1 .. Len(t) - 1
               PROVE  Follows(t[i], t[i + 1])
    BY DEF Chained
  <2>1. CASE i < Len(s)
    <3>1. i \in 1 .. Len(s) - 1 /\ i \in 1 .. Len(s) /\ i + 1 \in 1 .. Len(s)
      BY <1>11, <2>1
    <3> QED
      BY <1>4, <1>9, <3>1 DEF Chained
  <2>2. CASE i = Len(s)
    BY <1>9, <1>10, <1>11, <1>12, <2>2
  <2>3. CASE i > Len(s)
    <3>2. i >= Len(s) + 1 /\ i <= Len(s) + Len(u) - 1 /\ i \in Nat
      BY <1>1, <1>11, <2>3
    <3>3. Len(u) # 1
      <4> SUFFICES ASSUME Len(u) = 1 PROVE FALSE
        OBVIOUS
      <4>1. i <= Len(s) + 1 - 1
        BY <3>2
      <4> QED
        BY <1>11, <3>2, <4>1
    <3>4. Len(u) = 2
      BY <1>1, <3>3
    <3>1. i = Len(s) + 1 /\ Len(u) = 2 /\ i + 1 = Len(s) + 2
      BY <1>11, <3>2, <3>4
    <3> QED
      BY <1>10, <1>13, <3>1
  <2> QED
    BY <1>11, <2>1, <2>2, <2>3
<1>15. UpToDate(t, m)
  <2>1. CASE Len(u) = 1
    BY <1>6, <1>10, <1>11, <2>1 DEF UpToDate
  <2>2. CASE Len(u) = 2
    BY <1>6, <1>10, <1>11, <2>2 DEF UpToDate
  <2> QED
    BY <1>1, <2>1, <2>2
<1> QED
  BY <1>14, <1>15 DEF t, u, m
----------------------------------------------------------------------------
\* What a step of one process does to the stream it reads and to the stream
\* it writes.

\* The other process.
Bystander(e) ==
  /\ st'[e] = st[e] /\ term'[e] = term[e] /\ conn'[e] = conn[e]
  /\ out'[e] = out[e] /\ sent'[e] = sent[e]
  /\ inflate'[e] = inflate[e] /\ got'[e] = got[e]

Onward(e) ==
  /\ st'[e] \in Linking => st[e] \in Linking /\ st'[e] # "start"
  /\ st[e] = "done" => st'[e] = "done"
  /\ conn[e] => conn'[e]
  /\ out'[e] # <<>> <=> st'[e] \in {"write", "closing"}
  /\ UDP => st'[e] \notin {"write", "closing", "body"}

ReadsNone(e) ==
  /\ chan'[e] = chan[e] /\ inflate'[e] = inflate[e] /\ got'[e] = got[e]
  /\ st'[e] = "body" <=> st[e] = "body"

ReadsControl(e) ==
  /\ chan[e] # <<>> /\ chan[e][1].k \notin {"DATA", "REST"}
  /\ chan'[e] = Tail(chan[e]) /\ inflate'[e] = inflate[e] /\ got'[e] = got[e]
  /\ st[e] = "loop" /\ st'[e] # "body"

ReadsLength(e) ==
  /\ TCP /\ chan[e] # <<>> /\ chan[e][1].k = "DATA"
  /\ chan'[e] = Tail(chan[e]) /\ inflate'[e] = inflate[e] /\ got'[e] = got[e]
  /\ st[e] = "loop" /\ st'[e] = "body"

InStep(e) == link.zlib => inflate[e] = chan[e][1].n - 1

\* Over TCP the decompressor is in step.
Decodes(e) ==
  /\ chan[e] # <<>> /\ chan[e][1].k = IF TCP THEN "REST" ELSE "DATA"
  /\ chan'[e] = Tail(chan[e])
  /\ st[e] = (IF TCP THEN "body" ELSE "loop") /\ st'[e] \notin {"start", "body"}
  /\ inflate'[e] = IF InStep(e) THEN chan[e][1].n ELSE Off
  /\ \/ InStep(e) /\ got'[e] = Append(got[e], chan[e][1].n)
     \/ ~InStep(e) /\ UDP /\ got'[e] \in {got[e], Append(got[e], Spoilt)}

Stops(e) ==
  /\ st'[e] \notin Linking /\ (chan'[e] = chan[e] \/ st'[e] = "done")
  /\ chan'[e] \in {chan[e], <<>>}
  /\ inflate'[e] = inflate[e]

Reads(e) == ReadsNone(e) \/ ReadsControl(e) \/ ReadsLength(e) \/ Decodes(e) \/ Stops(e)

\* What was taken from the device may be lost when the process is told to stop.
WritesNone(e) ==
  /\ chan'[Peer(e)] = chan[Peer(e)] /\ out'[e] = out[e]
  /\ sent'[e] \in {sent[e], sent[e] + 1}
  /\ UDP \/ Writing(e)' => sent'[e] = sent[e]
  /\ Writing(e)' => Writing(e)

Begins(e) ==
  \E k \in Kinds :
    /\ TCP /\ out[e] = <<>> /\ Writing(e)
    /\ sent'[e] = Count(k, sent[e])
    /\ out'[e] = Units(k, sent'[e])
    /\ chan'[Peer(e)] = chan[Peer(e)]

WritesUnit(e) ==
  /\ TCP /\ out[e] # <<>> /\ sent'[e] = sent[e]
  /\ chan'[Peer(e)] = Append(chan[Peer(e)], Head(out[e]))
  /\ \/ out'[e] = Tail(out[e]) /\ (Writing(e)' => Writing(e))
     \/ out'[e] = <<>> /\ ~Writing(e)'

WritesPacket(e) ==
  \E k \in Kinds :
    /\ UDP /\ sent'[e] = Count(k, sent[e]) /\ out'[e] = out[e]
    /\ \/ chan'[Peer(e)] = Append(chan[Peer(e)], [k |-> k, n |-> sent'[e]])
       \/ /\ chan'[Peer(e)] = chan[Peer(e)]
          /\ k = "DATA" /\ conn[e] => st[Peer(e)] = "done"

Quits(e) ==
  /\ out'[e] = <<>> /\ sent'[e] = sent[e]
  /\ ~Writing(e)' \/ st[Peer(e)] = "done"
  /\ \E kept \in 0 .. Len(chan[Peer(e)]) :
       /\ UDP => kept = Len(chan[Peer(e)])
       /\ chan'[Peer(e)] = SubSeq(chan[Peer(e)], 1, kept)

Writes(e) ==
  WritesNone(e) \/ Begins(e) \/ WritesUnit(e) \/ WritesPacket(e) \/ Quits(e)

Shape(e) ==
  /\ link' = link /\ faults' >= faults
  /\ Bystander(Peer(e)) /\ Onward(e) /\ Reads(e) /\ Writes(e)

\* proto_write() from within the loop.
LEMMA WriteShape ==
  ASSUME Inv, NEW e \in Ends, NEW k \in Kinds, NEW s \in {"loop", "close"},
         NEW c \in [Ends -> Seq(Frame)], NEW n \in Nat,
         c[Peer(e)] = chan[Peer(e)], st[e] \in {"start", "loop"},
         s = "close" => term[e], term' = term, link' = link,
         k = "DATA" /\ UDP => Len(chan[Peer(e)]) < MaxFlight,
         sent'[e] = Count(k, sent[e]), n = sent'[e],
         proto_write(c, e, k, n, s)
  PROVE  /\ chan' \in [Ends -> Seq(Frame)] /\ out' \in [Ends -> Seq(Frame)]
         /\ st' \in [Ends -> States]
         /\ chan'[e] = c[e] /\ st'[e] \in {"loop", "close", "write"}
         /\ st'[Peer(e)] = st[Peer(e)] /\ out'[Peer(e)] = out[Peer(e)]
         /\ out'[e] # <<>> <=> st'[e] \in {"write", "closing"}
         /\ UDP => st'[e] \notin {"write", "closing", "body"}
         /\ Writes(e)
<1> DEFINE p == Peer(e)
           f == [k |-> k, n |-> n]
<1>1. /\ chan \in [Ends -> Seq(Frame)] /\ out \in [Ends -> Seq(Frame)]
      /\ st \in [Ends -> States] /\ term \in [Ends -> BOOLEAN]
      /\ sent[e] \in Nat
  BY LinkFact, SMTT(30) DEF Inv, TypeOK, ControlOK, DataOK
<1>2. p \in Ends /\ p # e
  BY PeerFact
<1>3. out[e] = <<>> /\ Writing(e) /\ st[e] \notin {"write", "closing"}
  BY DEF Inv, OutOK, Writing, Linking
<1>4. {"loop", "close", "write"} \subseteq States
  BY DEF States, Linking
<1>5. TCP <=> ~UDP
  BY LinkFact DEF Inv, TypeOK, ControlOK
<1>6. f \in Frame /\ Units(k, n) \in Seq(Frame) /\ Units(k, n) # <<>>
  BY UnitsType
<1> HIDE DEF p
<1>7. CASE UDP /\ chan' = udp_write(c, e, k, n) /\ Goto(e, s) /\ UNCHANGED out
  <2>1. /\ st' \in [Ends -> States] /\ st'[e] \in {"loop", "close"} /\ st'[p] = st[p]
    BY <1>1, <1>2, <1>4, <1>7 DEF Goto
  <2>2. /\ chan' \in [Ends -> Seq(Frame)] /\ chan'[e] = c[e]
        /\ chan'[p] \in {Append(chan[p], f), chan[p]}
    BY <1>2, <1>6, <1>7 DEF udp_write, p
  <2>3. chan'[p] = chan[p] /\ k = "DATA" /\ conn[e] => st[p] = "done"
    <3> SUFFICES ASSUME conn[e], st[p] # "done", k = "DATA"
                 PROVE  chan'[p] # chan[p]
      OBVIOUS
    <3>1. Len(c[p]) < MaxFlight
      BY <1>7 DEF p
    <3>2. chan'[p] = Append(chan[p], f)
      BY <1>2, <1>7, <3>1 DEF udp_write, p, Connected
    <3> QED
      BY <1>1, <1>2, <1>6, <3>2
  <2>4. WritesPacket(e)
    BY <1>7, <2>2, <2>3 DEF WritesPacket, p
  <2> QED
    BY <1>1, <1>3, <1>7, <2>1, <2>2, <2>4 DEF Writes, p
<1>8. CASE TCP /\ term[e] /\ chan' = c /\ Goto(e, "close") /\ UNCHANGED out
  <2>1. /\ st' \in [Ends -> States] /\ st'[e] = "close" /\ st'[p] = st[p]
    BY <1>1, <1>2, <1>4, <1>8 DEF Goto
  <2>2. ~Writing(e)'
    BY <1>8, <2>1 DEF Writing, Linking
  <2>3. sent'[e] \in {sent[e], sent[e] + 1}
    BY <1>1 DEF Count
  <2>4. WritesNone(e)
    BY <1>5, <1>8, <2>2, <2>3 DEF WritesNone
  <2> QED
    BY <1>1, <1>3, <1>5, <1>8, <2>1, <2>4 DEF Writes, p
<1>9. CASE TCP /\ chan' = c /\ Goto(e, "write") /\ out' = [out EXCEPT ![e] = Units(k, n)]
  <2>1. /\ st' \in [Ends -> States] /\ st'[e] = "write" /\ st'[p] = st[p]
    BY <1>1, <1>2, <1>4, <1>9 DEF Goto
  <2>2. out' \in [Ends -> Seq(Frame)] /\ out'[e] = Units(k, n) /\ out'[p] = out[p]
    BY <1>1, <1>2, <1>6, <1>9
  <2>3. Begins(e)
    BY <1>3, <1>9, <2>2 DEF Begins
  <2> QED
    BY <1>1, <1>5, <1>6, <1>9, <2>1, <2>2, <2>3 DEF Writes, p
<1> QED
  BY <1>7, <1>8, <1>9 DEF proto_write
----------------------------------------------------------------------------
\* The steps of a process, each with its effect on the two streams.

\* What every one of them needs of the invariant.
LEMMA Typed ==
  ASSUME Inv, NEW e \in Ends
  PROVE  /\ link \in Links /\ link.frames \in Nat /\ link.ka_maxfail \in Nat
         /\ TCP <=> ~UDP
         /\ st \in [Ends -> States] /\ dev \in [Ends -> BOOLEAN]
         /\ term \in [Ends -> BOOLEAN] /\ conn \in [Ends -> BOOLEAN]
         /\ idle \in [Ends -> 0 .. link.ka_maxfail + 1]
         /\ faults \in 0 .. MaxFaults /\ faults \in Nat /\ MaxFaults \in Nat
         /\ chan \in [Ends -> Seq(Frame)] /\ out \in [Ends -> Seq(Frame)]
         /\ inflate \in [Ends -> Nat \cup {Off}]
         /\ sent \in [Ends -> 0 .. link.frames] /\ sent[e] \in Nat
         /\ got \in [Ends -> Seq(0 .. link.frames)]
         /\ Peer(e) \in Ends /\ Peer(e) # e
         /\ out[e] # <<>> <=> st[e] \in {"write", "closing"}
         /\ UDP => st[e] \notin {"write", "closing", "body"}
  BY LinkFact, PeerFact, LinkerAssumption
     DEF Inv, TypeOK, ControlOK, DataOK, OutOK, WholePackets

\* Faults are counted up to their bound.
LEMMA FaultCount ==
  ASSUME Inv, faults' = faults \/ Fault
  PROVE  faults' \in 0 .. MaxFaults /\ faults' >= faults
<1>1. faults \in 0 .. MaxFaults /\ MaxFaults \in Nat
  BY LinkerAssumption DEF Inv, TypeOK, ControlOK
<1> QED
  BY <1>1 DEF Fault

\* A step that only moves the process on, out of the loop or to the end of it.
LEMMA MoveShape ==
  ASSUME Inv, NEW e \in Ends, NEW s \in States, Goto(e, s), s # "start",
         s \in Linking => st[e] \in Linking,
         st[e] \notin {"write", "closing", "done"}, s \notin {"write", "closing"},
         Stops(e) \/ (ReadsNone(e) /\ s # "body"), Writing(e)' => Writing(e),
         link' = link, faults' = faults \/ Fault,
         dev' \in [Ends -> BOOLEAN], idle' \in [Ends -> 0 .. link.ka_maxfail + 1],
         UNCHANGED <<term, conn, chan, out, inflate, sent, got>>
  PROVE  TypeOK' /\ Shape(e)
<1> DEFINE p == Peer(e)
<1>1. st' \in [Ends -> States] /\ st'[e] = s /\ st'[p] = st[p]
  BY Typed DEF Goto
<1>2. faults' \in 0 .. MaxFaults /\ faults' >= faults
  BY FaultCount
<1>3. TypeOK'
  BY Typed, <1>1, <1>2 DEF TypeOK, ControlOK, DataOK
<1>4. Bystander(p)
  BY <1>1 DEF Bystander
<1>5. s # "body" \/ Stops(e)
  OBVIOUS
<1>6. s # "body"
  BY <1>1 DEF Stops, Linking
<1>7. Onward(e)
  BY Typed, <1>1, <1>6 DEF Onward
<1>8. Reads(e)
  BY DEF Reads
<1>9. WritesNone(e)
  BY Typed DEF WritesNone
<1> QED
  BY <1>2, <1>3, <1>4, <1>7, <1>8, <1>9 DEF Shape, Writes

\* Leave(), DeviceFails(), Refused() and ReadNothing().
LEMMA LeaveShape ==
  ASSUME Inv, NEW e \in Ends,
         Leave(e) \/ DeviceFails(e) \/ Refused(e) \/ ReadNothing(e)
  PROVE  TypeOK' /\ Shape(e)
<1>1. /\ st[e] \in {"loop", "body"} /\ Goto(e, "close") /\ link' = link
      /\ faults' = faults \/ Fault
      /\ UNCHANGED <<dev, idle, term, conn, chan, out, inflate, sent, got>>
  BY DEF Leave, DeviceFails, Refused, ReadNothing
<1>2. st'[e] = "close"
  BY <1>1, Typed DEF Goto
<1>3. Stops(e)
  BY <1>1, <1>2 DEF Stops, Linking
<1>4. Writing(e)
  BY <1>1 DEF Writing, Linking
<1>5. dev' \in [Ends -> BOOLEAN] /\ idle' \in [Ends -> 0 .. link.ka_maxfail + 1]
  BY <1>1, Typed
<1> QED
  BY <1>1, <1>3, <1>4, <1>5, MoveShape DEF States, Linking

\* A step that writes a frame, perhaps after it read a control frame.
LEMMA WriteStep ==
  ASSUME Inv, NEW e \in Ends, NEW k \in Kinds, NEW s \in {"loop", "close"},
         NEW c \in [Ends -> Seq(Frame)], NEW n \in Nat,
         c[Peer(e)] = chan[Peer(e)], st[e] \in {"start", "loop"},
         \/ c[e] = chan[e]
         \/ /\ st[e] = "loop" /\ chan[e] # <<>> /\ c[e] = Tail(chan[e])
            /\ chan[e][1].k \notin {"DATA", "REST"},
         s = "close" => term[e],
         k = "DATA" /\ UDP => Len(chan[Peer(e)]) < MaxFlight,
         dev' \in [Ends -> BOOLEAN], idle' \in [Ends -> 0 .. link.ka_maxfail + 1],
         conn' \in [Ends -> BOOLEAN], conn'[Peer(e)] = conn[Peer(e)], conn[e] => conn'[e],
         sent' \in [Ends -> 0 .. link.frames], sent'[Peer(e)] = sent[Peer(e)],
         sent'[e] = Count(k, sent[e]), n = sent'[e],
         UNCHANGED <<link, term, inflate, got, faults>>,
         proto_write(c, e, k, n, s)
  PROVE  TypeOK' /\ Shape(e)
<1> DEFINE p == Peer(e)
<1>1. /\ chan' \in [Ends -> Seq(Frame)] /\ out' \in [Ends -> Seq(Frame)]
      /\ st' \in [Ends -> States]
      /\ chan'[e] = c[e] /\ st'[e] \in {"loop", "close", "write"}
      /\ st'[p] = st[p] /\ out'[p] = out[p]
      /\ out'[e] # <<>> <=> st'[e] \in {"write", "closing"}
      /\ UDP => st'[e] \notin {"write", "closing", "body"}
      /\ Writes(e)
  BY WriteShape, ZenonT(30)
<1>2. TypeOK'
  BY Typed, <1>1 DEF TypeOK, ControlOK, DataOK
<1> HIDE DEF p
<1>3. Bystander(p)
  BY <1>1 DEF Bystander, p
<1>4. Onward(e)
  BY <1>1 DEF Onward, Linking
<1>5. ReadsNone(e) \/ ReadsControl(e)
  <2>1. CASE c[e] = chan[e]
    BY <1>1, <2>1 DEF ReadsNone
  <2>2. CASE /\ st[e] = "loop" /\ chan[e] # <<>> /\ c[e] = Tail(chan[e])
             /\ chan[e][1].k \notin {"DATA", "REST"}
    BY <1>1, <2>2 DEF ReadsControl
  <2> QED
    BY <2>1, <2>2
<1>6. link' = link /\ faults' >= faults
  BY FaultCount
<1> QED
  BY <1>1, <1>2, <1>3, <1>4, <1>5, <1>6 DEF Shape, Reads, p

\* The first ECHO_REQ.
LEMMA StartShape ==
  ASSUME Inv, NEW e \in Ends, Start(e)
  PROVE  TypeOK' /\ Shape(e)
<1>1. st[e] = "start" /\ sent[e] = 0
  BY DEF Start, Inv, StartOK
<1>2. UNCHANGED <<link, dev, idle, term, conn, inflate, sent, got, faults>>
  BY DEF Start
<1>0. dev' \in [Ends -> BOOLEAN] /\ idle' \in [Ends -> 0 .. link.ka_maxfail + 1]
  BY <1>2, Typed
<1>3. CASE Goto(e, "loop") /\ UNCHANGED <<chan, out>>
  <2>1. st'[e] = "loop"
    BY <1>3, Typed DEF Goto
  <2>2. ReadsNone(e) /\ Writing(e)
    BY <1>1, <1>2, <1>3, <2>1 DEF ReadsNone, Writing, Linking
  <2> QED
    BY <1>0, <1>1, <1>2, <1>3, <2>2, MoveShape DEF States, Linking
<1>4. CASE proto_write(chan, e, "ECHO_REQ", 0, "loop")
  <2>1. "ECHO_REQ" \in Kinds /\ sent'[e] = Count("ECHO_REQ", sent[e])
    BY <1>2 DEF Kinds, Count
  <2> QED
    BY <1>0, <1>1, <1>2, <1>4, <2>1, Typed, WriteStep
<1> QED
  BY <1>3, <1>4 DEF Start

\* write_n() going on where it was.
LEMMA WriteSomeShape ==
  ASSUME Inv, NEW e \in Ends, WriteSome(e)
  PROVE  TypeOK' /\ Shape(e)
<1> DEFINE p == Peer(e)
<1>1. /\ st[e] \in {"write", "closing"} /\ TCP /\ Writing(e)
      /\ UNCHANGED <<link, dev, idle, term, conn, inflate, sent, got, faults>>
  BY Typed DEF WriteSome, Writing, Linking
<1>2. /\ out[e] # <<>> /\ out[e] \in Seq(Frame) /\ chan[p] \in Seq(Frame)
      /\ chan' = [chan EXCEPT ![p] = Append(@, Head(out[e]))]
      /\ out' = [out EXCEPT ![e] = IF term[e] THEN <<>> ELSE Tail(@)]
  BY <1>1, Typed DEF WriteSome
<1>3. Head(out[e]) \in Frame /\ Tail(out[e]) \in Seq(Frame)
  BY <1>2
<1>4. /\ chan' \in [Ends -> Seq(Frame)] /\ chan'[e] = chan[e]
      /\ chan'[p] = Append(chan[p], Head(out[e]))
  <2>1. Append(chan[p], Head(out[e])) \in Seq(Frame)
    BY <1>2, <1>3
  <2> QED
    BY <1>2, <2>1, Typed
<1>5. /\ out' \in [Ends -> Seq(Frame)] /\ out'[p] = out[p]
      /\ out'[e] = IF term[e] THEN <<>> ELSE Tail(out[e])
  <2>1. (IF term[e] THEN <<>> ELSE Tail(out[e])) \in Seq(Frame)
    BY <1>3
  <2>2. out \in [Ends -> Seq(Frame)] /\ p \in Ends /\ p # e
    BY Typed
  <2> HIDE DEF p
  <2> QED
    BY <1>2, <2>1, <2>2
<1>6. Goto(e, IF out'[e] # <<>> THEN st[e]
             ELSE IF st[e] = "closing" THEN "down" ELSE Again(e))
  BY DEF WriteSome
<1>7. /\ st' \in [Ends -> States] /\ st'[p] = st[p]
      /\ st'[e] = IF out'[e] # <<>> THEN st[e]
                  ELSE IF st[e] = "closing" THEN "down"
                  ELSE IF term[e] THEN "close" ELSE "loop"
  <2>1. Again(e) = IF term[e] THEN "close" ELSE "loop"
    BY DEF Again
  <2>2. {"close", "loop", "down"} \subseteq States /\ st[e] \in States
    BY Typed DEF States, Linking
  <2> HIDE DEF p
  <2>3. p \in Ends /\ p # e /\ st \in [Ends -> States]
    BY Typed DEF p
  <2> QED
    BY <1>6, <2>1, <2>2, <2>3 DEF Goto
<1>8. TypeOK'
  BY Typed, <1>1, <1>4, <1>5, <1>7 DEF TypeOK, ControlOK, DataOK
<1>9. Bystander(p) /\ ReadsNone(e)
  BY <1>1, <1>4, <1>5, <1>7 DEF Bystander, ReadsNone
<1>10. Onward(e)
  BY <1>1, <1>5, <1>7, Typed DEF Onward, Linking
<1>11. WritesUnit(e)
  <2>1. CASE term[e]
    BY <1>1, <1>2, <1>4, <1>5, <1>7, <2>1 DEF WritesUnit, Writing, Linking
  <2>2. CASE ~term[e]
    BY <1>1, <1>2, <1>4, <1>5, <2>2 DEF WritesUnit
  <2> QED
    BY <2>1, <2>2
<1> QED
  BY Typed, <1>1, <1>8, <1>9, <1>10, <1>11 DEF Shape, Reads, Writes

\* The process leaves write_n() or read_n() and nothing more is written.
LEMMA QuitShape ==
  ASSUME Inv, NEW e \in Ends, WriteFails(e) \/ Interrupted(e)
  PROVE  TypeOK' /\ Shape(e)
<1> DEFINE p == Peer(e)
<1>1. /\ st[e] \in {"write", "closing", "body"} /\ (term[e] \/ st[Peer(e)] = "done")
      /\ Goto(e, IF st[e] = "closing" THEN "down" ELSE "close")
      /\ out' = [out EXCEPT ![e] = <<>>]
      /\ got' = got \/ got' = [got EXCEPT ![e] = Append(@, Spoilt)]
      /\ UNCHANGED <<link, dev, idle, term, conn, chan, inflate, sent, faults>>
  BY DEF WriteFails, Interrupted
<1>2. /\ st' \in [Ends -> States] /\ st'[p] = st[p] /\ st'[e] \in {"down", "close"}
  BY <1>1, Typed, ZenonT(30) DEF Goto, States
<1>3. out' \in [Ends -> Seq(Frame)] /\ out'[p] = out[p] /\ out'[e] = <<>>
  <2>1. out \in [Ends -> Seq(Frame)] /\ p \in Ends /\ p # e
    BY Typed
  <2> HIDE DEF p
  <2> QED
    BY <1>1, <2>1
<1>4. got' \in [Ends -> Seq(0 .. link.frames)] /\ got'[p] = got[p]
  <2>1. got \in [Ends -> Seq(0 .. link.frames)] /\ link.frames \in Nat /\ p \in Ends /\ p # e
    BY Typed
  <2> HIDE DEF p
  <2>2. Spoilt \in 0 .. link.frames /\ got[e] \in Seq(0 .. link.frames)
    BY <2>1 DEF Spoilt
  <2>3. Append(got[e], Spoilt) \in Seq(0 .. link.frames)
    BY <2>2
  <2> QED
    BY <1>1, <2>1, <2>3
<1>5. TypeOK'
  BY Typed, <1>1, <1>2, <1>3, <1>4 DEF TypeOK, ControlOK, DataOK
<1>6. Bystander(p) /\ Stops(e)
  BY <1>1, <1>2, <1>3, <1>4 DEF Bystander, Stops, Linking
<1>7. Onward(e)
  BY <1>1, <1>2, <1>3 DEF Onward, Linking
<1>8. Quits(e)
  <2>1. chan[p] \in Seq(Frame)
    BY Typed
  <2>2. Len(chan[p]) \in 0 .. Len(chan[p]) /\ SubSeq(chan[p], 1, Len(chan[p])) = chan[p]
    BY <2>1
  <2>3. st[p] = "done" \/ ~Writing(e)'
    BY <1>1, <1>2 DEF Writing, Linking
  <2> QED
    BY <1>1, <1>3, <2>2, <2>3 DEF Quits
<1> QED
  BY Typed, <1>1, <1>5, <1>6, <1>7, <1>8 DEF Shape, Reads, Writes

\* CONN_CLOSE, unless I/O was cancelled.
LEMMA CloseShape ==
  ASSUME Inv, NEW e \in Ends, Close(e)
  PROVE  TypeOK' /\ Shape(e)
<1> DEFINE p == Peer(e)
           k == "CONN_CLOSE"
<1>1. /\ st[e] = "close"
      /\ UNCHANGED <<link, dev, idle, term, conn, inflate, sent, got, faults>>
  BY DEF Close
<1>2. /\ p \in Ends /\ p # e /\ sent[e] \in Nat /\ out[e] = <<>>
      /\ st \in [Ends -> States] /\ chan \in [Ends -> Seq(Frame)] /\ out \in [Ends -> Seq(Frame)]
      /\ TCP <=> ~UDP
  BY <1>1, Typed
<1>3. k \in Kinds /\ Count(k, sent[e]) = sent[e]
  BY DEF Kinds, Count
<1>4. [k |-> k, n |-> sent[e]] \in Frame /\ Units(k, sent[e]) \in Seq(Frame) /\ Units(k, sent[e]) # <<>>
  BY <1>2, <1>3, UnitsType
<1>5. ASSUME NEW s \in {"down", "closing"}, Goto(e, s)
      PROVE  st' \in [Ends -> States] /\ st'[e] = s /\ st'[p] = st[p]
  <2> HIDE DEF p
  <2> QED
    BY <1>2, <1>5 DEF Goto, States
<1>6. SUFFICES /\ chan' \in [Ends -> Seq(Frame)] /\ out' \in [Ends -> Seq(Frame)]
               /\ st' \in [Ends -> States]
               /\ chan'[e] = chan[e] /\ out'[p] = out[p] /\ st'[p] = st[p]
               /\ st'[e] \in {"down", "closing"}
               /\ out'[e] # <<>> <=> st'[e] = "closing"
               /\ UDP => st'[e] = "down"
               /\ Writes(e)
  <2> HIDE DEF p
  <2>1. TypeOK'
    BY Typed, <1>1, <1>6 DEF TypeOK, ControlOK, DataOK
  <2>2. Bystander(p) /\ ReadsNone(e)
    BY <1>1, <1>6 DEF Bystander, ReadsNone
  <2>3. Onward(e)
    BY <1>1, <1>6 DEF Onward, Linking
  <2> QED
    BY Typed, <1>1, <1>6, <2>1, <2>2, <2>3 DEF Shape, Reads, p
<1>7. CASE TCP /\ term[e] /\ Goto(e, "down") /\ UNCHANGED <<chan, out>>
  <2>1. st' \in [Ends -> States] /\ st'[e] = "down" /\ st'[p] = st[p]
    BY <1>5, <1>7
  <2>2. ~Writing(e)'
    BY <2>1 DEF Writing, Linking
  <2>3. WritesNone(e)
    BY <1>1, <1>7, <2>2 DEF WritesNone
  <2> QED
    BY <1>2, <1>7, <2>1, <2>3 DEF Writes
<1>8. CASE TCP /\ ~term[e] /\ Goto(e, "closing") /\ UNCHANGED chan
           /\ out' = [out EXCEPT ![e] = Units(k, sent[e])]
  <2>1. st' \in [Ends -> States] /\ st'[e] = "closing" /\ st'[p] = st[p]
    BY <1>5, <1>8
  <2>2. Writing(e)
    BY <1>1, <1>8 DEF Writing
  <2>3. out' \in [Ends -> Seq(Frame)] /\ out'[e] = Units(k, sent[e]) /\ out'[p] = out[p]
    <3> HIDE DEF p
    <3> QED
      BY <1>2, <1>4, <1>8
  <2>4. Begins(e)
    BY <1>1, <1>2, <1>3, <1>8, <2>2, <2>3 DEF Begins
  <2> QED
    BY <1>2, <1>4, <1>8, <2>1, <2>3, <2>4 DEF Writes
<1>9. CASE UDP /\ Goto(e, "down") /\ chan' = udp_write(chan, e, k, sent[e]) /\ UNCHANGED out
  <2>1. st' \in [Ends -> States] /\ st'[e] = "down" /\ st'[p] = st[p]
    BY <1>5, <1>9
  <2>2. /\ chan' \in [Ends -> Seq(Frame)] /\ chan'[e] = chan[e]
        /\ chan'[p] \in {Append(chan[p], [k |-> k, n |-> sent[e]]), chan[p]}
    <3>1. chan' = chan \/ chan' = [chan EXCEPT ![p] = Append(@, [k |-> k, n |-> sent[e]])]
      BY <1>9 DEF udp_write
    <3> HIDE DEF p
    <3>2. Append(chan[p], [k |-> k, n |-> sent[e]]) \in Seq(Frame)
      BY <1>2, <1>4
    <3> QED
      BY <1>2, <3>1, <3>2
  <2>3. WritesPacket(e)
    BY <1>1, <1>3, <1>9, <2>2 DEF WritesPacket
  <2> QED
    BY <1>2, <1>9, <2>1, <2>2, <2>3 DEF Writes
<1> QED
  BY <1>7, <1>8, <1>9 DEF Close

\* The end of a process, its own or not.
LEMMA DisconnectShape ==
  ASSUME Inv, NEW e \in Ends, CloseSocket(e) \/ Killed(e)
  PROVE  TypeOK' /\ Shape(e)
<1> DEFINE p == Peer(e)
<1>1. /\ p \in Ends /\ p # e /\ st \in [Ends -> States]
      /\ chan \in [Ends -> Seq(Frame)] /\ out \in [Ends -> Seq(Frame)]
      /\ TCP <=> ~UDP
  BY Typed
<1>2. /\ Goto(e, "done") /\ out' = [out EXCEPT ![e] = <<>>]
      /\ UNCHANGED <<link, dev, idle, term, conn, inflate, sent, got>>
      /\ faults' = faults \/ Fault
  BY DEF CloseSocket, Killed, Disconnect
<1>3. PICK kept \in 0 .. Len(chan[p]) :
        /\ UDP => kept = Len(chan[p])
        /\ chan' = [chan EXCEPT ![e] = <<>>, ![p] = SubSeq(@, 1, kept)]
  BY DEF CloseSocket, Killed, Disconnect
<1>4. faults' \in 0 .. MaxFaults /\ faults' >= faults
  BY <1>2, FaultCount
<1> HIDE DEF p
<1>5. st' \in [Ends -> States] /\ st'[e] = "done" /\ st'[p] = st[p]
  BY <1>1, <1>2 DEF Goto, States
<1>6. out' \in [Ends -> Seq(Frame)] /\ out'[e] = <<>> /\ out'[p] = out[p]
  BY <1>1, <1>2
<1>7. SubSeq(chan[p], 1, kept) \in Seq(Frame) /\ <<>> \in Seq(Frame)
  BY <1>1
<1>8. chan' \in [Ends -> Seq(Frame)] /\ chan'[e] = <<>> /\ chan'[p] = SubSeq(chan[p], 1, kept)
  <2> DEFINE c == [chan EXCEPT ![e] = <<>>]
             q == SubSeq(chan[p], 1, kept)
  <2>1. c \in [Ends -> Seq(Frame)] /\ c[p] = chan[p] /\ c[e] = <<>>
    BY <1>1, <1>7
  <2>2. chan' = [c EXCEPT ![p] = q]
    BY <1>3, <2>1
  <2>3. q \in Seq(Frame)
    BY <1>7
  <2> HIDE DEF c, q
  <2>4. chan' \in [Ends -> Seq(Frame)] /\ chan'[e] = <<>> /\ chan'[p] = q
    BY <1>1, <2>1, <2>2, <2>3
  <2> QED
    BY <2>4 DEF q
<1>9. TypeOK'
  BY Typed, <1>2, <1>4, <1>5, <1>6, <1>8 DEF TypeOK, ControlOK, DataOK
<1>10. Bystander(p) /\ Stops(e)
  BY <1>2, <1>5, <1>6, <1>8 DEF Bystander, Stops, Linking
<1>11. Onward(e)
  BY <1>2, <1>5, <1>6 DEF Onward, Linking
<1>12. ~Writing(e)'
  BY <1>5 DEF Writing, Linking
<1>13. Quits(e)
  BY <1>2, <1>3, <1>6, <1>8, <1>12 DEF Quits, p
<1> QED
  BY <1>2, <1>4, <1>9, <1>10, <1>11, <1>13 DEF Shape, Reads, Writes, p

\* A signal handler, and what it interrupts.
LEMMA SignalShape ==
  ASSUME Inv, NEW e \in Ends, Signal(e)
  PROVE  TypeOK' /\ Shape(e)
<1> DEFINE p == Peer(e)
<1>1. /\ p \in Ends /\ p # e /\ term \in [Ends -> BOOLEAN]
      /\ st[e] \in {"loop", "write", "body", "closing"}
      /\ term' = [term EXCEPT ![e] = TRUE]
      /\ UNCHANGED <<link, st, dev, idle, conn, chan, out, inflate, sent, got, faults>>
  BY Typed DEF Signal, Linking
<1> HIDE DEF p
<1>2. term' \in [Ends -> BOOLEAN] /\ term'[p] = term[p]
  BY <1>1
<1>3. TypeOK'
  BY Typed, <1>1, <1>2 DEF TypeOK, ControlOK, DataOK
<1>4. Bystander(p) /\ ReadsNone(e)
  BY <1>1, <1>2 DEF Bystander, ReadsNone
<1>5. Onward(e)
  BY Typed, <1>1 DEF Onward, Linking
<1>6. Writing(e)
  BY <1>1 DEF Writing, Linking
<1>7. WritesNone(e)
  BY <1>1, <1>6 DEF WritesNone
<1> QED
  BY Typed, <1>1, <1>3, <1>4, <1>5, <1>7 DEF Shape, Reads, Writes, p

\* The keep-alive part of the loop, with or without an echo request.
LEMMA VerifyShape ==
  ASSUME Inv, NEW e \in Ends, Verify(e)
  PROVE  TypeOK' /\ Shape(e)
<1>1. /\ st[e] = "loop" /\ dev' = [dev EXCEPT ![e] = FALSE]
      /\ UNCHANGED <<link, term, conn, inflate, sent, got, faults>>
  BY DEF Verify
<1>2. dev' \in [Ends -> BOOLEAN]
  BY <1>1, Typed
<1>3. Writing(e)
  BY <1>1 DEF Writing, Linking
<1>4. CASE Goto(e, "close") /\ UNCHANGED <<idle, chan, out>>
  <2>1. st'[e] = "close" /\ idle' \in [Ends -> 0 .. link.ka_maxfail + 1]
    BY <1>4, Typed DEF Goto
  <2>2. Stops(e)
    BY <1>1, <1>4, <2>1 DEF Stops, Linking
  <2> QED
    BY <1>1, <1>2, <1>3, <1>4, <2>1, <2>2, MoveShape DEF States, Linking
<1>5. ASSUME ~(idle[e] > link.ka_maxfail), idle' = [idle EXCEPT ![e] = @ + 1]
      PROVE  idle' \in [Ends -> 0 .. link.ka_maxfail + 1]
  <2>1. idle \in [Ends -> 0 .. link.ka_maxfail + 1] /\ link.ka_maxfail \in Nat
    BY Typed
  <2>2. idle[e] + 1 \in 0 .. link.ka_maxfail + 1
    BY <1>5, <2>1
  <2> QED
    BY <1>5, <2>1, <2>2
<1>6. CASE /\ idle' \in [Ends -> 0 .. link.ka_maxfail + 1]
           /\ UNCHANGED <<st, chan, out>>
  <2>1. Goto(e, "loop")
    BY <1>1, <1>6, Typed DEF Goto
  <2>2. ReadsNone(e)
    BY <1>1, <1>6 DEF ReadsNone
  <2> QED
    BY <1>1, <1>2, <1>3, <1>6, <2>1, <2>2, MoveShape DEF States, Linking
<1>7. CASE /\ idle' \in [Ends -> 0 .. link.ka_maxfail + 1]
           /\ proto_write(chan, e, "ECHO_REQ", sent[e], "loop")
  <2>1. "ECHO_REQ" \in Kinds /\ sent'[e] = Count("ECHO_REQ", sent[e])
    BY <1>1 DEF Kinds, Count
  <2> QED
    BY <1>1, <1>2, <1>7, <2>1, Typed, WriteStep
<1> QED
  BY <1>4, <1>5, <1>6, <1>7 DEF Verify

\* A frame of the device is numbered and written.
LEMMA ReadDeviceShape ==
  ASSUME Inv, NEW e \in Ends, ReadDevice(e)
  PROVE  TypeOK' /\ Shape(e)
<1>1. /\ st[e] = "loop" /\ dev' = [dev EXCEPT ![e] = FALSE] /\ sent[e] < link.frames
      /\ UDP => Len(chan[Peer(e)]) < MaxFlight
      /\ sent' = [sent EXCEPT ![e] = @ + 1]
      /\ proto_write(chan, e, "DATA", sent[e] + 1, Again(e))
      /\ UNCHANGED <<link, idle, term, conn, inflate, got, faults>>
  BY DEF ReadDevice, zlib_comp
<1>2. dev' \in [Ends -> BOOLEAN] /\ idle' \in [Ends -> 0 .. link.ka_maxfail + 1]
  BY <1>1, Typed
<1>3. sent' \in [Ends -> 0 .. link.frames] /\ sent'[Peer(e)] = sent[Peer(e)] /\ sent'[e] = sent[e] + 1
  <2>1. /\ sent \in [Ends -> 0 .. link.frames] /\ link.frames \in Nat
        /\ Peer(e) \in Ends /\ Peer(e) # e
    BY Typed
  <2>2. sent[e] + 1 \in 0 .. link.frames
    BY <1>1, <2>1
  <2> QED
    BY <1>1, <2>1, <2>2
<1>4. "DATA" \in Kinds /\ sent'[e] = Count("DATA", sent[e])
  BY <1>3 DEF Kinds, Count
<1>5. Again(e) \in {"loop", "close"} /\ (Again(e) = "close" => term[e])
  BY DEF Again
<1>6. sent[e] + 1 \in Nat
  <2>1. sent[e] \in Nat
    BY Typed
  <2> QED
    BY <2>1
<1>7. chan \in [Ends -> Seq(Frame)] /\ conn \in [Ends -> BOOLEAN]
  BY Typed
<1> QED
  BY <1>1, <1>2, <1>3, <1>4, <1>5, <1>6, <1>7, WriteStep, ZenonT(30)

\* The next unit to be read follows the one that was read last.
LEMMA NextUnit ==
  ASSUME Inv, TCP, NEW e \in Ends, st[e] \in {"loop", "body"}, chan[e] # <<>>
  PROVE  Follows(LastRead(e), chan[e][1])
<1>1. /\ chan[e] \in Seq(Frame) /\ out[Peer(e)] \in Seq(Frame) /\ Len(got[e]) \in Nat
      /\ Peer(e) \in Ends
  BY Typed
<1>2. LastRead(e) \in Frame
  BY <1>1 DEF LastRead, Frame
<1>3. Chained(Stream(e))
  BY DEF Inv, StreamWhole, Linking
<1>4. /\ Stream(e) \in Seq(Frame) /\ Len(Stream(e)) = 1 + Len(chan[e]) + Len(out[Peer(e)])
      /\ Stream(e)[1] = LastRead(e)
      /\ \A i \in 1 .. Len(chan[e]) : Stream(e)[i + 1] = chan[e][i]
  <2> DEFINE a == LastRead(e)
             c == chan[e]
             o == out[Peer(e)]
  <2>1. a \in Frame /\ c \in Seq(Frame) /\ o \in Seq(Frame) /\ Stream(e) = <<a>> \o c \o o
    BY <1>1, <1>2 DEF Stream
  <2> HIDE DEF a, c, o
  <2>2. /\ Stream(e) \in Seq(Frame) /\ Len(Stream(e)) = 1 + Len(c) + Len(o) /\ Stream(e)[1] = a
        /\ \A i \in 1 .. Len(c) : Stream(e)[i + 1] = c[i]
    BY <2>1, StreamAt
  <2> QED
    BY <2>2 DEF a, c, o
<1>5. 1 \in 1 .. Len(chan[e]) /\ 1 \in 1 .. Len(Stream(e)) - 1
  <2>1. Len(chan[e]) \in Nat \ {0} /\ Len(out[Peer(e)]) \in Nat
    BY <1>1
  <2>2. Len(Stream(e)) = 1 + Len(chan[e]) + Len(out[Peer(e)])
    BY <1>4
  <2>3. \A x \in Nat \ {0}, y \in Nat : 1 + x + y \in Nat /\ 1 + x + y >= 2
    OBVIOUS
  <2>4. Len(Stream(e)) \in Nat /\ Len(Stream(e)) >= 2
    BY <2>1, <2>2, <2>3, Zenon
  <2> QED
    BY <2>1, <2>4
<1>6. Follows(Stream(e)[1], Stream(e)[1 + 1])
  BY <1>3, <1>5 DEF Chained
<1> QED
  BY <1>4, <1>5, <1>6

\* Over TCP the unit that completes a frame is the next one for the decompressor.
LEMMA TcpInStep ==
  ASSUME Inv, TCP, NEW e \in Ends, st[e] = "body", chan[e] # <<>>, chan[e][1].k = "REST"
  PROVE  inflate[e] = Len(got[e]) /\ chan[e][1].n = Len(got[e]) + 1
<1>1. inflate[e] = Len(got[e])
  BY DEF Inv, InflateOK, Linking
<1>2. Follows([k |-> "DATA", n |-> Len(got[e]) + 1], chan[e][1])
  BY NextUnit DEF LastRead
<1> QED
  BY <1>1, <1>2 DEF Follows

\* What was under way to e was sent.
LEMMA HeadSent ==
  ASSUME Inv, NEW e \in Ends, chan[e] # <<>>
  PROVE  /\ chan[e][1] \in Frame /\ Tail(chan[e]) \in Seq(Frame)
         /\ chan[e][1].n \in 0 .. sent[Peer(e)] /\ chan[e][1].n \in 0 .. link.frames
         /\ chan[e][1].k = "DATA" => chan[e][1].n > 0
<1>1. chan[e] \in Seq(Frame) /\ sent[Peer(e)] \in 0 .. link.frames /\ link.frames \in Nat
  BY Typed, PeerFact
<1>2. 1 \in 1 .. Len(chan[e]) /\ chan[e][1] \in Frame /\ Tail(chan[e]) \in Seq(Frame)
  BY <1>1
<1>3. Sent(chan[e][1], sent[Peer(e)])
  BY <1>2 DEF Inv, FramesSent, AllSent
<1> QED
  BY <1>1, <1>2, <1>3 DEF Sent, Frame

\* A data frame is read to its end and handed to the decompressor and the device.
LEMMA DecodeShape ==
  ASSUME Inv, NEW e \in Ends, chan[e] # <<>>,
         chan[e][1].k = IF TCP THEN "REST" ELSE "DATA",
         st[e] = IF TCP THEN "body" ELSE "loop",
         Decode(e, chan[e][1].n),
         chan' = [chan EXCEPT ![e] = Tail(@)],
         dev' \in [Ends -> BOOLEAN], idle' \in [Ends -> 0 .. link.ka_maxfail + 1],
         conn' \in [Ends -> BOOLEAN], conn'[Peer(e)] = conn[Peer(e)], conn[e] => conn'[e],
         UNCHANGED <<link, term, out, sent, faults>>
  PROVE  TypeOK' /\ Shape(e) /\ Decodes(e)
<1> DEFINE p == Peer(e)
           n == chan[e][1].n
<1>1. /\ Tail(chan[e]) \in Seq(Frame) /\ n \in 0 .. link.frames /\ n \in Nat
      /\ got[e] \in Seq(0 .. link.frames) /\ link.frames \in Nat
  <2>1. got[e] \in Seq(0 .. link.frames) /\ link.frames \in Nat
    BY Typed
  <2>2. Tail(chan[e]) \in Seq(Frame) /\ n \in 0 .. link.frames
    BY HeadSent
  <2> QED
    BY <2>1, <2>2
<1>2. /\ p \in Ends /\ p # e /\ chan \in [Ends -> Seq(Frame)] /\ st \in [Ends -> States]
      /\ inflate \in [Ends -> Nat \cup {Off}] /\ got \in [Ends -> Seq(0 .. link.frames)]
      /\ out[e] = <<>> /\ Writing(e) /\ (TCP <=> ~UDP)
  BY Typed DEF Writing, Linking
<1>3. TCP => InStep(e)
  <2> SUFFICES ASSUME TCP PROVE inflate[e] = n - 1
    BY DEF InStep
  <2>1. Len(got[e]) \in Nat
    BY <1>1
  <2> QED
    BY <2>1, TcpInStep
<1>4. /\ inflate' = [inflate EXCEPT ![e] = IF InStep(e) THEN n ELSE Off]
      /\ \/ /\ InStep(e) /\ got' = [got EXCEPT ![e] = Append(@, n)] /\ Goto(e, Again(e))
         \/ /\ ~InStep(e) /\ got' = [got EXCEPT ![e] = Append(@, Spoilt)] /\ Goto(e, Again(e))
         \/ /\ ~InStep(e) /\ got' = got /\ Goto(e, "close")
  BY DEF Decode, InStep, zlib_decomp
<1> HIDE DEF p, n
<1>5. chan' \in [Ends -> Seq(Frame)] /\ chan'[e] = Tail(chan[e]) /\ chan'[p] = chan[p]
  BY <1>1, <1>2
<1>6. /\ inflate' \in [Ends -> Nat \cup {Off}] /\ inflate'[p] = inflate[p]
      /\ inflate'[e] = IF InStep(e) THEN n ELSE Off
  BY <1>1, <1>2, <1>4
<1>7. /\ got' \in [Ends -> Seq(0 .. link.frames)] /\ got'[p] = got[p]
      /\ \/ InStep(e) /\ got'[e] = Append(got[e], n)
         \/ ~InStep(e) /\ got'[e] \in {got[e], Append(got[e], Spoilt)}
  <2>1. Append(got[e], n) \in Seq(0 .. link.frames) /\ Append(got[e], Spoilt) \in Seq(0 .. link.frames)
    <3>1. Spoilt \in 0 .. link.frames
      BY <1>1 DEF Spoilt
    <3> QED
      BY <1>1, <3>1
  <2>2. CASE InStep(e) /\ got' = [got EXCEPT ![e] = Append(@, n)]
    BY <1>2, <2>1, <2>2
  <2>3. CASE ~InStep(e) /\ got' = [got EXCEPT ![e] = Append(@, Spoilt)]
    BY <1>2, <2>1, <2>3
  <2>4. CASE ~InStep(e) /\ got' = got
    BY <1>2, <2>4
  <2> QED
    BY <1>4, <2>2, <2>3, <2>4
<1>8. st' \in [Ends -> States] /\ st'[p] = st[p] /\ st'[e] \in {"loop", "close"}
  <2>1. Again(e) \in {"loop", "close"} /\ {"loop", "close"} \subseteq States
    BY DEF Again, States, Linking
  <2>2. PICK s \in {"loop", "close"} : Goto(e, s)
    BY <1>4, <2>1
  <2> QED
    BY <1>2, <2>1, <2>2 DEF Goto
<1>9. TypeOK'
  BY Typed, <1>5, <1>6, <1>7, <1>8 DEF TypeOK, ControlOK, DataOK
<1>10. Bystander(p)
  BY <1>6, <1>7, <1>8 DEF Bystander, p
<1>11. Onward(e)
  BY <1>2, <1>8 DEF Onward, Linking
<1>12. Decodes(e)
  BY <1>2, <1>3, <1>5, <1>6, <1>7, <1>8 DEF Decodes, n
<1>13. WritesNone(e)
  BY <1>2, <1>5 DEF WritesNone, p
<1>14. link' = link /\ faults' >= faults
  BY FaultCount
<1> QED
  BY <1>9, <1>10, <1>11, <1>12, <1>13, <1>14 DEF Shape, Reads, Writes, p

\* The rest of a data frame.
LEMMA ReadBodyShape ==
  ASSUME Inv, NEW e \in Ends, ReadBody(e)
  PROVE  TypeOK' /\ Shape(e) /\ Decodes(e) /\ Decode(e, chan[e][1].n)
<1>1. /\ st[e] = "body" /\ chan[e] # <<>> /\ chan' = [chan EXCEPT ![e] = Tail(@)]
      /\ dev' = [dev EXCEPT ![e] = TRUE]
      /\ UNCHANGED <<link, idle, term, conn, out, sent, faults>>
  BY DEF ReadBody
<1>2. TCP
  BY <1>1, Typed
<1>3. Head(chan[e]) = chan[e][1]
  BY <1>1, Typed
<1>4. chan[e][1].k = "REST" /\ Decode(e, chan[e][1].n)
  BY <1>3 DEF ReadBody
<1>5. /\ dev' \in [Ends -> BOOLEAN] /\ idle' \in [Ends -> 0 .. link.ka_maxfail + 1]
      /\ conn' \in [Ends -> BOOLEAN]
  BY <1>1, Typed
<1> QED
  BY <1>1, <1>2, <1>4, <1>5, DecodeShape

\* The length of a frame over TCP, a whole frame over UDP: each of its kinds.
LEMMA ReadFrameShape ==
  ASSUME Inv, NEW e \in Ends, ReadFrame(e)
  PROVE  /\ TypeOK' /\ Shape(e)
         /\ got' = got \/ (Decodes(e) /\ Decode(e, chan[e][1].n))
<1> DEFINE p == Peer(e)
           f == chan[e][1]
           c == [chan EXCEPT ![e] = Tail(@)]
<1>1. /\ st[e] = "loop" /\ chan[e] # <<>>
      /\ idle' = [idle EXCEPT ![e] = 0] /\ conn' = [conn EXCEPT ![e] = TRUE]
      /\ UNCHANGED <<link, term, sent, faults>>
  BY DEF ReadFrame, udp_read
<1>2. /\ p \in Ends /\ p # e /\ (TCP <=> ~UDP) /\ sent[e] \in Nat /\ link.ka_maxfail \in Nat
      /\ st \in [Ends -> States] /\ dev \in [Ends -> BOOLEAN] /\ conn \in [Ends -> BOOLEAN]
      /\ idle \in [Ends -> 0 .. link.ka_maxfail + 1] /\ sent \in [Ends -> 0 .. link.frames]
      /\ chan \in [Ends -> Seq(Frame)] /\ out[e] = <<>>
  BY <1>1, Typed
<1>3. f \in Frame /\ Tail(chan[e]) \in Seq(Frame)
  BY <1>1, HeadSent
<1> HIDE DEF p
<1>4. c \in [Ends -> Seq(Frame)] /\ c[e] = Tail(chan[e]) /\ c[p] = chan[p]
  BY <1>2, <1>3
<1>5. idle' \in [Ends -> 0 .. link.ka_maxfail + 1]
  <2>1. 0 \in 0 .. link.ka_maxfail + 1
    BY <1>2
  <2> QED
    BY <1>1, <1>2, <2>1
<1>6. conn' \in [Ends -> BOOLEAN] /\ conn'[p] = conn[p] /\ (conn[e] => conn'[e])
  BY <1>1, <1>2
<1>7. \A b \in BOOLEAN : dev' = [dev EXCEPT ![e] = b] => dev' \in [Ends -> BOOLEAN]
  BY <1>2
<1>8. Again(e) \in {"loop", "close"} /\ (Again(e) = "close" => term[e])
  BY DEF Again
<1>9. Writing(e)
  BY <1>1 DEF Writing, Linking
<1>10. link' = link /\ faults' >= faults
  BY <1>1, FaultCount
<1>11. Head(chan[e]) = f
  BY <1>1, <1>2
<1> HIDE DEF c
<1>12. \/ Control(e, f.k, c)
       \/ /\ f.k = "DATA" /\ TCP /\ chan' = c /\ Goto(e, "body")
          /\ UNCHANGED <<dev, out, inflate, got>>
       \/ /\ f.k = "DATA" /\ UDP /\ chan' = c /\ Decode(e, f.n)
          /\ dev' = [dev EXCEPT ![e] = TRUE] /\ UNCHANGED out
  BY <1>11 DEF ReadFrame, c
<1>13. ASSUME f.k \in {"ECHO_REP", "CONN_CLOSE"}, chan' = c,
              NEW s \in {"loop", "close"}, Goto(e, s), UNCHANGED <<out, inflate, got>>,
              dev' \in [Ends -> BOOLEAN]
       PROVE  TypeOK' /\ Shape(e)
  <2>1. st' \in [Ends -> States] /\ st'[e] = s /\ st'[p] = st[p]
    BY <1>2, <1>13 DEF Goto, States, Linking
  <2>2. TypeOK'
    BY Typed, <1>1, <1>4, <1>5, <1>6, <1>13, <2>1 DEF TypeOK, ControlOK, DataOK
  <2>3. Bystander(p)
    BY <1>1, <1>6, <1>13, <2>1 DEF Bystander
  <2>4. Onward(e)
    BY <1>1, <1>2, <1>6, <1>13, <2>1 DEF Onward, Linking
  <2>5. ReadsControl(e)
    BY <1>1, <1>4, <1>13, <2>1 DEF ReadsControl
  <2>6. WritesNone(e)
    BY <1>1, <1>2, <1>4, <1>9, <1>13 DEF WritesNone, p
  <2> QED
    BY <1>10, <2>2, <2>3, <2>4, <2>5, <2>6 DEF Shape, Reads, Writes, p
<1>14. CASE Control(e, f.k, c)
  <2>1. dev' \in [Ends -> BOOLEAN] /\ UNCHANGED <<inflate, got>>
    BY <1>7, <1>14 DEF Control
  <2>2. CASE f.k = "ECHO_REQ" /\ proto_write(c, e, "ECHO_REP", sent[e], Again(e))
    <3>1. "ECHO_REP" \in Kinds /\ sent'[e] = Count("ECHO_REP", sent[e])
      BY <1>1 DEF Kinds, Count
    <3>2. /\ st[e] = "loop" /\ chan[e] # <<>> /\ c[e] = Tail(chan[e])
          /\ chan[e][1].k \notin {"DATA", "REST"}
      BY <1>1, <1>4, <2>2
    <3>3. /\ sent' \in [Ends -> 0 .. link.frames] /\ sent'[p] = sent[p] /\ sent'[e] = sent[e]
          /\ UNCHANGED <<link, term, inflate, got, faults>>
      BY <1>1, <1>2, <2>1
    <3> HIDE DEF f
    <3> QED
      BY <1>2, <1>4, <1>5, <1>6, <1>8, <2>1, <2>2, <3>1, <3>2, <3>3, WriteStep DEF p
  <2>3. CASE f.k = "ECHO_REP" /\ chan' = c /\ Goto(e, Again(e)) /\ UNCHANGED out
    BY <1>8, <1>13, <2>1, <2>3
  <2>4. CASE f.k = "CONN_CLOSE" /\ chan' = c /\ Goto(e, "close") /\ UNCHANGED out
    BY <1>13, <2>1, <2>4
  <2> QED
    BY <1>14, <2>2, <2>3, <2>4 DEF Control
<1>15. CASE /\ f.k = "DATA" /\ TCP /\ chan' = c /\ Goto(e, "body")
            /\ UNCHANGED <<dev, out, inflate, got>>
  <2>1. st' \in [Ends -> States] /\ st'[e] = "body" /\ st'[p] = st[p]
    BY <1>2, <1>15 DEF Goto, States, Linking
  <2>2. TypeOK'
    BY Typed, <1>1, <1>4, <1>5, <1>6, <1>15, <2>1 DEF TypeOK, ControlOK, DataOK
  <2>3. Bystander(p)
    BY <1>1, <1>6, <1>15, <2>1 DEF Bystander
  <2>4. Onward(e)
    BY <1>1, <1>2, <1>6, <1>15, <2>1 DEF Onward, Linking
  <2>5. ReadsLength(e)
    BY <1>1, <1>4, <1>15, <2>1 DEF ReadsLength
  <2>6. WritesNone(e)
    BY <1>1, <1>2, <1>4, <1>9, <1>15 DEF WritesNone, p
  <2> QED
    BY <1>10, <1>15, <2>2, <2>3, <2>4, <2>5, <2>6 DEF Shape, Reads, Writes, p
<1>16. CASE /\ f.k = "DATA" /\ UDP /\ chan' = c /\ Decode(e, f.n)
            /\ dev' = [dev EXCEPT ![e] = TRUE] /\ UNCHANGED out
  <2>1. dev' \in [Ends -> BOOLEAN]
    BY <1>7, <1>16
  <2>2. TypeOK' /\ Shape(e) /\ Decodes(e)
    BY <1>1, <1>2, <1>5, <1>6, <1>16, <2>1, DecodeShape DEF c, p
  <2> QED
    BY <1>16, <2>2
<1> QED
  BY <1>12, <1>14, <1>15, <1>16
----------------------------------------------------------------------------
\* A step with such effects keeps every part of the invariant.

\* The parts of the invariant about places, buffers and connectedness.
LEMMA KeepsControl ==
  ASSUME Inv, NEW e \in Ends, Shape(e)
  PROVE  StartOK' /\ OutOK' /\ WholePackets' /\ ConnOK'
<1> DEFINE p == Peer(e)
<1>1. /\ p \in Ends /\ p # e /\ \A d \in Ends : d = e \/ d = p
      /\ link' = link /\ Bystander(p) /\ Onward(e)
  BY PeerFact DEF Shape
<1> HIDE DEF p
<1>2. StartOK'
  BY <1>1 DEF Inv, StartOK, Bystander, Onward, Linking
<1>3. OutOK'
  BY <1>1 DEF Inv, OutOK, Bystander, Onward
<1>4. WholePackets'
  BY <1>1 DEF Inv, WholePackets, Bystander, Onward, UDP
<1>5. ConnOK'
  BY <1>1 DEF Inv, ConnOK, Bystander, Onward
<1> QED
  BY <1>2, <1>3, <1>4, <1>5

\* That all units of a sequence were sent outlasts what is done to it.
LEMMA SentSequences ==
  ASSUME NEW s \in Seq(Frame), NEW n \in Nat, AllSent(s, n)
  PROVE  /\ \A m \in Nat : m >= n => AllSent(s, m)
         /\ s # <<>> => AllSent(Tail(s), n) /\ Sent(Head(s), n)
         /\ \A kept \in 0 .. Len(s) : AllSent(SubSeq(s, 1, kept), n)
         /\ \A f \in Frame, m \in Nat : m >= n /\ Sent(f, m) => AllSent(Append(s, f), m)
<1>1. \A m \in Nat : m >= n => AllSent(s, m)
  <2> SUFFICES ASSUME NEW m \in Nat, m >= n, NEW i \in 1 .. Len(s)
               PROVE  Sent(s[i], m)
    BY DEF AllSent
  <2>1. s[i] \in Frame /\ Sent(s[i], n)
    BY DEF AllSent
  <2> QED
    BY <2>1 DEF Sent, Frame
<1>2. s # <<>> => AllSent(Tail(s), n) /\ Sent(Head(s), n)
  BY DEF AllSent
<1>3. \A kept \in 0 .. Len(s) : AllSent(SubSeq(s, 1, kept), n)
  BY DEF AllSent
<1>4. \A f \in Frame, m \in Nat : m >= n /\ Sent(f, m) => AllSent(Append(s, f), m)
  <2> SUFFICES ASSUME NEW f \in Frame, NEW m \in Nat, m >= n, Sent(f, m),
                      NEW i \in 1 .. Len(Append(s, f))
               PROVE  Sent(Append(s, f)[i], m)
    BY DEF AllSent
  <2>1. CASE i \in 1 .. Len(s)
    BY <1>1, <2>1 DEF AllSent
  <2>2. CASE i = Len(s) + 1
    BY <2>2
  <2> QED
    BY <2>1, <2>2
<1> QED
  BY <1>1, <1>2, <1>3, <1>4

\* So do the units of a new frame.
LEMMA SentUnits ==
  ASSUME NEW k \in Kinds, NEW n \in Nat
  PROVE  /\ Sent([k |-> k, n |-> Count(k, n)], Count(k, n))
         /\ AllSent(Units(k, Count(k, n)), Count(k, n))
         /\ Count(k, n) \in Nat /\ Count(k, n) >= n
<1> DEFINE m == Count(k, n)
<1>1. m \in Nat /\ m >= n /\ (k = "DATA" => m > 0)
  BY DEF Count
<1> HIDE DEF m
<1>2. Sent([k |-> k, n |-> m], m) /\ Sent([k |-> "REST", n |-> m], m)
  BY <1>1 DEF Sent
<1>3. AllSent(Units(k, m), m)
  BY <1>2 DEF AllSent, Units
<1> QED
  BY <1>1, <1>2, <1>3 DEF m

\* Nothing is under way that was not sent.
LEMMA KeepsFramesSent ==
  ASSUME Inv, NEW e \in Ends, Shape(e)
  PROVE  FramesSent'
<1> DEFINE p == Peer(e)
<1>1. /\ p \in Ends /\ p # e /\ Peer(p) = e /\ \A d \in Ends : d = e \/ d = p
      /\ Bystander(p) /\ Reads(e) /\ Writes(e)
  BY PeerFact DEF Shape
<1>2. /\ AllSent(chan[e], sent[p]) /\ AllSent(out[e], sent[e])
      /\ AllSent(chan[p], sent[e]) /\ AllSent(out[p], sent[p])
  BY <1>1 DEF Inv, FramesSent
<1>3. /\ chan[e] \in Seq(Frame) /\ chan[p] \in Seq(Frame) /\ out[e] \in Seq(Frame)
      /\ sent[e] \in Nat /\ sent[p] \in Nat
  BY <1>1, Typed
<1>4. AllSent(<<>>, sent[p]) /\ AllSent(<<>>, sent[e])
  BY DEF AllSent
<1>5. AllSent(chan'[e], sent[p])
  <2>1. \/ chan'[e] = chan[e] \/ chan'[e] = <<>>
        \/ chan[e] # <<>> /\ chan'[e] = Tail(chan[e])
    BY <1>1 DEF Reads, ReadsNone, ReadsControl, ReadsLength, Decodes, Stops
  <2> QED
    BY <1>2, <1>3, <1>4, <2>1, SentSequences
<1>6. AllSent(chan'[p], sent'[e]) /\ AllSent(out'[e], sent'[e])
  <2>1. CASE WritesNone(e)
    <3>1. sent'[e] \in Nat /\ sent'[e] >= sent[e]
      BY <1>3, <2>1 DEF WritesNone
    <3>2. chan'[p] = chan[p] /\ out'[e] = out[e]
      BY <2>1 DEF WritesNone
    <3> QED
      BY <1>2, <1>3, <3>1, <3>2, SentSequences
  <2>2. CASE Begins(e)
    <3>1. PICK k \in Kinds : /\ sent'[e] = Count(k, sent[e]) /\ chan'[p] = chan[p]
                             /\ out'[e] = Units(k, Count(k, sent[e]))
      BY <2>2 DEF Begins
    <3>2. sent'[e] \in Nat /\ sent'[e] >= sent[e] /\ AllSent(out'[e], sent'[e])
      BY <1>3, <3>1, SentUnits
    <3> QED
      BY <1>2, <1>3, <3>1, <3>2, SentSequences
  <2>3. CASE WritesUnit(e)
    <3>1. out[e] # <<>> /\ sent'[e] = sent[e] /\ out'[e] \in {Tail(out[e]), <<>>}
          /\ chan'[p] = Append(chan[p], Head(out[e]))
      BY <2>3 DEF WritesUnit
    <3>2. Head(out[e]) \in Frame
      BY <1>3, <3>1
    <3>3. Sent(Head(out[e]), sent[e]) /\ AllSent(Tail(out[e]), sent[e])
      BY <1>2, <1>3, <3>1, SentSequences
    <3>4. sent[e] >= sent[e]
      BY <1>3
    <3>5. AllSent(Append(chan[p], Head(out[e])), sent[e])
      <4>1. \A f \in Frame, m \in Nat :
              m >= sent[e] /\ Sent(f, m) => AllSent(Append(chan[p], f), m)
        BY <1>2, <1>3, SentSequences
      <4> QED
        BY <1>3, <3>2, <3>3, <3>4, <4>1
    <3> QED
      BY <1>4, <3>1, <3>3, <3>5
  <2>4. CASE WritesPacket(e)
    <3>1. PICK k \in Kinds :
            /\ sent'[e] = Count(k, sent[e]) /\ out'[e] = out[e]
            /\ chan'[p] \in {Append(chan[p], [k |-> k, n |-> Count(k, sent[e])]), chan[p]}
      BY <2>4 DEF WritesPacket
    <3>2. /\ sent'[e] \in Nat /\ sent'[e] >= sent[e]
          /\ Sent([k |-> k, n |-> sent'[e]], sent'[e])
      BY <1>3, <3>1, SentUnits
    <3>3. [k |-> k, n |-> sent'[e]] \in Frame
      BY <3>2, UnitsType
    <3>4. AllSent(Append(chan[p], [k |-> k, n |-> sent'[e]]), sent'[e])
      <4>1. \A f \in Frame, m \in Nat :
              m >= sent[e] /\ Sent(f, m) => AllSent(Append(chan[p], f), m)
        BY <1>2, <1>3, SentSequences
      <4> QED
        BY <3>2, <3>3, <4>1
    <3>5. AllSent(chan[p], sent'[e]) /\ AllSent(out[e], sent'[e])
      BY <1>2, <1>3, <3>2, SentSequences
    <3> QED
      BY <3>1, <3>4, <3>5
  <2>5. CASE Quits(e)
    <3>1. PICK kept \in 0 .. Len(chan[p]) : chan'[p] = SubSeq(chan[p], 1, kept)
      BY <2>5 DEF Quits
    <3>2. out'[e] = <<>> /\ sent'[e] = sent[e]
      BY <2>5 DEF Quits
    <3> QED
      BY <1>2, <1>3, <1>4, <3>1, <3>2, SentSequences
  <2> QED
    BY <1>1, <2>1, <2>2, <2>3, <2>4, <2>5 DEF Writes
<1>7. sent'[p] = sent[p] /\ out'[p] = out[p]
  BY <1>1 DEF Bystander
<1> HIDE DEF p
<1> QED
  BY <1>1, <1>2, <1>5, <1>6, <1>7 DEF FramesSent, p
\* Until the first fault the next frame is the next one for the decompressor.
LEMMA UdpInStep ==
  ASSUME Inv, UDP, faults = 0, NEW e \in Ends, Peer(e) \notin link.hack, st[e] # "done",
         chan[e] # <<>>, chan[e][1].k = "DATA"
  PROVE  chan[e][1].n = inflate[e] + 1 /\ inflate[e] \in Nat
<1>1. InOrder(e)
  BY DEF Inv, UdpInOrder
<1>2. 1 \in 1 .. Len(chan[e]) /\ inflate[e] \in Nat \cup {Off}
  <2>1. chan[e] \in Seq(Frame) /\ inflate[e] \in Nat \cup {Off}
    BY Typed
  <2> QED
    BY <2>1
<1>3. Counted(chan[e][1], Before(chan[e], inflate[e], 1)) /\ inflate[e] # Off
  BY <1>1, <1>2 DEF InOrder, Run
<1> QED
  BY <1>2, <1>3 DEF Counted, Before, Count

\* The decompressors, over both protocols.
LEMMA KeepsInStep ==
  ASSUME Inv, TypeOK', NEW e \in Ends, Shape(e)
  PROVE  InflateOK' /\ InStepUnlessLoss'
<1> DEFINE p == Peer(e)
<1>1. /\ p \in Ends /\ p # e /\ Peer(p) = e /\ \A d \in Ends : d = e \/ d = p
      /\ link' = link /\ faults' >= faults /\ Bystander(p) /\ Onward(e) /\ Reads(e)
  BY PeerFact DEF Shape
<1>2. (TCP' <=> TCP) /\ (UDP' <=> UDP) /\ (TCP <=> ~UDP)
  BY <1>1, Typed DEF TCP, UDP
<1>3. faults \in Nat /\ faults' \in Nat
  <2>1. faults' \in 0 .. MaxFaults /\ MaxFaults \in Nat /\ faults \in 0 .. MaxFaults
    BY LinkerAssumption DEF Inv, TypeOK, ControlOK
  <2> QED
    BY <2>1
<1>4. /\ TCP => inflate[e] # Off /\ (st[e] \in Linking => inflate[e] = Len(got[e]))
      /\ inflate[e] = Off => UDP /\ link.zlib /\ (faults > 0 \/ p \in link.hack)
  BY DEF Inv, InflateOK, InStepUnlessLoss
<1>5. Decodes(e) =>
        /\ TCP => inflate'[e] # Off /\ inflate'[e] = Len(got'[e])
        /\ inflate'[e] = Off => UDP /\ link.zlib /\ (faults > 0 \/ p \in link.hack)
  <2> SUFFICES ASSUME Decodes(e)
               PROVE  /\ TCP => inflate'[e] # Off /\ inflate'[e] = Len(got'[e])
                      /\ inflate'[e] = Off => UDP /\ link.zlib /\ (faults > 0 \/ p \in link.hack)
    OBVIOUS
  <2>1. chan[e] # <<>> /\ chan[e][1].n \in Nat /\ got[e] \in Seq(0 .. link.frames)
    BY HeadSent, Typed DEF Decodes, Frame
  <2>2. ASSUME TCP
        PROVE  inflate'[e] # Off /\ inflate'[e] = Len(got'[e])
    <3>1. chan[e][1].n = Len(got[e]) + 1
      BY <2>1, <2>2, TcpInStep DEF Decodes
    <3>2. inflate'[e] = chan[e][1].n /\ got'[e] = Append(got[e], chan[e][1].n)
      BY <1>2, <2>2 DEF Decodes
    <3>3. chan[e][1].n \in 0 .. link.frames
      BY <2>1, HeadSent
    <3>4. Len(Append(got[e], chan[e][1].n)) = Len(got[e]) + 1
      BY <2>1
    <3> QED
      BY <2>1, <3>1, <3>2, <3>4 DEF Off
  <2>3. ASSUME inflate'[e] = Off
        PROVE  UDP /\ link.zlib /\ (faults > 0 \/ p \in link.hack)
    <3>1. ~InStep(e) /\ UDP
      BY <2>1, <2>3 DEF Decodes, Off
    <3>2. link.zlib /\ inflate[e] # chan[e][1].n - 1
      BY <3>1 DEF InStep
    <3>3. st[e] = "loop" /\ chan[e][1].k = "DATA"
      BY <1>2, <3>1 DEF Decodes
    <3>4. ASSUME faults = 0, p \notin link.hack
          PROVE  FALSE
      <4>1. chan[e][1].n = inflate[e] + 1 /\ inflate[e] \in Nat
        BY <2>1, <3>1, <3>3, <3>4, UdpInStep
      <4> QED
        BY <3>2, <4>1
    <3> QED
      BY <1>3, <3>1, <3>2, <3>4
  <2> QED
    BY <2>2, <2>3
<1>6. \/ Decodes(e)
      \/ inflate'[e] = inflate[e] /\ (st'[e] \in Linking => got'[e] = got[e])
  BY <1>1 DEF Reads, ReadsNone, ReadsControl, ReadsLength, Stops
<1>7. InflateOK'
  <2> SUFFICES ASSUME TCP, NEW d \in Ends
               PROVE  /\ inflate'[d] # Off
                      /\ st'[d] \in Linking => inflate'[d] = Len(got'[d])
    BY <1>2 DEF InflateOK
  <2>1. CASE d = e
    BY <1>1, <1>4, <1>5, <1>6, <2>1 DEF Onward
  <2>2. CASE d = p
    BY <1>1, <2>2 DEF Inv, InflateOK, Bystander
  <2> QED
    BY <1>1, <2>1, <2>2
<1>8. faults > 0 => faults' > 0
  BY <1>1, <1>3
<1>9. InStepUnlessLoss'
  <2> SUFFICES ASSUME NEW d \in Ends, inflate'[d] = Off
               PROVE  UDP /\ link.zlib /\ (faults > 0 \/ Peer(d) \in link.hack)
    BY <1>1, <1>2, <1>8 DEF InStepUnlessLoss
  <2>1. CASE d = e
    BY <1>4, <1>5, <1>6, <2>1
  <2>2. CASE d = p
    BY <1>1, <2>2 DEF Inv, InStepUnlessLoss, Bystander
  <2> QED
    BY <1>1, <2>1, <2>2
<1> QED
  BY <1>7, <1>9

\* A writer adds to the end of the stream, a reader takes its head.
LEMMA KeepsStreamWhole ==
  ASSUME Inv, TypeOK', NEW e \in Ends, Shape(e)
  PROVE  StreamWhole'
<1> DEFINE p == Peer(e)
<1>1. /\ p \in Ends /\ p # e /\ Peer(p) = e /\ \A d \in Ends : d = e \/ d = p
      /\ link' = link /\ Bystander(p) /\ Onward(e) /\ Reads(e) /\ Writes(e)
  BY PeerFact DEF Shape
<1>2. (TCP' <=> TCP) /\ (UDP' <=> UDP) /\ (TCP <=> ~UDP)
  BY <1>1, Typed DEF TCP, UDP
<1>3. /\ chan[e] \in Seq(Frame) /\ chan[p] \in Seq(Frame) /\ out[e] \in Seq(Frame) /\ out[p] \in Seq(Frame)
      /\ Len(got[e]) \in Nat /\ Len(got[p]) \in Nat /\ sent[e] \in Nat
  BY <1>1, Typed
<1>4. LastRead(e) \in Frame /\ LastRead(p) \in Frame
  BY <1>3 DEF LastRead, Frame
<1>5. Writing(p)' <=> Writing(p)
  BY <1>1 DEF Bystander, Writing
<1>6. LastRead(p)' = LastRead(p)
  BY <1>1 DEF Bystander, LastRead
<1> SUFFICES ASSUME TCP
             PROVE  \A d \in Ends : st'[d] \in Linking =>
                      /\ Chained(Stream(d)')
                      /\ Writing(Peer(d))' => UpToDate(Stream(d)', sent'[Peer(d)])
  BY <1>2 DEF StreamWhole, Chained, UpToDate
<1>7. st'[e] \in Linking => /\ Chained(Stream(e)')
                            /\ Writing(p)' => UpToDate(Stream(e)', sent'[p])
  <2> SUFFICES ASSUME st'[e] \in Linking
               PROVE  /\ Chained(Stream(e)')
                      /\ Writing(p)' => UpToDate(Stream(e)', sent'[p])
    OBVIOUS
  <2> DEFINE a == LastRead(e)
             b == LastRead(e)'
             c == chan[e]
             o == out[p]
  <2>1. /\ Chained(<<a>> \o c \o o)
        /\ Writing(p) => UpToDate(<<a>> \o c \o o, sent[p])
    BY <1>1 DEF Inv, StreamWhole, Stream, Onward
  <2>2. Stream(e)' = <<b>> \o chan'[e] \o o /\ sent'[p] = sent[p]
    BY <1>1 DEF Stream, Bystander
  <2>3. CASE ReadsNone(e)
    <3>1. b = a /\ chan'[e] = c
      BY <2>3 DEF ReadsNone, LastRead
    <3> QED
      BY <1>5, <2>1, <2>2, <3>1
  <2>4. ASSUME st[e] \in {"loop", "body"}, c # <<>>, chan'[e] = Tail(c),
               b \in Frame, b.n = c[1].n, b.k = "DATA" <=> c[1].k = "DATA"
        PROVE  /\ Chained(Stream(e)')
               /\ Writing(p)' => UpToDate(Stream(e)', sent'[p])
    <3>1. a \in Frame /\ c \in Seq(Frame) /\ o \in Seq(Frame)
      BY <1>3, <1>4
    <3> HIDE DEF a, b, c, o
    <3>2. /\ Chained(<<b>> \o Tail(c) \o o)
          /\ UpToDate(<<a>> \o c \o o, sent[p]) => UpToDate(<<b>> \o Tail(c) \o o, sent[p])
      BY <2>1, <2>4, <3>1, StreamRead
    <3> QED
      BY <1>5, <2>1, <2>2, <2>4, <3>2
  <2>5. c # <<>> /\ st[e] \in {"loop", "body"} => Follows(a, c[1])
    BY NextUnit
  <2>6. CASE ReadsControl(e)
    <3>1. b = [k |-> "REST", n |-> Len(got[e])] /\ a = b
      BY <2>6 DEF ReadsControl, LastRead
    <3>2. c # <<>> /\ c[1].k \notin {"DATA", "REST"} /\ chan'[e] = Tail(c) /\ st[e] = "loop"
      BY <2>6 DEF ReadsControl
    <3>3. c[1].n = Len(got[e])
      BY <2>5, <3>1, <3>2 DEF Follows
    <3> QED
      BY <1>3, <2>4, <3>1, <3>2, <3>3 DEF Frame
  <2>7. CASE ReadsLength(e)
    <3>1. b = [k |-> "DATA", n |-> Len(got[e]) + 1] /\ a = [k |-> "REST", n |-> Len(got[e])]
      BY <2>7 DEF ReadsLength, LastRead
    <3>2. c # <<>> /\ c[1].k = "DATA" /\ chan'[e] = Tail(c) /\ st[e] = "loop"
      BY <2>7 DEF ReadsLength
    <3>3. c[1].n = Len(got[e]) + 1
      BY <2>5, <3>1, <3>2 DEF Follows
    <3> QED
      BY <1>3, <2>4, <3>1, <3>2, <3>3 DEF Frame
  <2>8. CASE Decodes(e)
    <3>1. c # <<>> /\ c[1].k = "REST" /\ chan'[e] = Tail(c) /\ st[e] = "body"
      BY <2>8 DEF Decodes
    <3>2. c[1].n = Len(got[e]) + 1
      BY <3>1, TcpInStep
    <3>3. got'[e] = Append(got[e], c[1].n) /\ st'[e] # "body"
      BY <1>2, <2>8 DEF Decodes
    <3>4. Len(got'[e]) = Len(got[e]) + 1
      <4>1. got[e] \in Seq(0 .. link.frames)
        BY Typed
      <4> QED
        BY <3>3, <4>1
    <3>5. b = [k |-> "REST", n |-> Len(got[e]) + 1]
      BY <3>3, <3>4 DEF LastRead
    <3> QED
      BY <1>3, <2>4, <3>1, <3>2, <3>5 DEF Frame
  <2>9. CASE Stops(e)
    BY <2>9 DEF Stops
  <2> QED
    BY <1>1, <2>3, <2>6, <2>7, <2>8, <2>9 DEF Reads
<1>8. st'[p] \in Linking => /\ Chained(Stream(p)')
                            /\ Writing(e)' => UpToDate(Stream(p)', sent'[e])
  <2> SUFFICES ASSUME st'[p] \in Linking
               PROVE  /\ Chained(Stream(p)')
                      /\ Writing(e)' => UpToDate(Stream(p)', sent'[e])
    OBVIOUS
  <2> DEFINE a == LastRead(p)
             c == chan[p]
             o == out[e]
  <2>1. st[p] \in Linking /\ st[p] # "done"
    BY <1>1 DEF Bystander, Linking
  <2>2. /\ Chained(<<a>> \o c \o o)
        /\ Writing(e) => UpToDate(<<a>> \o c \o o, sent[e])
    BY <1>1, <2>1 DEF Inv, StreamWhole, Stream
  <2>3. Stream(p)' = <<a>> \o chan'[p] \o out'[e]
    BY <1>1, <1>6 DEF Stream
  <2>4. a \in Frame /\ c \in Seq(Frame) /\ o \in Seq(Frame)
    BY <1>3, <1>4
  <2>5. CASE WritesNone(e)
    <3>1. chan'[p] = c /\ out'[e] = o /\ (Writing(e)' => sent'[e] = sent[e] /\ Writing(e))
      BY <2>5 DEF WritesNone
    <3> QED
      BY <2>2, <2>3, <3>1
  <2>6. CASE Begins(e)
    <3>1. PICK k \in Kinds :
            /\ o = <<>> /\ Writing(e) /\ sent'[e] = Count(k, sent[e])
            /\ out'[e] = Units(k, Count(k, sent[e])) /\ chan'[p] = c
      BY <2>6 DEF Begins
    <3>2. Chained(<<a>> \o c \o <<>>) /\ UpToDate(<<a>> \o c \o <<>>, sent[e])
      BY <2>2, <3>1
    <3> HIDE DEF a, c, o
    <3>3. /\ Chained(<<a>> \o c \o Units(k, Count(k, sent[e])))
          /\ UpToDate(<<a>> \o c \o Units(k, Count(k, sent[e])), Count(k, sent[e]))
      BY <1>3, <2>4, <3>2, StreamBegun
    <3>4. Stream(p)' = <<a>> \o c \o Units(k, Count(k, sent[e]))
      BY <2>3, <3>1
    <3> QED
      BY <3>1, <3>3, <3>4
  <2>7. CASE WritesUnit(e)
    <3>1. o # <<>> /\ sent'[e] = sent[e] /\ chan'[p] = Append(c, Head(o))
      BY <2>7 DEF WritesUnit
    <3>2. <<a>> \o Append(c, Head(o)) \o Tail(o) = <<a>> \o c \o o
      <4> HIDE DEF a, c, o
      <4> QED
        BY <2>4, <3>1, StreamMoved, SMTT(30)
    <3>3. CASE out'[e] = Tail(o) /\ (Writing(e)' => Writing(e))
      BY <2>2, <2>3, <3>1, <3>2, <3>3
    <3>4. CASE out'[e] = <<>> /\ ~Writing(e)'
      <4> DEFINE d == Append(c, Head(o))
      <4>1. d \in Seq(Frame) /\ Tail(o) \in Seq(Frame) /\ Chained(<<a>> \o d \o Tail(o))
        BY <2>2, <2>4, <3>1, <3>2, StreamMoved
      <4>2. Len(d) \in 0 .. Len(d) /\ SubSeq(d, 1, Len(d)) = d
        BY <4>1
      <4> HIDE DEF a, c, o, d
      <4>3. Chained(<<a>> \o SubSeq(d, 1, Len(d)) \o <<>>)
        BY <2>4, <4>1, <4>2, StreamPrefix
      <4> QED
        BY <2>3, <3>1, <3>4, <4>2, <4>3 DEF d
    <3> QED
      BY <2>7, <3>3, <3>4 DEF WritesUnit
  <2>8. CASE WritesPacket(e)
    BY <1>2, <2>8 DEF WritesPacket
  <2>9. CASE Quits(e)
    <3>1. PICK kept \in 0 .. Len(c) : chan'[p] = SubSeq(c, 1, kept)
      BY <2>9 DEF Quits
    <3>2. out'[e] = <<>> /\ ~Writing(e)'
      BY <2>1, <2>9 DEF Quits
    <3> HIDE DEF a, c, o
    <3>3. Chained(<<a>> \o SubSeq(c, 1, kept) \o <<>>)
      BY <2>2, <2>4, StreamPrefix
    <3> QED
      BY <2>3, <3>1, <3>2, <3>3
  <2> QED
    BY <1>1, <2>5, <2>6, <2>7, <2>8, <2>9 DEF Writes
<1> HIDE DEF p
<1> QED
  BY <1>1, <1>7, <1>8 DEF p
\* The first packet of a run is taken, and another one put behind the last.
LEMMA RunTail ==
  ASSUME NEW s \in Seq(Frame), NEW a, NEW b, Run(s, a, b), s # <<>>
  PROVE  Run(Tail(s), s[1].n, b)
<1>1. /\ Len(s) \in Nat \ {0} /\ Len(Tail(s)) = Len(s) - 1
      /\ \A i \in 1 .. Len(s) - 1 : Tail(s)[i] = s[i + 1]
  OBVIOUS
<1> DEFINE t == Tail(s)
<1> HIDE DEF t
<1>2. /\ Len(t) = Len(s) - 1 /\ \A i \in 1 .. Len(s) - 1 : t[i] = s[i + 1]
  BY <1>1 DEF t
<1>3. ASSUME NEW i \in 1 .. Len(s)
      PROVE  Before(t, s[1].n, i) = Before(s, a, i + 1)
  <2>1. CASE i = 1
    BY <2>1 DEF Before
  <2>2. CASE i # 1
    <3>1. i - 1 \in 1 .. Len(s) - 1 /\ (i - 1) + 1 = i /\ (i + 1) - 1 = i /\ i + 1 # 1
      BY <1>1, <2>2
    <3>2. t[i - 1] = s[i]
      BY <1>2, <3>1
    <3> QED
      BY <2>2, <3>1, <3>2 DEF Before
  <2> QED
    BY <2>1, <2>2
<1>4. ASSUME NEW i \in 1 .. Len(t)
      PROVE  Counted(t[i], Before(t, s[1].n, i))
  <2>1. i \in 1 .. Len(s) /\ i \in 1 .. Len(s) - 1 /\ i + 1 \in 1 .. Len(s)
    BY <1>1, <1>2
  <2>2. Counted(s[i + 1], Before(s, a, i + 1))
    BY <2>1 DEF Run
  <2> QED
    BY <1>2, <1>3, <2>1, <2>2
<1>5. Before(t, s[1].n, Len(t) + 1) = b
  <2>1. Len(t) + 1 = Len(s) /\ Len(s) \in 1 .. Len(s)
    BY <1>1, <1>2
  <2>2. Before(t, s[1].n, Len(s)) = Before(s, a, Len(s) + 1)
    BY <1>3, <2>1
  <2>3. Before(s, a, Len(s) + 1) = b
    BY DEF Run
  <2> QED
    BY <2>1, <2>2, <2>3
<1>6. Run(t, s[1].n, b)
  BY <1>4, <1>5 DEF Run
<1> QED
  BY <1>6 DEF t

\* A packet that is sent goes on where the last one ended.
LEMMA RunAppend ==
  ASSUME NEW s \in Seq(Frame), NEW a, NEW b, Run(s, a, b), NEW f \in Frame, Counted(f, b)
  PROVE  Run(Append(s, f), a, f.n)
<1> DEFINE t == Append(s, f)
<1>1. /\ Len(s) \in Nat /\ Len(t) = Len(s) + 1 /\ t[Len(s) + 1] = f
      /\ \A i \in 1 .. Len(s) : t[i] = s[i]
  OBVIOUS
<1> HIDE DEF t
<1>2. ASSUME NEW i \in 1 .. Len(s) + 1
      PROVE  Before(t, a, i) = Before(s, a, i)
  <2>1. CASE i = 1
    BY <2>1 DEF Before
  <2>2. CASE i # 1
    <3>1. i - 1 \in 1 .. Len(s)
      BY <1>1, <2>2
    <3> QED
      BY <1>1, <2>2, <3>1 DEF Before
  <2> QED
    BY <2>1, <2>2
<1>3. ASSUME NEW i \in 1 .. Len(t)
      PROVE  Counted(t[i], Before(t, a, i))
  <2>1. CASE i \in 1 .. Len(s)
    <3>1. i \in 1 .. Len(s) + 1
      BY <1>1, <2>1
    <3> QED
      BY <1>1, <1>2, <2>1, <3>1 DEF Run
  <2>2. CASE i = Len(s) + 1
    BY <1>1, <1>2, <2>2 DEF Run
  <2> QED
    BY <1>1, <2>1, <2>2
<1>4. Before(t, a, Len(t) + 1) = f.n
  <2>1. Len(t) + 1 # 1 /\ (Len(t) + 1) - 1 = Len(s) + 1
    BY <1>1
  <2> QED
    BY <1>1, <2>1 DEF Before
<1>5. Run(t, a, f.n)
  BY <1>3, <1>4 DEF Run
<1> QED
  BY <1>5 DEF t

\* Without faults the packets under way stay in order.
LEMMA KeepsUdpInOrder ==
  ASSUME Inv, TypeOK', NEW e \in Ends, Shape(e)
  PROVE  UdpInOrder'
<1> DEFINE p == Peer(e)
<1>1. /\ p \in Ends /\ p # e /\ Peer(p) = e /\ \A d \in Ends : d = e \/ d = p
      /\ link' = link /\ faults' >= faults
      /\ Bystander(p) /\ Onward(e) /\ Reads(e) /\ Writes(e)
  BY PeerFact DEF Shape
<1>2. (TCP' <=> TCP) /\ (UDP' <=> UDP) /\ (TCP <=> ~UDP)
  BY <1>1, Typed DEF TCP, UDP
<1>3. /\ chan[e] \in Seq(Frame) /\ chan[p] \in Seq(Frame)
      /\ sent[e] \in Nat /\ faults \in Nat
  BY <1>1, Typed
<1> SUFFICES ASSUME UDP, faults = 0
             PROVE  \A d \in Ends : Peer(d) \notin link.hack /\ st'[d] # "done" =>
                      inflate'[d] # Off /\ Run(chan'[d], inflate'[d], sent'[Peer(d)])
  <2>1. faults' = 0 => faults = 0
    BY <1>1, <1>3
  <2> QED
    BY <1>1, <1>2, <2>1 DEF UdpInOrder, InOrder, Run, Before, Counted, Count
<1>4. ASSUME p \notin link.hack, st'[e] # "done"
      PROVE  inflate'[e] # Off /\ Run(chan'[e], inflate'[e], sent'[p])
  <2>1. inflate[e] # Off /\ Run(chan[e], inflate[e], sent[p]) /\ st[e] # "done"
    BY <1>1, <1>4 DEF Inv, UdpInOrder, InOrder, Onward
  <2>2. sent'[p] = sent[p]
    BY <1>1 DEF Bystander
  <2>3. CASE chan'[e] = chan[e] /\ inflate'[e] = inflate[e]
    BY <2>1, <2>2, <2>3
  <2>4. ASSUME chan[e] # <<>>, chan'[e] = Tail(chan[e]), inflate'[e] = chan[e][1].n
        PROVE  inflate'[e] # Off /\ Run(chan'[e], inflate'[e], sent'[p])
    <3>1. chan[e][1].n \in Nat
      BY <2>4, HeadSent DEF Frame
    <3>2. Run(Tail(chan[e]), chan[e][1].n, sent[p])
      BY <1>3, <2>1, <2>4, RunTail
    <3> QED
      BY <2>2, <2>4, <3>1, <3>2 DEF Off
  <2>5. CASE ReadsControl(e)
    <3>1. /\ chan[e] # <<>> /\ chan'[e] = Tail(chan[e]) /\ inflate'[e] = inflate[e]
          /\ chan[e][1].k # "DATA"
      BY <2>5 DEF ReadsControl
    <3>2. 1 \in 1 .. Len(chan[e])
      BY <1>3, <3>1
    <3>3. Counted(chan[e][1], Before(chan[e], inflate[e], 1))
      BY <2>1, <3>2 DEF Run
    <3>4. chan[e][1].n = inflate[e]
      BY <3>1, <3>3 DEF Counted, Before, Count
    <3> QED
      BY <2>4, <3>1, <3>4
  <2>6. CASE Decodes(e)
    <3>1. /\ chan[e] # <<>> /\ chan'[e] = Tail(chan[e]) /\ chan[e][1].k = "DATA"
          /\ inflate'[e] = IF InStep(e) THEN chan[e][1].n ELSE Off
      BY <1>2, <2>6 DEF Decodes
    <3>2. chan[e][1].n = inflate[e] + 1 /\ inflate[e] \in Nat
      BY <1>4, <2>1, <3>1, UdpInStep
    <3>3. InStep(e)
      BY <3>2 DEF InStep
    <3> QED
      BY <2>4, <3>1, <3>3
  <2> QED
    BY <1>1, <1>2, <1>4, <2>3, <2>5, <2>6 DEF Reads, ReadsNone, ReadsLength, Stops
<1>5. ASSUME e \notin link.hack, st'[p] # "done"
      PROVE  inflate'[p] # Off /\ Run(chan'[p], inflate'[p], sent'[e])
  <2>1. inflate[p] # Off /\ Run(chan[p], inflate[p], sent[e]) /\ st[p] # "done" /\ conn[e]
    BY <1>1, <1>5 DEF Inv, UdpInOrder, InOrder, Bystander, ConnOK
  <2>2. inflate'[p] = inflate[p]
    BY <1>1 DEF Bystander
  <2>3. CASE WritesNone(e)
    BY <2>1, <2>2, <2>3 DEF WritesNone
  <2>4. CASE WritesPacket(e)
    <3>1. PICK k \in Kinds :
            /\ sent'[e] = Count(k, sent[e])
            /\ \/ chan'[p] = Append(chan[p], [k |-> k, n |-> sent'[e]])
               \/ chan'[p] = chan[p] /\ k # "DATA"
      BY <2>1, <2>4 DEF WritesPacket
    <3>2. sent'[e] \in Nat
      BY <1>3, <3>1, SentUnits
    <3>3. CASE chan'[p] = Append(chan[p], [k |-> k, n |-> sent'[e]])
      <4> DEFINE f == [k |-> k, n |-> sent'[e]]
      <4>1. f \in Frame /\ Counted(f, sent[e]) /\ f.n = sent'[e]
        BY <3>1, <3>2, UnitsType DEF Counted
      <4> HIDE DEF f
      <4>2. Run(Append(chan[p], f), inflate[p], f.n)
        BY <1>3, <2>1, <4>1, RunAppend
      <4> QED
        BY <2>1, <2>2, <3>3, <4>1, <4>2 DEF f
    <3>4. CASE chan'[p] = chan[p] /\ k # "DATA"
      BY <2>1, <2>2, <3>1, <3>4 DEF Count
    <3> QED
      BY <3>1, <3>3, <3>4
  <2>5. CASE Quits(e)
    <3>1. chan'[p] = SubSeq(chan[p], 1, Len(chan[p])) /\ sent'[e] = sent[e]
      BY <2>5 DEF Quits
    <3>2. chan'[p] = chan[p]
      BY <1>3, <3>1
    <3> QED
      BY <2>1, <2>2, <3>1, <3>2
  <2> QED
    BY <1>1, <1>2, <2>3, <2>4, <2>5 DEF Writes, Begins, WritesUnit
<1> HIDE DEF p
<1> QED
  BY <1>1, <1>4, <1>5 DEF p
----------------------------------------------------------------------------
\* The network and the whole.

\* Whatever the network makes of the packets to e, of those that were sent.
LEMMA NetworkKeeps ==
  ASSUME Inv, NEW e \in Ends, NEW q \in Seq(Frame), AllSent(q, sent[Peer(e)]), Network(e, q)
  PROVE  Inv'
<1> DEFINE p == Peer(e)
<1>1. /\ UDP /\ Fault /\ chan' = [chan EXCEPT ![e] = q]
      /\ UNCHANGED <<link, st, dev, idle, term, conn, out, inflate, sent, got>>
  BY DEF Network
<1>2. /\ p \in Ends /\ p # e /\ \A d \in Ends : d = e \/ d = p
      /\ chan \in [Ends -> Seq(Frame)] /\ faults \in Nat /\ (TCP <=> ~UDP)
  BY PeerFact, Typed
<1>3. UDP' /\ ~TCP'
  BY <1>1, <1>2 DEF TCP, UDP
<1>4. faults' > 0
  BY <1>1, <1>2 DEF Fault
<1>5. faults' \in 0 .. MaxFaults
  BY <1>1, FaultCount
<1> HIDE DEF p
<1>6. chan' \in [Ends -> Seq(Frame)] /\ chan'[e] = q /\ chan'[p] = chan[p]
  BY <1>1, <1>2
<1>7. TypeOK'
  BY Typed, <1>1, <1>5, <1>6 DEF TypeOK, ControlOK, DataOK
<1>8. StartOK' /\ OutOK' /\ WholePackets' /\ ConnOK'
  BY <1>1, <1>3 DEF Inv, StartOK, OutOK, WholePackets, ConnOK, UDP
<1>9. FramesSent'
  BY <1>1, <1>2, <1>6 DEF Inv, FramesSent, p
<1>10. InflateOK' /\ StreamWhole'
  BY <1>3 DEF InflateOK, StreamWhole
<1>11. UdpInOrder'
  BY <1>4 DEF UdpInOrder
<1>12. InStepUnlessLoss'
  BY <1>1, <1>3, <1>4 DEF Inv, InStepUnlessLoss
<1> QED
  BY <1>7, <1>8, <1>9, <1>10, <1>11, <1>12 DEF Inv

\* The elements of a concatenation.
LEMMA Joined ==
  ASSUME NEW u \in Seq(Frame), NEW v \in Seq(Frame)
  PROVE  /\ u \o v \in Seq(Frame) /\ Len(u \o v) = Len(u) + Len(v)
         /\ \A j \in 1 .. Len(u) : (u \o v)[j] = u[j]
         /\ \A j \in 1 .. Len(v) : (u \o v)[Len(u) + j] = v[j]
<1>1. u \o v \in Seq(Frame) /\ Len(u \o v) = Len(u) + Len(v)
  OBVIOUS
<1>2. \A j \in 1 .. Len(u) : (u \o v)[j] = u[j]
  OBVIOUS
<1>3. \A j \in 1 .. Len(v) : (u \o v)[Len(u) + j] = v[j]
  OBVIOUS
<1> QED
  BY <1>1, <1>2, <1>3

\* The faults of a network that carries UDP.
LEMMA FaultyNetwork ==
  ASSUME Inv, NEW e \in Ends, Lose(e) \/ Duplicate(e) \/ Swap(e)
  PROVE  Inv'
<1> DEFINE c == chan[e]
           n == sent[Peer(e)]
<1>1. c \in Seq(Frame) /\ AllSent(c, n) /\ n \in Nat
  BY Typed, PeerFact DEF Inv, FramesSent
<1> HIDE DEF c, n
<1>2. ASSUME NEW q \in Seq(Frame),
             \A j \in 1 .. Len(q) : \E i \in 1 .. Len(c) : q[j] = c[i]
      PROVE  AllSent(q, n)
  BY <1>1, <1>2 DEF AllSent
<1>3. CASE Lose(e)
  <2>1. PICK i \in 1 .. Len(c) : Network(e, RemoveAt(c, i))
    BY <1>1, <1>3 DEF Lose, c
  <2> DEFINE u == SubSeq(c, 1, i - 1)
             v == SubSeq(c, i + 1, Len(c))
             q == u \o v
  <2>2. RemoveAt(c, i) = q
    BY DEF RemoveAt
  <2>3. /\ u \in Seq(Frame) /\ Len(u) = i - 1 /\ Len(c) \in Nat
        /\ \A j \in 1 .. i - 1 : u[j] = c[j]
    BY <1>1
  <2>4. /\ v \in Seq(Frame) /\ Len(v) = Len(c) - i
        /\ \A j \in 1 .. Len(c) - i : v[j] = c[i + j]
    BY <1>1
  <2> HIDE DEF u, v
  <2>5. /\ q \in Seq(Frame) /\ Len(q) = Len(u) + Len(v)
        /\ \A j \in 1 .. Len(u) : q[j] = u[j]
        /\ \A j \in 1 .. Len(v) : q[Len(u) + j] = v[j]
    BY <2>3, <2>4, Joined
  <2> HIDE DEF q
  <2>6. ASSUME NEW j \in 1 .. Len(q)
        PROVE  \E m \in 1 .. Len(c) : q[j] = c[m]
    <3>0. j \in 1 .. Len(c) - 1 /\ i \in 1 .. Len(c)
      BY <2>3, <2>4, <2>5
    <3>1. CASE j <= i - 1
      <4>1. j \in 1 .. i - 1 /\ j \in 1 .. Len(c)
        BY <2>3, <3>0, <3>1
      <4> QED
        BY <2>3, <2>5, <4>1
    <3>2. CASE j > i - 1
      <4> DEFINE l == j - (i - 1)
      <4>1. l \in 1 .. Len(c) - i /\ (i - 1) + l = j /\ i + l \in 1 .. Len(c)
        BY <2>3, <3>0, <3>2
      <4> HIDE DEF l
      <4>2. q[j] = c[i + l]
        BY <2>3, <2>4, <2>5, <4>1
      <4> QED
        BY <4>1, <4>2
    <3> QED
      BY <3>0, <3>1, <3>2
  <2> QED
    BY <1>2, <2>1, <2>2, <2>5, <2>6, NetworkKeeps DEF n
<1>4. CASE Duplicate(e)
  <2>1. c # <<>> /\ Network(e, <<Head(c)>> \o c)
    BY <1>4 DEF Duplicate, c
  <2> DEFINE q == <<Head(c)>> \o c
  <2>2. /\ q \in Seq(Frame) /\ Len(q) = Len(c) + 1 /\ q[1] = c[1] /\ Len(c) \in Nat \ {0}
        /\ \A j \in 2 .. Len(q) : q[j] = c[j - 1]
    BY <1>1, <2>1
  <2>3. \A j \in 1 .. Len(q) : \E i \in 1 .. Len(c) : q[j] = c[i]
    <3> HIDE DEF q
    <3> TAKE j \in 1 .. Len(q)
    <3>1. CASE j = 1
      BY <2>2, <3>1
    <3>2. CASE j # 1
      <4>1. j - 1 \in 1 .. Len(c) /\ j \in 2 .. Len(q)
        BY <2>2, <3>2
      <4> QED
        BY <2>2, <4>1
    <3> QED
      BY <3>1, <3>2
  <2> QED
    BY <1>2, <2>1, <2>2, <2>3, NetworkKeeps DEF n
<1>5. CASE Swap(e)
  <2>1. PICK i \in 1 .. Len(c) - 1 :
          Network(e, [c EXCEPT ![i] = c[i + 1], ![i + 1] = c[i]])
    BY <1>5 DEF Swap, c
  <2> DEFINE q == [c EXCEPT ![i] = c[i + 1], ![i + 1] = c[i]]
  <2>2. i \in 1 .. Len(c) /\ i + 1 \in 1 .. Len(c) /\ i # i + 1 /\ Len(c) \in Nat
    BY <1>1
  <2>3. c[i] \in Frame /\ c[i + 1] \in Frame /\ c \in [1 .. Len(c) -> Frame]
    BY <1>1, <2>2
  <2>4. /\ q \in [1 .. Len(c) -> Frame] /\ q[i] = c[i + 1] /\ q[i + 1] = c[i]
        /\ \A j \in 1 .. Len(c) : j # i /\ j # i + 1 => q[j] = c[j]
    BY <2>2, <2>3
  <2>5. q \in Seq(Frame) /\ Len(q) = Len(c)
    <3> HIDE DEF q
    <3> QED
      BY <2>2, <2>4
  <2>6. \A j \in 1 .. Len(q) : \E m \in 1 .. Len(c) : q[j] = c[m]
    <3> HIDE DEF q
    <3> QED
      BY <2>2, <2>4, <2>5
  <2> QED
    BY <1>2, <2>1, <2>5, <2>6, NetworkKeeps DEF n
<1> QED
  BY <1>3, <1>4, <1>5

\* Every step that has the shape keeps the invariant.
LEMMA ShapeKeeps ==
  ASSUME Inv, TypeOK', NEW e \in Ends, Shape(e)
  PROVE  Inv'
  BY KeepsControl, KeepsFramesSent, KeepsInStep, KeepsStreamWhole, KeepsUdpInOrder DEF Inv

\* The invariant holds when a session starts.
LEMMA InitInv == Init => Inv
<1> SUFFICES ASSUME Init PROVE Inv
  OBVIOUS
<1>1. link \in Links /\ link.frames \in Nat /\ link.ka_maxfail \in Nat /\ MaxFaults \in Nat
  BY LinkFact, LinkerAssumption DEF Init
<1>2. \A e \in Ends : Peer(e) \in Ends
  BY PeerFact
<1>3. \A e \in Ends :
        /\ st[e] = "start" /\ chan[e] = <<>> /\ out[e] = <<>> /\ inflate[e] = 0
        /\ sent[e] = 0 /\ got[e] = <<>>
  BY DEF Init
<1>4. ControlOK
  <2>1. 0 \in 0 .. link.ka_maxfail + 1 /\ faults \in 0 .. MaxFaults
    BY <1>1 DEF Init
  <2>2. conn \in [Ends -> BOOLEAN]
    BY Zenon DEF Init, TCP
  <2> QED
    BY <1>1, <2>1, <2>2 DEF Init, ControlOK, States, Linking
<1>5. DataOK
  BY <1>1 DEF Init, DataOK
<1>6. StartOK /\ OutOK /\ WholePackets /\ ConnOK
  BY <1>3 DEF StartOK, OutOK, WholePackets, ConnOK, Init
<1>7. FramesSent
  BY <1>3 DEF FramesSent, AllSent
<1>8. InflateOK /\ InStepUnlessLoss
  BY <1>3 DEF InflateOK, InStepUnlessLoss, Off
<1>9. StreamWhole
  <2> SUFFICES ASSUME NEW e \in Ends
               PROVE  Chained(Stream(e)) /\ UpToDate(Stream(e), sent[Peer(e)])
    BY DEF StreamWhole
  <2> DEFINE a == [k |-> "REST", n |-> 0]
             z == <<>>
  <2>1. Stream(e) = <<a>> \o z \o z
    BY <1>2, <1>3 DEF Stream, LastRead
  <2>2. a \in Frame /\ z \in Seq(Frame) /\ Len(z) = 0 /\ a.k = "REST" /\ a.n = 0
    BY DEF Frame
  <2> HIDE DEF a, z
  <2>3. Len(Stream(e)) = 1 /\ Stream(e)[1] = a
    BY <2>1, <2>2, StreamAt
  <2> QED
    BY <1>2, <1>3, <2>2, <2>3 DEF Chained, UpToDate
<1>10. UdpInOrder
  <2> SUFFICES ASSUME NEW e \in Ends PROVE InOrder(e)
    BY DEF UdpInOrder
  <2>1. chan[e] = <<>> /\ inflate[e] = 0 /\ sent[Peer(e)] = 0
    BY <1>2, <1>3
  <2> QED
    BY <2>1 DEF InOrder, Run, Before, Off
<1> QED
  BY <1>4, <1>5, <1>6, <1>7, <1>8, <1>9, <1>10 DEF Inv, TypeOK

\* Every step keeps the invariant.
LEMMA NextInv == Inv /\ [Next]_vars => Inv'
<1> SUFFICES ASSUME Inv, [Next]_vars PROVE Inv'
  OBVIOUS
<1>1. CASE UNCHANGED vars
  BY <1>1 DEF vars, Inv, TypeOK, ControlOK, DataOK, StartOK, OutOK, WholePackets, FramesSent,
     InflateOK, ConnOK, StreamWhole, Stream, LastRead, Writing, UdpInOrder, InOrder,
     InStepUnlessLoss, TCP, UDP
<1>2. ASSUME NEW e \in Ends, Lose(e) \/ Duplicate(e) \/ Swap(e)
      PROVE  Inv'
  BY <1>2, FaultyNetwork
<1>3. ASSUME NEW e \in Ends,
             \/ Step(e) \/ ReadDevice(e) \/ Verify(e) \/ Interrupted(e)
             \/ Signal(e) \/ Killed(e) \/ DeviceFails(e) \/ Refused(e)
      PROVE  Inv'
  <2>1. TypeOK' /\ Shape(e)
    BY <1>3, StartShape, WriteSomeShape, QuitShape, LeaveShape, ReadFrameShape, ReadBodyShape,
       CloseShape, DisconnectShape, ReadDeviceShape, VerifyShape, SignalShape
       DEF Step
  <2> QED
    BY <2>1, ShapeKeeps
<1> QED
  BY <1>1, <1>2, <1>3 DEF Next

\* The invariant of both ends of lfd_linker() and of what is under way between
\* them holds in every state of a session, over TCP and over UDP.
THEOREM Invariance == Spec => []Inv
  BY InitInv, NextInv, PTL DEF Spec

\* Every variable keeps its type: no frame is numbered beyond what a device
\* gave, no counter passes its bound.
THEOREM TypeSafe == Spec => []TypeOK
<1>1. Inv => TypeOK
  BY DEF Inv
<1> QED
  BY <1>1, Invariance, PTL

\* Over TCP what an end has read, what is under way and what its peer still
\* writes is one sequence of whole frames, however the two processes, the
\* signals and write_n()'s partial writes interleave.
THEOREM StreamStaysWhole == Spec => []StreamWhole
<1>1. Inv => StreamWhole
  BY DEF Inv
<1> QED
  BY <1>1, Invariance, PTL

\* A decompressor loses its stream only over UDP with zlib, and then only when
\* the network had a fault or udp_write() dropped frames under the NAT hack.
THEOREM StaysInStep == Spec => []InStepUnlessLoss
<1>1. Inv => InStepUnlessLoss
  BY DEF Inv
<1> QED
  BY <1>1, Invariance, PTL
----------------------------------------------------------------------------
\* The promise is kept.

opened == [d \in Ends |-> st[d] \in Linking]

\* A step of e leaves e as open as it was, or closes it.
LEMMA OpenStep ==
  ASSUME Inv, NEW e \in Ends, Shape(e)
  PROVE  /\ opened' = opened \/ (opened[e] /\ opened' = [opened EXCEPT ![e] = FALSE])
         /\ st'[e] \in Linking => st[e] \in Linking
<1> DEFINE p == Peer(e)
<1>1. /\ p \in Ends /\ p # e /\ \A d \in Ends : d = e \/ d = p
      /\ st'[p] = st[p] /\ (st'[e] \in Linking => st[e] \in Linking)
  BY PeerFact DEF Shape, Bystander, Onward
<1> HIDE DEF p
<1>2. opened' = [d \in Ends |-> st'[d] \in Linking]
  BY DEF opened
<1>3. CASE (st'[e] \in Linking) = (st[e] \in Linking)
  <2>1. \A d \in Ends : (st'[d] \in Linking) = (st[d] \in Linking)
    BY <1>1, <1>3
  <2>2. opened' = opened
    BY <1>2, <2>1, Zenon DEF opened
  <2> QED
    BY <1>1, <2>2
<1>4. CASE st'[e] \notin Linking /\ st[e] \in Linking
  <2>1. opened[e] /\ opened' = [opened EXCEPT ![e] = FALSE]
    <3>1. opened[e]
      BY <1>4 DEF opened
    <3>2. [opened EXCEPT ![e] = FALSE] = [d \in Ends |-> IF d = e THEN FALSE ELSE st[d] \in Linking]
      BY Zenon DEF opened
    <3>3. ASSUME NEW d \in Ends
          PROVE  (st'[d] \in Linking) = (IF d = e THEN FALSE ELSE st[d] \in Linking)
      <4>1. CASE d = e
        <5>1. (st'[e] \in Linking) = FALSE
          BY <1>4
        <5> QED
          BY <4>1, <5>1, Zenon
      <4>2. CASE d = p
        BY <1>1, <4>2
      <4> QED
        BY <1>1, <4>1, <4>2
    <3> QED
      BY <1>2, <3>1, <3>2, <3>3, Zenon
  <2> QED
    BY <1>1, <2>1
<1> QED
  BY <1>1, <1>3, <1>4

\* A step that takes nothing from a device and writes nothing to one is none
\* for the promise, or closes e.
LEMMA PromiseClose ==
  ASSUME Inv, NEW e \in Ends, Shape(e), UNCHANGED <<term, sent, got>>
  PROVE  [Promise!Next]_(Promise!vars)
<1>1. Promise!promise' = Promise!promise
  BY DEF Promise!promise, TCP, Shape
<1>2. CASE opened' = opened
  BY <1>1, <1>2 DEF opened, Promise!vars
<1>3. CASE opened[e] /\ opened' = [opened EXCEPT ![e] = FALSE]
  <2>1. Promise!Close(e)
    BY <1>1, <1>3 DEF opened, Promise!Close
  <2> QED
    BY <2>1 DEF Promise!Next
<1> QED
  BY <1>2, <1>3, OpenStep

\* To read a frame from the device is to send it.
LEMMA PromiseSend ==
  ASSUME Inv, NEW e \in Ends, ReadDevice(e)
  PROVE  Promise!Send(e)
<1>1. Shape(e)
  BY ReadDeviceShape
<1>2. Promise!promise' = Promise!promise
  BY <1>1 DEF Promise!promise, TCP, Shape
<1>3. opened' \in {opened, [opened EXCEPT ![e] = FALSE]}
  BY <1>1, OpenStep
<1>4. opened[e]
  BY DEF opened, ReadDevice, Linking
<1>5. sent' = [sent EXCEPT ![e] = @ + 1] /\ UNCHANGED <<got, term>>
  BY DEF ReadDevice
<1> QED
  BY <1>2, <1>3, <1>4, <1>5 DEF opened, Promise!Send

\* To get a signal is to be told to stop.
LEMMA PromiseTell ==
  ASSUME Inv, NEW e \in Ends, Signal(e)
  PROVE  Promise!Tell(e)
<1>1. link' = link /\ UNCHANGED <<st, sent, got>> /\ term' = [term EXCEPT ![e] = TRUE]
  BY DEF Signal
<1>2. Promise!promise' = Promise!promise /\ opened' = opened
  BY <1>1 DEF Promise!promise, TCP, opened
<1> QED
  BY <1>1, <1>2 DEF opened, Promise!Tell

\* A frame that a signal cut is the last.
LEMMA PromiseCut ==
  ASSUME Inv, NEW e \in Ends, Interrupted(e)
  PROVE  [Promise!Next]_(Promise!vars)
<1>1. Shape(e) /\ UNCHANGED <<sent, term>>
  BY QuitShape DEF Interrupted
<1>2. CASE got' = got
  BY <1>1, <1>2, PromiseClose
<1>3. CASE st[e] = "body" /\ got' = [got EXCEPT ![e] = Append(@, Spoilt)]
  <2>1. Promise!promise' = Promise!promise
    BY <1>1 DEF Promise!promise, TCP, Shape
  <2>2. opened[e] /\ term[e]
    BY <1>3 DEF opened, Linking, Interrupted
  <2>3. st'[e] = "close"
    BY <1>3, Typed DEF Interrupted, Goto
  <2>4. ~opened'[e]
    BY <2>3 DEF opened, Linking
  <2>5. opened' = [opened EXCEPT ![e] = FALSE]
    BY <1>1, <2>2, <2>4, OpenStep
  <2>6. Promise!Cut(e)
    BY <1>1, <1>3, <2>1, <2>2, <2>5 DEF opened, Spoilt, Promise!Cut
  <2> QED
    BY <2>6 DEF Promise!Next
<1> QED
  BY <1>2, <1>3 DEF Interrupted

\* A frame that is decoded was sent and, over TCP, is the next one.
LEMMA PromiseDecode ==
  ASSUME Inv, NEW e \in Ends, Shape(e), Decodes(e), UNCHANGED <<term, sent>>,
         Decode(e, chan[e][1].n)
  PROVE  [Promise!Next]_(Promise!vars)
<1> DEFINE n == chan[e][1].n
<1>1. Promise!promise' = Promise!promise
  BY DEF Promise!promise, TCP, Shape
<1>2. opened' \in {opened, [opened EXCEPT ![e] = FALSE]}
  BY OpenStep
<1>3. opened[e]
  BY DEF opened, Linking, Decodes
<1>4. CASE got' = got
  BY <1>4, PromiseClose
<1>5. CASE InStep(e) /\ got' = [got EXCEPT ![e] = Append(@, n)]
  <2>1. chan[e] # <<>> /\ n \in 0 .. sent[Peer(e)] /\ sent[Peer(e)] \in Nat
    BY HeadSent, Typed, PeerFact DEF Decodes
  <2>2. TCP => n = Len(got[e]) + 1
    BY TcpInStep DEF Decodes
  <2>3. n # 0
    <3>1. CASE TCP
      <4>1. Len(got[e]) \in Nat
        BY Typed
      <4> QED
        BY <2>2, <3>1, <4>1
    <3>2. CASE ~TCP
      BY <2>1, <3>2, HeadSent DEF Decodes
    <3> QED
      BY <3>1, <3>2
  <2>4. n \in 1 .. sent[Peer(e)]
    BY <2>1, <2>3
  <2> HIDE DEF n
  <2>5. Promise!Deliver(e)
    BY <1>1, <1>2, <1>3, <1>5, <2>2, <2>4 DEF opened, Promise!Deliver
  <2> QED
    BY <2>5 DEF Promise!Next
<1>6. CASE ~InStep(e) /\ got' = [got EXCEPT ![e] = Append(@, Spoilt)]
  <2>1. ~TCP /\ link.zlib
    <3>1. UDP /\ link.zlib
      BY <1>6 DEF Decodes, InStep
    <3> QED
      BY <3>1, Typed
  <2>2. Promise!Spoil(e)
    BY <1>1, <1>2, <1>3, <1>6, <2>1 DEF opened, Spoilt, Promise!Spoil
  <2> QED
    BY <2>2 DEF Promise!Next
<1> QED
  BY <1>4, <1>5, <1>6 DEF Decode, InStep, zlib_decomp

\* A session starts as the abstract one does.
LEMMA PromiseInit == Init => Promise!Init
<1> SUFFICES ASSUME Init PROVE Promise!Init
  OBVIOUS
<1>1. opened = [d \in Ends |-> TRUE]
  <2>1. \A d \in Ends : (st[d] \in Linking) = TRUE
    BY DEF Init, Linking
  <2> QED
    BY <2>1, Zenon DEF opened
<1>2. TCP \in BOOLEAN /\ (TCP \/ ~link.zlib) \in BOOLEAN
  BY DEF TCP
<1> QED
  BY <1>1, <1>2 DEF opened, Init, Promise!Init

\* Every step is one of the abstract session, or changes nothing that it knows of.
LEMMA PromiseStep == Inv /\ [Next]_vars => [Promise!Next]_(Promise!vars)
<1> SUFFICES ASSUME Inv, [Next]_vars
             PROVE  [Promise!Next]_(Promise!vars)
  OBVIOUS
<1>1. CASE UNCHANGED vars
  BY <1>1 DEF vars, Promise!vars, Promise!promise, TCP
<1>2. ASSUME NEW e \in Ends, Lose(e) \/ Duplicate(e) \/ Swap(e)
      PROVE  [Promise!Next]_(Promise!vars)
  <2>1. UNCHANGED <<link, st, term, sent, got>>
    BY <1>2 DEF Lose, Duplicate, Swap, Network
  <2> QED
    BY <2>1 DEF Promise!vars, Promise!promise, TCP
<1>3. ASSUME NEW e \in Ends, ReadDevice(e)
      PROVE  Promise!Next
  BY <1>3, PromiseSend DEF Promise!Next
<1>4. ASSUME NEW e \in Ends, Signal(e)
      PROVE  Promise!Next
  BY <1>4, PromiseTell DEF Promise!Next
<1>5. ASSUME NEW e \in Ends, Interrupted(e)
      PROVE  [Promise!Next]_(Promise!vars)
  BY <1>5, PromiseCut
<1>6. ASSUME NEW e \in Ends, ReadFrame(e)
      PROVE  [Promise!Next]_(Promise!vars)
  <2>1. /\ Shape(e) /\ UNCHANGED <<term, sent>>
        /\ got' = got \/ (Decodes(e) /\ Decode(e, chan[e][1].n))
    BY <1>6, ReadFrameShape DEF ReadFrame
  <2> QED
    BY <2>1, PromiseClose, PromiseDecode
<1>7. ASSUME NEW e \in Ends, ReadBody(e)
      PROVE  [Promise!Next]_(Promise!vars)
  <2>1. Shape(e) /\ UNCHANGED <<term, sent>> /\ Decodes(e) /\ Decode(e, chan[e][1].n)
    BY <1>7, ReadBodyShape DEF ReadBody
  <2> QED
    BY <2>1, PromiseDecode
<1>8. ASSUME NEW e \in Ends,
             \/ Start(e) \/ WriteSome(e) \/ WriteFails(e) \/ ReadNothing(e) \/ Leave(e)
             \/ Close(e) \/ CloseSocket(e) \/ Verify(e) \/ Killed(e) \/ DeviceFails(e)
             \/ Refused(e)
      PROVE  [Promise!Next]_(Promise!vars)
  <2>1. Shape(e)
    BY <1>8, StartShape, WriteSomeShape, QuitShape, LeaveShape, CloseShape, DisconnectShape,
       VerifyShape
  <2>2. UNCHANGED <<term, sent, got>>
    BY <1>8 DEF Start, WriteSome, WriteFails, ReadNothing, Leave, Close, CloseSocket, Verify,
       Killed, Disconnect, DeviceFails, Refused
  <2> QED
    BY <2>1, <2>2, PromiseClose
<1> QED
  BY <1>1, <1>2, <1>3, <1>4, <1>5, <1>6, <1>7, <1>8 DEF Next, Step

\* The session keeps its promise: over TCP each device is given the frames of
\* the other, all of them in order, each once and as they were, but for the
\* first part of one when a signal stops the process; over UDP only frames
\* that were sent, and spoilt ones only if zlib runs.
THEOREM PromiseKept == Spec => KeepsPromise
  BY Invariance, PromiseInit, PromiseStep, PTL DEF Spec, KeepsPromise, Promise!Spec
=============================================================================
