--------------------------- MODULE EncryptProofs ---------------------------
(***************************************************************************)
(* Proofs about the chained ciphers, for any pool of chaining values, any  *)
(* gibberish threshold, either kind of chaining and any number of packets  *)
(* in flight.                                                              *)
(***************************************************************************)
EXTENDS Encrypt, SequenceTheorems, TLAPS

\* What encrypt_buf() makes of an end, and of its input.
LEMMA EncodeType ==
  ASSUME NEW e \in Endpoint, NEW t \in Tokens
  PROVE  /\ encrypt_buf(e, t) \in Endpoint
         /\ ~encrypt_buf(e, t).crashed => Encoded(e, t) \in Packet
BY EncryptAssumption DEF Endpoint, Packet, EncStates, encrypt_buf, Encoded, send_msg,
  send_ib_mesg, cipher_enc_init

\* A count of 0 is within its bounds.
LEMMA ZeroGibberish == 0 \in 0 .. MAX_GIBBERISH
BY EncryptAssumption

\* A forced restart of the encryptor leaves the decryptor alone.
LEMMA ReinitType ==
  ASSUME NEW e \in Endpoint
  PROVE  /\ ForceReinit(e) \in Endpoint
         /\ ForceReinit(e).dec = e.dec /\ ForceReinit(e).dctx = e.dctx
BY EncryptAssumption DEF Endpoint, EncStates, ForceReinit

\* A packet that does not start the cipher leaves the decryptor waiting.
LEMMA GibberishType ==
  ASSUME NEW e \in Endpoint, NEW aged \in BOOLEAN
  PROVE  /\ Gibberish(e, aged) \in Endpoint
         /\ Gibberish(e, aged).dec = e.dec /\ Gibberish(e, aged).dctx = e.dctx
<1> DEFINE n == e.gibberish + 1
           m == IF n = 1 THEN [e EXCEPT !.enc = "REQ_INIT", !.send_a_packet = TRUE]
                ELSE e
           f == ForceReinit(m)
<1>1. m \in Endpoint /\ m.dec = e.dec /\ m.dctx = e.dctx
  BY DEF Endpoint, EncStates
<1>2. f \in Endpoint /\ f.dec = e.dec /\ f.dctx = e.dctx
  BY <1>1, ReinitType
<1>3. CASE n >= MAX_GIBBERISH \/ (n > 1 /\ aged)
  <2>1. Gibberish(e, aged) = [f EXCEPT !.gibberish = 0, !.send_a_packet = TRUE]
    BY <1>3 DEF Gibberish
  <2> HIDE DEF f
  <2> QED
    BY <1>2, <2>1, ZeroGibberish DEF Endpoint
<1>4. CASE ~(n >= MAX_GIBBERISH \/ (n > 1 /\ aged))
  <2>1. Gibberish(e, aged) = [m EXCEPT !.gibberish = n]
    BY <1>4 DEF Gibberish
  <2>2. n \in 0 .. MAX_GIBBERISH
    BY <1>4, EncryptAssumption DEF Endpoint
  <2> HIDE DEF m, n
  <2> QED
    BY <1>1, <2>1, <2>2 DEF Endpoint
<1> QED
  BY <1>3, <1>4

\* What decrypt_buf() makes of an end; a decryptor that runs has a context.
LEMMA DecodeType ==
  ASSUME NEW e \in Endpoint, NEW pkt \in Packet, NEW aged \in BOOLEAN
  PROVE  LET d == decrypt_buf(e, pkt, aged) IN
         /\ d \in Endpoint
         /\ (e.dec = "SEQUENCE" => e.dctx # None) =>
              (d.dec = "SEQUENCE" => d.dctx # None)
<1> DEFINE m  == recv_msg(e, pkt, aged)
           ok == Decodes(e, pkt)
           c  == IF ok \/ SelfSync THEN pkt.to ELSE Lost
           d  == [m EXCEPT !.dctx = c]
<1>1. CASE e.dec = "INIT" /\ ~pkt.ivec
  BY <1>1, GibberishType DEF decrypt_buf, recv_msg
<1>2. CASE ~(e.dec = "INIT" /\ ~pkt.ivec)
  <2>1. decrypt_buf(e, pkt, aged) = recv_ib_mesg(d, pkt, ok)
    BY <1>2 DEF decrypt_buf
  <2>2. m \in Endpoint
    <3>1. CASE e.dec # "INIT"
      BY <3>1 DEF recv_msg
    <3>2. CASE e.dec = "INIT"
      BY <1>2, <3>2, ZeroGibberish DEF Endpoint, Packet, recv_msg, cipher_dec_init
    <3> QED
      BY <3>1, <3>2
  <2>3. c \in Tokens \cup {Lost}
    BY DEF Packet
  <2> HIDE DEF m, ok, c
  <2>4. d \in Endpoint /\ d.dctx = c
    BY <2>2, <2>3 DEF Endpoint
  <2> HIDE DEF d
  <2>5. CASE ok
    BY <2>1, <2>3, <2>4, <2>5, ReinitType, EncryptAssumption DEF recv_ib_mesg
  <2>6. CASE ~ok
    <3>1. CASE d.enc = "SEQUENCE"
      <4>1. decrypt_buf(e, pkt, aged) =
              [d EXCEPT !.dctx = None, !.dec = "INIT", !.enc = "REQ_INIT"]
        BY <2>1, <2>6, <3>1 DEF recv_ib_mesg
      <4> QED
        BY <2>4, <4>1 DEF Endpoint, EncStates
    <3>2. CASE d.enc # "SEQUENCE"
      BY <2>1, <2>3, <2>4, <2>6, <3>2, EncryptAssumption DEF recv_ib_mesg
    <3> QED
      BY <3>1, <3>2
  <2> QED
    BY <2>5, <2>6
<1> QED
  BY <1>1, <1>2

----------------------------------------------------------------------------
\* A fresh chaining value, if there is one left.
LEMMA FreshIsAToken ==
  ASSUME NEW p, Tokens \ Used(p) # {}
  PROVE  Fresh(p) \in Tokens
BY DEF Fresh

\* The empty sequence.
LEMMA EmptyIffZero ==
  ASSUME NEW S, NEW s \in Seq(S)
  PROVE  s = <<>> <=> Len(s) = 0
<1>1. Len(<<>>) = 0
  OBVIOUS
<1>2. s # <<>> => Len(s) \in Nat \ {0}
  BY EmptySeq, Zenon
<1> QED
  BY <1>1, <1>2

\* The two ends, to each other.
LEMMA OtherPeer ==
  ASSUME NEW p \in Peers
  PROVE  Other(p) \in Peers /\ Other(p) # p /\ Other(Other(p)) = p
BY DEF Peers, Other

\* Encode() preserves the types of the two variables it changes, and touches
\* no decryptor.
LEMMA EncodeStep ==
  ASSUME TypeOK, NEW p \in Peers, NEW e \in Endpoint, NEW room, Encode(p, e, room),
         e.dec = ep[p].dec, e.dctx = ep[p].dctx
  PROVE  /\ ep' \in [Peers -> Endpoint] /\ chan' \in [Peers -> Seq(Packet)]
         /\ UNCHANGED <<SelfSync, faults>>
         /\ \A q \in Peers : ep'[q].dec = ep[q].dec /\ ep'[q].dctx = ep[q].dctx
<1> DEFINE t == Fresh(p)
           f == encrypt_buf(e, t)
<1>1. t \in Tokens
  BY FreshIsAToken DEF Encode
<1>2. f \in Endpoint /\ (~f.crashed => Encoded(e, t) \in Packet)
  BY <1>1, EncodeType
<1>3. f.dec = e.dec /\ f.dctx = e.dctx
  BY DEF encrypt_buf, send_msg, send_ib_mesg, cipher_enc_init, Endpoint
<1>4. ep' = [ep EXCEPT ![p] = f]
  BY DEF Encode
<1>5. chan' = chan \/ (~f.crashed /\ chan' = [chan EXCEPT ![Other(p)] = Append(@, Encoded(e, t))])
  BY <1>4 DEF Encode, TypeOK
<1> HIDE DEF f, t
<1>6. ep' \in [Peers -> Endpoint]
  BY <1>2, <1>4 DEF TypeOK
<1>7. chan' \in [Peers -> Seq(Packet)]
  <2>1. CASE chan' = chan
    BY <2>1 DEF TypeOK
  <2>2. CASE ~f.crashed /\ chan' = [chan EXCEPT ![Other(p)] = Append(@, Encoded(e, t))]
    <3>1. chan[Other(p)] \in Seq(Packet)
      BY OtherPeer DEF TypeOK
    <3>2. Append(chan[Other(p)], Encoded(e, t)) \in Seq(Packet)
      BY <1>2, <2>2, <3>1
    <3> QED
      BY <2>2, <3>2 DEF TypeOK
  <2> QED
    BY <1>5, <2>1, <2>2
<1> QED
  BY <1>3, <1>4, <1>6, <1>7 DEF Encode, TypeOK

\* decrypt_buf() keeps the types and never runs without a context.
LEMMA ReceiveStep ==
  ASSUME TypeOK, NEW p \in Peers, Receive(p)
  PROVE  /\ ep' \in [Peers -> Endpoint] /\ chan' \in [Peers -> Seq(Packet)]
         /\ DecryptorReady => DecryptorReady'
<1>1. PICK aged \in BOOLEAN : ep' = [ep EXCEPT ![p] = decrypt_buf(ep[p], Head(chan[p]), aged)]
  BY DEF Receive, TypeOK
<1>2. Head(chan[p]) \in Packet /\ Tail(chan[p]) \in Seq(Packet)
  BY HeadTailProperties DEF TypeOK, Receive
<1> DEFINE d == decrypt_buf(ep[p], Head(chan[p]), aged)
<1>3. /\ d \in Endpoint
      /\ (ep[p].dec = "SEQUENCE" => ep[p].dctx # None) =>
           (d.dec = "SEQUENCE" => d.dctx # None)
  BY <1>2, DecodeType DEF TypeOK
<1> HIDE DEF d
<1>4. ep' \in [Peers -> Endpoint]
  BY <1>1, <1>3 DEF TypeOK, d
<1>5. chan' \in [Peers -> Seq(Packet)]
  BY <1>2 DEF TypeOK, Receive
<1>6. ASSUME DecryptorReady PROVE DecryptorReady'
  <2> SUFFICES ASSUME NEW q \in Peers
               PROVE  ep'[q].dec = "SEQUENCE" => ep'[q].dctx # None
    BY DEF DecryptorReady
  <2>1. ep'[q] = IF q = p THEN d ELSE ep[q]
    BY <1>1 DEF TypeOK, d
  <2> QED
    BY <1>3, <1>6, <2>1 DEF DecryptorReady
<1> QED
  BY <1>4, <1>5, <1>6

\* The network only rearranges packets.
LEMMA NetworkStep ==
  ASSUME TypeOK, NEW p \in Peers, Lose(p) \/ Swap(p) \/ Duplicate(p)
  PROVE  /\ chan' \in [Peers -> Seq(Packet)]
         /\ UNCHANGED <<SelfSync, ep, rest>>
         /\ faults < MaxFaults /\ faults' = faults + 1
<1> DEFINE q == chan[p]
<1>0. q \in Seq(Packet) /\ Len(q) \in Nat /\ DOMAIN q = 1 .. Len(q)
  BY LenProperties DEF TypeOK
<1>1. CASE Lose(p)
  <2>1. PICK i \in DOMAIN q :
          Network(p, "lose", [j \in 1 .. Len(q) - 1 |-> q[IF j < i THEN j ELSE j + 1]])
    BY <1>1 DEF Lose
  <2>2. Len(q) - 1 \in Nat
    BY <1>0
  <2>3. \A j \in 1 .. Len(q) - 1 : q[IF j < i THEN j ELSE j + 1] \in Packet
    BY <1>0, ElementOfSeq
  <2>4. [j \in 1 .. Len(q) - 1 |-> q[IF j < i THEN j ELSE j + 1]] \in Seq(Packet)
    BY <2>2, <2>3, SeqDef
  <2> QED
    BY <2>1, <2>4 DEF Network, TypeOK
<1>2. CASE Swap(p)
  <2>1. PICK i \in 1 .. Len(q) - 1 :
          Network(p, "swap", [q EXCEPT ![i] = q[i + 1], ![i + 1] = q[i]])
    BY <1>2 DEF Swap
  <2>2. i \in 1 .. Len(q) /\ i + 1 \in 1 .. Len(q)
    BY <1>0
  <2>3. [q EXCEPT ![i] = q[i + 1], ![i + 1] = q[i]] \in Seq(Packet)
    BY <1>0, <2>2, ElementOfSeq, ExceptSeq
  <2> QED
    BY <2>1, <2>3 DEF Network, TypeOK
<1>3. CASE Duplicate(p)
  <2>1. <<Head(q)>> \o q \in Seq(Packet)
    BY <1>0, <1>3, HeadTailProperties DEF Duplicate
  <2> QED
    BY <1>3, <2>1 DEF Duplicate, Network, TypeOK
<1> QED
  BY <1>1, <1>2, <1>3

\* Every step keeps the types and the decryptor ready.
LEMMA TypeStep ==
  ASSUME TypeOK, [Next]_vars
  PROVE  TypeOK' /\ (DecryptorReady => DecryptorReady')
<1>1. ASSUME NEW p \in Peers, SendFiller(p)
      PROVE  TypeOK' /\ (DecryptorReady => DecryptorReady')
  <2> DEFINE e == [ep[p] EXCEPT !.send_a_packet = FALSE]
  <2>1. e \in Endpoint /\ e.dec = ep[p].dec /\ e.dctx = ep[p].dctx
    BY DEF TypeOK, Endpoint
  <2>2. Encode(p, e, MaxChan) /\ Remain(p, {"network", "device"})
    BY <1>1 DEF SendFiller
  <2> HIDE DEF e
  <2> QED
    BY <2>1, <2>2, EncodeStep DEF TypeOK, Remain, DecryptorReady
<1>2. ASSUME NEW p \in Peers, SendData(p)
      PROVE  TypeOK' /\ (DecryptorReady => DecryptorReady')
  <2>1. ep[p] \in Endpoint
    BY DEF TypeOK
  <2>2. Encode(p, ep[p], MaxData) /\ Remain(p, {})
    BY <1>2 DEF SendData
  <2> QED
    BY <2>1, <2>2, EncodeStep DEF TypeOK, Remain, DecryptorReady
<1>3. ASSUME NEW p \in Peers, Receive(p)
      PROVE  TypeOK' /\ (DecryptorReady => DecryptorReady')
  BY <1>3, ReceiveStep DEF TypeOK, Receive, Remain
<1>4. ASSUME NEW p \in Peers, Lose(p) \/ Swap(p) \/ Duplicate(p)
      PROVE  TypeOK' /\ (DecryptorReady => DecryptorReady')
  BY <1>4, NetworkStep, EncryptAssumption DEF TypeOK, DecryptorReady
<1>5. CASE UNCHANGED vars
  BY <1>5 DEF vars, TypeOK, DecryptorReady
<1> QED
  BY <1>1, <1>2, <1>3, <1>4, <1>5 DEF Next

\* A session starts with the types and no running decryptor.
LEMMA InitialState == Init => TypeOK /\ DecryptorReady
BY EncryptAssumption DEF Init, TypeOK, DecryptorReady

\* The state of both ends and every packet in flight are well typed; in
\* particular gibberish never exceeds its threshold.
THEOREM TypeCorrect == Spec => []TypeOK
BY InitialState, TypeStep, PTL DEF Spec

\* Whatever packets are lost, repeated or reordered, no packet is ever decoded
\* with a context that was cleaned up or never started.
THEOREM DecryptorAlwaysReady == Spec => []DecryptorReady
BY InitialState, TypeStep, PTL DEF Spec

----------------------------------------------------------------------------
\* Over a network that neither loses nor reorders.

\* Encoding while the ends are in step: the packet continues the chain, and
\* only the encryptor moves.
LEMMA EncodeInStep ==
  ASSUME NEW e \in Endpoint, NEW t \in Tokens, e.enc # "REQ_INIT",
         e.enc = "SEQUENCE" => e.ectx # None
  PROVE  LET f == encrypt_buf(e, t)
             k == Encoded(e, t)
         IN  /\ f.enc = "SEQUENCE" /\ f.ectx = t /\ f.crashed = e.crashed
             /\ f.dec = e.dec /\ f.dctx = e.dctx /\ f.gibberish = e.gibberish
             /\ k.tag = "seq#" /\ k.to = t
             /\ e.enc = "INIT" => k.ivec
             /\ e.enc = "SEQUENCE" => ~k.ivec /\ k.from = e.ectx
<1>1. CASE e.enc = "INIT"
  BY <1>1, EncryptAssumption DEF Endpoint, encrypt_buf, Encoded, send_msg,
    send_ib_mesg, cipher_enc_init
<1>2. CASE e.enc = "SEQUENCE"
  BY <1>2, EncryptAssumption DEF Endpoint, encrypt_buf, Encoded, send_msg,
    send_ib_mesg
<1> QED
  BY <1>1, <1>2 DEF Endpoint, EncStates

\* Decoding a packet of the chain: only the decryptor moves.
LEMMA DecodeInStep ==
  ASSUME NEW e \in Endpoint, NEW pkt \in Packet, NEW aged \in BOOLEAN,
         Decodes(e, pkt), pkt.tag = "seq#", e.gibberish = 0
  PROVE  LET d == decrypt_buf(e, pkt, aged)
         IN  /\ d.dec = "SEQUENCE" /\ d.dctx = pkt.to /\ d.gibberish = 0
             /\ d.enc = e.enc /\ d.ectx = e.ectx /\ d.crashed = e.crashed
<1>1. CASE e.dec = "INIT"
  BY <1>1 DEF Endpoint, Packet, Decodes, decrypt_buf, recv_msg, recv_ib_mesg,
    cipher_dec_init
<1>2. CASE e.dec = "SEQUENCE"
  BY <1>2 DEF Endpoint, Packet, Decodes, decrypt_buf, recv_msg, recv_ib_mesg
<1> QED
  BY <1>1, <1>2 DEF Endpoint

TcpInv == Path /\ InStep /\ NeverWithoutCipher

\* A packet that is sent extends the path of the packets under way.
LEMMA EncodeKeepsPath ==
  ASSUME TypeOK, TcpInv, NEW p \in Peers, NEW e \in Endpoint, NEW room,
         Encode(p, e, room), e.enc = ep[p].enc, e.ectx = ep[p].ectx,
         e.dec = ep[p].dec, e.dctx = ep[p].dctx,
         e.gibberish = ep[p].gibberish, e.crashed = ep[p].crashed
  PROVE  TcpInv'
<1> DEFINE t == Fresh(p)
           f == encrypt_buf(e, t)
           k == Encoded(e, t)
           r == Other(p)
           c == chan[r]
<1>1. t \in Tokens /\ t # None
  BY FreshIsAToken, EncryptAssumption DEF Encode
<1>2. r \in Peers /\ r # p /\ Other(r) = p /\ \A x \in Peers : x = p \/ x = r
  BY DEF Peers, Other
<1>3. Chained(p) /\ Chained(r)
  BY <1>2 DEF TcpInv, Path
<1>4. e.enc # "REQ_INIT" /\ (e.enc = "SEQUENCE" => e.ectx # None) /\ ~e.crashed
  BY <1>2, <1>3 DEF TcpInv, InStep, NeverWithoutCipher, Chained
<1>5. /\ f.enc = "SEQUENCE" /\ f.ectx = t /\ ~f.crashed
      /\ f.dec = e.dec /\ f.dctx = e.dctx /\ f.gibberish = e.gibberish
      /\ k.tag = "seq#" /\ k.to = t
      /\ e.enc = "INIT" => k.ivec
      /\ e.enc = "SEQUENCE" => ~k.ivec /\ k.from = e.ectx
  BY <1>1, <1>4, EncodeInStep
<1>6. k \in Packet /\ f \in Endpoint
  BY <1>1, <1>5, EncodeType
<1>7. ep' = [ep EXCEPT ![p] = f]
  BY DEF Encode
<1>8. ep'[p] = f /\ ep'[r] = ep[r]
  BY <1>2, <1>7 DEF TypeOK
<1>9. chan' = [chan EXCEPT ![r] = Append(c, k)]
  BY <1>5, <1>8 DEF Encode
<1> HIDE DEF t, f, k
<1>10. c \in Seq(Packet) /\ chan[p] \in Seq(Packet)
  BY <1>2 DEF TypeOK
<1>11. chan'[r] = Append(c, k) /\ chan'[p] = chan[p]
  BY <1>2, <1>9 DEF TypeOK
<1>12. /\ Len(Append(c, k)) = Len(c) + 1 /\ Len(c) \in Nat
       /\ \A i \in 1 .. Len(c) : Append(c, k)[i] = c[i]
       /\ Append(c, k)[Len(c) + 1] = k
       /\ Append(c, k) # <<>>
       /\ c = <<>> <=> Len(c) = 0
       /\ DOMAIN Append(c, k) = 1 .. Len(c) + 1 /\ DOMAIN c = 1 .. Len(c)
  BY <1>6, <1>10, AppendProperties, EmptySeq, LenProperties
<1>13. Chained(p)'
  BY <1>2, <1>3, <1>5, <1>8, <1>11 DEF Chained, Decodes
<1>14. Chained(r)'
  <2>1. CASE c = <<>>
    <3>1. Decodes(ep[r], k)
      BY <1>2, <1>3, <1>5, <2>1 DEF Chained, Decodes
    <3> QED
      BY <1>1, <1>2, <1>5, <1>8, <1>11, <1>12, <2>1, <3>1 DEF Chained
  <2>2. CASE c # <<>>
    <3>1. /\ e.enc = "SEQUENCE" /\ Decodes(ep[r], c[1])
          /\ \A i \in 2 .. Len(c) : ~c[i].ivec /\ c[i].from = c[i - 1].to
          /\ c[Len(c)].to = e.ectx
      BY <1>2, <1>3, <2>2 DEF Chained
    <3>2. \A i \in 2 .. Len(c) + 1 :
            ~Append(c, k)[i].ivec /\ Append(c, k)[i].from = Append(c, k)[i - 1].to
      <4> SUFFICES ASSUME NEW i \in 2 .. Len(c) + 1
                   PROVE  ~Append(c, k)[i].ivec /\ Append(c, k)[i].from = Append(c, k)[i - 1].to
        OBVIOUS
      <4>1. CASE i = Len(c) + 1
        BY <1>5, <1>12, <3>1, <4>1
      <4>2. CASE i # Len(c) + 1
        BY <1>12, <3>1, <4>2
      <4> QED
        BY <4>1, <4>2
    <3> QED
      BY <1>1, <1>2, <1>5, <1>8, <1>11, <1>12, <2>2, <3>1, <3>2 DEF Chained
  <2> QED
    BY <2>1, <2>2
<1>15. InStep'
  <2>1. ep'[p].gibberish = 0 /\ ep'[p].enc # "REQ_INIT"
    BY <1>5, <1>8 DEF TcpInv, InStep
  <2>2. \A i \in DOMAIN chan'[r] : chan'[r][i].tag = "seq#"
    BY <1>2, <1>5, <1>11, <1>12 DEF TcpInv, InStep
  <2> QED
    BY <1>2, <1>8, <1>11, <2>1, <2>2 DEF TcpInv, InStep
<1>16. NeverWithoutCipher'
  BY <1>2, <1>5, <1>8 DEF TcpInv, NeverWithoutCipher
<1> QED
  BY <1>2, <1>13, <1>14, <1>15, <1>16 DEF TcpInv, Path

\* A packet that is read shortens it.
LEMMA ReceiveKeepsPath ==
  ASSUME TypeOK, TcpInv, NEW p \in Peers, Receive(p)
  PROVE  TcpInv'
<1> DEFINE c == chan[p]
           r == Other(p)
<1>1. PICK aged \in BOOLEAN : ep' = [ep EXCEPT ![p] = decrypt_buf(ep[p], Head(c), aged)]
  BY DEF Receive, TypeOK
<1> DEFINE d == decrypt_buf(ep[p], Head(c), aged)
<1>2. r \in Peers /\ r # p /\ Other(r) = p /\ \A x \in Peers : x = p \/ x = r
  BY DEF Peers, Other
<1>3. /\ c \in Seq(Packet) /\ c # <<>> /\ Len(c) \in Nat \ {0}
      /\ Head(c) \in Packet /\ Head(c) = c[1] /\ DOMAIN c = 1 .. Len(c)
  BY LenProperties, EmptySeq, HeadTailProperties DEF TypeOK, Receive
<1>4. /\ Tail(c) \in Seq(Packet) /\ Len(Tail(c)) = Len(c) - 1
      /\ \A i \in 1 .. Len(c) - 1 : Tail(c)[i] = c[i + 1]
      /\ DOMAIN Tail(c) = 1 .. Len(c) - 1
      /\ Tail(c) = <<>> <=> Len(c) = 1
  <2>1. Tail(c) \in Seq(Packet) /\ Len(Tail(c)) = Len(c) - 1
    BY <1>3
  <2>2. \A i \in 1 .. Len(c) - 1 : Tail(c)[i] = c[i + 1]
    BY <1>3
  <2>3. DOMAIN Tail(c) = 1 .. Len(c) - 1
    BY <2>1, LenProperties
  <2>4. Tail(c) = <<>> <=> Len(c) = 1
    <3>1. Tail(c) = <<>> <=> Len(Tail(c)) = 0
      BY <2>1, EmptyIffZero, Zenon
    <3> QED
      BY <1>3, <2>1, <3>1
  <2> QED
    BY <2>1, <2>2, <2>3, <2>4
<1>5. /\ ep[r].enc = "SEQUENCE" /\ ep[r].ectx # None
      /\ Decodes(ep[p], c[1])
      /\ \A i \in 2 .. Len(c) : ~c[i].ivec /\ c[i].from = c[i - 1].to
      /\ c[Len(c)].to = ep[r].ectx
  BY <1>3 DEF TcpInv, Path, Chained
<1>6. c[1].tag = "seq#" /\ ep[p].gibberish = 0 /\ ep[p] \in Endpoint
  BY <1>3 DEF TcpInv, InStep, TypeOK
<1>7. /\ d.dec = "SEQUENCE" /\ d.dctx = c[1].to /\ d.gibberish = 0
      /\ d.enc = ep[p].enc /\ d.ectx = ep[p].ectx /\ d.crashed = ep[p].crashed
  BY <1>3, <1>5, <1>6, DecodeInStep
<1>8. ep'[p] = d /\ ep'[r] = ep[r]
  BY <1>1, <1>2 DEF TypeOK
<1>9. chan'[p] = Tail(c) /\ chan'[r] = chan[r]
  BY <1>2 DEF Receive, TypeOK
<1> HIDE DEF d
<1>10. Chained(p)'
  <2>1. CASE Len(c) = 1
    BY <1>2, <1>4, <1>5, <1>7, <1>8, <1>9, <2>1 DEF Chained
  <2>2. CASE Len(c) # 1
    <3>1. Decodes(d, Tail(c)[1])
      BY <1>3, <1>4, <1>5, <1>7, <2>2 DEF Decodes
    <3>2. \A i \in 2 .. Len(Tail(c)) :
            ~Tail(c)[i].ivec /\ Tail(c)[i].from = Tail(c)[i - 1].to
      BY <1>3, <1>4, <1>5
    <3>3. Tail(c)[Len(Tail(c))].to = ep[r].ectx
      BY <1>3, <1>4, <1>5, <2>2
    <3> QED
      BY <1>2, <1>4, <1>5, <1>8, <1>9, <2>2, <3>1, <3>2, <3>3 DEF Chained
  <2> QED
    BY <2>1, <2>2
<1>11. Chained(r)'
  BY <1>2, <1>7, <1>8, <1>9 DEF TcpInv, Path, Chained, Decodes
<1>12. InStep'
  <2>1. \A i \in DOMAIN Tail(c) : Tail(c)[i].tag = "seq#"
    <3>1. \A i \in 1 .. Len(c) : c[i].tag = "seq#"
      BY <1>3 DEF TcpInv, InStep
    <3> QED
      BY <1>3, <1>4, <3>1
  <2> QED
    <3> SUFFICES ASSUME NEW x \in Peers
                 PROVE  /\ ep'[x].gibberish = 0 /\ ep'[x].enc # "REQ_INIT"
                        /\ \A i \in DOMAIN chan'[x] : chan'[x][i].tag = "seq#"
      BY DEF InStep
    <3>1. CASE x = p
      BY <1>7, <1>8, <1>9, <2>1, <3>1 DEF TcpInv, InStep
    <3>2. CASE x = r
      BY <1>8, <1>9, <3>2 DEF TcpInv, InStep
    <3> QED
      BY <1>2, <3>1, <3>2
<1>13. NeverWithoutCipher'
  BY <1>2, <1>7, <1>8 DEF TcpInv, NeverWithoutCipher
<1> QED
  BY <1>2, <1>10, <1>11, <1>12, <1>13 DEF TcpInv, Path

\* Every step without a fault keeps the path.
LEMMA TcpStep ==
  ASSUME TypeOK, TcpInv, [Next]_vars, faults' = 0
  PROVE  TcpInv'
<1>1. ASSUME NEW p \in Peers, SendFiller(p) PROVE TcpInv'
  <2> DEFINE e == [ep[p] EXCEPT !.send_a_packet = FALSE]
  <2>1. /\ e \in Endpoint /\ e.enc = ep[p].enc /\ e.ectx = ep[p].ectx
        /\ e.dec = ep[p].dec /\ e.dctx = ep[p].dctx
        /\ e.gibberish = ep[p].gibberish /\ e.crashed = ep[p].crashed
    BY ZenonT(30) DEF TypeOK, Endpoint
  <2>2. Encode(p, e, MaxChan)
    BY <1>1 DEF SendFiller
  <2> HIDE DEF e
  <2> QED
    BY <2>1, <2>2, EncodeKeepsPath
<1>2. ASSUME NEW p \in Peers, SendData(p) PROVE TcpInv'
  <2>1. ep[p] \in Endpoint /\ Encode(p, ep[p], MaxData)
    BY <1>2 DEF SendData, TypeOK
  <2> QED
    BY <2>1, EncodeKeepsPath
<1>3. ASSUME NEW p \in Peers, Receive(p) PROVE TcpInv'
  BY <1>3, ReceiveKeepsPath
<1>4. ASSUME NEW p \in Peers, Lose(p) \/ Swap(p) \/ Duplicate(p) PROVE FALSE
  BY <1>4 DEF TypeOK, Lose, Swap, Duplicate, Network
<1>5. CASE UNCHANGED vars
  BY <1>5 DEF vars, TcpInv, Path, Chained, Decodes, InStep, NeverWithoutCipher
<1> QED
  BY <1>1, <1>2, <1>3, <1>4, <1>5 DEF Next

\* The path is empty at first.
LEMMA TcpInitially == Init => TcpInv
<1> SUFFICES ASSUME Init PROVE TcpInv
  OBVIOUS
<1>1. \A p \in Peers : /\ ep[p].enc = "INIT" /\ ep[p].dec = "INIT"
                       /\ ep[p].gibberish = 0 /\ ~ep[p].crashed
                       /\ chan[p] = <<>>
  BY DEF Init
<1>2. \A p \in Peers : DOMAIN chan[p] = {}
  BY <1>1
<1> QED
  BY <1>1, <1>2, OtherPeer DEF TcpInv, Path, Chained, InStep, NeverWithoutCipher

\* Faults are not forgotten.
LEMMA FaultsStay ==
  ASSUME TypeOK, [Next]_vars, faults' = 0
  PROVE  faults = 0
<1>1. ASSUME NEW p \in Peers, SendFiller(p) \/ Receive(p) \/ SendData(p)
      PROVE  faults' = faults
  BY <1>1 DEF SendFiller, Receive, SendData, Encode
<1>2. ASSUME NEW p \in Peers, Lose(p) \/ Swap(p) \/ Duplicate(p) PROVE FALSE
  BY <1>2 DEF TypeOK, Lose, Swap, Duplicate, Network
<1> QED
  BY <1>1, <1>2 DEF Next, vars

\* The ends are in step until the network's first fault.
LEMMA UntilLoss == Spec => [](faults = 0 => TcpInv)
<1>1. Init => (faults = 0 => TcpInv)
  BY TcpInitially
<1>2. TypeOK /\ (faults = 0 => TcpInv) /\ [Next]_vars => (faults = 0 => TcpInv)'
  BY TcpStep, FaultsStay
<1> QED
  BY <1>1, <1>2, TypeCorrect, PTL DEF Spec

\* Over TCP, and over UDP until the first loss, the packets in flight lead
\* from one end's chaining value to the other's.
THEOREM ChainUnbroken == Spec => []PathUntilLoss
<1>1. (faults = 0 => TcpInv) => PathUntilLoss
  BY DEF TcpInv, PathUntilLoss
<1> QED
  BY <1>1, UntilLoss, PTL

\* Over TCP, and over UDP until the first loss, no packet is gibberish, no
\* cipher is restarted, and nothing is encoded without one.
THEOREM NoNeedlessRestart == Spec => []InStepUntilLoss
<1>1. (faults = 0 => TcpInv) => InStepUntilLoss
  BY DEF TcpInv, InStepUntilLoss
<1> QED
  BY <1>1, UntilLoss, PTL
=============================================================================
