------------------------------ MODULE Encrypt ------------------------------
(***************************************************************************)
(* lfd_encrypt.c with a chained cipher (any mode but ECB): how the two     *)
(* ends of a tunnel start their ciphers, notice that packets were lost and *)
(* start them again.                                                       *)
(*                                                                         *)
(* A chained cipher is abstracted to its chaining value.  Every packet     *)
(* moves the sender's from one token to a fresh one, and is decoded if the *)
(* receiver's chaining value is the one the packet was encoded with.       *)
(***************************************************************************)
EXTENDS Naturals, Sequences, FiniteSets

CONSTANTS
  Tokens,         \* chaining values; a bound on how many are in use at once
  None,           \* no cipher context: never initialised, or cleaned up
  Lost,           \* a chaining value that no packet will ever match
  Ciphers,        \* the modes to consider: TRUE for CBC and CFB, FALSE for OFB
  MAX_GIBBERISH,  \* 10 in the source
  Faults,         \* what the network does to packets; nothing if it is TCP
  MaxFaults,      \* bound on how often
  MaxData,        \* bound on the packets in flight when a device is read
  MaxChan         \* bound on the packets in flight at all, in one direction

ASSUME EncryptAssumption ==
  /\ None \notin Tokens /\ Lost \notin Tokens /\ None # Lost
  /\ Ciphers \subseteq BOOLEAN
  /\ MAX_GIBBERISH \in Nat \ {0, 1}
  /\ Faults \subseteq {"lose", "swap", "duplicate"}
  /\ MaxFaults \in Nat
  /\ MaxData \in Nat /\ MaxChan \in Nat

Peers == {1, 2}
Other(p) == 3 - p

VARIABLES
  SelfSync,  \* CBC and CFB find the chain again after a packet, OFB does not
  ep,      \* each end's lfd_encrypt state and its linker's send_a_packet
  chan,    \* chan[p]: the packets on their way to p
  rest,    \* what is left of p's iteration of lfd_linker()'s loop
  faults

vars == <<SelfSync, ep, chan, rest, faults>>

Packet == [ivec : BOOLEAN, from : Tokens, to : Tokens,
           tag : {"seq#", "rsyn"}]

EncStates == {"INIT", "SEQUENCE", "REQ_INIT"}

\* enc, dec: cipher_enc_state, cipher_dec_state.  ectx, dctx: ctx_enc, ctx_dec.
Endpoint == [enc : EncStates, dec : {"INIT", "SEQUENCE"},
             ectx : Tokens \cup {None}, dctx : Tokens \cup {None, Lost},
             gibberish : 0 .. MAX_GIBBERISH, send_a_packet : BOOLEAN,
             crashed : BOOLEAN]

\* alloc_encrypt(), at the start of a session.  send_a_packet is not among
\* what it resets, and a client that reconnects keeps the old value.
Init ==
  /\ SelfSync \in Ciphers
  /\ ep \in [Peers -> {e \in Endpoint :
                         /\ e.enc = "INIT" /\ e.dec = "INIT"
                         /\ e.ectx = None /\ e.dctx = None
                         /\ e.gibberish = 0 /\ ~e.crashed}]
  /\ chan = [p \in Peers |-> <<>>]
  /\ rest = [p \in Peers |-> {}]
  /\ faults = 0

----------------------------------------------------------------------------
\* Encoding.

\* Faulty: the context is not initialised.
cipher_enc_init_skipped(e, iv) == e

cipher_enc_init(e, iv) == [e EXCEPT !.ectx = iv]

send_msg(e, iv) ==
  IF e.enc = "INIT" THEN [cipher_enc_init(e, iv) EXCEPT !.enc = "SEQUENCE"]
  ELSE e

send_ib_mesg(e) ==
  IF e.enc = "REQ_INIT" THEN [e EXCEPT !.enc = "SEQUENCE", !.send_a_packet = TRUE]
  ELSE e

\* t is the chaining value after the packet; if the packet carries an
\* initialisation vector, t stands for that as well.  EVP_EncryptUpdate() on
\* a context without a cipher follows a null pointer.
encrypt_buf(e, t) ==
  LET m == send_msg(e, t)
  IN  IF m.ectx = None THEN [m EXCEPT !.crashed = TRUE]
      ELSE [send_ib_mesg(m) EXCEPT !.ectx = t]

\* The packet that encrypt_buf(e, t) produces.
Encoded(e, t) ==
  LET m == send_msg(e, t)
  IN  [ivec |-> e.enc = "INIT", from |-> m.ectx, to |-> t,
       tag |-> IF m.enc = "REQ_INIT" THEN "rsyn" ELSE "seq#"]

----------------------------------------------------------------------------
\* Decoding.

cipher_dec_init(e, iv) == [e EXCEPT !.dctx = iv]

\* Throw the encryptor away, unless that has been done.
ForceReinit(e) ==
  IF e.enc # "INIT" THEN [e EXCEPT !.enc = "INIT", !.ectx = None] ELSE e

\* A packet without the vector that starts the cipher.  aged: the first such
\* packet came MAX_GIBBERISH_TIME seconds ago, which the first never did.
Gibberish(e, aged) ==
  LET n == e.gibberish + 1
      m == IF n = 1 THEN [e EXCEPT !.enc = "REQ_INIT", !.send_a_packet = TRUE]
           ELSE e
  IN  IF n >= MAX_GIBBERISH \/ (n > 1 /\ aged)
      THEN [ForceReinit(m) EXCEPT !.gibberish = 0, !.send_a_packet = TRUE]
      ELSE [m EXCEPT !.gibberish = n]

recv_msg(e, pkt, aged) ==
  IF e.dec # "INIT" THEN e
  ELSE IF pkt.ivec
       THEN [cipher_dec_init(e, pkt.from) EXCEPT !.dec = "SEQUENCE", !.gibberish = 0]
       ELSE Gibberish(e, aged)

\* EVP_DecryptUpdate() finds what EVP_EncryptUpdate() was given.  A vector is
\* noise to a decryptor that is already running.
Decodes(e, pkt) ==
  \/ e.dec = "INIT" /\ pkt.ivec
  \/ e.dec = "SEQUENCE" /\ ~pkt.ivec /\ e.dctx = pkt.from

\* Faulty: the decryptor is not restarted; the context is cleaned up and the
\* state kept.
recv_ib_mesg_running(e, pkt, ok) ==
  IF ok THEN IF pkt.tag = "rsyn" THEN ForceReinit(e) ELSE e
  ELSE IF e.enc = "SEQUENCE" THEN [e EXCEPT !.enc = "REQ_INIT"] ELSE e

recv_ib_mesg_cleaned(e, pkt, ok) ==
  IF ok THEN IF pkt.tag = "rsyn" THEN ForceReinit(e) ELSE e
  ELSE IF e.enc = "SEQUENCE" THEN [e EXCEPT !.dctx = None, !.enc = "REQ_INIT"]
  ELSE e

recv_ib_mesg(e, pkt, ok) ==
  IF ok THEN IF pkt.tag = "rsyn" THEN ForceReinit(e) ELSE e
  ELSE IF e.enc = "SEQUENCE"
       THEN [e EXCEPT !.dctx = None, !.dec = "INIT", !.enc = "REQ_INIT"]
       ELSE e

decrypt_buf(e, pkt, aged) ==
  LET m  == recv_msg(e, pkt, aged)
      ok == Decodes(e, pkt)
      d  == [m EXCEPT !.dctx = IF ok \/ SelfSync THEN pkt.to ELSE Lost]
  IN  IF e.dec = "INIT" /\ ~pkt.ivec THEN m ELSE recv_ib_mesg(d, pkt, ok)

----------------------------------------------------------------------------
\* The linker's loop, as far as it drives the module.  An iteration sends the
\* packet the module asked for, then reads from the network, then from the
\* device; each may be skipped, the order is fixed.

\* The chaining values in use from p to the other end.
Used(p) ==
  LET q == chan[Other(p)] IN
  {ep[p].ectx, ep[Other(p)].dctx} \cup UNION {{q[i].from, q[i].to} : i \in DOMAIN q}

Fresh(p) == CHOOSE t \in Tokens : t \notin Used(p)

Encode(p, e, room) ==
  /\ Len(chan[Other(p)]) < room
  /\ Tokens \ Used(p) # {}
  /\ ep' = [ep EXCEPT ![p] = encrypt_buf(e, Fresh(p))]
  /\ chan' = IF ep'[p].crashed THEN chan
             ELSE [chan EXCEPT ![Other(p)] = Append(@, Encoded(e, Fresh(p)))]
  /\ UNCHANGED <<SelfSync, faults>>

\* A step of the next iteration comes after its SendFiller; nothing needs to be
\* remembered of this one when there is no filler to come.
Turn(p, source) == source \in rest[p] \/ ~ep[p].send_a_packet

Remain(p, sources) ==
  rest' = [rest EXCEPT ![p] = IF ep'[p].send_a_packet THEN sources ELSE {}]

\* if (send_a_packet): one byte of whatever the buffer holds.
SendFiller(p) ==
  /\ ~ep[p].crashed /\ ep[p].send_a_packet
  /\ Encode(p, [ep[p] EXCEPT !.send_a_packet = FALSE], MaxChan)
  /\ Remain(p, {"network", "device"})

Receive(p) ==
  /\ ~ep[p].crashed /\ Turn(p, "network")
  /\ chan[p] # <<>>
  /\ \E aged \in BOOLEAN : ep' = [ep EXCEPT ![p] = decrypt_buf(@, Head(chan[p]), aged)]
  /\ chan' = [chan EXCEPT ![p] = Tail(@)]
  /\ Remain(p, {"device"})
  /\ UNCHANGED <<SelfSync, faults>>

SendData(p) ==
  /\ ~ep[p].crashed /\ Turn(p, "device")
  /\ Encode(p, ep[p], MaxData)
  /\ Remain(p, {})

----------------------------------------------------------------------------
\* The network, when it is UDP.  Swapped and duplicated packets are considered
\* with CBC and CFB: the chain of OFB they may heal.

Network(p, fault, queue) ==
  /\ fault \in Faults /\ faults < MaxFaults
  /\ fault = "lose" \/ SelfSync
  /\ faults' = faults + 1
  /\ chan' = [chan EXCEPT ![p] = queue]
  /\ UNCHANGED <<SelfSync, ep, rest>>

Lose(p) ==
  \E i \in DOMAIN chan[p] :
    Network(p, "lose",
            [j \in 1 .. Len(chan[p]) - 1 |-> chan[p][IF j < i THEN j ELSE j + 1]])

Swap(p) ==
  \E i \in 1 .. Len(chan[p]) - 1 :
    Network(p, "swap", [chan[p] EXCEPT ![i] = chan[p][i + 1], ![i + 1] = chan[p][i]])

Duplicate(p) ==
  /\ chan[p] # <<>> /\ Len(chan[p]) < MaxChan
  /\ Network(p, "duplicate", <<Head(chan[p])>> \o chan[p])

Next ==
  \E p \in Peers :
    \/ SendFiller(p) \/ Receive(p) \/ SendData(p)
    \/ Lose(p) \/ Swap(p) \/ Duplicate(p)

Spec == Init /\ [][Next]_vars

\* The loop turns, and both devices keep having data to send.
FairSpec ==
  Spec /\ \A p \in Peers :
    WF_vars(SendFiller(p)) /\ WF_vars(Receive(p)) /\ WF_vars(SendData(p))

----------------------------------------------------------------------------
TypeOK ==
  /\ SelfSync \in Ciphers
  /\ ep \in [Peers -> Endpoint]
  /\ chan \in [Peers -> Seq(Packet)]
  /\ rest \in [Peers -> SUBSET {"network", "device"}]
  /\ faults \in 0 .. MaxFaults

\* No end ever encodes with a cipher context that was never initialised or
\* was cleaned up.
NeverWithoutCipher == \A p \in Peers : ~ep[p].crashed

InStep ==
  \A p \in Peers :
    /\ ep[p].gibberish = 0 /\ ep[p].enc # "REQ_INIT"
    /\ \A i \in DOMAIN chan[p] : chan[p][i].tag = "seq#"

\* Over TCP, and until the first loss over UDP, the ciphers never lose each
\* other: no packet is gibberish, no end asks for or is asked for a restart,
\* and none encodes before its cipher has started.
InStepUntilLoss == faults = 0 => InStep /\ NeverWithoutCipher

\* The packets on their way to p are a path from its chaining value to the
\* other end's, the first of them a vector if p still needs one.
Chained(p) ==
  LET q == chan[p]
      e == ep[p]
      r == ep[Other(p)]
  IN  \/ q = <<>> /\ e.dec = "INIT" /\ r.enc = "INIT"
      \/ /\ r.enc = "SEQUENCE" /\ r.ectx # None
         /\ \/ q = <<>> /\ e.dec = "SEQUENCE" /\ e.dctx = r.ectx
            \/ /\ q # <<>> /\ Decodes(e, q[1])
               /\ \A i \in 2 .. Len(q) : ~q[i].ivec /\ q[i].from = q[i - 1].to
               /\ q[Len(q)].to = r.ectx

Path == \A p \in Peers : Chained(p)

\* The reason for InStepUntilLoss: encryptor, packets and decryptor form one
\* unbroken chain.
PathUntilLoss == faults = 0 => Path

\* A running decryptor has a context, whatever the network does: no packet is
\* decoded with one that was cleaned up or that no vector started.
DecryptorReady == \A p \in Peers : ep[p].dec = "SEQUENCE" => ep[p].dctx # None

Crashed == \E p \in Peers : ep[p].crashed

\* Once losses stop, each end goes on delivering what the other's device sent,
\* with a cipher that does not find the chain again by itself.
Delivers ==
  ~SelfSync => \A p \in Peers :
    []<>(\/ Crashed
         \/ chan[p] # <<>> /\ Decodes(ep[p], Head(chan[p])))
=============================================================================
