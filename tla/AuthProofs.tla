----------------------------- MODULE AuthProofs -----------------------------
(***************************************************************************)
(* Proofs about Auth: for every size of a challenge, every cipher that     *)
(* undoes itself, all configurations and any number of attempts and faults.*)
(***************************************************************************)
EXTENDS Auth, TLAPS

Message == [kind : Kinds,
            val : {0} \cup [1 .. 2 * CHAL_SIZE -> 0 .. 15]
                    \cup {bf2cf(c.options) : c \in Configs}]

Nets == [Ends -> Seq(Message)]

\* The messages that n holds for end x.
In(n, x) == {n[x][i] : i \in 1 .. Len(n[x])}

----------------------------------------------------------------------------
\* Queues.

\* The head of a queue is in it.
LEMMA HeadIn ==
  ASSUME NEW n \in Nets, NEW e \in Ends, n[e] # <<>>
  PROVE  Head(n[e]) \in In(n, e) /\ Head(n[e]) \in Message
<1>1. n[e] \in Seq(Message) /\ Len(n[e]) \in Nat /\ Len(n[e]) >= 1
  BY DEF Nets
<1>2. Head(n[e]) = n[e][1] /\ 1 \in 1 .. Len(n[e])
  BY <1>1
<1> QED
  BY <1>1, <1>2 DEF In

\* Taking a message off a queue brings no other in.
LEMMA TailIn ==
  ASSUME NEW n \in Nets, NEW e \in Ends, n[e] # <<>>
  PROVE  /\ [n EXCEPT ![e] = Tail(@)] \in Nets
         /\ \A x \in Ends : In([n EXCEPT ![e] = Tail(@)], x) \subseteq In(n, x)
<1> DEFINE t == [n EXCEPT ![e] = Tail(@)]
<1>1. n[e] \in Seq(Message) /\ Tail(n[e]) \in Seq(Message)
  BY DEF Nets
<1>2. t \in Nets
  BY <1>1 DEF Nets
<1>3. ASSUME NEW x \in Ends, NEW m \in In(t, x) PROVE m \in In(n, x)
  <2>1. PICK i \in 1 .. Len(t[x]) : m = t[x][i]
    BY <1>3 DEF In
  <2>2. CASE x # e
    <3>1. t[x] = n[x]
      BY <2>2 DEF Nets
    <3> QED
      BY <2>1, <3>1 DEF In
  <2>3. CASE x = e
    <3>1. t[x] = Tail(n[e])
      BY <2>3 DEF Nets
    <3>2. /\ Len(n[e]) \in Nat /\ Len(n[e]) > 0 /\ Len(Tail(n[e])) = Len(n[e]) - 1
          /\ \A k \in 1 .. Len(n[e]) - 1 : Tail(n[e])[k] = n[e][k + 1]
      BY <1>1
    <3>3. i \in 1 .. Len(n[e]) - 1 /\ m = Tail(n[e])[i]
      BY <2>1, <3>1, <3>2
    <3>4. i + 1 \in 1 .. Len(n[e]) /\ m = n[e][i + 1]
      BY <3>2, <3>3
    <3> QED
      BY <2>3, <3>4 DEF In
  <2> QED
    BY <2>2, <2>3
<1> QED
  BY <1>2, <1>3

\* Neither does emptying it.
LEMMA EmptyIn ==
  ASSUME NEW n \in Nets, NEW e \in Ends
  PROVE  /\ [n EXCEPT ![e] = <<>>] \in Nets
         /\ \A x \in Ends : In([n EXCEPT ![e] = <<>>], x) \subseteq In(n, x)
<1> DEFINE t == [n EXCEPT ![e] = <<>>]
<1>1. t \in Nets
  BY DEF Nets
<1>2. ASSUME NEW x \in Ends PROVE In(t, x) \subseteq In(n, x)
  <2>1. CASE x # e
    <3>1. t[x] = n[x]
      BY <2>1 DEF Nets
    <3> QED
      BY <3>1 DEF In
  <2>2. CASE x = e
    <3>1. t[x] = <<>>
      BY <2>2 DEF Nets
    <3> QED
      BY <3>1 DEF In
  <2> QED
    BY <2>1, <2>2
<1> QED
  BY <1>1, <1>2

\* A message that is sent is the only new one, and is for the peer.
LEMMA SentIn ==
  ASSUME NEW n \in Nets, NEW e \in Ends, NEW m \in Message
  PROVE  /\ Sent(n, e, m) \in Nets
         /\ \A x \in Ends : \A y \in In(Sent(n, e, m), x) :
              y \in In(n, x) \/ (x = Peer(e) /\ y = m)
<1> DEFINE t == [n EXCEPT ![Peer(e)] = Append(@, m)]
<1>0. Peer(e) \in Ends
  BY DEF Ends, Peer
<1>1. n[Peer(e)] \in Seq(Message) /\ Append(n[Peer(e)], m) \in Seq(Message)
  BY <1>0 DEF Nets
<1>2. t \in Nets
  BY <1>0, <1>1 DEF Nets
<1>3. ASSUME NEW x \in Ends, NEW y \in In(t, x)
      PROVE  y \in In(n, x) \/ (x = Peer(e) /\ y = m)
  <2>1. PICK i \in 1 .. Len(t[x]) : y = t[x][i]
    BY <1>3 DEF In
  <2>2. CASE x # Peer(e)
    <3>1. t[x] = n[x]
      BY <2>2 DEF Nets
    <3> QED
      BY <2>1, <3>1 DEF In
  <2>3. CASE x = Peer(e)
    <3>1. t[x] = Append(n[x], m)
      BY <2>3 DEF Nets
    <3>2. y = m \/ (i \in 1 .. Len(n[x]) /\ y = n[x][i])
      BY <1>1, <2>1, <2>3, <3>1
    <3> QED
      BY <2>3, <3>2 DEF In
  <2> QED
    BY <2>2, <2>3
<1>4. Sent(n, e, m) = n \/ Sent(n, e, m) = t
  BY DEF Sent
<1> QED
  BY <1>2, <1>3, <1>4

----------------------------------------------------------------------------
\* Conversions.

\* A challenge survives its way through letters and back.
LEMMA ChalRoundTrip ==
  ASSUME NEW c \in Chal
  PROVE  cl2cs(c) \in [1 .. 2 * CHAL_SIZE -> 0 .. 15] /\ cs2cl(cl2cs(c)) = c
<1> CHAL_SIZE \in Nat
  BY CryptAssumption
<1>1. ASSUME NEW i \in 1 .. 2 * CHAL_SIZE PROVE cl2cs(c)[i] \in 0 .. 15
  <2>1. CASE i % 2 = 1
    <3>1. (i + 1) \div 2 \in 1 .. CHAL_SIZE
      BY <2>1
    <3>2. c[(i + 1) \div 2] \in 0 .. 255
      BY <3>1 DEF Chal
    <3>3. c[(i + 1) \div 2] \div 16 \in 0 .. 15
      BY <3>2
    <3> QED
      BY <2>1, <3>3 DEF cl2cs
  <2>2. CASE i % 2 # 1
    <3>1. i \div 2 \in 1 .. CHAL_SIZE
      BY <2>2
    <3>2. c[i \div 2] \in 0 .. 255
      BY <3>1 DEF Chal
    <3>3. c[i \div 2] % 16 \in 0 .. 15
      BY <3>2
    <3> QED
      BY <2>2, <3>3 DEF cl2cs
  <2> QED
    BY <2>1, <2>2
<1>2. ASSUME NEW i \in 1 .. CHAL_SIZE PROVE cs2cl(cl2cs(c))[i] = c[i]
  <2>1. c[i] \in 0 .. 255
    BY DEF Chal
  <2>2. /\ 2 * i - 1 \in 1 .. 2 * CHAL_SIZE /\ (2 * i - 1) % 2 = 1
        /\ ((2 * i - 1) + 1) \div 2 = i
    OBVIOUS
  <2>3. 2 * i \in 1 .. 2 * CHAL_SIZE /\ (2 * i) % 2 = 0 /\ (2 * i) \div 2 = i
    OBVIOUS
  <2>4. cl2cs(c)[2 * i - 1] = c[i] \div 16
    BY <2>2 DEF cl2cs
  <2>5. cl2cs(c)[2 * i] = c[i] % 16
    BY <2>3 DEF cl2cs
  <2>6. 16 * (c[i] \div 16) + (c[i] % 16) = c[i]
    BY <2>1
  <2> QED
    BY <2>4, <2>5, <2>6 DEF cs2cl
<1>3. cs2cl(cl2cs(c)) = c
  BY <1>2 DEF cs2cl, Chal
<1> QED
  BY <1>1, <1>3 DEF cl2cs

\* An encrypted challenge is one.
LEMMA EncryptedType ==
  ASSUME NEW c \in Chal
  PROVE  encrypt_chal(c, Passwd) \in Chal
BY CryptAssumption DEF encrypt_chal

\* Only the key that encrypted a challenge decrypts it.
LEMMA OnlyTheKey ==
  ASSUME NEW c \in Chal, NEW p \in Passwords,
         decrypt_chal(encrypt_chal(c, Passwd), p) = c
  PROVE  p = Passwd
<1>1. Crypt[Passwd][c] \in Chal
  BY CryptAssumption
<1>2. \E d \in Chal : Crypt[p][d] = Crypt[Passwd][c]
  BY <1>1, CryptAssumption
<1>3. Crypt[p][decrypt_chal(Crypt[Passwd][c], p)] = Crypt[Passwd][c]
  BY <1>2 DEF decrypt_chal
<1>4. Crypt[p][c] = Crypt[Passwd][c]
  BY <1>3 DEF encrypt_chal
<1> QED
  BY <1>4, CryptAssumption

\* What a client makes of the options a server sends.
LEMMA Converted ==
  ASSUME NEW h \in Host, NEW c \in Configs
  PROVE  /\ cf2bf(bf2cf(c.options), h) \in Host
         /\ cf2bf(bf2cf(c.options), h).flags \cap Kept = h.flags \cap Kept
         /\ Garbled(bf2cf(c.options)) = {} /\ h.flags \cap Supplied = {} =>
              Agree(cf2bf(bf2cf(c.options), h), c.options)
<1> DEFINE s == c.options
           m == bf2cf(s)
           p == Parsed(m)
           r == cf2bf(m, h)
<1>1. s \in Host /\ s.flags \subseteq Supplied \cup Kept /\ s.spd_in \in Nat
      /\ s.zlevel \in Nat /\ s.cipher \in Nat /\ s.cipher # 0
  BY ConfigAssumption DEF Host, VTUN_LEGACY_ENCRYPT
<1>2. DOMAIN m = s.flags \cap Supplied
  BY DEF bf2cf
<1>3. /\ "SHAPE" \in DOMAIN m => m["SHAPE"] = s.spd_in
      /\ \A f \in DOMAIN m \cap {"ZLIB", "LZO"} : m[f] = s.zlevel
      /\ "ENCRYPT" \in DOMAIN m =>
           m["ENCRYPT"] = IF s.cipher = VTUN_LEGACY_ENCRYPT THEN 0 ELSE s.cipher
  BY DEF bf2cf, Number
<1>4. p \subseteq s.flags \cap Supplied
  BY <1>2 DEF Parsed
<1>5. /\ r.flags = (IF p \cap Prots = {} THEN h.flags ELSE h.flags \ Prots)
                     \cup {f \in p : f = "SHAPE" => ("SHAPE" \in p /\ m["SHAPE"] # 0)}
      /\ r.spd_in = h.spd_in
      /\ r.spd_out = IF "SHAPE" \in p /\ m["SHAPE"] # 0 THEN m["SHAPE"] ELSE h.spd_out
      /\ r.cipher = IF "ENCRYPT" \notin p THEN h.cipher
                    ELSE IF m["ENCRYPT"] = 0 THEN VTUN_LEGACY_ENCRYPT ELSE m["ENCRYPT"]
      /\ r.zlevel = IF p \cap {"ZLIB", "LZO"} = {} THEN h.zlevel
                    ELSE m[CHOOSE f \in p \cap {"ZLIB", "LZO"} : TRUE]
      /\ r = [flags |-> r.flags, spd_in |-> r.spd_in, spd_out |-> r.spd_out,
              zlevel |-> r.zlevel, cipher |-> r.cipher]
  BY DEF cf2bf
<1>6. p \cap {"ZLIB", "LZO"} # {} => r.zlevel = s.zlevel
  <2>1. p \cap {"ZLIB", "LZO"} # {} =>
          (CHOOSE f \in p \cap {"ZLIB", "LZO"} : TRUE) \in p \cap {"ZLIB", "LZO"}
    OBVIOUS
  <2> QED
    BY <2>1, <1>2, <1>3, <1>4, <1>5
<1>7. "ENCRYPT" \in p => r.cipher = s.cipher
  BY <1>1, <1>2, <1>3, <1>4, <1>5
<1>8. r.flags \subseteq h.flags \cup p
  BY <1>5
<1>9. r \in Host
  <2>1. r.flags \in SUBSET (Supplied \cup Kept)
    BY <1>4, <1>8 DEF Host
  <2>2. r.spd_in \in Nat /\ r.spd_out \in Nat
    BY <1>1, <1>2, <1>3, <1>4, <1>5 DEF Host
  <2>3. r.zlevel \in Nat
    BY <1>1, <1>5, <1>6 DEF Host
  <2>4. r.cipher \in Nat
    BY <1>1, <1>5, <1>7 DEF Host
  <2> QED
    BY <1>5, <2>1, <2>2, <2>3, <2>4 DEF Host
<1>10. r.flags \cap Kept = h.flags \cap Kept
  <2>1. Supplied \cap Kept = {} /\ Prots \subseteq Supplied
    BY DEF Supplied, Kept, Prots, Types
  <2> QED
    BY <1>4, <1>5, <2>1
<1>11. ASSUME Garbled(m) = {}, h.flags \cap Supplied = {} PROVE Agree(r, s)
  <2>1. p = s.flags \cap Supplied
    BY <1>2, <1>11 DEF Parsed
  <2>2. "SHAPE" \in Supplied /\ {"ZLIB", "LZO"} \subseteq Supplied /\ "ENCRYPT" \in Supplied
    BY DEF Supplied
  <2>3. r.flags \cap Supplied = {f \in p : f = "SHAPE" => ("SHAPE" \in p /\ m["SHAPE"] # 0)}
    BY <1>5, <1>11, <2>1
  <2>4. "SHAPE" \in p => m["SHAPE"] = s.spd_in
    BY <1>2, <1>3, <2>1
  <2>5. (r.flags \cap Supplied) \ {"SHAPE", "KEEP_ALIVE"}
          = (s.flags \cap Supplied) \ {"SHAPE", "KEEP_ALIVE"}
    BY <2>1, <2>3
  <2>6. "SHAPE" \in r.flags <=> "SHAPE" \in s.flags /\ s.spd_in # 0
    BY <2>1, <2>2, <2>3, <2>4
  <2>7. "SHAPE" \in r.flags => r.spd_out = s.spd_in
    BY <1>5, <2>1, <2>2, <2>4, <2>6
  <2>8. r.flags \cap {"ZLIB", "LZO"} # {} => r.zlevel = s.zlevel
    BY <1>6, <2>2, <2>3
  <2>9. "ENCRYPT" \in r.flags => r.cipher = s.cipher
    BY <1>7, <2>2, <2>3
  <2> QED
    BY <2>5, <2>6, <2>7, <2>8, <2>9 DEF Agree
<1> QED
  BY <1>9, <1>10, <1>11

----------------------------------------------------------------------------
\* The inductive invariant.

Typed ==
  /\ pc \in [Ends -> Labels] /\ net \in Nets
  /\ open \in [Ends -> BOOLEAN] /\ cut \in BOOLEAN
  /\ host \in [Ends -> Host]
  /\ config \in Configs /\ entry \in Configs /\ chal_req \in Chal
  /\ rport \in [Ends -> {"none", "own", "peer"}]

CountersOK ==
  /\ refused \in BOOLEAN /\ excused \in BOOLEAN
  /\ attempts \in 0 .. MaxAttempts /\ faults \in Nat

\* The server has not asked for a response yet.
Early == {"greet", "ST_HOST"}

\* What a message for x says is true of the attempt that is being made.
Carried(x, m) ==
  /\ m.kind = "OK CHAL" => x = "client" /\ m.val = cl2cs(chal_req)
  /\ m.kind = "CHAL" => x = "server" /\ m.val = cl2cs(encrypt_chal(chal_req, Passwd))
  /\ m.kind = "OK FLAGS" => m.val = bf2cf(entry.options)
  /\ pc["server"] \in Early => m.kind \notin {"OK CHAL", "CHAL"}

NetInv == \A x \in Ends : \A m \in In(net, x) : Carried(x, m)

\* The client's entry is clear until the server's options come.
ClientClear ==
  pc["client"] \in {"ST_INIT", "ST_HOST", "ST_CHAL"} =>
    host["client"].flags \cap Supplied = {}

OwnKept == host["client"].flags \cap Kept = Own.flags \cap Kept

ServerOptions == host["server"] = entry.options

Inv ==
  /\ Typed /\ CountersOK /\ NetInv /\ ClientClear /\ OwnKept /\ ServerOptions
  /\ FlagsAgree /\ SessionNeedsPassword

\* The ends are two.
LEMMA TwoEnds ==
  /\ "client" \in Ends /\ "server" \in Ends /\ "client" # "server"
  /\ Peer("client") = "server" /\ Peer("server") = "client"
  /\ \A e \in Ends : Peer(e) \in Ends /\ Peer(e) # e
BY DEF Ends, Peer

\* Messages stay true while the attempt and its challenge stay the same.
LEMMA NetKept ==
  ASSUME NetInv, UNCHANGED <<chal_req, entry>>,
         pc'["server"] \in Early => pc["server"] \in Early,
         \A x \in Ends : \A m \in In(net', x) : m \in In(net, x) \/ Carried(x, m)'
  PROVE  NetInv'
<1> SUFFICES ASSUME NEW x \in Ends, NEW m \in In(net', x), m \in In(net, x)
             PROVE  Carried(x, m)'
  BY DEF NetInv, In
<1>1. Carried(x, m)
  BY DEF NetInv
<1> QED
  BY <1>1 DEF Carried

\* Nobody has begun at first.
LEMMA InitInv == Init => Inv
<1> SUFFICES ASSUME Init PROVE Inv
  OBVIOUS
<1> USE DEF Init
<1>1. config.options \in Host
  BY ConfigAssumption
<1>2. Typed
  <2>1. pc \in [Ends -> Labels] /\ rport \in [Ends -> {"none", "own", "peer"}]
    BY DEF Labels
  <2>2. net \in Nets
    BY DEF Nets
  <2>3. open \in [Ends -> BOOLEAN] /\ cut \in BOOLEAN
    OBVIOUS
  <2>4. host \in [Ends -> Host]
    BY <1>1, ConfigAssumption DEF Ends
  <2>5. config \in Configs /\ entry \in Configs /\ chal_req \in Chal
    BY CryptAssumption
  <2> QED
    BY <2>1, <2>2, <2>3, <2>4, <2>5 DEF Typed
<1>3. CountersOK
  <2>1. refused \in BOOLEAN /\ excused \in BOOLEAN
    OBVIOUS
  <2>2. attempts \in 0 .. MaxAttempts /\ faults \in Nat
    BY ConfigAssumption
  <2> QED
    BY <2>1, <2>2 DEF CountersOK
<1>4. NetInv
  BY DEF NetInv, In
<1>5. /\ ClientClear /\ OwnKept /\ ServerOptions /\ FlagsAgree /\ SessionNeedsPassword
  BY TwoEnds DEF ClientClear, OwnKept, ServerOptions, FlagsAgree, SessionNeedsPassword, Sessions
<1> QED
  BY <1>2, <1>3, <1>4, <1>5 DEF Inv

\* An end that leaves takes nothing that the other relies on with it.
LEMMA LeaveInv ==
  ASSUME Inv, NEW e \in Ends, Close(e), excused' \in BOOLEAN, faults' \in Nat,
         \/ Leave(e)
         \/ net' = [net EXCEPT ![e] = <<>>]
  PROVE  Inv'
<1> USE DEF Inv
<1> DEFINE n == [net EXCEPT ![e] = <<>>]
<1>1. n \in Nets /\ \A x \in Ends : In(n, x) \subseteq In(net, x)
  BY EmptyIn DEF Typed
<1>2. Msg("ERR", 0) \in Message
  BY DEF Msg, Message, Kinds
<1>3. net' = n \/ net' = Sent(n, e, Msg("ERR", 0))
  BY DEF Leave
<1> HIDE DEF n
<1>10. /\ Sent(n, e, Msg("ERR", 0)) \in Nets
       /\ \A x \in Ends : \A y \in In(Sent(n, e, Msg("ERR", 0)), x) :
            y \in In(n, x) \/ y = Msg("ERR", 0)
  BY <1>1, <1>2, SentIn
<1>4. net' \in Nets
  BY <1>1, <1>3, <1>10
<1>5. pc' = [pc EXCEPT ![e] = "idle"] /\ UNCHANGED <<cut, host, server, rport, attempts>>
  BY DEF Close
<1>6. Typed'
  BY <1>4, <1>5 DEF Typed, Close, Labels, server
<1>7. CountersOK'
  BY DEF CountersOK, Close
<1>8. NetInv'
  <2>1. \A x \in Ends : \A m \in In(net', x) :
          m \in In(net, x) \/ m = Msg("ERR", 0)
    BY <1>1, <1>3, <1>10
  <2>2. \A x \in Ends : Carried(x, Msg("ERR", 0))'
    BY DEF Carried, Msg
  <2>3. pc'["server"] \in Early => pc["server"] \in Early
    BY <1>5, TwoEnds DEF Typed, Early
  <2> QED
    BY <1>5, <2>1, <2>2, <2>3, NetKept DEF server
<1>9. /\ ClientClear' /\ OwnKept' /\ ServerOptions' /\ FlagsAgree' /\ SessionNeedsPassword'
  BY <1>5, TwoEnds DEF Typed, server, ClientClear, OwnKept, ServerOptions, FlagsAgree,
     SessionNeedsPassword, Sessions
<1> QED
  BY <1>6, <1>7, <1>8, <1>9

\* A step to a label, with a message taken, sent, or both: what has to be shown
\* is that the message is true.
LEMMA MoveInv ==
  ASSUME Inv, NEW e \in Ends, NEW l \in Labels,
         pc' = [pc EXCEPT ![e] = l],
         UNCHANGED <<cut, host, server, history>>,
         open' \in [Ends -> BOOLEAN], rport' \in [Ends -> {"none", "own", "peer"}],
         net' \in Nets,
         \A x \in Ends : \A m \in In(net', x) : m \in In(net, x) \/ Carried(x, m)',
         e = "server" /\ l \in Early => pc[e] \in Early,
         e = "server" /\ l \in {"lock"} \cup Sessions =>
           pc[e] \in {"lock"} \cup Sessions \/ (entry.known /\ entry.passwd = Passwd),
         e = "client" /\ l \in {"ST_INIT", "ST_HOST", "ST_CHAL"} =>
           pc[e] \in {"ST_INIT", "ST_HOST", "ST_CHAL"},
         e = "client" /\ l \in Sessions => pc[e] \in Sessions
  PROVE  Inv'
<1> USE TwoEnds DEF Inv
<1>1. Typed'
  BY DEF Typed, server
<1>2. CountersOK'
  BY DEF CountersOK, history
<1>3. pc["client"] \in Labels /\ pc'["client"] = IF e = "client" THEN l ELSE pc["client"]
  BY DEF Typed
<1>4. pc["server"] \in Labels /\ pc'["server"] = IF e = "server" THEN l ELSE pc["server"]
  BY DEF Typed
<1>5. NetInv'
  <2>1. pc'["server"] \in Early => pc["server"] \in Early
    BY <1>4
  <2> QED
    BY <2>1, NetKept DEF server
<1>6. ClientClear'
  BY <1>3 DEF ClientClear
<1>7. OwnKept' /\ ServerOptions'
  BY DEF OwnKept, ServerOptions, server
<1>8. FlagsAgree'
  BY <1>3 DEF FlagsAgree, server
<1>9. SessionNeedsPassword'
  BY <1>4 DEF SessionNeedsPassword, server
<1> QED
  BY <1>1, <1>2, <1>5, <1>6, <1>7, <1>8, <1>9

\* Reading a message and answering it.
LEMMA AnswerIn ==
  ASSUME net \in Nets, NEW e \in Ends, net[e] # <<>>, NEW m \in Message, Answer(e, m)
  PROVE  /\ net' \in Nets
         /\ \A x \in Ends : \A y \in In(net', x) :
              y \in In(net, x) \/ (x = Peer(e) /\ y = m)
<1> DEFINE n == [net EXCEPT ![e] = Tail(@)]
<1>1. n \in Nets /\ \A x \in Ends : In(n, x) \subseteq In(net, x)
  BY TailIn
<1>2. net' = Sent(n, e, m)
  BY DEF Answer
<1> HIDE DEF n
<1> QED
  BY <1>1, <1>2, SentIn

\* Reading a message without an answer.
LEMMA TakenIn ==
  ASSUME net \in Nets, NEW e \in Ends, net[e] # <<>>, Taken(e)
  PROVE  net' \in Nets /\ \A x \in Ends : In(net', x) \subseteq In(net, x)
BY TailIn DEF Taken

\* A message without a payload says nothing that could be false.
LEMMA Plain ==
  ASSUME NEW k \in {"VTUN", "HOST", "ERR", "PORT", "part"}
  PROVE  Msg(k, 0) \in Message /\ \A x \in Ends : Carried(x, Msg(k, 0))'
BY DEF Msg, Message, Kinds, Carried

\* The client's steps up to its response.
LEMMA ClientAnswers ==
  ASSUME Inv, ClientHost \/ ClientChal
  PROVE  Inv'
<1> USE TwoEnds DEF Inv
<1>1. CASE ClientHost
  <2> USE <1>1 DEF ClientHost, Move, Gets
  <2>1. net' \in Nets /\ \A x \in Ends : \A y \in In(net', x) :
          y \in In(net, x) \/ y = Msg("HOST", 0)
    BY Plain, AnswerIn DEF Typed
  <2>2. \A x \in Ends : \A y \in In(net', x) : y \in In(net, x) \/ Carried(x, y)'
    BY <2>1, Plain
  <2>3. "ST_HOST" \in Labels /\ "ST_HOST" \notin Sessions
    BY DEF Labels, Sessions
  <2>4. open' \in [Ends -> BOOLEAN] /\ rport' \in [Ends -> {"none", "own", "peer"}]
    BY DEF Typed
  <2> QED
    BY <2>1, <2>2, <2>3, <2>4, MoveInv
<1>2. CASE ClientChal
  <2> USE <1>2 DEF ClientChal, Move, Gets
  <2> DEFINE v == Head(net["client"]).val
             m == Msg("CHAL", cl2cs(encrypt_chal(cs2cl(v), Passwd)))
  <2>1. chal_req \in Chal /\ chal_req' = chal_req /\ encrypt_chal(chal_req, Passwd) \in Chal
    <3>1. chal_req \in Chal
      BY DEF Typed
    <3> QED
      BY <3>1, EncryptedType DEF server
  <2>2. cs2cl(v) = chal_req /\ pc["server"] \notin Early
    <3>1. Carried("client", Head(net["client"]))
      BY HeadIn DEF Typed, NetInv
    <3>2. v = cl2cs(chal_req) /\ pc["server"] \notin Early
      BY <3>1 DEF Carried
    <3> QED
      BY <2>1, <3>2, ChalRoundTrip
  <2>3. m = Msg("CHAL", cl2cs(encrypt_chal(chal_req, Passwd)))
    BY <2>2
  <2>4. m \in Message
    BY <2>1, <2>3, ChalRoundTrip DEF Msg, Message, Kinds
  <2>5. Answer("client", m)
    OBVIOUS
  <2>6. pc'["server"] = pc["server"]
    BY DEF Typed
  <2>7. ASSUME NEW y, y = m PROVE Carried("server", y)'
    <3>1. y.kind = "CHAL" /\ y.val = cl2cs(encrypt_chal(chal_req, Passwd))
      BY <2>3, <2>7 DEF Msg
    <3>2. y.val = cl2cs(encrypt_chal(chal_req, Passwd))'
      BY <2>1, <3>1
    <3> QED
      BY <2>2, <2>6, <3>1, <3>2 DEF Carried
  <2> HIDE DEF m
  <2>8. net' \in Nets /\ \A x \in Ends : \A y \in In(net', x) :
          y \in In(net, x) \/ (x = "server" /\ y = m)
    BY <2>4, <2>5, AnswerIn DEF Typed
  <2>9. \A x \in Ends : \A y \in In(net', x) : y \in In(net, x) \/ Carried(x, y)'
    BY <2>7, <2>8
  <2>10. "ST_CHAL" \in Labels /\ "ST_CHAL" \notin Sessions
    BY DEF Labels, Sessions
  <2>11. open' \in [Ends -> BOOLEAN] /\ rport' \in [Ends -> {"none", "own", "peer"}]
    BY DEF Typed
  <2> QED
    BY <2>8, <2>9, <2>10, <2>11, MoveInv
<1> QED
  BY <1>1, <1>2

\* The client gets the options: here the conversions matter.
LEMMA ClientFlagsInv ==
  ASSUME Inv, ClientFlags
  PROVE  Inv'
<1> USE TwoEnds DEF Inv, ClientFlags, Move, Gets
<1> DEFINE v == Head(net["client"]).val
           h == host["client"]
<1>1. v = bf2cf(entry.options) /\ entry \in Configs
  <2>1. Carried("client", Head(net["client"]))
    BY HeadIn DEF Typed, NetInv
  <2> QED
    BY <2>1 DEF Carried, Typed
<1>2. h \in Host /\ h.flags \cap Supplied = {}
  BY DEF Typed, ClientClear
<1>3. /\ cf2bf(v, h) \in Host
      /\ cf2bf(v, h).flags \cap Kept = h.flags \cap Kept
      /\ Agree(cf2bf(v, h), entry.options)
  <2>1. Garbled(bf2cf(entry.options)) = {}
    BY <1>1
  <2> QED
    BY <1>1, <1>2, <2>1, Converted
<1>4. /\ host'["client"] = cf2bf(v, h) /\ host'["server"] = host["server"]
      /\ host' \in [Ends -> Host]
  BY <1>3 DEF Typed
<1>5. pc'["client"] = "tunnel" /\ pc'["server"] = pc["server"] /\ pc' \in [Ends -> Labels]
  BY DEF Typed, Labels
<1>6. net' \in Nets /\ \A x \in Ends : In(net', x) \subseteq In(net, x)
  BY TakenIn DEF Typed
<1>7. Typed'
  BY <1>4, <1>5, <1>6 DEF Typed, server
<1>8. CountersOK'
  BY DEF CountersOK, history
<1>9. NetInv'
  BY <1>5, <1>6, NetKept DEF server
<1>10. ClientClear' /\ ServerOptions' /\ SessionNeedsPassword'
  BY <1>4, <1>5 DEF ClientClear, ServerOptions, SessionNeedsPassword, server
<1>11. OwnKept' /\ FlagsAgree'
  BY <1>3, <1>4 DEF OwnKept, FlagsAgree, server
<1> QED
  BY <1>7, <1>8, <1>9, <1>10, <1>11

\* The client cannot read the options.
LEMMA ClientGarbledInv ==
  ASSUME Inv, ClientGarbled
  PROVE  Inv'
<1> USE TwoEnds DEF Inv, ClientGarbled, Gets
<1> DEFINE v == Head(net["client"]).val
           h == host["client"]
<1>1. v = bf2cf(entry.options) /\ entry \in Configs /\ h \in Host
  <2>1. Carried("client", Head(net["client"]))
    BY HeadIn DEF Typed, NetInv
  <2> QED
    BY <2>1 DEF Carried, Typed
<1>2. cf2bf(v, h) \in Host /\ cf2bf(v, h).flags \cap Kept = h.flags \cap Kept
  BY <1>1, Converted
<1>3. /\ host'["client"] = cf2bf(v, h) /\ host'["server"] = host["server"]
      /\ host' \in [Ends -> Host]
  BY <1>2 DEF Typed
<1>4. pc'["client"] = "idle" /\ pc'["server"] = pc["server"] /\ pc' \in [Ends -> Labels]
  BY DEF Typed, Labels
<1>5. net' \in Nets /\ \A x \in Ends : In(net', x) \subseteq In(net, x)
  BY EmptyIn DEF Typed
<1>6. Typed'
  BY <1>3, <1>4, <1>5 DEF Typed, server
<1>7. CountersOK'
  BY DEF CountersOK
<1>8. NetInv'
  BY <1>4, <1>5, NetKept DEF server
<1>9. ClientClear' /\ ServerOptions' /\ SessionNeedsPassword' /\ FlagsAgree'
  BY <1>3, <1>4 DEF ClientClear, ServerOptions, SessionNeedsPassword, FlagsAgree,
     Sessions, server
<1>10. OwnKept'
  BY <1>2, <1>3 DEF OwnKept
<1> QED
  BY <1>6, <1>7, <1>8, <1>9, <1>10

\* A new connection: no message of an earlier one is left.
LEMMA ConnectInv ==
  ASSUME Inv, Connect
  PROVE  Inv'
<1> USE TwoEnds DEF Inv, Connect
<1>1. pc'["client"] = "ST_INIT" /\ pc'["server"] = "greet" /\ pc' \in [Ends -> Labels]
  BY DEF Labels, Ends
<1>2. host["client"] \in Host /\ config \in Configs /\ config.options \in Host
  BY ConfigAssumption DEF Typed
<1>3. /\ Cleared(host["client"]) \in Host
      /\ Cleared(host["client"]).flags = host["client"].flags \cap Kept
  BY <1>2 DEF Cleared, Host
<1>4. /\ host'["client"] = Cleared(host["client"]) /\ host'["server"] = config.options
      /\ host' \in [Ends -> Host]
  BY <1>2, <1>3 DEF Ends
<1>5. net' \in Nets /\ \A x \in Ends : In(net', x) = {}
  BY DEF Nets, In
<1>6. open' \in [Ends -> BOOLEAN] /\ cut' \in BOOLEAN
      /\ rport' \in [Ends -> {"none", "own", "peer"}]
  OBVIOUS
<1>7. Typed'
  BY <1>1, <1>2, <1>4, <1>5, <1>6 DEF Typed
<1>8. CountersOK'
  <2>1. refused' \in BOOLEAN /\ excused' \in BOOLEAN
    OBVIOUS
  <2>2. attempts' \in 0 .. MaxAttempts /\ faults' \in Nat
    BY ConfigAssumption DEF CountersOK
  <2> QED
    BY <2>1, <2>2 DEF CountersOK
<1>9. NetInv'
  BY <1>5 DEF NetInv
<1>10. Kept \cap Supplied = {}
  BY DEF Kept, Supplied, Prots, Types
<1>11. ClientClear' /\ OwnKept' /\ ServerOptions'
  BY <1>3, <1>4, <1>10 DEF ClientClear, OwnKept, ServerOptions
<1>12. FlagsAgree' /\ SessionNeedsPassword'
  BY <1>1 DEF FlagsAgree, SessionNeedsPassword, Sessions
<1> QED
  BY <1>7, <1>8, <1>9, <1>11, <1>12

\* What the server sends is the only new message.
LEMMA ServerSent ==
  ASSUME net \in Nets, NEW m \in Message
  PROVE  /\ Sent(net, "server", m) \in Nets
         /\ \A x \in Ends : \A y \in In(Sent(net, "server", m), x) : y \in In(net, x) \/ y = m
BY SentIn, TwoEnds

\* The server's steps that only say something.
LEMMA ServerSpeaks ==
  ASSUME Inv, Greet \/ ServerFlags
  PROVE  Inv'
<1> USE TwoEnds DEF Inv
<1>0. open' \in [Ends -> BOOLEAN] /\ rport' \in [Ends -> {"none", "own", "peer"}]
  BY DEF Typed, Greet, ServerFlags
<1>1. CASE Greet
  <2> USE <1>1 DEF Greet, Move
  <2>1. net' \in Nets /\ \A x \in Ends : \A y \in In(net', x) :
          y \in In(net, x) \/ y = Msg("VTUN", 0)
    BY Plain, SentIn DEF Typed
  <2>2. \A x \in Ends : \A y \in In(net', x) : y \in In(net, x) \/ Carried(x, y)'
    BY <2>1, Plain
  <2>3. "ST_HOST" \in Labels /\ "ST_HOST" \notin Sessions /\ "greet" \in Early
    BY DEF Labels, Sessions, Early
  <2> QED
    BY <1>0, <2>1, <2>2, <2>3, MoveInv
<1>2. CASE ServerFlags
  <2> USE <1>2 DEF ServerFlags, Move
  <2> DEFINE m == Msg("OK FLAGS", bf2cf(host["server"]))
  <2>1. entry \in Configs /\ entry' = entry /\ m = Msg("OK FLAGS", bf2cf(entry.options))
    BY DEF Typed, ServerOptions, server
  <2>2. m \in Message
    BY <2>1 DEF Msg, Message, Kinds
  <2>3. net' = Sent(net, "server", m)
    OBVIOUS
  <2>4. ASSUME NEW y, y = m, NEW x \in Ends PROVE Carried(x, y)'
    <3>1. y.kind = "OK FLAGS" /\ y.val = bf2cf(entry.options)
      BY <2>1, <2>4 DEF Msg
    <3>2. y.val = bf2cf(entry.options)'
      BY <2>1, <3>1
    <3> QED
      BY <3>1, <3>2 DEF Carried
  <2> HIDE DEF m
  <2>5. net' \in Nets /\ \A x \in Ends : \A y \in In(net', x) : y \in In(net, x) \/ y = m
    <3>1. net \in Nets
      BY DEF Typed
    <3>2. /\ Sent(net, "server", m) \in Nets
          /\ \A x \in Ends : \A y \in In(Sent(net, "server", m), x) : y \in In(net, x) \/ y = m
      BY <2>2, <3>1, ServerSent
    <3> QED
      BY <2>3, <3>2
  <2>6. \A x \in Ends : \A y \in In(net', x) : y \in In(net, x) \/ Carried(x, y)'
    BY <2>4, <2>5
  <2>7. "tunnel" \in Labels /\ "tunnel" \notin Early
    BY DEF Labels, Early
  <2> QED
    BY <1>0, <2>5, <2>6, <2>7, MoveInv
<1> QED
  BY <1>1, <1>2

\* A challenge is drawn when none is under way.
LEMMA ServerHostInv ==
  ASSUME Inv, ServerHost
  PROVE  Inv'
<1> USE TwoEnds DEF Inv, ServerHost, Move, Gets
<1> DEFINE m == Msg("OK CHAL", cl2cs(chal_req'))
<1>1. chal_req' \in Chal
  BY CryptAssumption
<1>2. m \in Message
  BY <1>1, ChalRoundTrip DEF Msg, Message, Kinds
<1>3. Answer("server", m)
  OBVIOUS
<1>4. m.kind = "OK CHAL" /\ m.val = cl2cs(chal_req')
  BY DEF Msg
<1> HIDE DEF m
<1>5. net' \in Nets /\ \A x \in Ends : \A y \in In(net', x) :
        y \in In(net, x) \/ (x = "client" /\ y = m)
  BY <1>2, <1>3, AnswerIn DEF Typed
<1>6. pc'["server"] = "ST_CHAL" /\ pc'["client"] = pc["client"] /\ pc' \in [Ends -> Labels]
  BY DEF Typed, Labels
<1>7. Typed'
  BY <1>1, <1>5, <1>6 DEF Typed
<1>8. CountersOK'
  BY DEF CountersOK, history
<1>9. NetInv'
  <2>1. SUFFICES ASSUME NEW x \in Ends, NEW y \in In(net', x) PROVE Carried(x, y)'
    BY DEF NetInv
  <2>2. CASE y \in In(net, x)
    <3>1. y.kind \notin {"OK CHAL", "CHAL"} /\ (y.kind = "OK FLAGS" => y.val = bf2cf(entry.options))
      BY <2>2 DEF NetInv, Carried, Early
    <3> QED
      BY <3>1, <1>6 DEF Carried
  <2>3. CASE x = "client" /\ y = m
    BY <2>3, <1>4, <1>6 DEF Carried, Early
  <2> QED
    BY <1>5, <2>2, <2>3
<1>10. ClientClear' /\ OwnKept' /\ ServerOptions' /\ FlagsAgree'
  BY <1>6 DEF ClientClear, OwnKept, ServerOptions, FlagsAgree
<1>11. SessionNeedsPassword'
  BY <1>6 DEF SessionNeedsPassword, Sessions
<1> QED
  BY <1>7, <1>8, <1>9, <1>10, <1>11

\* The response that is accepted was made with the password.
LEMMA ServerChalInv ==
  ASSUME Inv, ServerChal
  PROVE  Inv'
<1> USE TwoEnds DEF Inv, ServerChal, Move, Gets
<1>1. entry.known /\ entry.passwd = Passwd
  <2>1. Carried("server", Head(net["server"]))
    BY HeadIn DEF Typed, NetInv
  <2>2. Head(net["server"]).val = cl2cs(encrypt_chal(chal_req, Passwd))
    BY <2>1 DEF Carried
  <2>3. chal_req \in Chal /\ entry \in Configs /\ entry.passwd \in Passwords
    BY ConfigAssumption DEF Typed
  <2>4. cs2cl(Head(net["server"]).val) = encrypt_chal(chal_req, Passwd)
    BY <2>2, <2>3, EncryptedType, ChalRoundTrip
  <2>5. entry.known /\ decrypt_chal(encrypt_chal(chal_req, Passwd), entry.passwd) = chal_req
    BY <2>4 DEF Verified
  <2> QED
    BY <2>3, <2>5, OnlyTheKey
<1>2. net' \in Nets /\ \A x \in Ends : In(net', x) \subseteq In(net, x)
  BY TakenIn DEF Typed
<1>3. "lock" \in Labels /\ "lock" \notin Early
  BY DEF Labels, Early
<1>4. open' \in [Ends -> BOOLEAN] /\ rport' \in [Ends -> {"none", "own", "peer"}]
  BY DEF Typed
<1> QED
  BY <1>1, <1>2, <1>3, <1>4, MoveInv

\* The steps of readn_t() and tunnel() that both ends make.
LEMMA BothInv ==
  ASSUME Inv, NEW e \in Ends,
         StartTcp(e) \/ StartUdp(e) \/ ReadPort(e) \/ ReadPortEof(e) \/ ReadPart(e)
  PROVE  Inv'
<1> USE TwoEnds DEF Inv
<1> DEFINE Says == \A x \in Ends : \A y \in In(net', x) : y \in In(net, x) \/ Carried(x, y)'
<1>0. {"up", "port", "stuck"} \subseteq Labels /\ {"up", "port", "stuck"} \cap Early = {}
  BY DEF Labels, Early
<1>1. {"tunnel", "port", "up"} \subseteq Sessions /\ "stuck" \notin Sessions
  BY DEF Sessions
<1>2. net \in Nets /\ open \in [Ends -> BOOLEAN] /\ rport \in [Ends -> {"none", "own", "peer"}]
  BY DEF Typed
<1>3. CASE StartTcp(e)
  <2>1. net' \in Nets /\ Says
    BY <1>2, <1>3 DEF StartTcp, wire
  <2> QED
    BY <1>0, <1>1, <1>2, <1>3, <2>1, MoveInv DEF StartTcp, Move, wire
<1>4. CASE StartUdp(e)
  <2>1. net' \in Nets /\ \A x \in Ends : \A y \in In(net', x) :
          y \in In(net, x) \/ y = Msg("PORT", 0)
    BY <1>2, <1>4, Plain, SentIn DEF StartUdp
  <2>2. Says
    BY <2>1, Plain
  <2> QED
    BY <1>0, <1>1, <1>2, <1>4, <2>1, <2>2, MoveInv DEF StartUdp, Move
<1>5. CASE ReadPort(e)
  <2>1. net' \in Nets /\ Says
    BY <1>2, <1>5, TakenIn DEF ReadPort, Gets
  <2>2. open' \in [Ends -> BOOLEAN] /\ rport' \in [Ends -> {"none", "own", "peer"}]
    BY <1>2, <1>5 DEF ReadPort
  <2> QED
    BY <1>0, <1>1, <1>5, <2>1, <2>2, MoveInv DEF ReadPort, Move
<1>6. CASE ReadPortEof(e)
  <2>1. net' \in Nets /\ Says
    BY <1>2, <1>6 DEF ReadPortEof
  <2>2. open' \in [Ends -> BOOLEAN] /\ rport' \in [Ends -> {"none", "own", "peer"}]
    BY <1>2, <1>6 DEF ReadPortEof
  <2> QED
    BY <1>0, <1>1, <1>6, <2>1, <2>2, MoveInv DEF ReadPortEof, Move
<1>7. CASE ReadPart(e)
  <2>1. net' \in Nets /\ Says
    BY <1>2, <1>7, TakenIn DEF ReadPart, Gets
  <2> QED
    BY <1>0, <1>1, <1>2, <1>7, <2>1, MoveInv DEF ReadPart
<1> QED
  BY <1>3, <1>4, <1>5, <1>6, <1>7

\* The steps by which an end leaves.
LEMMA LeavesInv ==
  ASSUME Inv, NEW e \in Ends,
         \/ ClientRefused /\ e = "client"
         \/ (ServerRejects \/ ServerDenies) /\ e = "server"
         \/ ReadEof(e) \/ Timeout(e) \/ Environment(e)
  PROVE  Inv'
<1>1. excused \in BOOLEAN /\ faults \in Nat
  BY DEF Inv, CountersOK
<1>2. Fault => excused' \in BOOLEAN /\ faults' \in Nat
  BY <1>1 DEF Fault
<1>3. excused' \in BOOLEAN /\ faults' \in Nat
  BY <1>1, <1>2 DEF ClientRefused, ServerRejects, ServerDenies, ReadEof, Timeout,
     Environment, Late, TunnelFails, Down, Die
<1>4. Close(e) /\ (Leave(e) \/ net' = [net EXCEPT ![e] = <<>>])
  BY DEF ClientRefused, ServerRejects, ServerDenies, ReadEof, Timeout,
     Environment, Late, TunnelFails, Down, Die, Leave
<1> QED
  BY <1>3, <1>4, LeaveInv

\* A dead connection holds less than it did, or part of a message.
LEMMA CutInv ==
  ASSUME Inv, Cut
  PROVE  Inv'
<1> USE DEF Inv
<1> DEFINE part == Msg("part", 0)
<1>1. net \in Nets /\ part \in Message
  BY Plain DEF Typed
<1>2. /\ DOMAIN net' = Ends /\ net' = [x \in Ends |-> net'[x]]
      /\ \A x \in Ends : net'[x] = net[x] \/ net'[x] = <<>> \/ net'[x] = <<part>>
  BY DEF Cut
<1> HIDE DEF part
<1>3. net' \in Nets
  <2>1. <<part>> \in Seq(Message) /\ <<>> \in Seq(Message)
    BY <1>1
  <2>2. \A x \in Ends : net[x] \in Seq(Message)
    BY <1>1 DEF Nets
  <2>3. \A x \in Ends : net'[x] \in Seq(Message)
    BY <1>2, <2>1, <2>2
  <2> QED
    BY <1>2, <2>3, Zenon DEF Nets
<1>4. \A x \in Ends : \A y \in In(net', x) : y \in In(net, x) \/ y = part
  <2> SUFFICES ASSUME NEW x \in Ends, NEW y \in In(net', x) PROVE y \in In(net, x) \/ y = part
    OBVIOUS
  <2>1. PICK i \in 1 .. Len(net'[x]) : y = net'[x][i]
    BY DEF In
  <2>2. CASE net'[x] = net[x]
    BY <2>1, <2>2 DEF In
  <2>3. CASE net'[x] = <<>>
    BY <2>1, <2>3
  <2>4. CASE net'[x] = <<part>>
    BY <2>1, <2>4
  <2> QED
    BY <1>2, <2>2, <2>3, <2>4
<1>5. \A x \in Ends : \A y \in In(net', x) : y \in In(net, x) \/ Carried(x, y)'
  BY <1>4, Plain DEF part
<1>6. UNCHANGED <<pc, open, host, server, rport, refused, attempts>> /\ cut' \in BOOLEAN
  BY DEF Cut
<1>7. Typed'
  BY <1>3, <1>6 DEF Typed, server
<1>8. CountersOK'
  BY <1>6 DEF CountersOK, Cut, Fault
<1>9. NetInv'
  BY <1>5, <1>6, NetKept DEF server
<1>10. /\ ClientClear' /\ OwnKept' /\ ServerOptions' /\ FlagsAgree' /\ SessionNeedsPassword'
  BY <1>6 DEF ClientClear, OwnKept, ServerOptions, FlagsAgree, SessionNeedsPassword, server
<1> QED
  BY <1>7, <1>8, <1>9, <1>10

\* A changed configuration, and nothing at all, change nothing of a session.
LEMMA ReloadInv ==
  ASSUME Inv, Reload \/ UNCHANGED vars
  PROVE  Inv'
<1> USE DEF Inv
<1>1. config' \in Configs
  BY DEF Reload, vars, server, Typed
<1>2. UNCHANGED <<pc, net, open, cut, host, entry, chal_req, rport, history>>
  BY DEF Reload, vars, server, wire
<1>3. Typed'
  BY <1>1, <1>2 DEF Typed
<1>4. CountersOK'
  BY <1>2 DEF CountersOK, history
<1>5. NetInv'
  BY <1>2, NetKept
<1>6. /\ ClientClear' /\ OwnKept' /\ ServerOptions' /\ FlagsAgree' /\ SessionNeedsPassword'
  BY <1>2 DEF ClientClear, OwnKept, ServerOptions, FlagsAgree, SessionNeedsPassword
<1> QED
  BY <1>3, <1>4, <1>5, <1>6

\* Every step keeps the invariant.
LEMMA NextInv == Inv /\ [Next]_vars => Inv'
<1> SUFFICES ASSUME Inv, [Next]_vars PROVE Inv'
  OBVIOUS
<1>1. CASE Connect
  BY <1>1, ConnectInv
<1>2. ASSUME NEW e \in Ends, Proceed(e) PROVE Inv'
  <2>1. CASE e = "client" /\ Client
    BY <2>1, ClientAnswers, ClientFlagsInv, ClientGarbledInv, LeavesInv DEF Client
  <2>2. CASE e = "server" /\ Server
    BY <2>2, ServerSpeaks, ServerHostInv, ServerChalInv, LeavesInv DEF Server
  <2>3. CASE StartTcp(e) \/ StartUdp(e) \/ ReadPort(e) \/ ReadPortEof(e) \/ ReadPart(e)
    BY <2>3, BothInv
  <2>4. CASE ReadEof(e) \/ Timeout(e)
    BY <2>4, LeavesInv
  <2> QED
    BY <1>2, <2>1, <2>2, <2>3, <2>4 DEF Proceed
<1>3. ASSUME NEW e \in Ends, Environment(e) PROVE Inv'
  BY <1>3, LeavesInv
<1>4. CASE Cut
  BY <1>4, CutInv
<1>5. CASE Reload \/ UNCHANGED vars
  BY <1>5, ReloadInv
<1> QED
  BY <1>1, <1>2, <1>3, <1>4, <1>5 DEF Next

----------------------------------------------------------------------------
\* The invariant is one.
LEMMA Invariance == Spec => []Inv
<1> QED
  BY InitInv, NextInv, PTL DEF Spec

\* Type correctness: of the state, and of the letters of every challenge and the
\* options of every message under way.
THEOREM TypeCorrect == Spec => []TypeOK
<1>1. Inv => TypeOK
  <2> SUFFICES ASSUME Inv PROVE TypeOK
    OBVIOUS
  <2>1. DOMAIN net = Ends /\ net \in Nets
    BY DEF Inv, Typed, Nets
  <2>2. ASSUME NEW e \in Ends, NEW i \in 1 .. Len(net[e]) PROVE MessageOK(net[e][i])
    <3>1. net[e][i] \in In(net, e) /\ net[e][i] \in Message
      BY <2>1 DEF In, Nets
    <3>2. Carried(e, net[e][i])
      BY <3>1 DEF Inv, NetInv
    <3>3. chal_req \in Chal
      BY DEF Inv, Typed
    <3>4. /\ cl2cs(chal_req) \in [1 .. 2 * CHAL_SIZE -> 0 .. 15]
          /\ cl2cs(encrypt_chal(chal_req, Passwd)) \in [1 .. 2 * CHAL_SIZE -> 0 .. 15]
      BY <3>3, ChalRoundTrip, EncryptedType
    <3>5. net[e][i].kind \in Kinds
      BY <3>1 DEF Message
    <3> QED
      BY <3>2, <3>4, <3>5 DEF Carried, MessageOK
  <2> QED
    BY <2>1, <2>2 DEF Inv, Typed, CountersOK, TypeOK
<1> QED
  BY <1>1, Invariance, PTL

\* For all configurations of a server over time, the client starts every
\* session with the options that the process that accepted it is to supply.
THEOREM SameOptions == Spec => []FlagsAgree
<1>1. Inv => FlagsAgree
  BY DEF Inv
<1> QED
  BY <1>1, Invariance, PTL

\* For every cipher that only its key undoes, a server process goes on only for
\* a client with the right password.
THEOREM PasswordNeeded == Spec => []SessionNeedsPassword
<1>1. Inv => SessionNeedsPassword
  BY DEF Inv
<1> QED
  BY <1>1, Invariance, PTL

----------------------------------------------------------------------------
\* How far the two ends are, relative to each other.

\* An end that has begun and has not finished, and still goes on.
Live == {"greet", "ST_INIT", "ST_HOST", "ST_CHAL", "lock", "tunnel", "port"}

\* Only an end that has left, or replaced it, has closed the connection.
OpenInv == \A e \in Ends : pc[e] \in Live \cup {"stuck"} => open[e]

PortIsUdp == \A e \in Ends : pc[e] = "port" => "UDP" \in host[e].flags

\* A port that was sent is the last message until it is read.
PortWaits ==
  \A e \in Ends :
    /\ ~cut /\ pc[e] \in Live
    /\ pc[Peer(e)] \in {"port", "up"} /\ "UDP" \in host[Peer(e)].flags
    => net[e] # <<>> /\ net[e][Len(net[e])].kind = "PORT"

\* An end that took its own port for the peer's has no peer any more.
PortsKnown ==
  \A e \in Ends :
    pc[e] = "up" /\ "UDP" \in host[e].flags =>
      rport[e] = "peer" \/ pc[Peer(e)] = "idle"

\* A queue of one message, and of two.
One(q, k) == q # <<>> /\ Head(q).kind = k /\ Tail(q) = <<>>
Two(q, k, l) == q # <<>> /\ Head(q).kind = k /\ One(Tail(q), l)

\* The server has nothing more to say, and has said all that the client needs.
Over == pc["server"] \in {"up", "idle"}
OverTcp == Over /\ "UDP" \notin entry.options.flags

\* Where both are, and what is under way, until the client is through.
At(c, s) == pc["client"] = c /\ pc["server"] = s
ToClient == net["client"]
ToServer == net["server"]
Silent(q) == q = <<>>

Asking ==
  \/ At("ST_INIT", "greet") /\ Silent(ToClient) /\ Silent(ToServer)
  \/ At("ST_INIT", "ST_HOST") /\ One(ToClient, "VTUN") /\ Silent(ToServer)
  \/ At("ST_HOST", "ST_HOST") /\ Silent(ToClient) /\ One(ToServer, "HOST")
  \/ At("ST_HOST", "ST_CHAL") /\ One(ToClient, "OK CHAL") /\ Silent(ToServer)
  \/ At("ST_CHAL", "ST_CHAL") /\ Silent(ToClient) /\ One(ToServer, "CHAL")
  \/ At("ST_CHAL", "lock") /\ Silent(ToClient) /\ Silent(ToServer)

Accepted ==
  \/ At("ST_CHAL", "tunnel") /\ One(ToClient, "OK FLAGS") /\ Silent(ToServer)
  \/ At("ST_CHAL", "port") /\ Two(ToClient, "OK FLAGS", "PORT") /\ Silent(ToServer)
  \/ pc["client"] = "ST_CHAL" /\ OverTcp /\ One(ToClient, "OK FLAGS")
  \/ At("tunnel", "tunnel") /\ Silent(ToClient) /\ Silent(ToServer)
  \/ At("tunnel", "port") /\ One(ToClient, "PORT") /\ Silent(ToServer)
  \/ pc["client"] = "tunnel" /\ OverTcp

Ports ==
  \/ At("port", "tunnel") /\ Silent(ToClient) /\ One(ToServer, "PORT")
  \/ At("port", "port") /\ One(ToClient, "PORT") /\ One(ToServer, "PORT")
  \/ pc["client"] = "port" /\ Over /\ One(ToClient, "PORT")

\* Nothing outside auth.c disturbs the attempt, and the server will accept it.
Undisturbed ==
  /\ ~excused
  /\ entry.known /\ entry.passwd = Passwd
  /\ ~("SHAPE" \in entry.options.flags /\ entry.options.spd_in = ERANGE)

OnTheWay == pc["client"] \in {"idle", "up"} \/ Asking \/ Accepted \/ Ports

Smooth ==
  /\ cut => excused
  /\ Undisturbed => ~refused /\ OnTheWay

\* What the proofs below take from Inv.
LEMMA Known ==
  ASSUME Inv
  PROVE  /\ pc \in [Ends -> Labels] /\ net \in Nets
         /\ net["client"] \in Seq(Message) /\ net["server"] \in Seq(Message)
         /\ open \in [Ends -> BOOLEAN] /\ cut \in BOOLEAN /\ host \in [Ends -> Host]
         /\ rport \in [Ends -> {"none", "own", "peer"}]
         /\ refused \in BOOLEAN /\ excused \in BOOLEAN
         /\ entry \in Configs /\ host["server"] = entry.options
BY TwoEnds DEF Inv, Typed, CountersOK, Nets, ServerOptions

\* A host has one protocol, and two ends of a session have the same.
LEMMA OneProtocol ==
  ASSUME Inv
  PROVE  /\ "TCP" \in entry.options.flags <=> "UDP" \notin entry.options.flags
         /\ "UDP" \in host["server"].flags <=> "UDP" \in entry.options.flags
         /\ pc["client"] \in Sessions =>
              /\ host["client"].flags \cap Prots = entry.options.flags \cap Prots
              /\ "UDP" \in host["client"].flags <=> "UDP" \in entry.options.flags
              /\ "TCP" \in host["client"].flags <=> "TCP" \in entry.options.flags
<1>1. entry \in Configs /\ host["server"] = entry.options
  BY Known
<1>2. \E p \in Prots : entry.options.flags \cap Prots = {p}
  BY <1>1, ConfigAssumption
<1>3. "TCP" \in entry.options.flags <=> "UDP" \notin entry.options.flags
  BY <1>2 DEF Prots
<1>4. ASSUME pc["client"] \in Sessions
      PROVE  host["client"].flags \cap Prots = entry.options.flags \cap Prots
  <2>1. (host["client"].flags \cap Supplied) \ {"SHAPE", "KEEP_ALIVE"}
          = (entry.options.flags \cap Supplied) \ {"SHAPE", "KEEP_ALIVE"}
    BY <1>4 DEF Inv, FlagsAgree, Agree
  <2>2. Prots \subseteq Supplied /\ "SHAPE" \notin Prots
    BY DEF Prots, Supplied
  <2>3. "KEEP_ALIVE" \notin Prots
    BY DEF Prots
  <2> QED
    BY <2>1, <2>2, <2>3
<1>5. "UDP" \in Prots /\ "TCP" \in Prots
  BY DEF Prots
<1> QED
  BY <1>1, <1>3, <1>4, <1>5

\* A message at the end of a queue.
LEMMA Queued ==
  ASSUME NEW q \in Seq(Message), NEW m \in Message
  PROVE  /\ Append(q, m) # <<>> /\ Append(q, m)[Len(Append(q, m))] = m
         /\ q = <<>> => One(Append(q, m), m.kind)
         /\ \A k : One(q, k) => Two(Append(q, m), k, m.kind)
<1>1. Append(q, m) # <<>> /\ Append(q, m)[Len(Append(q, m))] = m
  OBVIOUS
<1>2. q = <<>> => One(Append(q, m), m.kind)
  BY DEF One
<1>3. ASSUME NEW k, One(q, k) PROVE Two(Append(q, m), k, m.kind)
  <2>1. q # <<>> /\ Head(q).kind = k /\ Tail(q) = <<>>
    BY <1>3 DEF One
  <2>2. Head(Append(q, m)) = Head(q) /\ Tail(Append(q, m)) = Append(Tail(q), m)
    BY <2>1
  <2>3. Tail(Append(q, m)) = <<m>>
    <3>1. Append(<<>>, m) = <<m>>
      OBVIOUS
    <3> QED
      BY <2>1, <2>2, <3>1
  <2>4. <<m>> # <<>> /\ Head(<<m>>) = m /\ Tail(<<m>>) = <<>>
    OBVIOUS
  <2> QED
    BY <1>1, <2>1, <2>2, <2>3, <2>4 DEF One, Two
<1> QED
  BY <1>1, <1>2, <1>3

\* A port stays the last message when something else is taken off.
LEMMA StaysLast ==
  ASSUME NEW q \in Seq(Message), q # <<>>, q[Len(q)].kind = "PORT",
         Head(q).kind # "PORT"
  PROVE  Tail(q) # <<>> /\ Tail(q)[Len(Tail(q))].kind = "PORT"
<1>1. Len(q) \in Nat /\ Len(q) > 0 /\ Head(q) = q[1]
  OBVIOUS
<1>2. Len(q) # 1
  BY <1>1
<1>3. Len(Tail(q)) = Len(q) - 1 /\ Tail(q)[Len(q) - 1] = q[(Len(q) - 1) + 1]
  BY <1>1, <1>2
<1>4. Len(Tail(q)) > 0 /\ (Len(q) - 1) + 1 = Len(q)
  BY <1>1, <1>2, <1>3
<1> QED
  BY <1>3, <1>4

\* What a message does to the two queues.
LEMMA SentTo ==
  ASSUME NEW n \in Nets, NEW e \in Ends, NEW m \in Message
  PROVE  /\ Sent(n, e, m)[e] = n[e]
         /\ ~cut /\ open[Peer(e)] => Sent(n, e, m)[Peer(e)] = Append(n[Peer(e)], m)
BY TwoEnds DEF Sent, Nets

\* Whatever an end answers, one message less is left to it.
LEMMA OneLess ==
  ASSUME net \in Nets, NEW e \in Ends, NEW m, Answer(e, m)
  PROVE  net'[e] = Tail(net[e])
<1> DEFINE n == [net EXCEPT ![e] = Tail(@)]
<1>1. n[e] = Tail(net[e]) /\ e \in DOMAIN n
  BY DEF Nets
<1>2. net' = Sent(n, e, m)
  BY DEF Answer
<1> HIDE DEF n
<1>3. Sent(n, e, m)[e] = n[e]
  BY TwoEnds DEF Sent
<1> QED
  BY <1>1, <1>2, <1>3

\* Taking one off, too.
LEMMA Answered ==
  ASSUME net \in Nets, NEW e \in Ends, net[e] # <<>>, NEW m \in Message, Answer(e, m)
  PROVE  /\ net'[e] = Tail(net[e])
         /\ ~cut /\ open[Peer(e)] => net'[Peer(e)] = Append(net[Peer(e)], m)
<1> DEFINE n == [net EXCEPT ![e] = Tail(@)]
<1>1. n \in Nets
  BY TailIn
<1>2. n[e] = Tail(net[e]) /\ n[Peer(e)] = net[Peer(e)]
  BY TwoEnds DEF Nets
<1>3. net' = Sent(n, e, m)
  BY DEF Answer
<1> HIDE DEF n
<1> QED
  BY <1>1, <1>2, <1>3, SentTo

\* What an end does to its own queue and to its label.
LEMMA Moved ==
  ASSUME Inv, NEW e \in Ends, NEW l, pc' = [pc EXCEPT ![e] = l]
  PROVE  pc'[e] = l /\ pc'[Peer(e)] = pc[Peer(e)] /\ \A x \in Ends : x = e \/ x = Peer(e)
BY Known, TwoEnds DEF Ends, Peer

Pairing == OpenInv /\ PortIsUdp /\ PortWaits /\ PortsKnown

\* A property of each end is one of e and one of its peer.
LEMMA BothEnds ==
  ASSUME NEW e \in Ends
  PROVE  /\ Ends = {e, Peer(e)} /\ e # Peer(e) /\ Peer(Peer(e)) = e
         /\ Peer(e) \in Ends
BY DEF Ends, Peer

\* An end that leaves.
LEMMA LeavesPairing ==
  ASSUME Inv, Pairing, NEW e \in Ends, pc' = [pc EXCEPT ![e] = "idle"],
         open' = [open EXCEPT ![e] = FALSE],
         cut' = cut, rport' = rport, host'[Peer(e)] = host[Peer(e)]
  PROVE  Pairing'
<1> DEFINE p == Peer(e)
<1>1. Ends = {e, p} /\ e # p /\ Peer(p) = e /\ p \in Ends
  BY BothEnds
<1>2. pc'[e] = "idle" /\ pc'[p] = pc[p] /\ open'[p] = open[p]
  BY <1>1, Known
<1>3. "idle" \notin Live \cup {"stuck"}
  BY DEF Live
<1> HIDE DEF p
<1>4. OpenInv' /\ PortIsUdp'
  BY <1>1, <1>2, <1>3 DEF Pairing, OpenInv, PortIsUdp, p
<1>5. PortWaits' /\ PortsKnown'
  BY <1>1, <1>2, <1>3 DEF PortWaits, PortsKnown, p
<1> QED
  BY <1>4, <1>5 DEF Pairing

\* A step before the ports.
LEMMA EarlyPairing ==
  ASSUME Inv, Pairing, NEW e \in Ends, pc[e] \in Live \ {"port"},
         NEW l \in Live \ {"port"}, pc' = [pc EXCEPT ![e] = l],
         UNCHANGED <<open, cut, rport>>, host'[Peer(e)] = host[Peer(e)],
         \/ net'[e] = net[e]
         \/ net'[e] = Tail(net[e]) /\ net[e] # <<>> /\ Head(net[e]).kind # "PORT"
  PROVE  Pairing'
<1> DEFINE p == Peer(e)
<1>1. Ends = {e, p} /\ e # p /\ Peer(p) = e /\ p \in Ends
  BY BothEnds
<1>2. pc'[e] = l /\ pc'[p] = pc[p]
  BY <1>1, Known
<1>3. {"up", "idle", "stuck"} \cap Live = {}
  BY DEF Live
<1>4. net[e] \in Seq(Message)
  BY Known DEF Nets
<1> HIDE DEF p
<1>5. OpenInv' /\ PortIsUdp'
  BY <1>1, <1>2 DEF Pairing, OpenInv, PortIsUdp, p
<1>6. PortWaits'
  <2> SUFFICES ASSUME ~cut, pc[p] \in {"port", "up"}, "UDP" \in host[p].flags
               PROVE  net'[e] # <<>> /\ net'[e][Len(net'[e])].kind = "PORT"
    BY <1>1, <1>2, <1>3 DEF PortWaits, p
  <2>1. net[e] # <<>> /\ net[e][Len(net[e])].kind = "PORT"
    BY <1>1 DEF Pairing, PortWaits, p
  <2> QED
    BY <1>4, <2>1, StaysLast
<1>7. PortsKnown'
  BY <1>1, <1>2, <1>3 DEF Pairing, PortsKnown, p
<1> QED
  BY <1>5, <1>6, <1>7 DEF Pairing

\* tunnel() over TCP sends no port and needs none.
LEMMA TcpPairing ==
  ASSUME Inv, Pairing, NEW e \in Ends, StartTcp(e)
  PROVE  Pairing'
<1> DEFINE p == Peer(e)
<1>1. Ends = {e, p} /\ e # p /\ Peer(p) = e /\ p \in Ends
  BY BothEnds
<1>2. /\ pc[e] = "tunnel" /\ pc'[e] = "up" /\ pc'[p] = pc[p]
      /\ UNCHANGED <<net, open, cut, host, rport>> /\ "TCP" \in host[e].flags
  BY <1>1, Known DEF StartTcp, Move, wire
<1>3. "UDP" \notin host[e].flags
  <2>1. CASE e = "server"
    BY <1>2, <2>1, OneProtocol, Known
  <2>2. CASE e = "client"
    BY <1>2, <2>2, OneProtocol DEF Sessions
  <2> QED
    BY <2>1, <2>2 DEF Ends
<1>4. "up" \notin Live \cup {"stuck"}
  BY DEF Live
<1> HIDE DEF p
<1>5. OpenInv' /\ PortIsUdp'
  BY <1>1, <1>2, <1>4 DEF Pairing, OpenInv, PortIsUdp, p
<1>6. PortWaits' /\ PortsKnown'
  BY <1>1, <1>2, <1>3, <1>4 DEF Pairing, PortWaits, PortsKnown, p
<1> QED
  BY <1>5, <1>6 DEF Pairing

\* udp_session() writes its port while the other end still reads.
LEMMA UdpPairing ==
  ASSUME Inv, Pairing, NEW e \in Ends, StartUdp(e)
  PROVE  Pairing'
<1> DEFINE p == Peer(e)
           m == Msg("PORT", 0)
<1>1. Ends = {e, p} /\ e # p /\ Peer(p) = e /\ p \in Ends
  BY BothEnds
<1>2. /\ pc[e] = "tunnel" /\ pc'[e] = "port" /\ pc'[p] = pc[p]
      /\ UNCHANGED <<open, cut, host, rport>> /\ "UDP" \in host[e].flags
      /\ net' = Sent(net, e, m)
  BY <1>1, Known DEF StartUdp, Move
<1>3. m \in Message /\ m.kind = "PORT" /\ net[p] \in Seq(Message) /\ net \in Nets
  BY <1>1, Plain, Known DEF Msg, Nets
<1> HIDE DEF m
<1>4. net'[e] = net[e] /\ (~cut /\ open[p] => net'[p] = Append(net[p], m))
  BY <1>2, <1>3, SentTo
<1>5. "tunnel" \in Live /\ "port" \in Live /\ "tunnel" # "idle"
  BY DEF Live
<1>6. Append(net[p], m) # <<>> /\ Append(net[p], m)[Len(Append(net[p], m))] = m
  BY <1>3, Queued
<1> HIDE DEF p
<1>7. OpenInv' /\ PortIsUdp'
  BY <1>1, <1>2, <1>5 DEF Pairing, OpenInv, PortIsUdp, p
<1>8. ASSUME ~cut, pc[p] \in Live
      PROVE  net'[p] # <<>> /\ net'[p][Len(net'[p])].kind = "PORT"
  <2>1. net'[p] = Append(net[p], m)
    BY <1>1, <1>4, <1>8 DEF Pairing, OpenInv
  <2> QED
    BY <1>3, <1>6, <2>1
<1>9. PortWaits' /\ PortsKnown'
  BY <1>1, <1>2, <1>4, <1>5, <1>8 DEF Pairing, PortWaits, PortsKnown, p
<1> QED
  BY <1>7, <1>9 DEF Pairing

\* udp_session() reads the peer's port, or finds that there is no peer: one
\* that had gone on would have left its port to read.
LEMMA PortPairing ==
  ASSUME Inv, Pairing, NEW e \in Ends, ReadPort(e) \/ ReadPortEof(e) \/ ReadPart(e)
  PROVE  Pairing'
<1> DEFINE p == Peer(e)
<1>1. Ends = {e, p} /\ e # p /\ Peer(p) = e /\ p \in Ends
  BY BothEnds
<1>2. /\ pc[e] \in Live /\ pc'[p] = pc[p] /\ open'[p] = open[p] /\ net'[p] = net[p]
      /\ rport'[p] = rport[p] /\ cut' = cut /\ host' = host
  BY <1>1, Known DEF ReadPort, ReadPortEof, ReadPart, Reads, Taken, Move, Live, Nets
<1>3. \/ pc[e] = "port" /\ pc'[e] = "up" /\ (rport'[e] = "peer" \/ ReadPortEof(e))
      \/ pc'[e] = "stuck" /\ open' = open
  BY <1>1, Known DEF ReadPort, ReadPortEof, ReadPart, Move
<1>4. {"up", "stuck", "idle"} \cap Live = {}
  BY DEF Live
<1>5. ASSUME ReadPortEof(e) PROVE pc[p] = "idle"
  <2>1. pc[e] = "port" /\ net[e] = <<>> /\ ~open[p] /\ ~cut
    BY <1>5 DEF ReadPortEof, Move, Eof
  <2>2. pc[p] \notin Live \cup {"stuck"} /\ pc[p] \in Labels
    BY <1>1, <2>1, Known DEF Pairing, OpenInv
  <2>3. pc[p] \in {"up", "idle"}
    BY <2>2 DEF Labels, Live
  <2>4. ASSUME pc[p] = "up" PROVE FALSE
    <3>1. "UDP" \in host[e].flags
      BY <2>1 DEF Pairing, PortIsUdp
    <3>2. "UDP" \in host[p].flags
      <4>1. pc[e] \in Sessions /\ pc[p] \in Sessions
        BY <2>1, <2>4 DEF Sessions
      <4>2. CASE e = "server"
        BY <3>1, <4>1, <4>2, OneProtocol, TwoEnds
      <4>3. CASE e = "client"
        BY <3>1, <4>1, <4>3, OneProtocol, TwoEnds
      <4> QED
        BY <4>2, <4>3 DEF Ends
    <3>3. "port" \in Live
      BY DEF Live
    <3> QED
      BY <2>1, <2>4, <3>2, <3>3 DEF Pairing, PortWaits
  <2> QED
    BY <2>3, <2>4
<1> HIDE DEF p
<1>6. OpenInv'
  BY <1>1, <1>2, <1>3, <1>4 DEF Pairing, OpenInv
<1>7. PortIsUdp'
  BY <1>1, <1>2, <1>3 DEF Pairing, PortIsUdp
<1>8. PortWaits'
  BY <1>1, <1>2, <1>3, <1>4 DEF Pairing, PortWaits, p
<1>9. PortsKnown'
  BY <1>1, <1>2, <1>3, <1>4, <1>5 DEF Pairing, PortsKnown, p
<1> QED
  BY <1>6, <1>7, <1>8, <1>9 DEF Pairing
----------------------------------------------------------------------------
\* An attempt that nothing disturbs.

\* The response of a client with the right password is the right one.
LEMMA RightResponse ==
  ASSUME Inv, entry.known, entry.passwd = Passwd, Gets("server", "CHAL")
  PROVE  Verified(Head(net["server"]).val)
<1>1. chal_req \in Chal
  BY DEF Inv, Typed
<1>2. Head(net["server"]).val = cl2cs(encrypt_chal(chal_req, Passwd))
  <2>1. Carried("server", Head(net["server"]))
    BY HeadIn, TwoEnds DEF Inv, Typed, NetInv, Gets
  <2> QED
    BY <2>1 DEF Carried, Gets
<1>3. cs2cl(Head(net["server"]).val) = Crypt[Passwd][chal_req]
  BY <1>1, <1>2, EncryptedType, ChalRoundTrip DEF encrypt_chal
<1>4. decrypt_chal(Crypt[Passwd][chal_req], Passwd) = chal_req
  BY <1>1, CryptAssumption DEF decrypt_chal
<1> QED
  BY <1>3, <1>4 DEF Verified

\* cf2bf() mistakes no number but a speed.
LEMMA NotGarbled ==
  ASSUME Inv, Undisturbed
  PROVE  Garbled(bf2cf(entry.options)) = {}
<1> DEFINE h == entry.options
<1>1. /\ h.cipher \in 1 .. 16 \cup {VTUN_LEGACY_ENCRYPT} /\ h.zlevel \in 0 .. 9
  BY Known, ConfigAssumption
<1>2. ~("SHAPE" \in h.flags /\ h.spd_in = ERANGE)
  BY DEF Undisturbed
<1> HIDE DEF h
<1>3. ASSUME NEW f \in {"SHAPE", "ZLIB", "LZO", "ENCRYPT"}, f \in h.flags
      PROVE  Number(h, f) # ERANGE
  BY <1>1, <1>2, <1>3 DEF Number, ERANGE, VTUN_LEGACY_ENCRYPT
<1>4. Garbled(bf2cf(h)) = {}
  BY <1>3 DEF Garbled, bf2cf
<1> QED
  BY <1>4 DEF h

\* The options that the server sends are the ones that NotGarbled is about.
LEMMA FlagsSent ==
  ASSUME Inv, Gets("client", "OK FLAGS")
  PROVE  Head(net["client"]).val = bf2cf(entry.options)
<1>1. Carried("client", Head(net["client"]))
  BY HeadIn, TwoEnds DEF Inv, Typed, NetInv, Gets
<1> QED
  BY <1>1 DEF Carried, Gets

\* A step of the same attempt that disturbs nothing has to stay on the way.
LEMMA SmoothBy ==
  ASSUME Smooth, UNCHANGED <<entry, excused, refused, cut>>,
         Undisturbed /\ ~cut /\ OnTheWay => OnTheWay'
  PROVE  Smooth'
<1>1. Undisturbed' = Undisturbed
  BY DEF Undisturbed
<1> QED
  BY <1>1 DEF Smooth, Undisturbed

\* auth_client() answers the greeting and the challenge.
LEMMA ClientOnTheWay ==
  ASSUME Inv, Pairing, ~cut, OnTheWay, ClientHost \/ ClientChal
  PROVE  OnTheWay'
<1> USE DEF At, Silent, ToClient, ToServer
<1>1. pc["server"] \in Live => open["server"]
  BY TwoEnds DEF Pairing, OpenInv
<1>2. net \in Nets /\ net["server"] \in Seq(Message)
  BY Known
<1>3. CASE ClientHost
  <2> DEFINE m == Msg("HOST", 0)
  <2>1. m \in Message /\ m.kind = "HOST" /\ Gets("client", "VTUN") /\ Answer("client", m)
    BY <1>3, Plain DEF ClientHost, Msg
  <2>2. pc["client"] = "ST_INIT" /\ pc'["client"] = "ST_HOST" /\ pc'["server"] = pc["server"]
    BY <1>3, Moved, TwoEnds DEF ClientHost, Move
  <2> HIDE DEF m
  <2>3. pc["server"] = "ST_HOST" /\ One(net["client"], "VTUN") /\ net["server"] = <<>>
    BY <2>1, <2>2 DEF OnTheWay, Asking, Accepted, Ports, Gets
  <2>4. net'["client"] = Tail(net["client"]) /\ net'["server"] = Append(net["server"], m)
    BY <1>1, <1>2, <2>1, <2>3, Answered, TwoEnds DEF Gets, Live
  <2>5. net'["client"] = <<>> /\ One(net'["server"], "HOST")
    BY <1>2, <2>1, <2>3, <2>4, Queued DEF One
  <2> QED
    BY <2>2, <2>3, <2>5 DEF OnTheWay, Asking
<1>4. CASE ClientChal
  <2> DEFINE m == Msg("CHAL", cl2cs(encrypt_chal(cs2cl(Head(net["client"]).val), Passwd)))
  <2>1. m \in Message /\ m.kind = "CHAL" /\ Gets("client", "OK CHAL") /\ Answer("client", m)
    <3>1. Carried("client", Head(net["client"])) /\ Gets("client", "OK CHAL")
      BY <1>4, HeadIn, TwoEnds DEF Inv, Typed, NetInv, Gets, ClientChal
    <3>2. cs2cl(Head(net["client"]).val) = chal_req /\ chal_req \in Chal
      BY <3>1, ChalRoundTrip DEF Carried, Gets, Inv, Typed
    <3>3. cl2cs(encrypt_chal(chal_req, Passwd)) \in [1 .. 2 * CHAL_SIZE -> 0 .. 15]
      BY <3>2, EncryptedType, ChalRoundTrip
    <3>4. m \in Message
      BY <3>2, <3>3 DEF Msg, Message, Kinds
    <3> QED
      BY <1>4, <3>1, <3>4 DEF ClientChal, Msg
  <2>2. pc["client"] = "ST_HOST" /\ pc'["client"] = "ST_CHAL" /\ pc'["server"] = pc["server"]
    BY <1>4, Moved, TwoEnds DEF ClientChal, Move
  <2> HIDE DEF m
  <2>3. pc["server"] = "ST_CHAL" /\ One(net["client"], "OK CHAL") /\ net["server"] = <<>>
    BY <2>1, <2>2 DEF OnTheWay, Asking, Accepted, Ports, Gets
  <2>4. net'["client"] = Tail(net["client"]) /\ net'["server"] = Append(net["server"], m)
    BY <1>1, <1>2, <2>1, <2>3, Answered, TwoEnds DEF Gets, Live
  <2>5. net'["client"] = <<>> /\ One(net'["server"], "CHAL")
    BY <1>2, <2>1, <2>3, <2>4, Queued DEF One
  <2> QED
    BY <2>2, <2>3, <2>5 DEF OnTheWay, Asking
<1> QED
  BY <1>3, <1>4

\* The client takes the options, and its port if it has come.
LEMMA FlagsOnTheWay ==
  ASSUME Inv, OnTheWay, ClientFlags
  PROVE  OnTheWay'
<1> USE DEF At, Silent, ToClient, ToServer
<1>1. /\ pc["client"] = "ST_CHAL" /\ pc'["client"] = "tunnel" /\ pc'["server"] = pc["server"]
      /\ entry' = entry
  BY Moved, TwoEnds DEF ClientFlags, Move, server
<1>2. /\ net["client"] # <<>> /\ Head(net["client"]).kind = "OK FLAGS"
      /\ net'["client"] = Tail(net["client"]) /\ net'["server"] = net["server"]
  BY Known, TwoEnds DEF ClientFlags, Gets, Taken, Nets
<1>3. \/ pc["server"] = "tunnel" /\ One(net["client"], "OK FLAGS") /\ net["server"] = <<>>
      \/ /\ pc["server"] = "port" /\ Two(net["client"], "OK FLAGS", "PORT")
         /\ net["server"] = <<>>
      \/ OverTcp
  BY <1>1, <1>2 DEF OnTheWay, Asking, Accepted, Ports
<1>4. \/ pc'["server"] = "tunnel" /\ net'["client"] = <<>> /\ net'["server"] = <<>>
      \/ pc'["server"] = "port" /\ One(net'["client"], "PORT") /\ net'["server"] = <<>>
      \/ OverTcp'
  BY <1>1, <1>2, <1>3 DEF One, Two, OverTcp, Over
<1> QED
  BY <1>1, <1>4 DEF OnTheWay, Accepted

\* auth_server() greets, asks, accepts and sends the options.
LEMMA ServerOnTheWay ==
  ASSUME Inv, Pairing, ~cut, OnTheWay, pc["client"] \notin {"idle", "up"},
         Greet \/ ServerHost \/ ServerChal \/ ServerFlags
  PROVE  OnTheWay'
<1> USE DEF At, Silent, ToClient, ToServer
<1>1. pc["client"] \in Live => open["client"]
  BY TwoEnds DEF Pairing, OpenInv
<1>2. net \in Nets /\ net["client"] \in Seq(Message)
  BY Known
<1>3. pc'["client"] = pc["client"]
  BY Moved, TwoEnds DEF Greet, ServerHost, ServerChal, ServerFlags, Move
<1>4. CASE Greet
  <2> DEFINE m == Msg("VTUN", 0)
  <2>1. m \in Message /\ m.kind = "VTUN" /\ net' = Sent(net, "server", m)
    BY <1>4, Plain DEF Greet, Msg
  <2>2. pc["server"] = "greet" /\ pc'["server"] = "ST_HOST"
    BY <1>4, Moved, TwoEnds DEF Greet, Move
  <2> HIDE DEF m
  <2>3. pc["client"] = "ST_INIT" /\ net["client"] = <<>> /\ net["server"] = <<>>
    BY <2>2 DEF OnTheWay, Asking, Accepted, Ports, Over, OverTcp
  <2>4. net'["client"] = Append(net["client"], m) /\ net'["server"] = net["server"]
    BY <1>1, <1>2, <2>1, <2>3, SentTo, TwoEnds DEF Live
  <2>5. One(net'["client"], "VTUN")
    BY <1>2, <2>1, <2>3, <2>4, Queued
  <2> QED
    BY <1>3, <2>2, <2>3, <2>4, <2>5 DEF OnTheWay, Asking
<1>5. CASE ServerHost
  <2> DEFINE m == Msg("OK CHAL", cl2cs(chal_req'))
  <2>1. m \in Message /\ m.kind = "OK CHAL" /\ Gets("server", "HOST") /\ Answer("server", m)
    <3>1. chal_req' \in Chal
      BY <1>5, CryptAssumption DEF ServerHost
    <3>2. m \in Message
      BY <3>1, ChalRoundTrip DEF Msg, Message, Kinds
    <3> QED
      BY <1>5, <3>2 DEF ServerHost, Msg
  <2>2. pc["server"] = "ST_HOST" /\ pc'["server"] = "ST_CHAL"
    BY <1>5, Moved, TwoEnds DEF ServerHost, Move
  <2> HIDE DEF m
  <2>3. pc["client"] = "ST_HOST" /\ net["client"] = <<>> /\ One(net["server"], "HOST")
    BY <2>1, <2>2 DEF OnTheWay, Asking, Accepted, Ports, Over, OverTcp, Gets
  <2>4. net'["client"] = Append(net["client"], m) /\ net'["server"] = Tail(net["server"])
    BY <1>1, <1>2, <2>1, <2>3, Answered, TwoEnds DEF Gets, Live
  <2>5. One(net'["client"], "OK CHAL") /\ net'["server"] = <<>>
    BY <1>2, <2>1, <2>3, <2>4, Queued DEF One
  <2> QED
    BY <1>3, <2>2, <2>3, <2>5 DEF OnTheWay, Asking
<1>6. CASE ServerChal
  <2>1. pc["server"] = "ST_CHAL" /\ pc'["server"] = "lock"
    BY <1>6, Moved, TwoEnds DEF ServerChal, Move
  <2>2. /\ net["server"] # <<>> /\ Head(net["server"]).kind = "CHAL"
        /\ net'["server"] = Tail(net["server"]) /\ net'["client"] = net["client"]
    BY <1>2, <1>6, TwoEnds DEF ServerChal, Gets, Taken, Nets
  <2>3. pc["client"] = "ST_CHAL" /\ net["client"] = <<>> /\ One(net["server"], "CHAL")
    BY <2>1, <2>2 DEF OnTheWay, Asking, Accepted, Ports, Over, OverTcp
  <2> QED
    BY <1>3, <2>1, <2>2, <2>3 DEF OnTheWay, Asking, One
<1>7. CASE ServerFlags
  <2> DEFINE m == Msg("OK FLAGS", bf2cf(host["server"]))
  <2>1. m \in Message /\ m.kind = "OK FLAGS" /\ net' = Sent(net, "server", m)
    <3>1. entry \in Configs /\ host["server"] = entry.options
      BY Known
    <3>2. m \in Message
      BY <3>1 DEF Msg, Message, Kinds
    <3> QED
      BY <1>7, <3>2 DEF ServerFlags, Msg
  <2>2. pc["server"] = "lock" /\ pc'["server"] = "tunnel"
    BY <1>7, Moved, TwoEnds DEF ServerFlags, Move
  <2> HIDE DEF m
  <2>3. pc["client"] = "ST_CHAL" /\ net["client"] = <<>> /\ net["server"] = <<>>
    BY <2>2 DEF OnTheWay, Asking, Accepted, Ports, Over, OverTcp
  <2>4. net'["client"] = Append(net["client"], m) /\ net'["server"] = net["server"]
    <3>1. open["client"]
      BY <1>1, <2>3 DEF Live
    <3>2. /\ Sent(net, "server", m)["server"] = net["server"]
          /\ open[Peer("server")] =>
               Sent(net, "server", m)[Peer("server")] = Append(net[Peer("server")], m)
      BY <1>2, <2>1, SentTo, TwoEnds
    <3> QED
      BY <2>1, <3>1, <3>2, TwoEnds
  <2>5. One(net'["client"], "OK FLAGS")
    BY <1>2, <2>1, <2>3, <2>4, Queued
  <2> QED
    BY <1>3, <2>2, <2>3, <2>4, <2>5 DEF OnTheWay, Accepted
<1> QED
  BY <1>4, <1>5, <1>6, <1>7

\* tunnel() over TCP: only where both ends use it.
LEMMA TcpOnTheWay ==
  ASSUME Inv, Pairing, OnTheWay, NEW e \in Ends, StartTcp(e)
  PROVE  OnTheWay'
<1> USE DEF At, Silent, ToClient, ToServer
<1>1. pc[e] = "tunnel" /\ pc'[e] = "up" /\ pc'[Peer(e)] = pc[Peer(e)]
  BY Moved DEF StartTcp, Move
<1>2. net' = net /\ entry' = entry /\ "TCP" \in host[e].flags
  BY DEF StartTcp, wire, server
<1>3. CASE e = "client"
  BY <1>1, <1>3 DEF OnTheWay
<1>4. CASE e = "server"
  <2>1. pc["server"] = "tunnel" /\ pc'["server"] = "up" /\ pc'["client"] = pc["client"]
    BY <1>1, <1>4, TwoEnds
  <2>2. "UDP" \notin entry.options.flags
    BY <1>2, <1>4, OneProtocol, Known
  <2>3. OverTcp'
    BY <1>2, <2>1, <2>2 DEF OverTcp, Over
  <2>4. pc["client"] # "port"
    <3>1. pc["client"] = "port" => "UDP" \in host["client"].flags
      BY TwoEnds DEF Pairing, PortIsUdp
    <3> QED
      BY <2>2, <3>1, OneProtocol DEF Sessions
  <2>5. \/ pc["client"] \in {"idle", "up", "tunnel"}
        \/ pc["client"] = "ST_CHAL" /\ One(net["client"], "OK FLAGS")
    BY <2>1, <2>4 DEF OnTheWay, Asking, Accepted, Ports, Over, OverTcp
  <2> QED
    BY <1>2, <2>1, <2>3, <2>5 DEF OnTheWay, Accepted
<1> QED
  BY <1>3, <1>4 DEF Ends

\* udp_session() writes its port.
LEMMA UdpOnTheWay ==
  ASSUME Inv, Pairing, ~cut, OnTheWay, NEW e \in Ends, StartUdp(e)
  PROVE  OnTheWay'
<1> USE DEF At, Silent, ToClient, ToServer
<1> DEFINE m == Msg("PORT", 0)
<1>1. pc[e] = "tunnel" /\ pc'[e] = "port" /\ pc'[Peer(e)] = pc[Peer(e)]
  BY Moved DEF StartUdp, Move
<1>2. net' = Sent(net, e, m) /\ entry' = entry /\ "UDP" \in host[e].flags
  BY DEF StartUdp, server
<1>3. /\ net \in Nets /\ net["client"] \in Seq(Message) /\ net["server"] \in Seq(Message)
      /\ m \in Message /\ m.kind = "PORT"
  BY Known, Plain DEF Msg
<1> HIDE DEF m
<1>4. /\ net'[e] = net[e]
      /\ open[Peer(e)] => net'[Peer(e)] = Append(net[Peer(e)], m)
  BY <1>2, <1>3, SentTo
<1>5. \A x \in Ends : pc[x] \in Live => open[x]
  BY DEF Pairing, OpenInv
<1>6. CASE e = "client"
  <2>1. /\ pc["client"] = "tunnel" /\ pc'["client"] = "port" /\ pc'["server"] = pc["server"]
        /\ net'["client"] = net["client"]
        /\ open["server"] => net'["server"] = Append(net["server"], m)
    BY <1>1, <1>4, <1>6, TwoEnds
  <2>2. "UDP" \in entry.options.flags
    BY <1>2, <1>6, <2>1, OneProtocol DEF Sessions
  <2>3. \/ pc["server"] = "tunnel" /\ net["client"] = <<>> /\ net["server"] = <<>>
        \/ pc["server"] = "port" /\ One(net["client"], "PORT") /\ net["server"] = <<>>
    BY <2>1, <2>2 DEF OnTheWay, Asking, Accepted, Ports, OverTcp
  <2>4. One(net'["server"], "PORT")
    BY <1>3, <1>5, <2>1, <2>3, Queued, TwoEnds DEF Live
  <2> QED
    BY <2>1, <2>3, <2>4 DEF OnTheWay, Ports
<1>7. CASE e = "server"
  <2>1. /\ pc["server"] = "tunnel" /\ pc'["server"] = "port" /\ pc'["client"] = pc["client"]
        /\ net'["server"] = net["server"]
        /\ open["client"] => net'["client"] = Append(net["client"], m)
    BY <1>1, <1>4, <1>7, TwoEnds
  <2>2. \/ pc["client"] \in {"idle", "up"}
        \/ pc["client"] = "ST_CHAL" /\ One(net["client"], "OK FLAGS") /\ net["server"] = <<>>
        \/ pc["client"] = "tunnel" /\ net["client"] = <<>> /\ net["server"] = <<>>
        \/ pc["client"] = "port" /\ net["client"] = <<>> /\ One(net["server"], "PORT")
    BY <2>1 DEF OnTheWay, Asking, Accepted, Ports, Over, OverTcp
  <2>3. pc["client"] \in {"ST_CHAL", "tunnel", "port"} =>
          /\ net'["client"] = Append(net["client"], m)
          /\ net["client"] = <<>> => One(net'["client"], "PORT")
          /\ One(net["client"], "OK FLAGS") => Two(net'["client"], "OK FLAGS", "PORT")
    <3>1. /\ net["client"] = <<>> => One(Append(net["client"], m), "PORT")
          /\ One(net["client"], "OK FLAGS") =>
               Two(Append(net["client"], m), "OK FLAGS", "PORT")
      BY <1>3, Queued
    <3>2. pc["client"] \in {"ST_CHAL", "tunnel", "port"} => open["client"]
      BY <1>5, TwoEnds DEF Live
    <3> QED
      BY <2>1, <3>1, <3>2
  <2> QED
    BY <2>1, <2>2, <2>3 DEF OnTheWay, Accepted, Ports
<1> QED
  BY <1>6, <1>7 DEF Ends

\* udp_session() reads a port, or the end of the connection; part of a message
\* there is not.
LEMMA PortOnTheWay ==
  ASSUME Inv, Pairing, OnTheWay, NEW e \in Ends,
         ReadPort(e) \/ ReadPortEof(e) \/ ReadPart(e)
  PROVE  OnTheWay'
<1> USE DEF At, Silent, ToClient, ToServer
<1>1. /\ pc[e] # "idle" /\ pc[e] # "up" /\ pc'[Peer(e)] = pc[Peer(e)]
      /\ net'[Peer(e)] = net[Peer(e)] /\ entry' = entry
  BY BothEnds, Known DEF ReadPort, ReadPortEof, ReadPart, Reads, Taken, Move, Nets, server
<1>2. ReadPart(e) => Reads(e) /\ Gets(e, "part")
  BY DEF ReadPart
<1>3. ~ReadPart(e) => pc[e] = "port" /\ pc'[e] = "up"
  BY Known DEF ReadPort, ReadPortEof, Move
<1>4. ~ReadPart(e) =>
        \/ net[e] # <<>> /\ Head(net[e]).kind = "PORT" /\ net'[e] = Tail(net[e])
        \/ net[e] = <<>> /\ ~open[Peer(e)]
  BY Known DEF ReadPort, ReadPortEof, Gets, Taken, Eof, Nets
<1>5. CASE e = "client"
  <2>1. ~(Reads("client") /\ Gets("client", "part"))
    BY DEF OnTheWay, Asking, Accepted, Ports, One, Two, Gets, Reads
  <2> QED
    BY <1>2, <1>3, <1>5, <2>1 DEF OnTheWay
<1>6. CASE e = "server"
  <2>1. pc'["client"] = pc["client"] /\ net'["client"] = net["client"]
    BY <1>1, <1>6, TwoEnds
  <2>2. CASE pc["client"] \in {"idle", "up"}
    BY <2>1, <2>2 DEF OnTheWay
  <2>3. CASE pc["client"] \notin {"idle", "up"}
    <3>1. ~Gets("server", "part")
      BY <1>1, <1>6, <2>3 DEF OnTheWay, Asking, Accepted, Ports, Over, OverTcp, One, Gets
    <3>2. pc["server"] = "port" /\ pc'["server"] = "up"
      BY <1>2, <1>3, <1>6, <3>1
    <3>3. open["client"]
      BY <2>3, <3>2, TwoEnds DEF OnTheWay, Asking, Accepted, Ports, Over, OverTcp,
         Pairing, OpenInv, Live
    <3>4. net["server"] # <<>>
      BY <1>2, <1>4, <1>6, <3>1, <3>3, TwoEnds
    <3>5. pc["client"] = "port" /\ One(net["client"], "PORT")
      BY <2>3, <3>2, <3>4 DEF OnTheWay, Asking, Accepted, Ports, Over, OverTcp
    <3> QED
      BY <2>1, <3>2, <3>5 DEF OnTheWay, Ports, Over
  <2> QED
    BY <2>2, <2>3
<1> QED
  BY <1>5, <1>6 DEF Ends

\* On the way, the client meets no end, no ERR and no timeout.
LEMMA ClientStays ==
  ASSUME Inv, Pairing, ~cut, OnTheWay
  PROVE  ~ClientRefused /\ ~ReadEof("client") /\ ~Timeout("client")
<1> USE DEF At, Silent, ToClient, ToServer
<1>1. pc["server"] \in Live => open["server"]
  BY TwoEnds DEF Pairing, OpenInv
<1>2. ~ClientRefused
  BY DEF ClientRefused, Reads, Gets, OnTheWay, Asking, Accepted, Ports, One, Two
<1>3. ~ReadEof("client")
  <2> SUFFICES ASSUME Reads("client"), net["client"] = <<>>, ~open["server"] PROVE FALSE
    BY TwoEnds DEF ReadEof, Eof
  <2>1. pc["server"] \notin Live
    BY <1>1
  <2> QED
    BY <2>1 DEF Reads, OnTheWay, Asking, Accepted, Ports, One, Two, Live
<1>4. ~Timeout("client")
  <2> SUFFICES ASSUME Reads("client"), net["client"] = <<>>, Reads("server"),
                      net["server"] = <<>>
               PROVE  FALSE
    BY TwoEnds DEF Timeout
  <2> QED
    BY DEF Reads, OnTheWay, Asking, Accepted, Ports, One, Two
<1> QED
  BY <1>2, <1>3, <1>4

\* Nor does the server, as long as the client is there.
LEMMA ServerStays ==
  ASSUME Inv, Pairing, Undisturbed, ~cut, OnTheWay, pc["client"] \notin {"idle", "up"}
  PROVE  ~ServerRejects /\ ~ReadEof("server") /\ ~Timeout("server")
<1> USE DEF At, Silent, ToClient, ToServer
<1>1. open["client"]
  BY TwoEnds DEF Pairing, OpenInv, Live, OnTheWay, Asking, Accepted, Ports
<1>2. ~ServerRejects
  BY RightResponse DEF ServerRejects, Undisturbed
<1>3. ~ReadEof("server")
  BY <1>1, TwoEnds DEF ReadEof, Eof
<1>4. ~Timeout("server")
  <2> SUFFICES ASSUME Reads("server"), net["server"] = <<>>, Reads("client"),
                      net["client"] = <<>>
               PROVE  FALSE
    BY TwoEnds DEF Timeout
  <2> QED
    BY DEF Reads, OnTheWay, Asking, Accepted, Ports, Over, OverTcp, One, Two
<1> QED
  BY <1>2, <1>3, <1>4

\* A session that ends, at either end.
LEMMA DownOnTheWay ==
  ASSUME Inv, OnTheWay, NEW e \in Ends, Down(e)
  PROVE  OnTheWay'
<1> USE DEF At, Silent, ToClient, ToServer
<1>1. pc[e] = "up" /\ pc'[e] = "idle" /\ pc'[Peer(e)] = pc[Peer(e)] /\ entry' = entry
  BY BothEnds, Known DEF Down, Leave, Close, server
<1>2. net'[Peer(e)] = net[Peer(e)]
  BY <1>1, BothEnds, Known DEF Down, Leave, Nets
<1>3. CASE e = "client"
  BY <1>1, <1>3 DEF OnTheWay
<1>4. CASE e = "server"
  <2>1. /\ pc["server"] = "up" /\ pc'["server"] = "idle" /\ pc'["client"] = pc["client"]
        /\ net'["client"] = net["client"] /\ Over' /\ (OverTcp => OverTcp')
    BY <1>1, <1>2, <1>4, TwoEnds DEF Over, OverTcp
  <2> QED
    BY <2>1 DEF OnTheWay, Asking, Accepted, Ports
<1> QED
  BY <1>3, <1>4 DEF Ends
\* The steps by which an end leaves: where nothing disturbs them, only a session
\* that ends, or a server without a client.
LEMMA LeavesSmooth ==
  ASSUME Inv, Pairing, Smooth, NEW e \in Ends,
         \/ ClientRefused /\ e = "client"
         \/ (ServerRejects \/ ServerDenies) /\ e = "server"
         \/ ReadEof(e) \/ Timeout(e) \/ Environment(e)
  PROVE  Smooth'
<1>1. cut' = cut /\ entry' = entry
  BY DEF ClientRefused, ServerRejects, ServerDenies, ReadEof, Timeout, Environment,
     Late, TunnelFails, Down, Die, Leave, Close, server
<1>2. CASE excused'
  BY <1>2 DEF Smooth, Undisturbed
<1>3. CASE ~excused'
  <2>1. excused' = excused
    BY <1>3 DEF ClientRefused, ServerRejects, ServerDenies, ReadEof, Timeout, Environment,
       Late, TunnelFails, Down, Die, Fault
  <2>2. Undisturbed' = Undisturbed
    BY <1>1, <2>1 DEF Undisturbed
  <2>3. (cut => excused)'
    BY <1>1, <2>1 DEF Smooth
  <2>4. ASSUME Undisturbed PROVE ~refused' /\ OnTheWay'
    <3>1. ~refused /\ OnTheWay /\ ~cut
      BY <2>4 DEF Smooth, Undisturbed
    <3>2. CASE Down(e)
      <4>1. pc[e] = "up" /\ refused' = (refused \/ (e = "client" /\ pc[e] # "up"))
        BY <3>2 DEF Down, Leave, Close
      <4> QED
        BY <3>1, <3>2, <4>1, DownOnTheWay
    <3>3. CASE ~Down(e)
      <4>1. \/ ClientRefused /\ e = "client"
            \/ ServerRejects /\ e = "server"
            \/ ReadEof(e) \/ Timeout(e)
        BY <1>3, <3>3 DEF ServerDenies, Environment, Late, TunnelFails, Die, Fault
      <4>2. e = "server" /\ pc["client"] \in {"idle", "up"}
        BY <2>4, <3>1, <4>1, ClientStays, ServerStays, TwoEnds DEF Ends
      <4>3. Close(e)
        BY <4>1 DEF ClientRefused, ServerRejects, ReadEof, Timeout, Leave
      <4>4. refused' = refused /\ pc'["client"] = pc["client"]
        BY <4>2, <4>3, Known, TwoEnds DEF Close
      <4> QED
        BY <3>1, <4>2, <4>4 DEF OnTheWay
    <3> QED
      BY <3>2, <3>3
  <2> QED
    BY <2>2, <2>3, <2>4 DEF Smooth
<1> QED
  BY <1>2, <1>3

\* Every step keeps how far the ends are.
LEMMA NextPair == Inv /\ Pairing /\ Smooth /\ [Next]_vars => Pairing' /\ Smooth'
<1> SUFFICES ASSUME Inv, Pairing, Smooth, [Next]_vars PROVE Pairing' /\ Smooth'
  OBVIOUS
<1>1. CASE Connect
  <2>1. /\ pc'["client"] = "ST_INIT" /\ pc'["server"] = "greet"
        /\ \A x \in Ends : open'[x] /\ net'[x] = <<>>
        /\ ~cut' /\ ~refused'
    BY <1>1, TwoEnds DEF Connect
  <2>2. OpenInv' /\ PortIsUdp' /\ PortWaits' /\ PortsKnown'
    BY <2>1 DEF OpenInv, PortIsUdp, PortWaits, PortsKnown, Ends, Peer
  <2>3. OnTheWay'
    BY <2>1, TwoEnds DEF OnTheWay, Asking, At, Silent, ToClient, ToServer
  <2> QED
    BY <2>1, <2>2, <2>3 DEF Pairing, Smooth
<1>2. ASSUME NEW e \in Ends, Proceed(e) PROVE Pairing' /\ Smooth'
  <2>1. CASE ClientHost \/ ClientChal \/ ClientFlags
    <3>1. Pairing'
      <4>1. /\ pc["client"] \in Live \ {"port"} /\ UNCHANGED <<open, cut, rport>>
            /\ host'["server"] = host["server"]
            /\ \E l \in Live \ {"port"} : pc' = [pc EXCEPT !["client"] = l]
        BY <2>1, Known, TwoEnds DEF ClientHost, ClientChal, ClientFlags, Move, Live
      <4>2. /\ net["client"] # <<>> /\ Head(net["client"]).kind # "PORT"
            /\ net'["client"] = Tail(net["client"])
        <5>1. net["client"] # <<>> /\ Head(net["client"]).kind # "PORT"
          BY <2>1 DEF ClientHost, ClientChal, ClientFlags, Gets
        <5>2. CASE ClientFlags
          BY <5>1, <5>2, Known, TwoEnds DEF ClientFlags, Taken, Nets
        <5>3. CASE ClientHost \/ ClientChal
          <6>1. \E m : Answer("client", m)
            BY <5>3 DEF ClientHost, ClientChal
          <6> QED
            BY <5>1, <6>1, OneLess, Known, TwoEnds
        <5> QED
          BY <2>1, <5>1, <5>2, <5>3
      <4> QED
        BY <4>1, <4>2, EarlyPairing, TwoEnds
    <3>2. UNCHANGED <<entry, excused, refused, cut>>
      BY <2>1 DEF ClientHost, ClientChal, ClientFlags, server, history
    <3>3. ~cut /\ OnTheWay => OnTheWay'
      BY <2>1, ClientOnTheWay, FlagsOnTheWay
    <3> QED
      BY <3>1, <3>2, <3>3, SmoothBy
  <2>2. CASE ClientGarbled
    <3>1. Pairing'
      BY <2>2, LeavesPairing, Known, TwoEnds DEF ClientGarbled
    <3>2. ~Undisturbed
      BY <2>2, FlagsSent, NotGarbled DEF ClientGarbled
    <3>3. UNCHANGED <<entry, excused, cut>>
      BY <2>2 DEF ClientGarbled, server
    <3> QED
      BY <3>1, <3>2, <3>3 DEF Smooth, Undisturbed
  <2>3. CASE Greet \/ ServerHost \/ ServerChal \/ ServerFlags
    <3>1. Pairing'
      <4>1. /\ pc["server"] \in Live \ {"port"} /\ UNCHANGED <<open, cut, rport>>
            /\ host'["client"] = host["client"]
            /\ \E l \in Live \ {"port"} : pc' = [pc EXCEPT !["server"] = l]
        BY <2>3, Known, TwoEnds DEF Greet, ServerHost, ServerChal, ServerFlags, Move, Live
      <4>2. \/ net'["server"] = net["server"]
            \/ /\ net'["server"] = Tail(net["server"]) /\ net["server"] # <<>>
               /\ Head(net["server"]).kind # "PORT"
        <5>1. CASE Greet \/ ServerFlags
          <6>1. PICK m : net' = Sent(net, "server", m)
            BY <5>1 DEF Greet, ServerFlags
          <6> QED
            BY <6>1, Known, TwoEnds DEF Sent, Nets
        <5>2. CASE ServerChal
          BY <5>2, Known, TwoEnds DEF ServerChal, Gets, Taken, Nets
        <5>3. CASE ServerHost
          <6>1. \E m : Answer("server", m)
            BY <5>3 DEF ServerHost
          <6>2. net["server"] # <<>> /\ Head(net["server"]).kind # "PORT"
            BY <5>3 DEF ServerHost, Gets
          <6> QED
            BY <6>1, <6>2, OneLess, Known, TwoEnds
        <5> QED
          BY <2>3, <5>1, <5>2, <5>3
      <4> QED
        BY <4>1, <4>2, EarlyPairing, TwoEnds
    <3>2. UNCHANGED <<entry, excused, refused, cut>> /\ pc'["client"] = pc["client"]
      BY <2>3, Moved, TwoEnds
      DEF Greet, ServerHost, ServerChal, ServerFlags, Move, server, history
    <3>3. ~cut /\ OnTheWay => OnTheWay'
      <4>1. CASE pc["client"] \in {"idle", "up"}
        BY <3>2, <4>1 DEF OnTheWay
      <4>2. CASE pc["client"] \notin {"idle", "up"}
        BY <2>3, <4>2, ServerOnTheWay
      <4> QED
        BY <4>1, <4>2
    <3> QED
      BY <3>1, <3>2, <3>3, SmoothBy
  <2>4. CASE StartTcp(e)
    <3>1. UNCHANGED <<entry, excused, refused, cut>>
      BY <2>4 DEF StartTcp, wire, server, history
    <3>2. OnTheWay => OnTheWay'
      BY <2>4, TcpOnTheWay
    <3> QED
      BY <2>4, <3>1, <3>2, TcpPairing, SmoothBy
  <2>5. CASE StartUdp(e)
    <3>1. UNCHANGED <<entry, excused, refused, cut>>
      BY <2>5 DEF StartUdp, server, history
    <3>2. ~cut /\ OnTheWay => OnTheWay'
      BY <2>5, UdpOnTheWay
    <3> QED
      BY <2>5, <3>1, <3>2, UdpPairing, SmoothBy
  <2>6. CASE ReadPort(e) \/ ReadPortEof(e) \/ ReadPart(e)
    <3>1. UNCHANGED <<entry, excused, refused, cut>>
      BY <2>6 DEF ReadPort, ReadPortEof, ReadPart, server, history
    <3>2. OnTheWay => OnTheWay'
      BY <2>6, PortOnTheWay
    <3> QED
      BY <2>6, <3>1, <3>2, PortPairing, SmoothBy
  <2>7. CASE \/ ClientRefused /\ e = "client"
             \/ (ServerRejects \/ ServerDenies) /\ e = "server"
             \/ ReadEof(e) \/ Timeout(e)
    <3>1. Close(e)
      BY <2>7 DEF ClientRefused, ServerRejects, ServerDenies, ReadEof, Timeout, Leave
    <3> QED
      BY <2>7, <3>1, LeavesPairing, LeavesSmooth DEF Close
  <2> QED
    BY <1>2, <2>1, <2>2, <2>3, <2>4, <2>5, <2>6, <2>7 DEF Proceed, Client, Server
<1>3. ASSUME NEW e \in Ends, Environment(e) PROVE Pairing' /\ Smooth'
  <2>1. Close(e)
    BY <1>3 DEF Environment, Late, TunnelFails, Down, Die, Leave
  <2> QED
    BY <1>3, <2>1, LeavesPairing, LeavesSmooth DEF Close
<1>4. CASE Cut
  <2>1. UNCHANGED <<pc, open, host, rport>> /\ cut' /\ excused'
    BY <1>4 DEF Cut, Fault
  <2>2. OpenInv' /\ PortIsUdp' /\ PortWaits' /\ PortsKnown'
    BY <2>1 DEF Pairing, OpenInv, PortIsUdp, PortWaits, PortsKnown
  <2> QED
    BY <2>1, <2>2 DEF Pairing, Smooth, Undisturbed
<1>5. CASE Reload \/ UNCHANGED vars
  <2>1. UNCHANGED <<pc, net, open, cut, host, entry, rport, refused, excused>>
    BY <1>5 DEF Reload, vars, wire, server, history
  <2>2. OpenInv' /\ PortIsUdp' /\ PortWaits' /\ PortsKnown'
    BY <2>1 DEF Pairing, OpenInv, PortIsUdp, PortWaits, PortsKnown
  <2>3. OnTheWay' = OnTheWay
    BY <2>1 DEF OnTheWay, Asking, Accepted, Ports, At, Silent, ToClient, ToServer,
       Over, OverTcp
  <2> QED
    BY <2>1, <2>2, <2>3 DEF Pairing, Smooth, Undisturbed
<1> QED
  BY <1>1, <1>2, <1>3, <1>4, <1>5 DEF Next

\* How far the ends are, throughout.
LEMMA PairInvariance == Spec => [](Inv /\ Pairing /\ Smooth)
<1>1. Init => Pairing /\ Smooth
  <2> SUFFICES ASSUME Init PROVE Pairing /\ Smooth
    OBVIOUS
  <2>1. (\A x \in Ends : pc[x] = "idle") /\ ~cut /\ ~refused
    BY DEF Init
  <2>2. OpenInv /\ PortIsUdp /\ PortWaits /\ PortsKnown
    BY <2>1 DEF OpenInv, PortIsUdp, PortWaits, PortsKnown, Live
  <2> QED
    BY <2>1, <2>2, TwoEnds DEF Pairing, Smooth, OnTheWay
<1> QED
  BY <1>1, InitInv, NextInv, NextPair, PTL DEF Spec

\* Whatever configurations the server has had and however often the client has
\* tried, auth_client() gives an attempt up only for a cause outside the
\* exchange, for a wrong password, or for a speed that is ERANGE.
THEOREM NoNeedlessRefusal == Spec => []RefusedForCause
<1>1. Smooth => RefusedForCause
  BY DEF Smooth, Undisturbed, RefusedForCause
<1> QED
  BY <1>1, PairInvariance, PTL

\* Two ends that both have a session have it over the same protocol and, over
\* UDP, with each other: the end of the TCP connection, which udp_session()
\* does not tell from an answer, comes only after the port or without a peer.
THEOREM PairsConnected == Spec => []PairConnected
<1>1. Inv /\ Pairing => PairConnected
  <2> SUFFICES ASSUME Inv, Pairing, pc["client"] = "up", pc["server"] = "up"
               PROVE  /\ host["client"].flags \cap Prots = host["server"].flags \cap Prots
                      /\ "UDP" \in host["client"].flags =>
                           \A e \in Ends : rport[e] = "peer"
    BY DEF PairConnected
  <2>1. pc["client"] \in Sessions /\ host["server"] = entry.options
    BY Known DEF Sessions
  <2>2. ASSUME "UDP" \in host["client"].flags, NEW e \in Ends PROVE rport[e] = "peer"
    <3>1. pc[e] = "up" /\ pc[Peer(e)] = "up"
      BY DEF Ends, Peer
    <3>2. "UDP" \in host[e].flags
      BY <2>1, <2>2, OneProtocol DEF Ends
    <3> QED
      BY <3>1, <3>2 DEF Pairing, PortsKnown
  <2> QED
    BY <2>1, <2>2, OneProtocol
<1> QED
  BY <1>1, PairInvariance, PTL
=============================================================================
