-------------------------------- MODULE Auth --------------------------------
(***************************************************************************)
(* How a client and a server process set a session up: the exchange of     *)
(* auth.c over the TCP connection, the options that the server passes in   *)
(* it, and the ports that udp_session() exchanges after it; again and      *)
(* again, with a server whose configuration may have changed meanwhile.    *)
(*                                                                         *)
(* A connection is a queue in each direction.  It may go dead without a    *)
(* word, even in the middle of a message, and either process may die.      *)
(***************************************************************************)
EXTENDS Naturals, Sequences

CONSTANTS
  Own,          \* what the client's own configuration says of the host
  Configs,      \* what the server's may say: options, known, passwd
  Passwords,
  Passwd,       \* the client's password
  CHAL_SIZE,    \* VTUN_CHAL_SIZE, 16 in auth.h
  Crypt,        \* the cipher: Crypt[p] permutes the challenges
  Challenges,   \* the challenges that gen_chal() may draw
  MaxAttempts,  \* bound on the connections of the client
  MaxFaults     \* bound on late answers, deaths and failed system calls

Prots == {"TCP", "UDP"}
Types == {"TTY", "PIPE", "ETHER", "TUN"}
\* The flags that VTUN_CLNT_MASK keeps, and the others.
Kept == {"STAT", "PERSIST", "NAT_HACK_CLIENT", "NAT_HACK_SERVER"}
Supplied == Prots \cup Types \cup {"SHAPE", "ZLIB", "LZO", "KEEP_ALIVE", "ENCRYPT"}

VTUN_LEGACY_ENCRYPT == 999
ERANGE == 34

\* The part of struct vtun_host that the exchange reads or writes.
Host == [flags : SUBSET (Supplied \cup Kept), spd_in : Nat, spd_out : Nat,
         zlevel : Nat, cipher : Nat]

Chal == [1 .. CHAL_SIZE -> 0 .. 255]

\* A cipher undoes itself with its own key, and with no other.
ASSUME CryptAssumption ==
  /\ CHAL_SIZE \in Nat
  /\ Passwd \in Passwords /\ Challenges \subseteq Chal /\ Challenges # {}
  /\ Crypt \in [Passwords -> [Chal -> Chal]]
  /\ \A p \in Passwords, c \in Chal : \E d \in Chal : Crypt[p][d] = c
  /\ \A p \in Passwords : \A c, d \in Chal : Crypt[p][c] = Crypt[p][d] => c = d
  /\ \A p, q \in Passwords, c \in Chal : p # q => Crypt[p][c] # Crypt[q][c]

\* A configuration names one protocol and one type, and no cipher is number 0
\* or, like no compression level, as large as ERANGE.
ASSUME ConfigAssumption ==
  /\ Own \in Host
  /\ \A c \in Configs :
       /\ c.known \in BOOLEAN /\ c.passwd \in Passwords /\ c.options \in Host
       /\ \E p \in Prots : c.options.flags \cap Prots = {p}
       /\ \E t \in Types : c.options.flags \cap Types = {t}
       /\ c.options.cipher \in 1 .. 16 \cup {VTUN_LEGACY_ENCRYPT}
       /\ c.options.zlevel \in 0 .. 9
  /\ MaxAttempts \in Nat /\ MaxFaults \in Nat

VARIABLES
  pc,        \* where each end is
  net,       \* net[e]: what the connection holds for end e
  open,      \* open[e]: e has not closed the connection
  cut,       \* the connection is dead and neither end knows
  host,      \* host[e]: the options that e will run the session with
  config,    \* what the server's configuration says now
  entry,     \* what it says to the server process
  chal_req,  \* auth_server()'s challenge
  rport,     \* rport[e]: whose port udp_session() connected to
  refused,   \* history: the client gave this attempt up
  excused,   \* history: and something outside auth.c explains it
  attempts, faults

wire == <<net, open, cut>>
server == <<config, entry, chal_req>>
history == <<refused, excused, attempts, faults>>
vars == <<pc, wire, host, server, rport, history>>

Ends == {"client", "server"}
Peer(e) == IF e = "client" THEN "server" ELSE "client"

Labels == {"idle", "greet", "ST_INIT", "ST_HOST", "ST_CHAL", "lock", "tunnel",
           "port", "up", "stuck"}

Init ==
  /\ pc = [e \in Ends |-> "idle"]
  /\ net = [e \in Ends |-> <<>>]
  /\ open = [e \in Ends |-> FALSE]
  /\ cut = FALSE
  /\ config \in Configs /\ entry = config
  /\ host = [client |-> Own, server |-> config.options]
  /\ chal_req \in Challenges
  /\ rport = [e \in Ends |-> "none"]
  /\ refused = FALSE /\ excused = FALSE /\ attempts = 0 /\ faults = 0

Move(e, from, to) == pc[e] = from /\ pc' = [pc EXCEPT ![e] = to]

Reads(e) == pc[e] \in {"ST_INIT", "ST_HOST", "ST_CHAL", "port"}
Gets(e, kind) == net[e] # <<>> /\ Head(net[e]).kind = kind
Msg(kind, val) == [kind |-> kind, val |-> val]

\* n with e's message on its way, if the connection still takes it.
Sent(n, e, m) ==
  IF cut \/ ~open[Peer(e)] THEN n ELSE [n EXCEPT ![Peer(e)] = Append(@, m)]

\* readn_t() of a whole message, and the answer to it.
Answer(e, m) == net' = Sent([net EXCEPT ![e] = Tail(@)], e, m)
Taken(e) == net' = [net EXCEPT ![e] = Tail(@)]

----------------------------------------------------------------------------
\* What is sent is a conversion of what is known.

\* A challenge as letters, two for every byte, the high half first.
cl2cs(c) ==
  [i \in 1 .. 2 * CHAL_SIZE |->
     IF i % 2 = 1 THEN c[(i + 1) \div 2] \div 16 ELSE c[i \div 2] % 16]

cs2cl(s) == [i \in 1 .. CHAL_SIZE |-> 16 * s[2 * i - 1] + s[2 * i]]

encrypt_chal(c, p) == Crypt[p][c]
decrypt_chal(c, p) == CHOOSE d \in Chal : Crypt[p][d] = c

\* The number after a flag's letter, 0 where there is none.
Number(h, f) ==
  IF f = "SHAPE" THEN h.spd_in
  ELSE IF f \in {"ZLIB", "LZO"} THEN h.zlevel
  ELSE IF f = "ENCRYPT" /\ h.cipher # VTUN_LEGACY_ENCRYPT THEN h.cipher
  ELSE 0

\* The options as a string of letters with numbers, each letter at most once.
bf2cf(h) == [f \in h.flags \cap Supplied |-> Number(h, f)]

\* The order in which bf2cf() writes them, which matters when one is garbled.
Rank(f) ==
  CASE f \in Prots -> 1
    [] f \in Types -> 2
    [] f = "SHAPE" -> 3
    [] f = "ZLIB" -> 4
    [] f = "LZO" -> 5
    [] f = "KEEP_ALIVE" -> 6
    [] f = "ENCRYPT" -> 7

\* cf2bf() compares the number, not errno, with ERANGE.
Garbled(m) ==
  {f \in DOMAIN m \cap {"SHAPE", "ZLIB", "LZO", "ENCRYPT"} : m[f] = ERANGE}

\* The letters that cf2bf() gets to.
Parsed(m) == {f \in DOMAIN m : \A g \in Garbled(m) : Rank(f) < Rank(g)}

\* h with those letters applied.
cf2bf(m, h) ==
  LET p == Parsed(m)
      shaped == "SHAPE" \in p /\ m["SHAPE"] # 0
      level == p \cap {"ZLIB", "LZO"}
  IN [flags |-> (IF p \cap Prots = {} THEN h.flags ELSE h.flags \ Prots)
                  \cup {f \in p : f = "SHAPE" => shaped},
      spd_in |-> h.spd_in,
      spd_out |-> IF shaped THEN m["SHAPE"] ELSE h.spd_out,
      zlevel |-> IF level = {} THEN h.zlevel ELSE m[CHOOSE f \in level : TRUE],
      cipher |-> IF "ENCRYPT" \notin p THEN h.cipher
                 ELSE IF m["ENCRYPT"] = 0 THEN VTUN_LEGACY_ENCRYPT
                 ELSE m["ENCRYPT"]]

\* Faulty: the flags of the last session stay.
Cleared_speed(h) == [h EXCEPT !.spd_in = 0, !.spd_out = 0]

\* client() forgets what the server will supply.
Cleared(h) ==
  [h EXCEPT !.spd_in = 0, !.spd_out = 0, !.flags = @ \cap Kept]

----------------------------------------------------------------------------
\* The ways in which an end leaves.

\* close() of the connection, and what the client makes of it.
Close(e) ==
  /\ pc' = [pc EXCEPT ![e] = "idle"]
  /\ open' = [open EXCEPT ![e] = FALSE]
  /\ refused' = (refused \/ (e = "client" /\ pc[e] # "up"))
  /\ UNCHANGED <<cut, host, server, rport, attempts>>

\* The client just closes; the server says ERR if it was authenticating.
Leave(e) ==
  /\ Close(e)
  /\ net' = IF e = "server" /\ pc[e] \in {"ST_HOST", "ST_CHAL", "lock"}
            THEN Sent([net EXCEPT ![e] = <<>>], e, Msg("ERR", 0))
            ELSE [net EXCEPT ![e] = <<>>]

Fault ==
  /\ faults < MaxFaults
  /\ faults' = faults + 1 /\ excused' = TRUE

----------------------------------------------------------------------------
\* The client: client() and auth_client().

\* connect_t(), and listener()'s fork of a process for it.  An earlier process
\* of the same host meets this one in lock_host() only.
Connect ==
  /\ pc["client"] = "idle" /\ pc["server"] = "idle"
  /\ attempts < MaxAttempts /\ attempts' = attempts + 1
  /\ pc' = [client |-> "ST_INIT", server |-> "greet"]
  /\ net' = [e \in Ends |-> <<>>] /\ open' = [e \in Ends |-> TRUE] /\ cut' = FALSE
  /\ host' = [client |-> Cleared(host["client"]), server |-> config.options]
  /\ entry' = config
  /\ rport' = [e \in Ends |-> "none"]
  /\ refused' = FALSE /\ excused' = FALSE
  /\ UNCHANGED <<config, chal_req, faults>>

ClientHost ==
  /\ Move("client", "ST_INIT", "ST_HOST")
  /\ Gets("client", "VTUN") /\ Answer("client", Msg("HOST", 0))
  /\ UNCHANGED <<open, cut, host, server, rport, history>>

ClientChal ==
  /\ Move("client", "ST_HOST", "ST_CHAL")
  /\ Gets("client", "OK CHAL")
  /\ LET chal == cs2cl(Head(net["client"]).val)
     IN Answer("client", Msg("CHAL", cl2cs(encrypt_chal(chal, Passwd))))
  /\ UNCHANGED <<open, cut, host, server, rport, history>>

ClientFlags ==
  /\ Move("client", "ST_CHAL", "tunnel")
  /\ Gets("client", "OK FLAGS") /\ Taken("client")
  /\ Garbled(Head(net["client"]).val) = {}
  /\ host' = [host EXCEPT !["client"] = cf2bf(Head(net["client"]).val, @)]
  /\ UNCHANGED <<open, cut, server, rport, history>>

\* cf2bf() returns 0 and has changed what it had got to.
ClientGarbled ==
  /\ pc["client"] = "ST_CHAL" /\ Gets("client", "OK FLAGS")
  /\ Garbled(Head(net["client"]).val) # {}
  /\ host' = [host EXCEPT !["client"] = cf2bf(Head(net["client"]).val, @)]
  /\ pc' = [pc EXCEPT !["client"] = "idle"]
  /\ open' = [open EXCEPT !["client"] = FALSE]
  /\ net' = [net EXCEPT !["client"] = <<>>]
  /\ refused' = TRUE
  /\ UNCHANGED <<cut, server, rport, excused, attempts, faults>>

\* "ERR", whatever the stage.
ClientRefused ==
  /\ Reads("client") /\ pc["client"] # "port" /\ Gets("client", "ERR")
  /\ Leave("client")
  /\ UNCHANGED <<excused, faults>>

----------------------------------------------------------------------------
\* The server process: connection() and auth_server().

Greet ==
  /\ Move("server", "greet", "ST_HOST")
  /\ net' = Sent(net, "server", Msg("VTUN", 0))
  /\ UNCHANGED <<open, cut, host, server, rport, history>>

ServerHost ==
  /\ Move("server", "ST_HOST", "ST_CHAL")
  /\ Gets("server", "HOST")
  /\ chal_req' \in Challenges
  /\ Answer("server", Msg("OK CHAL", cl2cs(chal_req')))
  /\ UNCHANGED <<open, cut, host, config, entry, rport, history>>

\* Faulty: any response to the challenge will do.
Verified_any(val) == entry.known

\* find_host() finds the host, and the response is the challenge again.
Verified(val) ==
  entry.known /\ decrypt_chal(cs2cl(val), entry.passwd) = chal_req

ServerChal ==
  /\ Move("server", "ST_CHAL", "lock")
  /\ Gets("server", "CHAL") /\ Taken("server")
  /\ Verified(Head(net["server"]).val)
  /\ UNCHANGED <<open, cut, host, server, rport, history>>

ServerRejects ==
  /\ pc["server"] = "ST_CHAL" /\ Gets("server", "CHAL")
  /\ ~Verified(Head(net["server"]).val)
  /\ Leave("server")
  /\ UNCHANGED <<excused, faults>>

\* lock_host() succeeds.
ServerFlags ==
  /\ Move("server", "lock", "tunnel")
  /\ net' = Sent(net, "server", Msg("OK FLAGS", bf2cf(host["server"])))
  /\ UNCHANGED <<open, cut, host, server, rport, history>>

\* lock_host() does not: the host has a session already.
ServerDenies ==
  /\ pc["server"] = "lock"
  /\ Leave("server")
  /\ excused' = TRUE
  /\ UNCHANGED faults

----------------------------------------------------------------------------
\* Both: readn_t(), and tunnel() up to the linker.

\* tunnel() over TCP has nothing to exchange.
StartTcp(e) ==
  /\ Move(e, "tunnel", "up") /\ "TCP" \in host[e].flags
  /\ UNCHANGED <<wire, host, server, rport, history>>

\* Faulty: udp_session() reads the peer's port before it writes its own.
StartUdp_reads(e) ==
  /\ Move(e, "tunnel", "port") /\ "UDP" \in host[e].flags
  /\ UNCHANGED <<wire, host, server, rport, history>>

\* udp_session() up to the write of its own port.
StartUdp(e) ==
  /\ Move(e, "tunnel", "port") /\ "UDP" \in host[e].flags
  /\ net' = Sent(net, e, Msg("PORT", 0))
  /\ UNCHANGED <<open, cut, host, server, rport, history>>

\* The rest of it: the TCP connection is replaced and closed.
ReadPort(e) ==
  /\ Move(e, "port", "up")
  /\ Gets(e, "PORT") /\ Taken(e)
  /\ rport' = [rport EXCEPT ![e] = "peer"]
  /\ open' = [open EXCEPT ![e] = FALSE]
  /\ UNCHANGED <<cut, host, server, history>>

\* The peer closed the connection: read_n() returns 0.
Eof(e) == net[e] = <<>> /\ ~open[Peer(e)] /\ ~cut

\* Faulty: an answer that is not there yet is taken for one too.
ReadPortEof_empty(e) ==
  /\ Move(e, "port", "up")
  /\ net[e] = <<>>
  /\ rport' = [rport EXCEPT ![e] = "own"]
  /\ open' = [open EXCEPT ![e] = FALSE]
  /\ UNCHANGED <<net, cut, host, server, history>>

\* udp_session() asks for < 0 only, and port still holds its own.
ReadPortEof(e) ==
  /\ Move(e, "port", "up")
  /\ Eof(e)
  /\ rport' = [rport EXCEPT ![e] = "own"]
  /\ open' = [open EXCEPT ![e] = FALSE]
  /\ UNCHANGED <<net, cut, host, server, history>>

\* In auth.c it ends the exchange; a connection that was reset ends any read.
ReadEof(e) ==
  /\ Reads(e) /\ Eof(e)
  /\ Leave(e)
  /\ UNCHANGED <<excused, faults>>

\* Faulty: the ports are read with read_n(), which has no timeout.
Timeout_auth(e) ==
  /\ Reads(e) /\ pc[e] # "port" /\ net[e] = <<>>
  /\ cut \/ (Reads(Peer(e)) /\ net[Peer(e)] = <<>>)
  /\ Leave(e)
  /\ UNCHANGED <<excused, faults>>

\* readn_t()'s select() returns 0: the connection is dead, or both ends wait.
Timeout(e) ==
  /\ Reads(e) /\ net[e] = <<>>
  /\ cut \/ (Reads(Peer(e)) /\ net[Peer(e)] = <<>>)
  /\ Leave(e)
  /\ UNCHANGED <<excused, faults>>

\* The peer was about to answer; or a signal interrupted select().
Late(e) ==
  /\ Reads(e) /\ net[e] = <<>> /\ Fault
  /\ Leave(e)

\* read_n() has part of a message and waits for the rest without a timeout.
ReadPart(e) ==
  /\ Reads(e) /\ Gets(e, "part")
  /\ pc' = [pc EXCEPT ![e] = "stuck"]
  /\ Taken(e)
  /\ UNCHANGED <<open, cut, host, server, rport, history>>

\* tunnel() returns early: no device, no socket, a write that fails.
TunnelFails(e) ==
  /\ pc[e] \in {"tunnel", "port"} /\ Fault
  /\ Leave(e)

----------------------------------------------------------------------------
\* The world around them.

\* The session ends, by the linker's reasons.
Down(e) ==
  /\ pc[e] = "up" /\ Leave(e)
  /\ UNCHANGED <<excused, faults>>

Die(e) ==
  /\ pc[e] # "idle" /\ Fault
  /\ Close(e) /\ net' = [net EXCEPT ![e] = <<>>]

\* The connection goes dead: what is under way to an end arrives, or is lost
\* but for part of it, or is lost.
Cut ==
  /\ ~cut /\ \E e \in Ends : open[e]
  /\ Fault
  /\ cut' = TRUE
  /\ \E fate \in [Ends -> {"arrives", "part", "lost"}] :
       net' = [e \in Ends |->
                 CASE net[e] = <<>> \/ fate[e] = "arrives" -> net[e]
                   [] net[e] # <<>> /\ fate[e] = "part" -> <<Msg("part", 0)>>
                   [] net[e] # <<>> /\ fate[e] = "lost" -> <<>>]
  /\ UNCHANGED <<pc, open, host, server, rport, refused, attempts>>

\* Somebody edits the server's configuration and has it read again.  SIGHUP may
\* reach the server process, too, until find_host() has found the entry; but
\* nothing reads the entry before, so that it might as well have been the one
\* to be forked with.
Reload ==
  /\ pc["server"] = "idle"
  /\ config' \in Configs
  /\ UNCHANGED <<pc, wire, host, entry, chal_req, rport, history>>

Client == ClientHost \/ ClientChal \/ ClientFlags \/ ClientGarbled \/ ClientRefused
Server == Greet \/ ServerHost \/ ServerChal \/ ServerRejects \/ ServerFlags \/ ServerDenies

Proceed(e) ==
  \/ e = "client" /\ Client
  \/ e = "server" /\ Server
  \/ StartTcp(e) \/ StartUdp(e) \/ ReadPort(e) \/ ReadPortEof(e)
  \/ ReadEof(e) \/ Timeout(e) \/ ReadPart(e)

Environment(e) == Late(e) \/ TunnelFails(e) \/ Down(e) \/ Die(e)

Next ==
  \/ Connect
  \/ \E e \in Ends : Proceed(e) \/ Environment(e)
  \/ Cut \/ Reload

Spec == Init /\ [][Next]_vars

\* A process that can go on does; readn_t()'s timeout makes it one that can.
FairSpec == Spec /\ \A e \in Ends : WF_vars(Proceed(e))
----------------------------------------------------------------------------
Kinds == {"VTUN", "HOST", "OK CHAL", "CHAL", "OK FLAGS", "ERR", "PORT", "part"}

\* A message carries what its kind does.
MessageOK(m) ==
  /\ m.kind \in Kinds
  /\ m.kind \in {"OK CHAL", "CHAL"} => m.val \in [1 .. 2 * CHAL_SIZE -> 0 .. 15]
  /\ m.kind = "OK FLAGS" => m.val = bf2cf(entry.options)

\* A challenge travels as two letters of sixteen for every byte of it (cl2cs()),
\* and options are those of the server process that sends them.
TypeOK ==
  /\ pc \in [Ends -> Labels]
  /\ DOMAIN net = Ends
  /\ \A e \in Ends : \A i \in 1 .. Len(net[e]) : MessageOK(net[e][i])
  /\ open \in [Ends -> BOOLEAN] /\ cut \in BOOLEAN
  /\ host \in [Ends -> Host]
  /\ config \in Configs /\ entry \in Configs /\ chal_req \in Chal
  /\ rport \in [Ends -> {"none", "own", "peer"}]
  /\ refused \in BOOLEAN /\ excused \in BOOLEAN
  /\ attempts \in 0 .. MaxAttempts /\ faults \in Nat

Sessions == {"tunnel", "port", "up"}

\* c and s run the same session, c shaping what it sends to what s wants to
\* receive.  Of the keep-alive see KeepAliveOwn.
Agree(c, s) ==
  /\ (c.flags \cap Supplied) \ {"SHAPE", "KEEP_ALIVE"}
       = (s.flags \cap Supplied) \ {"SHAPE", "KEEP_ALIVE"}
  /\ "SHAPE" \in c.flags <=> "SHAPE" \in s.flags /\ s.spd_in # 0
  /\ "SHAPE" \in c.flags => c.spd_out = s.spd_in
  /\ c.flags \cap {"ZLIB", "LZO"} # {} => c.zlevel = s.zlevel
  /\ "ENCRYPT" \in c.flags => c.cipher = s.cipher

\* Whatever earlier sessions with other configurations left in the client's
\* entry, it starts a session with exactly the options that the server process
\* that accepted it is to supply, and with its own options of the kind that the
\* server does not supply (client.c clears, bf2cf() and cf2bf() convert).
FlagsAgree ==
  pc["client"] \in Sessions =>
    /\ Agree(host["client"], entry.options)
    /\ host["client"].flags \cap Kept = Own.flags \cap Kept

\* vtund.conf(5), keepalive: "This option is ignored by the server."  A client
\* probes its connection if its own configuration says so.  Violated: Cleared()
\* drops the client's flag (VTUN_CLNT_MASK) and cf2bf() sets the server's.
KeepAliveOwn ==
  pc["client"] \in Sessions =>
    ("KEEP_ALIVE" \in host["client"].flags <=> "KEEP_ALIVE" \in Own.flags)

\* A server process takes the lock, and goes on to a session, only for a client
\* that has the password of the entry it was forked with, through the four
\* conversions of the challenge on its way (auth_server()).
SessionNeedsPassword ==
  pc["server"] \in {"lock"} \cup Sessions => entry.known /\ entry.passwd = Passwd

\* An attempt that nothing outside disturbs, with the right password and a free
\* lock, succeeds: neither end waits for the other while that one waits for it
\* (auth_client(), auth_server(), udp_session()).  Except that cf2bf() takes a
\* speed that happens to be ERANGE for an error.
RefusedForCause ==
  refused =>
    \/ excused
    \/ ~entry.known \/ entry.passwd # Passwd
    \/ "SHAPE" \in entry.options.flags /\ entry.options.spd_in = ERANGE

\* When both ends of a connection have a session, they have it over the same
\* protocol, and over UDP each has connected to the other's port, whoever was
\* the first to close the TCP connection (udp_session()).
PairConnected ==
  pc["client"] = "up" /\ pc["server"] = "up" =>
    /\ host["client"].flags \cap Prots = host["server"].flags \cap Prots
    /\ "UDP" \in host["client"].flags => \A e \in Ends : rport[e] = "peer"

\* An end that has begun ends with a session or without, whatever becomes of
\* its peer and of the connection (readn_t()'s timeout); except when the
\* connection dies within a message, where read_n() waits for ever.
SetupEnds ==
  \A e \in Ends : pc[e] # "idle" ~> pc[e] \in {"idle", "up", "stuck"}
=============================================================================
