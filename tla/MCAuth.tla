------------------------------- MODULE MCAuth -------------------------------
(* TLC instances of Auth. *)
EXTENDS Auth

MCPasswords == {1, 2}

\* A toy cipher: add the key to every byte.
MCCrypt ==
  [p \in MCPasswords |-> [c \in Chal |-> [i \in 1 .. CHAL_SIZE |-> (c[i] + p) % 256]]]

\* One byte, at both ends of its range.
MCChallenges == {<<0>>, <<255>>}

\* A client whose own options all differ from what the servers supply.
MCOwn == [flags |-> {"TCP", "PIPE", "LZO", "KEEP_ALIVE", "STAT"}, spd_in |-> 0,
          spd_out |-> 0, zlevel |-> 9, cipher |-> 1]

Config(flags, spd_in, cipher, passwd) ==
  [options |-> [flags |-> flags, spd_in |-> spd_in, spd_out |-> 8, zlevel |-> 1,
                cipher |-> cipher],
   passwd |-> passwd, known |-> TRUE]

\* Shaping at ERANGE and at 0, old and new ciphers, both protocols, a changed
\* password, and a host that was taken out.
MCConfigs ==
  { Config({"TCP", "TUN", "SHAPE", "ZLIB"}, 64, 1, 1),
    Config({"UDP", "ETHER", "SHAPE", "ENCRYPT", "KEEP_ALIVE"}, 0, 16, 1),
    Config({"UDP", "TUN", "LZO", "ENCRYPT"}, 0, VTUN_LEGACY_ENCRYPT, 1),
    Config({"TCP", "TTY", "SHAPE"}, ERANGE, 1, 1),
    Config({"TCP", "TUN", "KEEP_ALIVE"}, 0, 1, 2),
    [Config({"UDP", "TUN"}, 0, 1, 1) EXCEPT !.known = FALSE] }
=============================================================================
