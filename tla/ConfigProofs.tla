---------------------------- MODULE ConfigProofs ----------------------------
(***************************************************************************)
(* Proofs about the configuration, for every set of files, whatever is in  *)
(* them, and any number of loads.                                          *)
(*                                                                         *)
(* The first part is about texts with any mistakes: one lexeme keeps Inv.  *)
(* The second is about files without: one section after the other does     *)
(* what Said() and Sessions() say, so a file, and so any number of loads.  *)
(***************************************************************************)
EXTENDS Config, SequenceTheorems, WellFoundedInduction, TLAPS

\* A set of natural numbers has a least one.
LEMMA LeastNumber ==
  ASSUME NEW N \in SUBSET Nat, N # {}
  PROVE  \E m \in N : \A k \in N : m <= k
<1> DEFINE R == {p \in Nat \X Nat : p[1] < p[2]}
<1>1. IsWellFoundedOn(R, Nat)
  BY NatLessThanWellFounded DEF OpToRel
<1>2. PICK m \in N : \A k \in N : <<k, m>> \notin R
  BY <1>1, WFMin
<1>3. ASSUME NEW k \in N PROVE m <= k
  <2>1. k < m => <<k, m>> \in R
    OBVIOUS
  <2> QED
    BY <1>2, <2>1
<1> QED
  BY <1>3

\* Induction, for a set of numbers.
LEMMA UpTo ==
  ASSUME NEW n \in Nat, NEW S, 0 \in S, \A k \in 0 .. n - 1 : k \in S => k + 1 \in S
  PROVE  \A k \in 0 .. n : k \in S
<1> DEFINE Wrong == {k \in 0 .. n : k \notin S}
<1> SUFFICES ASSUME Wrong # {} PROVE FALSE
  OBVIOUS
<1>1. PICK m \in Wrong : \A k \in Wrong : m <= k
  <2>1. Wrong \in SUBSET Nat
    OBVIOUS
  <2> HIDE DEF Wrong
  <2> QED
    BY <2>1, LeastNumber
<1>2. m # 0 /\ m - 1 \in 0 .. n - 1 /\ m - 1 \notin Wrong
  BY <1>1
<1>3. m - 1 \in S /\ (m - 1) + 1 = m
  BY <1>2
<1> QED
  BY <1>1, <1>2, <1>3

\* f is what the parser does on the first n lexemes of a text.
Traces(f, s, text, n) ==
  f = [i \in 0 .. n |-> IF i = 0 THEN s ELSE Read(f[i - 1], text[i])]

\* Every text can be read to its end.
LEMMA TraceExists ==
  ASSUME NEW s, NEW text, NEW n \in Nat
  PROVE  \E f : Traces(f, s, text, n)
<1> DEFINE Short == {m \in Nat : ~\E f : Traces(f, s, text, m)}
<1> SUFFICES ASSUME Short # {} PROVE FALSE
  OBVIOUS
<1>1. PICK m \in Short : \A k \in Short : m <= k
  BY LeastNumber
<1>2. CASE m = 0
  <2> DEFINE g == [i \in 0 .. 0 |-> s]
  <2>1. Traces(g, s, text, 0)
    BY DEF Traces
  <2> QED
    BY <1>2, <2>1
<1>3. CASE m # 0
  <2>1. m - 1 \in Nat /\ m - 1 \notin Short
    BY <1>1, <1>3
  <2>2. PICK f : Traces(f, s, text, m - 1)
    BY <2>1
  <2> DEFINE g == [i \in 0 .. m |-> IF i < m THEN f[i] ELSE Read(f[m - 1], text[m])]
  <2>3. Traces(g, s, text, m)
    <3>1. ASSUME NEW i \in 0 .. m
          PROVE  g[i] = IF i = 0 THEN s ELSE Read(g[i - 1], text[i])
      <4>1. CASE i = m
        BY <4>1, <1>3, <2>1
      <4>2. CASE i < m
        <5>1. f[i] = IF i = 0 THEN s ELSE Read(f[i - 1], text[i])
          BY <2>1, <2>2, <4>2 DEF Traces
        <5>2. i # 0 => i - 1 \in 0 .. m /\ i - 1 < m
          BY <2>1, <4>2
        <5> QED
          BY <4>2, <5>1, <5>2
      <4> QED
        BY <2>1, <4>1, <4>2
    <3> QED
      BY <3>1 DEF Traces
  <2> QED
    BY <2>3
<1> QED
  BY <1>2, <1>3

\* ParseFrom() is a walk over the text, one lexeme after the other.
LEMMA ParseTrace ==
  ASSUME NEW s, NEW text, Len(text) \in Nat
  PROVE  \E f : /\ f[0] = s /\ f[Len(text)] = ParseFrom(s, text)
                /\ \A i \in 1 .. Len(text) : f[i] = Read(f[i - 1], text[i])
<1> DEFINE n == Len(text)
           f == CHOOSE g : Traces(g, s, text, n)
<1>1. Traces(f, s, text, n)
  BY TraceExists
<1>2. ParseFrom(s, text) = f[n]
  BY DEF ParseFrom, Traces
<1> HIDE DEF f
<1>3. f[0] = s /\ \A i \in 1 .. n : f[i] = Read(f[i - 1], text[i])
  BY <1>1 DEF Traces
<1> QED
  BY <1>2, <1>3

----------------------------------------------------------------------------

\* Sequences of whatever there is.
IsSeq(q) == \E S : q \in Seq(S)

\* What Append() does to one.
LEMMA AppendSeq ==
  ASSUME NEW q, IsSeq(q), NEW e
  PROVE  /\ Len(q) \in Nat /\ DOMAIN q = 1 .. Len(q)
         /\ IsSeq(Append(q, e)) /\ Len(Append(q, e)) = Len(q) + 1
         /\ \A i \in 1 .. Len(q) : Append(q, e)[i] = q[i]
         /\ Append(q, e)[Len(q) + 1] = e
<1>1. PICK S : q \in Seq(S)
  BY DEF IsSeq
<1> DEFINE T == S \cup {e}
<1>2. q \in Seq(T)
  BY <1>1
<1>3. e \in T
  OBVIOUS
<1> HIDE DEF T
<1>4. Append(q, e) \in Seq(T)
  BY <1>2, <1>3
<1> QED
  BY <1>2, <1>3, <1>4 DEF IsSeq

\* A function on the positions of a sequence is one.
LEMMA MapSeq ==
  ASSUME NEW q, NEW n \in Nat, DOMAIN q = 1 .. n, q = [i \in 1 .. n |-> q[i]]
  PROVE  IsSeq(q) /\ Len(q) = n
<1> DEFINE S == {q[i] : i \in 1 .. n}
<1>1. q \in [1 .. n -> S]
  OBVIOUS
<1> HIDE DEF S
<1>2. q \in Seq(S)
  BY <1>1, SeqDef, Zenon
<1>3. Len(q) \in Nat /\ DOMAIN q = 1 .. Len(q)
  BY <1>2
<1>4. Len(q) = n
  BY <1>3
<1> QED
  BY <1>2, <1>4 DEF IsSeq

----------------------------------------------------------------------------
\* The parser's state.

HostFields == DOMAIN BuiltIn \cup {"name"}

\* A device name is at a place of the heap, 0 being none.
IsHeap(hp) ==
  IsSeq(hp) /\ \A i \in 1 .. Len(hp) : DOMAIN hp[i] = {"name", "live"}

\* A session, complete or not; n is the length of the heap.
IsSession(h, n) == DOMAIN h = HostFields /\ h.dev \in 0 .. n

AreHosts(list, n) ==
  /\ IsSeq(list)
  /\ \A i \in 1 .. Len(list) : IsSession(list[i], n) /\ list[i].passwd # NULL

\* The general options that are set once, each with a value or None.
AreOptions(v) == v = [o \in DOMAIN Fallback |-> v[o]]

ScanOK(start, stack) ==
  /\ start \in {"INITIAL", "OPTION", "PARAM"}
  /\ stack \in Seq({"INITIAL", "OPTION", "PARAM"}) /\ Len(stack) <= StackSize
  /\ start = "INITIAL" <=> stack = <<>>
  /\ \A i \in 1 .. Len(stack) : stack[i] = "INITIAL" <=> i = 1

\* Where the parser is, and in which section.
PlaceOK(s) ==
  /\ s.section \in {"none", "options", "default", "host"}
  /\ s.at \notin {"top", "error"} => s.section # "none"
  /\ s.at \in {"up", "cmds"} \cup Commands => s.section # "options"
  /\ s.at = "param" => s.option \in OptionsOf(s.section) \ {"up"}

ParseOK(s) ==
  /\ DOMAIN s = DOMAIN Fresh
  /\ ScanOK(s.start, s.stack) /\ IsSeq(s.rest)
  /\ PlaceOK(s)
  /\ IsHeap(s.heap)
  /\ DOMAIN s.default = DOMAIN BuiltIn /\ s.default.dev \in 0 .. Len(s.heap)
  /\ s.section = "host" => IsSession(s.host, Len(s.heap))
  /\ AreHosts(s.hosts, Len(s.heap))
  /\ AreOptions(s.vtun)

\* The scanner changes its start condition and its stack only, and these
\* belong together: what is popped was pushed.
LEMMA ScannedOK ==
  ASSUME NEW s, DOMAIN s = DOMAIN Fresh, ScanOK(s.start, s.stack), NEW w
  PROVE  /\ DOMAIN Scanned(s, w) = DOMAIN Fresh
         /\ ScanOK(Scanned(s, w).start, Scanned(s, w).stack)
         /\ \A x \in DOMAIN Fresh \ {"start", "stack"} : Scanned(s, w)[x] = s[x]
<1> DEFINE r == Scanned(s, w)
           Conditions == {"INITIAL", "OPTION", "PARAM"}
<1> USE ConfigAssumption
<1>1. ASSUME NEW c \in {"OPTION", "PARAM"}, r = Push(s, c), ~Full(s)
      PROVE  /\ DOMAIN r = DOMAIN Fresh /\ ScanOK(r.start, r.stack)
             /\ \A x \in DOMAIN Fresh \ {"start", "stack"} : r[x] = s[x]
  <2>1. r.start = c /\ r.stack = Append(s.stack, s.start) /\ DOMAIN r = DOMAIN Fresh
    BY <1>1 DEF Push, Fresh
  <2>2. \A x \in DOMAIN Fresh \ {"start", "stack"} : r[x] = s[x]
    BY <1>1 DEF Push, Fresh
  <2> HIDE DEF r
  <2>3. ScanOK(r.start, r.stack)
    BY <1>1, <2>1 DEF ScanOK, Full
  <2> QED
    BY <2>1, <2>2, <2>3
<1>2. ASSUME r = Pop(s), s.stack # <<>>
      PROVE  /\ DOMAIN r = DOMAIN Fresh /\ ScanOK(r.start, r.stack)
             /\ \A x \in DOMAIN Fresh \ {"start", "stack"} : r[x] = s[x]
  <2>1. r.start = Last(s.stack) /\ r.stack = Front(s.stack) /\ DOMAIN r = DOMAIN Fresh
    BY <1>2 DEF Pop, Fresh
  <2>2. \A x \in DOMAIN Fresh \ {"start", "stack"} : r[x] = s[x]
    BY <1>2 DEF Pop, Fresh
  <2> HIDE DEF r
  <2>3. /\ Front(s.stack) \in Seq(Conditions) /\ Len(Front(s.stack)) = Len(s.stack) - 1
        /\ \A i \in 1 .. Len(s.stack) - 1 : Front(s.stack)[i] = s.stack[i]
        /\ Last(s.stack) = s.stack[Len(s.stack)] /\ Len(s.stack) \in Nat \ {0}
    BY <1>2 DEF ScanOK, Front, Last
  <2>4. ScanOK(r.start, r.stack)
    BY <2>1, <2>3 DEF ScanOK
  <2> QED
    BY <2>1, <2>2, <2>4
<1>3. \/ ~Full(s) /\ (r = Push(s, "OPTION") \/ r = Push(s, "PARAM"))
      \/ s.stack # <<>> /\ r = Pop(s)
      \/ r = s
  <2>1. s.start = "PARAM" => s.stack # <<>>
    BY DEF ScanOK
  <2>2. CASE w.k = "{" /\ ~Full(s)
    BY <2>2 DEF Scanned, IsKeyword
  <2>3. CASE w.k = "}" /\ s.stack # <<>>
    BY <2>3 DEF Scanned, IsKeyword
  <2>4. CASE w.k = ";" /\ s.start = "PARAM"
    BY <2>1, <2>4 DEF Scanned
  <2>5. CASE IsKeyword(w) /\ s.start = "OPTION" /\ ~Full(s)
    BY <2>5 DEF Scanned, IsKeyword
  <2>6. CASE ~(\/ w.k = "{" /\ ~Full(s)
               \/ w.k = "}" /\ s.stack # <<>>
               \/ w.k = ";" /\ s.start = "PARAM"
               \/ IsKeyword(w) /\ s.start = "OPTION" /\ ~Full(s))
    BY <2>6 DEF Scanned
  <2> HIDE DEF r
  <2> QED
    BY <2>2, <2>3, <2>4, <2>5, <2>6
<1>4. CASE r = s
  BY <1>4
<1> QED
  BY <1>1, <1>2, <1>3, <1>4

----------------------------------------------------------------------------
\* The shape of a step of the parser from s to r.

\* What every step leaves as it is.
Frame(s, r) ==
  /\ DOMAIN r = DOMAIN Fresh /\ PlaceOK(r)
  /\ r.start = s.start /\ r.stack = s.stack /\ r.rest = s.rest
  /\ DOMAIN r.default = DOMAIN BuiltIn
  /\ AreOptions(r.vtun)
  /\ \A o \in DOMAIN Fallback : s.vtun[o] # None => r.vtun[o] = s.vtun[o]

\* The device of the host in hand stays as it is, or is that of default_host.
HostKept(s, r) ==
  r.section = "host" =>
    /\ DOMAIN r.host = HostFields
    /\ \/ s.section = "host" /\ r.host.dev = s.host.dev
       \/ r.host.dev = s.default.dev

\* No device name, and no end of a section.
Plain(s, r) ==
  /\ r.heap = s.heap /\ r.sound = s.sound /\ r.hosts = s.hosts
  /\ r.default.dev = s.default.dev
  /\ HostKept(s, r)

\* The end of a session's section: it had a password.
Adds(s, r) ==
  /\ r.heap = s.heap /\ r.sound = s.sound
  /\ r.default.dev = s.default.dev
  /\ s.section = "host" /\ s.host.passwd # NULL /\ r.section = "none"
  /\ r.hosts = Append(s.hosts, s.host)

\* K_DEVICE: the old name is freed, the new one is the last of the heap.
Renames(s, r) ==
  LET old == ParseHost(s).dev
      n == Len(s.heap)
  IN  /\ s.section \in {"default", "host"} /\ r.section = s.section
      /\ r.hosts = s.hosts
      /\ IsHeap(r.heap) /\ Len(r.heap) = n + 1 /\ r.heap[n + 1].live
      /\ \A i \in 1 .. n : r.heap[i].live = (s.heap[i].live /\ i # old)
      /\ r.sound = (s.sound /\ (old # 0 => s.heap[old].live))
      /\ s.section = "default" => r.default.dev = n + 1
      /\ s.section = "host" =>
           /\ r.default.dev = s.default.dev
           /\ DOMAIN r.host = HostFields /\ r.host.dev = n + 1

Shape(s, r) == Frame(s, r) /\ (Plain(s, r) \/ Adds(s, r) \/ Renames(s, r))

\* Another place, and perhaps another section other than a session's.
LEMMA MoveShape ==
  ASSUME NEW s, ParseOK(s), NEW r, DOMAIN r = DOMAIN Fresh, PlaceOK(r),
         \A x \in DOMAIN Fresh \ {"at", "section", "option", "crash"} : r[x] = s[x],
         r.section = "host" => s.section = "host"
  PROVE  Shape(s, r)
<1>1. /\ r.start = s.start /\ r.stack = s.stack /\ r.rest = s.rest /\ r.default = s.default
      /\ r.vtun = s.vtun /\ r.heap = s.heap /\ r.sound = s.sound /\ r.hosts = s.hosts
      /\ r.host = s.host
  BY DEF Fresh
<1>2. Frame(s, r)
  BY <1>1 DEF Frame, ParseOK
<1>3. Plain(s, r)
  BY <1>1 DEF Plain, HostKept, ParseOK, IsSession
<1> QED
  BY <1>2, <1>3 DEF Shape

\* An option other than the device's name, in default_host or a session.
LEMMA PutFact ==
  ASSUME NEW s, ParseOK(s), NEW option \in DOMAIN BuiltIn, NEW v,
         s.section \in {"default", "host"}
  PROVE  LET r == Put(s, option, v)
         IN  /\ DOMAIN r = DOMAIN Fresh
             /\ \A x \in DOMAIN Fresh \ {"default", "host"} : r[x] = s[x]
             /\ DOMAIN r.default = DOMAIN BuiltIn
             /\ s.section = "host" => r.default = s.default /\ DOMAIN r.host = HostFields
             /\ option # "dev" => /\ r.default.dev = s.default.dev
                                  /\ s.section = "host" => r.host.dev = s.host.dev
             /\ s.section = "host" /\ option = "dev" => r.host.dev = v
             /\ s.section = "default" /\ option = "dev" => r.default.dev = v
<1>1. /\ DOMAIN s = DOMAIN Fresh /\ DOMAIN s.default = DOMAIN BuiltIn
      /\ s.section = "host" => DOMAIN s.host = HostFields
  BY DEF ParseOK, IsSession
<1>2. "dev" \in DOMAIN BuiltIn /\ DOMAIN BuiltIn \subseteq HostFields
  BY DEF BuiltIn, HostFields
<1>3. "default" \in DOMAIN Fresh /\ "host" \in DOMAIN Fresh
  BY DEF Fresh
<1>4. CASE s.section = "default"
  <2> DEFINE r == [s EXCEPT !.default[option] = v]
  <2>1. /\ DOMAIN r = DOMAIN Fresh /\ r.default = [s.default EXCEPT ![option] = v]
        /\ \A x \in DOMAIN Fresh \ {"default"} : r[x] = s[x]
    BY <1>1, <1>3
  <2>2. Put(s, option, v) = r
    BY <1>4 DEF Put
  <2> HIDE DEF r
  <2> QED
    BY <1>1, <1>2, <1>4, <2>1, <2>2
<1>5. CASE s.section = "host"
  <2> DEFINE r == [s EXCEPT !.host[option] = v]
  <2>1. /\ DOMAIN r = DOMAIN Fresh /\ r.host = [s.host EXCEPT ![option] = v]
        /\ \A x \in DOMAIN Fresh \ {"host"} : r[x] = s[x]
    BY <1>1, <1>3
  <2>2. Put(s, option, v) = r
    BY <1>5 DEF Put
  <2> HIDE DEF r
  <2> QED
    BY <1>1, <1>2, <1>3, <1>5, <2>1, <2>2
<1> QED
  BY <1>4, <1>5

\* The place where the parser was does not matter to the shape of a step.
LEMMA ShapeFrom ==
  ASSUME NEW s, NEW t, NEW r, Shape(t, r), DOMAIN s = DOMAIN Fresh,
         \A x \in DOMAIN Fresh \ {"at", "option", "crash"} : t[x] = s[x]
  PROVE  Shape(s, r)
<1>1. /\ t.start = s.start /\ t.stack = s.stack /\ t.rest = s.rest /\ t.default = s.default
      /\ t.vtun = s.vtun /\ t.heap = s.heap /\ t.sound = s.sound /\ t.hosts = s.hosts
      /\ t.host = s.host /\ t.section = s.section
  BY DEF Fresh
<1>2. Frame(s, r)
  BY <1>1 DEF Shape, Frame
<1>3. CASE Plain(t, r)
  BY <1>1, <1>2, <1>3 DEF Shape, Plain, HostKept
<1>4. CASE Adds(t, r)
  BY <1>1, <1>2, <1>4 DEF Shape, Adds
<1>5. CASE Renames(t, r)
  BY <1>1, <1>2, <1>5 DEF Shape, Renames, ParseHost
<1> QED
  BY <1>3, <1>4, <1>5 DEF Shape

\* The name of a session: default_host is copied.
LEMMA HostShape ==
  ASSUME NEW s, ParseOK(s), NEW name
  PROVE  Shape(s, K_HOST(s, name))
<1> DEFINE r == K_HOST(s, name)
           h == [o \in DOMAIN s.default \cup {"name"} |->
                   CASE o = "name" -> name
                     [] o = "passwd" -> NULL
                     [] OTHER -> s.default[o]]
<1>1. DOMAIN s = DOMAIN Fresh /\ DOMAIN s.default = DOMAIN BuiltIn
  BY DEF ParseOK
<1>2. DOMAIN h = HostFields /\ h.dev = s.default.dev
  BY <1>1 DEF HostFields, BuiltIn
<1>3. /\ DOMAIN r = DOMAIN Fresh /\ r.at = "open" /\ r.section = "host" /\ r.host = h
      /\ \A x \in DOMAIN Fresh \ {"at", "section", "host", "crash"} : r[x] = s[x]
  <2> HIDE DEF h
  <2>1. r = [s EXCEPT !.at = "open", !.section = "host", !.host = h,
                      !.crash = s.crash \/ Contains(s.default.up, Shell)]
    BY DEF K_HOST, h
  <2> QED
    BY <1>1, <2>1 DEF Fresh
<1> HIDE DEF r, h
<1>4. /\ r.start = s.start /\ r.stack = s.stack /\ r.rest = s.rest /\ r.default = s.default
      /\ r.vtun = s.vtun /\ r.heap = s.heap /\ r.sound = s.sound /\ r.hosts = s.hosts
  BY <1>3 DEF Fresh
<1>5. Frame(s, r)
  BY <1>3, <1>4 DEF Frame, ParseOK, PlaceOK, Commands
<1>6. Plain(s, r)
  BY <1>2, <1>3, <1>4 DEF Plain, HostKept
<1> QED
  BY <1>5, <1>6 DEF Shape, r

\* The end of a section.
LEMMA EndShape ==
  ASSUME NEW s, ParseOK(s)
  PROVE  Shape(s, EndOfSection(s))
<1> DEFINE r == EndOfSection(s)
           complete == s.section = "host" /\ s.host.passwd # NULL
           list == IF complete THEN Append(s.hosts, s.host) ELSE s.hosts
<1>1. DOMAIN s = DOMAIN Fresh
  BY DEF ParseOK
<1>2. /\ DOMAIN r = DOMAIN Fresh /\ r.at = "top" /\ r.section = "none" /\ r.hosts = list
      /\ \A x \in DOMAIN Fresh \ {"at", "section", "hosts"} : r[x] = s[x]
  <2> HIDE DEF list
  <2>1. r = [s EXCEPT !.at = "top", !.section = "none", !.hosts = list]
    BY DEF EndOfSection, list
  <2> QED
    BY <1>1, <2>1 DEF Fresh
<1> HIDE DEF r
<1>3. /\ r.start = s.start /\ r.stack = s.stack /\ r.rest = s.rest /\ r.default = s.default
      /\ r.vtun = s.vtun /\ r.heap = s.heap /\ r.sound = s.sound
  BY <1>2 DEF Fresh
<1>4. Frame(s, r)
  BY <1>2, <1>3 DEF Frame, ParseOK, PlaceOK, Commands
<1>5. CASE complete
  BY <1>2, <1>3, <1>4, <1>5 DEF Shape, Adds, r
<1>6. CASE ~complete
  BY <1>2, <1>3, <1>4, <1>6 DEF Shape, Plain, HostKept, r
<1> QED
  BY <1>5, <1>6

\* device: the name that default_host or the session had is freed.
LEMMA DeviceShape ==
  ASSUME NEW s, ParseOK(s), s.section \in {"default", "host"}, NEW name
  PROVE  Shape(s, K_DEVICE(s, name)) /\ K_DEVICE(s, name).at = s.at
<1> DEFINE r == K_DEVICE(s, name)
           n == Len(s.heap)
           t == Put(s, "dev", n + 1)
           old == ParseHost(s).dev
           freed == [i \in DOMAIN s.heap |-> [s.heap[i] EXCEPT !.live = @ /\ i # old]]
           e == [name |-> name, live |-> TRUE]
           hp == Append(freed, e)
           ok == s.sound /\ (old # 0 => s.heap[old].live)
<1>1. IsSeq(s.heap) /\ n \in Nat /\ DOMAIN s.heap = 1 .. n
  BY AppendSeq DEF ParseOK, IsHeap
<1>2. \A i \in 1 .. n : DOMAIN s.heap[i] = {"name", "live"}
  BY DEF ParseOK, IsHeap
<1>3. IsSeq(freed) /\ Len(freed) = n
  <2> DEFINE q == freed
  <2>1. DOMAIN q = 1 .. n /\ q = [i \in 1 .. n |-> q[i]]
    BY <1>1
  <2> HIDE DEF q
  <2>2. IsSeq(q) /\ Len(q) = n
    BY <1>1, <2>1, MapSeq
  <2> QED
    BY <2>2 DEF q
<1>4. \A i \in 1 .. n : /\ DOMAIN freed[i] = {"name", "live"}
                        /\ freed[i].live = (s.heap[i].live /\ i # old)
  BY <1>1, <1>2
<1> HIDE DEF freed, e
<1>5. /\ IsSeq(hp) /\ Len(hp) = n + 1 /\ hp[n + 1] = e
      /\ \A i \in 1 .. n : hp[i] = freed[i]
  BY <1>3, AppendSeq
<1>6. DOMAIN e = {"name", "live"} /\ e.live
  BY DEF e
<1>7. IsHeap(hp) /\ hp[n + 1].live /\ \A i \in 1 .. n : hp[i].live = (s.heap[i].live /\ i # old)
  BY <1>1, <1>4, <1>5, <1>6 DEF IsHeap
<1> HIDE DEF hp, t, ok
<1>8. "dev" \in DOMAIN BuiltIn
  BY DEF BuiltIn
<1>9. /\ DOMAIN t = DOMAIN Fresh
      /\ \A x \in DOMAIN Fresh \ {"default", "host"} : t[x] = s[x]
      /\ DOMAIN t.default = DOMAIN BuiltIn
      /\ s.section = "host" =>
           t.default = s.default /\ DOMAIN t.host = HostFields /\ t.host.dev = n + 1
      /\ s.section = "default" => t.default.dev = n + 1
  BY <1>8, PutFact DEF t
<1>10. r = [t EXCEPT !.heap = hp, !.sound = ok]
  <2>1. t.sound = s.sound
    BY <1>9 DEF Fresh
  <2> QED
    BY <2>1 DEF K_DEVICE, t, hp, ok, freed, e
<1> HIDE DEF r
<1>11. /\ DOMAIN r = DOMAIN Fresh /\ r.heap = hp /\ r.sound = ok
       /\ \A x \in DOMAIN Fresh \ {"heap", "sound"} : r[x] = t[x]
  BY <1>9, <1>10 DEF Fresh
<1>12. /\ r.start = s.start /\ r.stack = s.stack /\ r.rest = s.rest /\ r.vtun = s.vtun
       /\ r.hosts = s.hosts /\ r.section = s.section /\ r.at = s.at /\ r.option = s.option
       /\ r.default = t.default /\ r.host = t.host
  BY <1>9, <1>11 DEF Fresh
<1>13. Frame(s, r)
  BY <1>9, <1>11, <1>12 DEF Frame, ParseOK, PlaceOK
<1>14. Renames(s, r)
  BY <1>5, <1>7, <1>9, <1>11, <1>12 DEF Renames, ok, hp
<1> QED
  BY <1>12, <1>13, <1>14 DEF Shape, r

\* A general option: once it has a value it keeps it, but for syslog.
LEMMA GeneralShape ==
  ASSUME NEW s, NEW t, NEW option, NEW v, DOMAIN s = DOMAIN Fresh, Shape(s, t)
  PROVE  /\ Shape(s, SetGeneral(t, option, v))
         /\ DOMAIN SetGeneral(t, option, v) = DOMAIN Fresh
<1> DEFINE r == SetGeneral(t, option, v)
           new == IF option = "syslog" THEN t.vtun
                  ELSE [t.vtun EXCEPT ![option] = IF @ = None THEN v ELSE @]
<1>1. /\ DOMAIN t = DOMAIN Fresh /\ PlaceOK(t) /\ AreOptions(t.vtun)
      /\ t.start = s.start /\ t.stack = s.stack /\ t.rest = s.rest
      /\ DOMAIN t.default = DOMAIN BuiltIn
      /\ \A o \in DOMAIN Fallback : s.vtun[o] # None => t.vtun[o] = s.vtun[o]
  BY DEF Shape, Frame
<1>2. /\ DOMAIN r = DOMAIN Fresh /\ r.vtun = new
      /\ \A x \in DOMAIN Fresh \ {"vtun", "syslog"} : r[x] = t[x]
  <2>1. CASE option = "syslog"
    <3>1. r = [t EXCEPT !.syslog = v] /\ new = t.vtun
      BY <2>1 DEF SetGeneral
    <3> HIDE DEF r, new
    <3> QED
      BY <1>1, <3>1 DEF Fresh
  <2>2. CASE option # "syslog"
    <3>1. r = [t EXCEPT !.vtun = new]
      BY <2>2 DEF SetGeneral
    <3> HIDE DEF r, new
    <3> QED
      BY <1>1, <3>1 DEF Fresh
  <2> QED
    BY <2>1, <2>2
<1>3. /\ AreOptions(new)
      /\ \A o \in DOMAIN Fallback : t.vtun[o] # None => new[o] = t.vtun[o]
  BY <1>1 DEF AreOptions
<1> HIDE DEF r, new
<1>4. /\ r.start = t.start /\ r.stack = t.stack /\ r.rest = t.rest /\ r.default = t.default
      /\ r.heap = t.heap /\ r.sound = t.sound /\ r.hosts = t.hosts
      /\ r.host = t.host /\ r.section = t.section /\ r.at = t.at /\ r.option = t.option
  BY <1>2 DEF Fresh
<1>5. PlaceOK(r)
  BY <1>1, <1>4 DEF PlaceOK
<1>6. \A o \in DOMAIN Fallback : s.vtun[o] # None => r.vtun[o] = s.vtun[o]
  BY <1>1, <1>2, <1>3
<1>7. Frame(s, r)
  BY <1>1, <1>2, <1>3, <1>4, <1>5, <1>6 DEF Frame
<1>8. Plain(s, t) \/ Adds(s, t) \/ Renames(s, t)
  BY DEF Shape
<1>9. Plain(s, r) \/ Adds(s, r) \/ Renames(s, r)
  BY <1>4, <1>8 DEF Plain, HostKept, Adds, Renames
<1> QED
  BY <1>2, <1>7, <1>9 DEF Shape, r

\* Any other option of default_host or a session, and then another place.
LEMMA PutShape ==
  ASSUME NEW s, ParseOK(s), s.section \in {"default", "host"},
         NEW option \in DOMAIN BuiltIn \ {"dev"}, NEW v, NEW at,
         at \notin {"param", "open"}
  PROVE  Shape(s, [Put(s, option, v) EXCEPT !.at = at])
<1> DEFINE t == Put(s, option, v)
           r == [t EXCEPT !.at = at]
<1>1. /\ DOMAIN t = DOMAIN Fresh
      /\ \A x \in DOMAIN Fresh \ {"default", "host"} : t[x] = s[x]
      /\ DOMAIN t.default = DOMAIN BuiltIn /\ t.default.dev = s.default.dev
      /\ s.section = "host" => DOMAIN t.host = HostFields /\ t.host.dev = s.host.dev
  BY PutFact
<1> HIDE DEF t
<1>2. DOMAIN r = DOMAIN Fresh /\ r.at = at /\ \A x \in DOMAIN Fresh \ {"at"} : r[x] = t[x]
  BY <1>1 DEF Fresh
<1> HIDE DEF r
<1>3. /\ r.start = s.start /\ r.stack = s.stack /\ r.rest = s.rest /\ r.vtun = s.vtun
      /\ r.heap = s.heap /\ r.sound = s.sound /\ r.hosts = s.hosts /\ r.section = s.section
      /\ r.default = t.default /\ r.host = t.host
  BY <1>1, <1>2 DEF Fresh
<1>4. PlaceOK(r)
  BY <1>2, <1>3 DEF PlaceOK
<1>5. Frame(s, r)
  BY <1>1, <1>2, <1>3, <1>4 DEF Frame, ParseOK
<1>6. Plain(s, r)
  BY <1>1, <1>3 DEF Plain, HostKept
<1> QED
  BY <1>5, <1>6 DEF Shape, r, t

\* The same, and the place remains.
LEMMA PutStays ==
  ASSUME NEW s, ParseOK(s), s.section \in {"default", "host"},
         NEW option \in DOMAIN BuiltIn \ {"dev"}, NEW v
  PROVE  Shape(s, Put(s, option, v))
<1> DEFINE t == Put(s, option, v)
<1>1. /\ DOMAIN t = DOMAIN Fresh
      /\ \A x \in DOMAIN Fresh \ {"default", "host"} : t[x] = s[x]
      /\ DOMAIN t.default = DOMAIN BuiltIn /\ t.default.dev = s.default.dev
      /\ s.section = "host" => DOMAIN t.host = HostFields /\ t.host.dev = s.host.dev
  BY PutFact
<1> HIDE DEF t
<1>2. /\ t.start = s.start /\ t.stack = s.stack /\ t.rest = s.rest /\ t.vtun = s.vtun
      /\ t.heap = s.heap /\ t.sound = s.sound /\ t.hosts = s.hosts /\ t.section = s.section
      /\ t.at = s.at /\ t.option = s.option
  BY <1>1 DEF Fresh
<1>3. Frame(s, t)
  BY <1>1, <1>2 DEF Frame, ParseOK, PlaceOK
<1>4. Plain(s, t)
  BY <1>1, <1>2 DEF Plain, HostKept
<1> QED
  BY <1>3, <1>4 DEF Shape, t

\* An option with its parameter.
LEMMA OptionShape ==
  ASSUME NEW s, ParseOK(s), s.at = "param", NEW v
  PROVE  Shape(s, SetOption(s, v))
<1> DEFINE next == [s EXCEPT !.at = "body"]
<1>1. DOMAIN s = DOMAIN Fresh /\ PlaceOK(s)
  BY DEF ParseOK
<1>2. /\ DOMAIN next = DOMAIN Fresh /\ next.at = "body"
      /\ \A x \in DOMAIN Fresh \ {"at"} : next[x] = s[x]
  BY <1>1 DEF Fresh
<1>3. /\ s.section \in {"options", "default", "host"}
      /\ s.option \in OptionsOf(s.section) \ {"up"}
  BY <1>1 DEF PlaceOK
<1>4. SetOption(s, v) =
        CASE s.section = "options" -> SetGeneral(next, s.option, v)
          [] s.option = "device" -> K_DEVICE(next, v)
          [] s.option = "persist" -> SetGeneral(Put(next, "persist", v), "persist", v)
          [] OTHER -> Put(next, s.option, v)
  BY DEF SetOption
<1> HIDE DEF next
<1>5. ParseOK(next)
  <2>1. /\ next.start = s.start /\ next.stack = s.stack /\ next.rest = s.rest
        /\ next.default = s.default
        /\ next.vtun = s.vtun /\ next.heap = s.heap /\ next.sound = s.sound
        /\ next.hosts = s.hosts /\ next.host = s.host /\ next.section = s.section
    BY <1>2 DEF Fresh
  <2>2. PlaceOK(next)
    BY <1>2, <1>3, <2>1 DEF PlaceOK, Commands
  <2> QED
    BY <1>2, <2>1, <2>2 DEF ParseOK
<1>6. next.section = s.section /\ next.at = "body"
  BY <1>2 DEF Fresh
<1>7. Shape(next, SetOption(s, v))
  <2>1. CASE s.section = "options"
    <3>1. Shape(next, next)
      BY <1>5, MoveShape DEF ParseOK
    <3>2. s.option \notin {"device"} \cup {"persist"}
      BY <1>3, <2>1 DEF OptionsOf, GeneralOptions
    <3>3. SetOption(s, v) = SetGeneral(next, s.option, v)
      BY <1>4, <2>1, <3>2
    <3> QED
      BY <1>2, <3>1, <3>3, GeneralShape
  <2>2. CASE s.section # "options"
    <3>1. next.section \in {"default", "host"}
      BY <1>3, <1>6, <2>2
    <3>2. CASE s.option = "device"
      BY <1>4, <1>5, <2>2, <3>1, <3>2, DeviceShape
    <3>3. CASE s.option = "persist"
      <4>1. Shape(next, Put(next, "persist", v))
        BY <1>5, <3>1, PutStays DEF BuiltIn
      <4>2. SetOption(s, v) = SetGeneral(Put(next, "persist", v), "persist", v)
        BY <1>4, <2>2, <3>3
      <4> QED
        BY <1>2, <4>1, <4>2, GeneralShape
    <3>4. CASE s.option \notin {"device", "persist"}
      <4>1. s.option \in DOMAIN BuiltIn \ {"dev"}
        BY <1>3, <2>2, <3>4 DEF OptionsOf, HostOptions, Numbers, BuiltIn
      <4>2. SetOption(s, v) = Put(next, s.option, v)
        BY <1>4, <2>2, <3>4
      <4> QED
        BY <1>5, <3>1, <4>1, <4>2, PutStays
    <3> QED
      BY <3>2, <3>3, <3>4
  <2> QED
    BY <2>1, <2>2
<1> QED
  BY <1>1, <1>2, <1>7, ShapeFrom

\* Every step of the parser has the shape.
LEMMA ParsedShape ==
  ASSUME NEW s, ParseOK(s), NEW t, NEW w
  PROVE  Shape(s, Parsed(s, t, w))
<1> DEFINE r == Parsed(s, t, w)
           Go(at) == [s EXCEPT !.at = at]
<1>1. DOMAIN s = DOMAIN Fresh /\ PlaceOK(s)
  BY DEF ParseOK
<1>2. ASSUME NEW at, at = "error" \/ s.section # "none", at # "param",
             at \in {"up", "cmds"} \cup Commands => s.section # "options"
      PROVE  Shape(s, Go(at))
  <2> DEFINE g == Go(at)
  <2>1. DOMAIN g = DOMAIN Fresh /\ g.at = at /\ \A x \in DOMAIN Fresh \ {"at"} : g[x] = s[x]
    BY <1>1 DEF Fresh
  <2> HIDE DEF g
  <2>2. g.section = s.section /\ g.option = s.option
    BY <2>1 DEF Fresh
  <2>3. PlaceOK(g)
    BY <1>1, <1>2, <2>1, <2>2 DEF PlaceOK
  <2>4. Shape(s, g)
    BY <2>1, <2>2, <2>3, MoveShape
  <2> QED
    BY <2>4 DEF g
<1>3. ASSUME s.at = "top", t \in {"options", "default"}
      PROVE  Shape(s, [s EXCEPT !.at = "open", !.section = t])
  <2> DEFINE g == [s EXCEPT !.at = "open", !.section = t]
  <2>1. /\ DOMAIN g = DOMAIN Fresh /\ g.at = "open" /\ g.section = t
        /\ \A x \in DOMAIN Fresh \ {"at", "section"} : g[x] = s[x]
    BY <1>1 DEF Fresh
  <2> HIDE DEF g
  <2>2. PlaceOK(g)
    BY <1>3, <2>1 DEF PlaceOK, Commands
  <2>3. Shape(s, g)
    BY <1>3, <2>1, <2>2, MoveShape
  <2> QED
    BY <2>3 DEF g
<1>4. ASSUME s.at \in {"first", "body"}, t \in OptionsOf(s.section) \ {"up"}
      PROVE  Shape(s, [s EXCEPT !.at = "param", !.option = t])
  <2> DEFINE g == [s EXCEPT !.at = "param", !.option = t]
  <2>1. /\ DOMAIN g = DOMAIN Fresh /\ g.at = "param" /\ g.option = t
        /\ \A x \in DOMAIN Fresh \ {"at", "option"} : g[x] = s[x]
    BY <1>1 DEF Fresh
  <2> HIDE DEF g
  <2>2. g.section = s.section
    BY <2>1 DEF Fresh
  <2>3. PlaceOK(g)
    BY <1>1, <1>4, <2>1, <2>2 DEF PlaceOK, Commands
  <2>4. Shape(s, g)
    BY <2>1, <2>2, <2>3, MoveShape
  <2> QED
    BY <2>4 DEF g
<1>5. ASSUME s.section \in {"default", "host"}, NEW v, NEW at \in {"up", "cmds"}
      PROVE  Shape(s, [Put(s, "up", v) EXCEPT !.at = at])
  BY <1>5, PutShape DEF BuiltIn
<1> DEFINE
      section == [s EXCEPT !.at = "open", !.section = t]
      host == K_HOST(s, NameOf(w))
      up == [Put(s, "up", <<>>) EXCEPT !.at = "up"]
      param == [s EXCEPT !.at = "param", !.option = t]
      option == SetOption(s, w.v)
      end == EndOfSection(s)
      command == [Put(s, "up", Append(ParseHost(s).up,
                                      IF s.at = "program" THEN Shell ELSE w.v))
                    EXCEPT !.at = "cmds"]
      first == Go("first")
      cmds == Go("cmds")
      program == Go(t)
      body == Go("body")
      error == Go("error")
<1>6. r = CASE s.at = "top" /\ t \in {"options", "default"} -> section
            [] s.at = "top" /\ t = "K_HOST" -> host
            [] s.at = "open" /\ t = "{" -> first
            [] s.at \in {"first", "body"} /\ t = "up" /\ s.section # "options" -> up
            [] s.at \in {"first", "body"} /\ t \in OptionsOf(s.section) \ {"up"} -> param
            [] s.at = "param"
               /\ t = (IF s.option \in {"passwd", "device"} THEN "WORD" ELSE "NUM") -> option
            [] s.at = "body" /\ t = "}" -> end
            [] s.at = "up" /\ t = "{" -> cmds
            [] s.at = "cmds" /\ t \in Commands -> program
            [] s.at \in Commands /\ t = "STRING" -> command
            [] s.at = "cmds" /\ t = "}" -> body
            [] OTHER -> error
  BY DEF Parsed
<1>7. s.at = "top" /\ t \in {"options", "default"} => Shape(s, section)
  BY <1>3
<1>8. Shape(s, host)
  BY HostShape
<1>9. s.at = "open" => Shape(s, first)
  BY <1>1, <1>2 DEF PlaceOK, Commands
<1>10. s.at \in {"first", "body"} /\ s.section # "options" => Shape(s, up)
  BY <1>1, <1>5 DEF PlaceOK
<1>11. s.at \in {"first", "body"} /\ t \in OptionsOf(s.section) \ {"up"} => Shape(s, param)
  BY <1>4
<1>12. s.at = "param" => Shape(s, option)
  BY OptionShape
<1>13. Shape(s, end)
  BY EndShape
<1>14. s.at = "up" => Shape(s, cmds)
  BY <1>1, <1>2 DEF PlaceOK
<1>15. s.at = "cmds" /\ t \in Commands => Shape(s, program)
  BY <1>1, <1>2 DEF PlaceOK, Commands
<1>16. s.at \in Commands => Shape(s, command)
  BY <1>1, <1>5 DEF PlaceOK, Commands
<1>17. s.at = "cmds" => Shape(s, body)
  BY <1>1, <1>2 DEF PlaceOK, Commands
<1>18. Shape(s, error)
  BY <1>2 DEF Commands
<1> HIDE DEF r, section, host, up, param, option, end, command, first, cmds, program, body,
       error
<1>19. Shape(s, r)
  BY <1>6, <1>7, <1>8, <1>9, <1>10, <1>11, <1>12, <1>13, <1>14, <1>15, <1>16, <1>17, <1>18
<1> QED
  BY <1>19 DEF r

----------------------------------------------------------------------------
\* What the parser keeps, from the state before the load.

\* The device of a session belongs to it alone, and to this load.
OwnName(d, s) == d = 0 \/ (d > Len(heap) /\ s.heap[d].live)

Own(s) ==
  s.default.dev = 0 =>
    /\ s.sound
    /\ Len(s.heap) >= Len(heap) /\ \A i \in 1 .. Len(heap) : s.heap[i].live <=> heap[i].live
    /\ \A i \in 1 .. Len(s.hosts) : OwnName(s.hosts[i].dev, s)
    /\ s.section = "host" => OwnName(s.host.dev, s)
    /\ \A i, j \in 1 .. Len(s.hosts) : s.hosts[i].dev = s.hosts[j].dev /\ i # j => s.hosts[i].dev = 0
    /\ s.section = "host" =>
         \A i \in 1 .. Len(s.hosts) : s.hosts[i].dev = s.host.dev => s.host.dev = 0

Kept(s) == \A o \in DOMAIN Fallback : vtun[o] # None => s.vtun[o] = vtun[o]

\* Nothing goes from the heap, and a default section's device stays.
Grown(s) == Len(s.heap) >= Len(heap) /\ (s.default.dev = 0 => default.dev = 0)

Parsing(s) == ParseOK(s) /\ Own(s) /\ Kept(s) /\ Grown(s)

\* A step of the parser keeps the types.
LEMMA ShapeParseOK ==
  ASSUME NEW s, NEW r, ParseOK(s), Shape(s, r)
  PROVE  ParseOK(r)
<1>1. /\ DOMAIN r = DOMAIN Fresh /\ PlaceOK(r) /\ r.start = s.start /\ r.stack = s.stack
      /\ r.rest = s.rest /\ DOMAIN r.default = DOMAIN BuiltIn /\ AreOptions(r.vtun)
  BY DEF Shape, Frame
<1>2. /\ IsHeap(s.heap) /\ s.default.dev \in 0 .. Len(s.heap) /\ Len(s.heap) \in Nat
      /\ s.section = "host" => IsSession(s.host, Len(s.heap))
      /\ AreHosts(s.hosts, Len(s.heap)) /\ ScanOK(s.start, s.stack) /\ IsSeq(s.rest)
  BY AppendSeq DEF ParseOK, IsHeap
<1>3. CASE Plain(s, r)
  <2>1. r.section = "host" => IsSession(r.host, Len(r.heap))
    BY <1>2, <1>3 DEF Plain, HostKept, IsSession
  <2> QED
    BY <1>1, <1>2, <1>3, <2>1 DEF Plain, ParseOK
<1>4. CASE Adds(s, r)
  <2>1. AreHosts(r.hosts, Len(r.heap))
    <3>1. /\ IsSeq(r.hosts) /\ Len(r.hosts) = Len(s.hosts) + 1 /\ Len(s.hosts) \in Nat
          /\ \A i \in 1 .. Len(s.hosts) : r.hosts[i] = s.hosts[i]
          /\ r.hosts[Len(s.hosts) + 1] = s.host
      BY <1>2, <1>4, AppendSeq DEF Adds, AreHosts
    <3> QED
      BY <1>2, <1>4, <3>1 DEF Adds, AreHosts
  <2> QED
    BY <1>1, <1>2, <1>4, <2>1 DEF Adds, ParseOK
<1>5. CASE Renames(s, r)
  <2>1. Len(r.heap) = Len(s.heap) + 1 /\ IsHeap(r.heap) /\ r.hosts = s.hosts
    BY <1>5 DEF Renames
  <2>2. AreHosts(r.hosts, Len(r.heap))
    BY <1>2, <2>1 DEF AreHosts, IsSession
  <2>3. r.default.dev \in 0 .. Len(r.heap)
    BY <1>2, <1>5, <2>1 DEF Renames
  <2>4. r.section = "host" => IsSession(r.host, Len(r.heap))
    BY <1>2, <1>5, <2>1 DEF Renames, IsSession
  <2> QED
    BY <1>1, <1>2, <2>1, <2>2, <2>3, <2>4 DEF ParseOK
<1> QED
  BY <1>3, <1>4, <1>5 DEF Shape

\* A step of the parser leaves every session its own device.
LEMMA ShapeOwn ==
  ASSUME NEW s, NEW r, ParseOK(s), Shape(s, r), Own(s), Len(heap) \in Nat
  PROVE  Own(r)
<1> SUFFICES ASSUME r.default.dev = 0 PROVE Own(r)
  BY DEF Own
<1>1. /\ Len(s.heap) \in Nat /\ Len(s.hosts) \in Nat /\ s.default.dev \in Nat
      /\ \A i \in 1 .. Len(s.hosts) : s.hosts[i].dev \in 0 .. Len(s.heap)
      /\ s.section = "host" => s.host.dev \in 0 .. Len(s.heap)
  BY AppendSeq DEF ParseOK, IsHeap, AreHosts, IsSession
<1>2. s.default.dev = 0
  BY <1>1 DEF Shape, Plain, Adds, Renames
<1>3. s.sound /\ Len(s.heap) >= Len(heap) /\ \A i \in 1 .. Len(heap) : s.heap[i].live <=> heap[i].live
  BY <1>2 DEF Own
<1>4. \A i \in 1 .. Len(s.hosts) : OwnName(s.hosts[i].dev, s)
  BY <1>2 DEF Own
<1>5. s.section = "host" =>
        /\ OwnName(s.host.dev, s)
        /\ \A i \in 1 .. Len(s.hosts) : s.hosts[i].dev = s.host.dev => s.host.dev = 0
  BY <1>2 DEF Own
<1>6. \A i, j \in 1 .. Len(s.hosts) : s.hosts[i].dev = s.hosts[j].dev /\ i # j => s.hosts[i].dev = 0
  BY <1>2 DEF Own
<1>7. CASE Plain(s, r)
  <2>1. r.section = "host" => (s.section = "host" /\ r.host.dev = s.host.dev) \/ r.host.dev = 0
    BY <1>2, <1>7 DEF Plain, HostKept
  <2> QED
    BY <1>2, <1>7, <2>1 DEF Plain, Own, OwnName
<1>8. CASE Adds(s, r)
  <2> DEFINE m == Len(s.hosts)
  <2>1. /\ Len(r.hosts) = m + 1 /\ r.hosts[m + 1] = s.host
        /\ \A i \in 1 .. m : r.hosts[i] = s.hosts[i]
    BY <1>8, AppendSeq DEF Adds, ParseOK, AreHosts
  <2>2. r.heap = s.heap /\ r.sound = s.sound /\ s.section = "host" /\ r.section = "none"
    BY <1>8 DEF Adds
  <2>3. ASSUME NEW i \in 1 .. Len(r.hosts) PROVE OwnName(r.hosts[i].dev, r)
    <3>1. OwnName(r.hosts[i].dev, s)
      <4>1. CASE i = m + 1
        BY <1>5, <2>1, <2>2, <4>1
      <4>2. CASE i \in 1 .. m
        BY <1>4, <2>1, <4>2
      <4> QED
        BY <1>1, <2>1, <4>1, <4>2
    <3> QED
      BY <2>2, <3>1 DEF OwnName
  <2>4. ASSUME NEW i \in 1 .. Len(r.hosts), NEW j \in 1 .. Len(r.hosts),
               r.hosts[i].dev = r.hosts[j].dev, i # j
        PROVE  r.hosts[i].dev = 0
    <3> HIDE DEF m
    <3>1. CASE i \in 1 .. m /\ j \in 1 .. m
      <4>1. r.hosts[i] = s.hosts[i] /\ r.hosts[j] = s.hosts[j]
        BY <2>1, <3>1
      <4> QED
        BY <1>6, <2>4, <3>1, <4>1 DEF m
    <3>2. CASE i = m + 1 /\ j \in 1 .. m
      <4>1. r.hosts[i] = s.host /\ r.hosts[j] = s.hosts[j]
        BY <2>1, <3>2
      <4> QED
        BY <1>5, <2>2, <2>4, <3>2, <4>1 DEF m
    <3>3. CASE i \in 1 .. m /\ j = m + 1
      <4>1. r.hosts[i] = s.hosts[i] /\ r.hosts[j] = s.host
        BY <2>1, <3>3
      <4> QED
        BY <1>5, <2>2, <2>4, <3>3, <4>1 DEF m
    <3>4. m \in Nat
      BY <1>1 DEF m
    <3> QED
      BY <2>1, <2>4, <3>1, <3>2, <3>3, <3>4
  <2> QED
    BY <1>3, <2>2, <2>3, <2>4 DEF Own
<1>9. CASE Renames(s, r)
  <2> DEFINE n == Len(s.heap)
             old == s.host.dev
  <2>1. /\ s.section = "host" /\ r.section = "host" /\ r.host.dev = n + 1
        /\ r.hosts = s.hosts /\ Len(r.heap) = n + 1 /\ r.heap[n + 1].live
        /\ \A i \in 1 .. n : r.heap[i].live = (s.heap[i].live /\ i # old)
        /\ r.sound = (s.sound /\ (old # 0 => s.heap[old].live))
    BY <1>1, <1>9 DEF Renames, ParseHost
  <2>2. OwnName(old, s) /\ old \in 0 .. n /\ n \in Nat
    BY <1>1, <1>5, <2>1
  <2>3. r.sound
    BY <1>3, <2>1, <2>2 DEF OwnName
  <2> HIDE DEF n, old
  <2>4. ASSUME NEW i \in 1 .. Len(heap) PROVE r.heap[i].live <=> heap[i].live
    <3>1. i \in 1 .. n /\ i # old /\ (s.heap[i].live <=> heap[i].live)
      BY <1>3, <2>2 DEF OwnName, n
    <3> QED
      BY <2>1, <3>1
  <2>5. ASSUME NEW i \in 1 .. Len(r.hosts) PROVE OwnName(r.hosts[i].dev, r)
    <3> DEFINE d == s.hosts[i].dev
    <3>1. OwnName(d, s) /\ (d = old => old = 0) /\ d \in 0 .. n /\ r.hosts[i].dev = d
      BY <1>1, <1>4, <1>5, <2>1 DEF n, old
    <3> HIDE DEF d
    <3>2. CASE d = 0
      BY <3>1, <3>2 DEF OwnName
    <3>3. CASE d # 0
      <4>1. d \in 1 .. n /\ d # old /\ s.heap[d].live /\ d > Len(heap)
        BY <2>2, <3>1, <3>3 DEF OwnName
      <4>2. r.heap[d].live
        BY <2>1, <4>1
      <4> QED
        BY <3>1, <4>1, <4>2 DEF OwnName
    <3> QED
      BY <3>2, <3>3
  <2>6. OwnName(r.host.dev, r)
    BY <1>3, <2>1, <2>2 DEF OwnName, n
  <2>7. \A i \in 1 .. Len(r.hosts) : r.hosts[i].dev # r.host.dev
    BY <1>1, <2>1, <2>2 DEF n
  <2>8. \A i, j \in 1 .. Len(r.hosts) :
          r.hosts[i].dev = r.hosts[j].dev /\ i # j => r.hosts[i].dev = 0
    BY <1>6, <2>1
  <2>9. Len(r.heap) >= Len(heap)
    BY <1>3, <2>1, <2>2 DEF n
  <2> QED
    BY <2>3, <2>4, <2>5, <2>6, <2>7, <2>8, <2>9 DEF Own
<1> QED
  BY <1>7, <1>8, <1>9 DEF Shape

\* A step of the parser takes nothing from the heap.
LEMMA ShapeGrown ==
  ASSUME NEW s, NEW r, ParseOK(s), Shape(s, r), Grown(s), Len(heap) \in Nat
  PROVE  Grown(r)
<1>1. Len(s.heap) \in Nat /\ s.default.dev \in Nat
  BY AppendSeq DEF ParseOK, IsHeap
<1>2. CASE Plain(s, r)
  BY <1>2 DEF Plain, Grown
<1>3. CASE Adds(s, r)
  BY <1>3 DEF Adds, Grown
<1>4. CASE Renames(s, r)
  BY <1>1, <1>4 DEF Renames, Grown
<1> QED
  BY <1>2, <1>3, <1>4 DEF Shape

\* What the scanner does by itself is of no consequence to the rest.
LEMMA ScanKeeps ==
  ASSUME NEW s, NEW t, Parsing(s), DOMAIN t = DOMAIN Fresh, ScanOK(t.start, t.stack),
         IsSeq(t.rest), \A x \in DOMAIN Fresh \ {"start", "stack", "rest"} : t[x] = s[x]
  PROVE  Parsing(t)
<1>1. /\ t.default = s.default /\ t.vtun = s.vtun /\ t.heap = s.heap /\ t.sound = s.sound
      /\ t.hosts = s.hosts /\ t.host = s.host /\ t.section = s.section /\ t.at = s.at
      /\ t.option = s.option
  BY DEF Fresh
<1>2. ParseOK(t)
  BY <1>1 DEF Parsing, ParseOK, PlaceOK
<1>3. Own(t)
  BY <1>1 DEF Parsing, Own, OwnName
<1>4. Kept(t)
  BY <1>1 DEF Parsing, Kept
<1>5. Grown(t)
  BY <1>1 DEF Parsing, Grown
<1> QED
  BY <1>2, <1>3, <1>4, <1>5 DEF Parsing

\* One lexeme, whatever it is.
LEMMA ReadKeeps ==
  ASSUME NEW s, Parsing(s), Len(heap) \in Nat, NEW w
  PROVE  Parsing(Read(s, w))
<1> DEFINE later == [s EXCEPT !.rest = Append(@, w)]
           t == Scanned(s, w)
           p == Parsed(t, Token(s, w), w)
<1>1. DOMAIN s = DOMAIN Fresh /\ ScanOK(s.start, s.stack) /\ IsSeq(s.rest)
  BY DEF Parsing, ParseOK
<1>2. Parsing(later)
  <2>1. /\ DOMAIN later = DOMAIN Fresh /\ later.rest = Append(s.rest, w)
        /\ later.start = s.start /\ later.stack = s.stack
        /\ \A x \in DOMAIN Fresh \ {"rest"} : later[x] = s[x]
    BY <1>1 DEF Fresh
  <2> HIDE DEF later
  <2>2. IsSeq(later.rest)
    BY <1>1, <2>1, AppendSeq
  <2> QED
    BY <1>1, <2>1, <2>2, ScanKeeps
<1>3. Parsing(t)
  <2>1. /\ DOMAIN t = DOMAIN Fresh /\ ScanOK(t.start, t.stack)
        /\ \A x \in DOMAIN Fresh \ {"start", "stack"} : t[x] = s[x]
    BY <1>1, ScannedOK
  <2> HIDE DEF t
  <2>2. t.rest = s.rest
    BY <2>1 DEF Fresh
  <2> QED
    BY <1>1, <2>1, <2>2, ScanKeeps
<1> HIDE DEF t
<1>4. Parsing(p)
  <2>1. ParseOK(t) /\ Own(t) /\ Kept(t) /\ Grown(t)
    BY <1>3 DEF Parsing
  <2>2. Shape(t, p)
    BY <2>1, ParsedShape
  <2> HIDE DEF p
  <2>3. ParseOK(p)
    BY <2>1, <2>2, ShapeParseOK
  <2>4. Own(p)
    BY <2>1, <2>2, ShapeOwn
  <2>5. Kept(p)
    BY <2>1, <2>2 DEF Kept, Shape, Frame
  <2>6. Grown(p)
    BY <2>1, <2>2, ShapeGrown
  <2> QED
    BY <2>3, <2>4, <2>5, <2>6 DEF Parsing
<1>5. Read(s, w) = IF s.at = "error" \/ s.crash THEN later
                   ELSE IF Token(s, w) = "none" THEN t ELSE p
  BY DEF Read, t
<1> HIDE DEF later, p
<1> QED
  BY <1>2, <1>3, <1>4, <1>5

\* The whole of a text, by induction on its length.
LEMMA ParseKeeps ==
  ASSUME NEW s, Parsing(s), Len(heap) \in Nat, NEW text, Len(text) \in Nat
  PROVE  Parsing(ParseFrom(s, text))
<1> DEFINE n == Len(text)
<1>1. PICK f : /\ f[0] = s /\ f[n] = ParseFrom(s, text)
               /\ \A i \in 1 .. n : f[i] = Read(f[i - 1], text[i])
  BY ParseTrace
<1> DEFINE S == {k \in 0 .. n : Parsing(f[k])}
<1>2. 0 \in S
  BY <1>1
<1>3. ASSUME NEW k \in 0 .. n - 1, k \in S PROVE k + 1 \in S
  <2>1. k + 1 \in 1 .. n /\ (k + 1) - 1 = k /\ Parsing(f[k])
    BY <1>3
  <2>2. f[k + 1] = Read(f[k], text[k + 1])
    BY <1>1, <2>1
  <2>3. Parsing(f[k + 1])
    BY <2>1, <2>2, ReadKeeps
  <2> QED
    BY <2>1, <2>3
<1>4. \A k \in 0 .. n : k \in S
  <2>1. n \in Nat
    OBVIOUS
  <2> HIDE DEF S, n
  <2> QED
    BY <1>2, <1>3, <2>1, UpTo
<1>5. Parsing(f[n])
  BY <1>4
<1> QED
  BY <1>1, <1>5

----------------------------------------------------------------------------
\* The invariant of the program.

TypeOK ==
  /\ ScanOK(scan.start, scan.stack) /\ IsSeq(scan.rest)
  /\ IsHeap(heap)
  /\ DOMAIN default = DOMAIN BuiltIn /\ default.dev \in 0 .. Len(heap)
  /\ AreHosts(hosts, Len(heap)) /\ walk \in 0 .. Len(hosts)
  /\ AreOptions(vtun) /\ AreOptions(cmd)
  /\ found # NoHost =>
       IsSession(found, Len(heap)) /\ found.name = Host /\ found.passwd # NULL

\* find_host() is the only one to walk through the list, and does it once.
WalkOK ==
  /\ pc \notin {"find", "undefined"} => walk = 0
  /\ pc \in {"start", "listen", "auth"} \/ (pc = "find" /\ walk = 0) => found = NoHost
  /\ pc \in {"checked", "session"} => found # NoHost

OptionsSet == pc # "start" => \A o \in DOMAIN Fallback : vtun[o] # None

Inv == TypeOK /\ WalkOK /\ OptionsSet /\ CommandLineFirst /\ OwnDevices

\* What Inv says of the sequences.
LEMMA Lengths ==
  ASSUME TypeOK
  PROVE  /\ Len(heap) \in Nat /\ Len(hosts) \in Nat /\ DOMAIN hosts = 1 .. Len(hosts)
         /\ \A i \in 1 .. Len(hosts) : hosts[i].dev \in 0 .. Len(heap)
  BY AppendSeq DEF TypeOK, IsHeap, AreHosts, IsSession

\* The empty list.
LEMMA EmptyList ==
  ASSUME NEW n \in Nat
  PROVE  AreHosts(<<>>, n) /\ Len(<<>>) = 0 /\ DOMAIN <<>> = {} /\ IsSeq(<<>>)
<1>1. IsSeq(<<>>)
  <2>1. <<>> \in Seq({})
    OBVIOUS
  <2> QED
    BY <2>1 DEF IsSeq
<1> QED
  BY <1>1 DEF AreHosts

\* main(): nothing is read, nothing is found.
LEMMA InitInv == Init => Inv
<1> SUFFICES ASSUME Init PROVE Inv
  OBVIOUS
<1>1. AreHosts(<<>>, 0) /\ Len(<<>>) = 0 /\ DOMAIN <<>> = {} /\ IsSeq(<<>>)
  BY EmptyList
<1>2. IsHeap(heap) /\ Len(heap) = 0
  BY <1>1 DEF Init, IsHeap
<1>3. ScanOK(scan.start, scan.stack) /\ IsSeq(scan.rest)
  BY <1>1, ConfigAssumption DEF Init, ScanOK
<1>4. AreOptions(cmd) /\ vtun = cmd
  BY ConfigAssumption DEF Init, AreOptions
<1>5. DOMAIN default = DOMAIN BuiltIn /\ default.dev = 0
  BY DEF Init, BuiltIn
<1>6. TypeOK
  BY <1>1, <1>2, <1>3, <1>4, <1>5 DEF Init, TypeOK
<1>7. OwnDevices
  BY <1>1 DEF Init, OwnDevices
<1> QED
  BY <1>4, <1>6, <1>7 DEF Init, Inv, WalkOK, OptionsSet, CommandLineFirst

\* A load starts from where the last one left the scanner and default_host.
LEMMA FreshParsing ==
  ASSUME Inv
  PROVE  Parsing(Fresh)
<1>1. Len(heap) \in Nat /\ AreHosts(<<>>, Len(heap)) /\ Len(<<>>) = 0
  BY Lengths, EmptyList DEF Inv
<1>2. /\ Fresh.start = scan.start /\ Fresh.stack = scan.stack /\ Fresh.rest = <<>>
      /\ Fresh.at = "top" /\ Fresh.section = "none" /\ Fresh.hosts = <<>>
      /\ Fresh.default = default /\ Fresh.vtun = vtun /\ Fresh.heap = heap
      /\ Fresh.sound = sound
  BY DEF Fresh
<1>3. ParseOK(Fresh)
  <2>1. PlaceOK(Fresh)
    BY <1>2 DEF PlaceOK, Commands
  <2>2. IsSeq(<<>>)
    BY <1>1, EmptyList
  <2> QED
    BY <1>1, <1>2, <2>1, <2>2 DEF ParseOK, Inv, TypeOK
<1>4. Own(Fresh)
  BY <1>1, <1>2 DEF Own, Inv, OwnDevices
<1>5. Kept(Fresh) /\ Grown(Fresh)
  BY <1>1, <1>2 DEF Kept, Grown
<1> QED
  BY <1>3, <1>4, <1>5 DEF Parsing

\* The NAT hack's flags are no business of passwords and devices.
LEMMA ClearFact ==
  ASSUME NEW list, NEW n \in Nat, AreHosts(list, n)
  PROVE  LET c == clear_nat_hack_flags(list)
         IN  /\ AreHosts(c, n) /\ Len(c) = Len(list)
             /\ \A i \in 1 .. Len(list) : c[i].dev = list[i].dev
<1> DEFINE c == clear_nat_hack_flags(list)
           m == Len(list)
<1>1. m \in Nat /\ DOMAIN list = 1 .. m
  BY AppendSeq DEF AreHosts
<1>2. \A i \in 1 .. m : DOMAIN list[i] = HostFields /\ list[i].dev \in 0 .. n /\ list[i].passwd # NULL
  BY DEF AreHosts, IsSession
<1>3. "nat_hack" \in HostFields /\ "dev" \in HostFields /\ "passwd" \in HostFields
  BY DEF HostFields, BuiltIn
<1>4. /\ DOMAIN c = 1 .. m /\ c = [i \in 1 .. m |-> c[i]]
      /\ \A i \in 1 .. m : /\ DOMAIN c[i] = HostFields /\ c[i].dev = list[i].dev
                           /\ c[i].passwd = list[i].passwd
  BY <1>1, <1>2, <1>3 DEF clear_nat_hack_flags
<1> HIDE DEF c
<1>5. IsSeq(c) /\ Len(c) = m
  BY <1>1, <1>4, MapSeq
<1>6. AreHosts(c, n)
  BY <1>2, <1>4, <1>5 DEF AreHosts, IsSession
<1> QED
  BY <1>4, <1>5, <1>6 DEF c

\* main()'s defaults, for what neither the command line nor the file gave.
LEMMA FillFact ==
  ASSUME NEW v, AreOptions(v)
  PROVE  /\ AreOptions(FillDefaults(v))
         /\ \A o \in DOMAIN Fallback :
              /\ FillDefaults(v)[o] # None
              /\ v[o] # None => FillDefaults(v)[o] = v[o]
<1>1. DOMAIN v = DOMAIN Fallback
  BY DEF AreOptions
<1>2. \A o \in DOMAIN Fallback : Fallback[o] # None
  BY DEF Fallback, None
<1> QED
  BY <1>1, <1>2 DEF FillDefaults, AreOptions

\* What read_config() leaves behind, of a file that can be read.
LEMMA ParsedFile ==
  ASSUME Inv, NEW f \in DOMAIN Files
  PROVE  Parsing(yyparse(scan.rest \o Files[f].text))
<1> DEFINE t == Files[f].text
<1>1. IsSeq(t)
  BY ConfigAssumption, MapSeq DEF IsList
<1>2. IsSeq(scan.rest)
  BY DEF Inv, TypeOK
<1>3. PICK S : t \in Seq(S)
  BY <1>1 DEF IsSeq
<1>4. PICK T : scan.rest \in Seq(T)
  BY <1>2 DEF IsSeq
<1> HIDE DEF t
<1>5. Len(scan.rest \o t) \in Nat
  <2>1. t \in Seq(S \cup T) /\ scan.rest \in Seq(S \cup T)
    BY <1>3, <1>4
  <2> QED
    BY <2>1
<1>6. Len(heap) \in Nat /\ Parsing(Fresh)
  BY Lengths, FreshParsing DEF Inv
<1> QED
  BY <1>5, <1>6, ParseKeeps DEF t, yyparse

\* A load, of any file.
LEMMA LoadKeeps ==
  ASSUME Inv, NEW f \in DOMAIN Files, NEW first \in BOOLEAN, NEW next, Load(f, first, next),
         walk = 0, first <=> pc = "start", UNCHANGED <<svr, cmd, found, walk, foundAt>>
  PROVE  /\ TypeOK' /\ CommandLineFirst' /\ OwnDevices'
         /\ \A o \in DOMAIN Fallback : vtun'[o] # None
         /\ ~first => vtun' = vtun
<1>1. /\ Len(heap) \in Nat /\ TypeOK /\ OptionsSet /\ CommandLineFirst /\ OwnDevices
      /\ AreOptions(vtun) /\ AreOptions(cmd)
  BY Lengths DEF Inv, TypeOK
<1>2. CASE ~Files[f].readable
  <2>1. /\ hosts' = <<>> /\ vtun' = (IF first THEN FillDefaults(vtun) ELSE vtun)
        /\ UNCHANGED <<default, scan, heap, sound>>
    BY <1>2 DEF Load
  <2>2. AreHosts(<<>>, Len(heap)) /\ Len(<<>>) = 0 /\ DOMAIN <<>> = {}
    BY <1>1, EmptyList
  <2>3. /\ AreOptions(vtun')
        /\ \A o \in DOMAIN Fallback : vtun'[o] # None /\ (vtun[o] # None => vtun'[o] = vtun[o])
    BY <1>1, <2>1, FillFact DEF OptionsSet
  <2>4. TypeOK'
    BY <1>1, <2>1, <2>2, <2>3 DEF TypeOK
  <2>5. CommandLineFirst'
    BY <1>1, <2>3 DEF CommandLineFirst
  <2>6. OwnDevices'
    BY <1>1, <2>1, <2>2 DEF OwnDevices
  <2> QED
    BY <2>1, <2>3, <2>4, <2>5, <2>6
<1>3. CASE Files[f].readable
  <2> DEFINE s == yyparse(scan.rest \o Files[f].text)
             list == IF first THEN clear_nat_hack_flags(s.hosts) ELSE s.hosts
  <2>1. ParseOK(s) /\ Own(s) /\ Kept(s) /\ Grown(s)
    BY ParsedFile DEF Parsing
  <2>2. /\ hosts' = list /\ default' = [s.default EXCEPT !.up = <<>>]
        /\ scan' = [start |-> s.start, stack |-> s.stack, rest |-> s.rest]
        /\ vtun' = (IF first THEN FillDefaults(s.vtun) ELSE s.vtun)
        /\ heap' = s.heap /\ sound' = s.sound
    BY <1>3 DEF Load
  <2> HIDE DEF s
  <2>3. /\ ScanOK(s.start, s.stack) /\ IsSeq(s.rest) /\ IsHeap(s.heap)
        /\ DOMAIN s.default = DOMAIN BuiltIn /\ s.default.dev \in 0 .. Len(s.heap)
        /\ AreHosts(s.hosts, Len(s.heap)) /\ AreOptions(s.vtun)
        /\ Len(s.heap) \in Nat /\ Len(s.hosts) \in Nat
    BY <2>1, AppendSeq DEF ParseOK, IsHeap, AreHosts
  <2>4. /\ AreHosts(list, Len(s.heap)) /\ Len(list) = Len(s.hosts)
        /\ \A i \in 1 .. Len(s.hosts) : list[i].dev = s.hosts[i].dev
    BY <2>3, ClearFact
  <2> HIDE DEF list
  <2>5. /\ AreOptions(vtun')
        /\ \A o \in DOMAIN Fallback : vtun[o] # None => vtun'[o] = vtun[o]
    BY <2>1, <2>2, <2>3, FillFact DEF Kept
  <2>6. \A o \in DOMAIN Fallback : vtun'[o] # None
    <3>1. CASE first
      BY <2>2, <2>3, <3>1, FillFact
    <3>2. CASE ~first
      BY <1>1, <2>5, <3>2 DEF OptionsSet
    <3> QED
      BY <3>1, <3>2
  <2>7. ~first => vtun' = vtun
    <3> SUFFICES ASSUME ~first PROVE vtun' = vtun
      OBVIOUS
    <3>1. \A o \in DOMAIN Fallback : vtun'[o] = vtun[o]
      BY <1>1, <2>5 DEF OptionsSet
    <3> QED
      BY <1>1, <2>5, <3>1 DEF AreOptions
  <2>8. /\ DOMAIN default' = DOMAIN BuiltIn /\ default'.dev = s.default.dev
        /\ scan'.start = s.start /\ scan'.stack = s.stack /\ scan'.rest = s.rest
    BY <2>2, <2>3 DEF BuiltIn
  <2>9. Len(list) \in Nat /\ DOMAIN list = 1 .. Len(list)
    BY <2>4, AppendSeq DEF AreHosts
  <2>10. OwnDevices'
    <3> SUFFICES ASSUME s.default.dev = 0 PROVE OwnDevices'
      BY <2>8 DEF OwnDevices
    <3>1. /\ s.sound
          /\ Len(s.heap) >= Len(heap) /\ \A i \in 1 .. Len(heap) : s.heap[i].live <=> heap[i].live
          /\ \A i \in 1 .. Len(s.hosts) : OwnName(s.hosts[i].dev, s)
          /\ \A i, j \in 1 .. Len(s.hosts) :
               s.hosts[i].dev = s.hosts[j].dev /\ i # j => s.hosts[i].dev = 0
      BY <2>1 DEF Own
    <3>2. default.dev = 0
      BY <2>1 DEF Grown
    <3>3. \A i \in DOMAIN list : list[i].dev # 0 => s.heap[list[i].dev].live
      BY <2>4, <2>9, <3>1 DEF OwnName
    <3>4. \A i, j \in DOMAIN list : list[i].dev = list[j].dev /\ i # j => list[i].dev = 0
      BY <2>4, <2>9, <3>1
    <3>5. found # NoHost /\ found.dev # 0 => s.heap[found.dev].live
      BY <1>1, <3>1, <3>2 DEF OwnDevices, TypeOK, IsSession
    <3> QED
      BY <2>2, <3>1, <3>3, <3>4, <3>5 DEF OwnDevices
  <2>11. Len(s.heap) >= Len(heap)
    BY <2>1 DEF Grown
  <2>12. TypeOK'
    <3>1. found # NoHost => IsSession(found, Len(s.heap)) /\ found.name = Host /\ found.passwd # NULL
      BY <1>1, <2>3, <2>11 DEF TypeOK, IsSession
    <3>2. walk \in 0 .. Len(list)
      BY <2>9
    <3>3. AreOptions(cmd')
      BY <1>1
    <3> QED
      BY <2>2, <2>3, <2>4, <2>5, <2>8, <3>1, <3>2, <3>3 DEF TypeOK
  <2>13. CommandLineFirst'
    BY <1>1, <2>5 DEF CommandLineFirst
  <2> QED
    BY <2>6, <2>7, <2>10, <2>12, <2>13
<1> QED
  BY <1>2, <1>3

\* The steps that read no file and touch neither the list nor what was found.
LEMMA QuietKeeps ==
  ASSUME Inv, Accept \/ AuthServer \/ Connection
  PROVE  Inv'
<1>1. /\ UNCHANGED <<svr, cmd, vtun, default, scan, heap, sound>>
      /\ UNCHANGED <<hosts, found, walk>>
      /\ pc \in {"listen", "auth", "checked"}
      /\ pc' = CASE pc = "listen" -> "auth" [] pc = "auth" -> "find" [] OTHER -> "session"
  BY DEF Accept, AuthServer, Connection, config
<1>2. TypeOK'
  BY <1>1 DEF Inv, TypeOK
<1>3. WalkOK'
  BY <1>1 DEF Inv, WalkOK
<1>4. OptionsSet' /\ CommandLineFirst'
  BY <1>1 DEF Inv, OptionsSet, CommandLineFirst
<1>5. OwnDevices'
  BY <1>1 DEF Inv, OwnDevices
<1> QED
  BY <1>2, <1>3, <1>4, <1>5 DEF Inv

\* find_host() goes on to the next host.
LEMMA WalkKeeps ==
  ASSUME Inv, FindHost
  PROVE  Inv'
<1>1. /\ UNCHANGED <<svr, cmd, vtun, default, scan, heap, sound, pc, hosts>>
      /\ pc = "find" /\ walk < Len(hosts) /\ walk' = walk + 1
      /\ found' = IF hosts[walk + 1].name = Host THEN hosts[walk + 1] ELSE found
  BY DEF FindHost, config
<1>2. Len(hosts) \in Nat /\ DOMAIN hosts = 1 .. Len(hosts) /\ walk \in Nat
  BY Lengths DEF Inv, TypeOK
<1>3. walk + 1 \in 1 .. Len(hosts) /\ walk' \in 1 .. Len(hosts)
  BY <1>1, <1>2
<1>4. IsSession(hosts[walk + 1], Len(heap)) /\ hosts[walk + 1].passwd # NULL
  BY <1>3 DEF Inv, TypeOK, AreHosts
<1>5. TypeOK'
  BY <1>1, <1>3, <1>4 DEF Inv, TypeOK
<1>6. WalkOK'
  BY <1>1, <1>3 DEF WalkOK
<1>7. OptionsSet' /\ CommandLineFirst'
  BY <1>1 DEF Inv, OptionsSet, CommandLineFirst
<1>8. OwnDevices'
  BY <1>1, <1>2, <1>3 DEF Inv, OwnDevices
<1> QED
  BY <1>5, <1>6, <1>7, <1>8 DEF Inv

\* find_host() returns, and there is no list any more.
LEMMA FoundKeeps ==
  ASSUME Inv, HostFound
  PROVE  Inv'
<1>1. /\ UNCHANGED <<svr, cmd, vtun, default, scan, heap, sound, found>>
      /\ pc = "find" /\ hosts' = <<>> /\ walk' = 0
      /\ pc' = IF found = NoHost THEN "exited" ELSE IF svr THEN "checked" ELSE "session"
  BY DEF HostFound, config
<1>2. Len(heap) \in Nat /\ AreHosts(<<>>, Len(heap)) /\ Len(<<>>) = 0 /\ DOMAIN <<>> = {}
  BY Lengths, EmptyList DEF Inv
<1>3. TypeOK'
  BY <1>1, <1>2 DEF Inv, TypeOK
<1>4. WalkOK'
  BY <1>1 DEF WalkOK
<1>5. OptionsSet' /\ CommandLineFirst'
  BY <1>1 DEF Inv, OptionsSet, CommandLineFirst
<1>6. OwnDevices'
  BY <1>1, <1>2 DEF Inv, OwnDevices
<1> QED
  BY <1>3, <1>4, <1>5, <1>6 DEF Inv

\* Where a load may leave the program.
LEMMA LoadEnds ==
  ASSUME NEW f, NEW first, NEW next, Load(f, first, next)
  PROVE  pc' \in {next, "exited", "undefined"}
<1>1. CASE ~Files[f].readable
  BY <1>1 DEF Load
<1>2. CASE Files[f].readable
  <2> DEFINE s == yyparse(scan.rest \o Files[f].text)
  <2>1. pc' = IF s.crash \/ s.default.passwd # NULL THEN "undefined"
              ELSE IF s.hosts = <<>> THEN "exited" ELSE next
    BY <1>2 DEF Load
  <2> HIDE DEF s
  <2> QED
    BY <2>1
<1> QED
  BY <1>1, <1>2

\* main() reads the file.
LEMMA StartKeeps ==
  ASSUME Inv, NEW f \in DOMAIN Files, Start(f)
  PROVE  Inv'
<1>1. PICK next \in {"listen", "auth", "find"} : Load(f, TRUE, next)
  BY DEF Start
<1>2. pc = "start" /\ UNCHANGED <<svr, cmd, found, walk, foundAt>>
  BY DEF Start
<1>3. walk = 0 /\ found = NoHost
  BY <1>2 DEF Inv, WalkOK
<1>4. /\ TypeOK' /\ CommandLineFirst' /\ OwnDevices'
      /\ \A o \in DOMAIN Fallback : vtun'[o] # None
  BY <1>1, <1>2, <1>3, LoadKeeps
<1>5. pc' \in {next, "exited", "undefined"}
  BY <1>1, LoadEnds
<1>6. WalkOK'
  BY <1>2, <1>3, <1>5 DEF WalkOK
<1> QED
  BY <1>4, <1>6 DEF Inv, OptionsSet

\* SIGHUP: that the options that are set once stay is said as well.
LEMMA ReloadKeeps ==
  ASSUME Inv, NEW f \in DOMAIN Files, Reload(f)
  PROVE  Inv' /\ vtun' = vtun
<1>1. pc \in {"listen", "auth", "find", "checked"} /\ UNCHANGED <<svr, cmd, found, walk, foundAt>>
  BY DEF Reload
<1>2. CASE pc = "find" /\ walk > 0
  <2>1. pc' = "undefined" /\ UNCHANGED <<vtun, default, hosts, scan, heap, sound>>
    BY <1>2 DEF Reload
  <2>2. TypeOK'
    BY <1>1, <2>1 DEF Inv, TypeOK
  <2>3. WalkOK'
    BY <2>1 DEF WalkOK
  <2>4. OptionsSet' /\ CommandLineFirst'
    BY <1>1, <2>1 DEF Inv, OptionsSet, CommandLineFirst
  <2>5. OwnDevices'
    BY <1>1, <2>1 DEF Inv, OwnDevices
  <2> QED
    BY <2>1, <2>2, <2>3, <2>4, <2>5 DEF Inv
<1>3. CASE ~(pc = "find" /\ walk > 0)
  <2>1. Load(f, FALSE, pc)
    BY <1>3 DEF Reload
  <2>2. walk = 0
    <3>1. walk \in Nat
      BY Lengths DEF Inv, TypeOK
    <3> QED
      BY <1>1, <1>3, <3>1 DEF Inv, WalkOK
  <2>3. /\ TypeOK' /\ CommandLineFirst' /\ OwnDevices'
        /\ \A o \in DOMAIN Fallback : vtun'[o] # None
        /\ vtun' = vtun
    BY <1>1, <2>1, <2>2, LoadKeeps
  <2>4. pc' \in {pc, "exited", "undefined"}
    BY <2>1, LoadEnds
  <2>5. WalkOK'
    BY <1>1, <2>2, <2>4 DEF Inv, WalkOK
  <2> QED
    BY <2>3, <2>5 DEF Inv, OptionsSet
<1> QED
  BY <1>2, <1>3

\* Every step keeps the invariant, and none but main()'s load changes an option.
LEMMA NextInv ==
  ASSUME Inv, [Next]_vars
  PROVE  Inv' /\ (pc # "start" => vtun' = vtun)
<1>1. ASSUME NEW f \in DOMAIN Files, Start(f)
      PROVE  Inv' /\ pc = "start"
  BY <1>1, StartKeeps DEF Start
<1>2. ASSUME NEW f \in DOMAIN Files, Reload(f)
      PROVE  Inv' /\ vtun' = vtun
  BY <1>2, ReloadKeeps
<1>3. CASE Accept \/ AuthServer \/ Connection
  <2>1. vtun' = vtun
    BY <1>3 DEF Accept, AuthServer, Connection, config
  <2> QED
    BY <1>3, <2>1, QuietKeeps
<1>4. CASE FindHost
  <2>1. vtun' = vtun
    BY <1>4 DEF FindHost, config
  <2> QED
    BY <1>4, <2>1, WalkKeeps
<1>5. CASE HostFound
  <2>1. vtun' = vtun
    BY <1>5 DEF HostFound, config
  <2> QED
    BY <1>5, <2>1, FoundKeeps
<1>6. CASE UNCHANGED vars
  BY <1>6 DEF vars, Inv, TypeOK, WalkOK, OptionsSet, CommandLineFirst, OwnDevices
<1> QED
  BY <1>1, <1>2, <1>3, <1>4, <1>5, <1>6 DEF Next

----------------------------------------------------------------------------
\* Sequences, and FlattenSeq(), by induction on the number of its sequences.

\* Two sequences with the same elements are the same.
LEMMA SameSeq ==
  ASSUME NEW p, IsSeq(p), NEW q, IsSeq(q), Len(p) = Len(q),
         \A i \in 1 .. Len(p) : p[i] = q[i]
  PROVE  p = q
<1>1. PICK S : p \in Seq(S)
  BY DEF IsSeq
<1>2. PICK T : q \in Seq(T)
  BY DEF IsSeq
<1>3. p \in Seq(S \cup T) /\ q \in Seq(S \cup T)
  BY <1>1, <1>2
<1> QED
  BY <1>3, SeqEqual

\* One sequence after the other.
LEMMA ConcatSeq ==
  ASSUME NEW p, IsSeq(p), NEW q, IsSeq(q)
  PROVE  /\ IsSeq(p \o q) /\ Len(p \o q) = Len(p) + Len(q)
         /\ Len(p) \in Nat /\ Len(q) \in Nat
         /\ DOMAIN p = 1 .. Len(p) /\ DOMAIN q = 1 .. Len(q)
         /\ DOMAIN (p \o q) = 1 .. Len(p) + Len(q)
         /\ \A i \in 1 .. Len(p) : (p \o q)[i] = p[i]
         /\ \A i \in 1 .. Len(q) : (p \o q)[Len(p) + i] = q[i]
<1>1. PICK S : p \in Seq(S)
  BY DEF IsSeq
<1>2. PICK T : q \in Seq(T)
  BY DEF IsSeq
<1> DEFINE U == S \cup T
<1>3. p \in Seq(U) /\ q \in Seq(U)
  BY <1>1, <1>2
<1> HIDE DEF U
<1>4. p \o q \in Seq(U)
  BY <1>3
<1> QED
  BY <1>3, <1>4 DEF IsSeq

\* The first of a sequence, and the empty one.
LEMMA ConcatNone ==
  ASSUME NEW q, IsSeq(q)
  PROVE  /\ IsSeq(<<>>) /\ Len(<<>>) = 0
         /\ q \o <<>> = q /\ <<>> \o q = q
         /\ Len(q) = 0 <=> q = <<>>
<1>1. IsSeq(<<>>) /\ Len(<<>>) = 0
  <2>1. <<>> \in Seq({})
    OBVIOUS
  <2> QED
    BY <2>1 DEF IsSeq
<1>2. PICK S : q \in Seq(S)
  BY DEF IsSeq
<1> QED
  BY <1>1, <1>2

\* A sequence of given elements.
LEMMA TupleSeq ==
  ASSUME NEW a, NEW b, NEW c
  PROVE  /\ IsSeq(<<a>>) /\ Len(<<a>>) = 1 /\ <<a>>[1] = a
         /\ IsSeq(<<a, b>>) /\ Len(<<a, b>>) = 2
         /\ IsSeq(<<a, b, c>>) /\ Len(<<a, b, c>>) = 3
<1>1. <<a>> \in Seq({a}) /\ <<a, b>> \in Seq({a, b}) /\ <<a, b, c>> \in Seq({a, b, c})
  OBVIOUS
<1> QED
  BY <1>1 DEF IsSeq

\* Every list is a sequence.
LEMMA ListSeq ==
  ASSUME NEW q
  PROVE  IsList(q) <=> IsSeq(q)
<1>1. IsList(q) => IsSeq(q)
  BY MapSeq DEF IsList
<1>2. IsSeq(q) => IsList(q)
  BY DEF IsSeq, IsList
<1> QED
  BY <1>1, <1>2

\* The same, with a name for the operator.
Joined(p, q) == p \o q

\* The elements of two sequences, one after the other.
LEMMA JoinedSeq ==
  ASSUME NEW p, IsSeq(p), NEW q, IsSeq(q)
  PROVE  /\ IsSeq(Joined(p, q)) /\ Len(Joined(p, q)) = Len(p) + Len(q)
         /\ Len(p) \in Nat /\ Len(q) \in Nat
         /\ \A i \in 1 .. Len(p) : Joined(p, q)[i] = p[i]
         /\ \A i \in 1 .. Len(q) : Joined(p, q)[Len(p) + i] = q[i]
<1> DEFINE r == p \o q
<1>1. IsSeq(r) /\ Len(r) = Len(p) + Len(q) /\ Len(p) \in Nat /\ Len(q) \in Nat
  BY ConcatSeq
<1>2. \A i \in 1 .. Len(p) : r[i] = p[i]
  BY ConcatSeq
<1>3. \A i \in 1 .. Len(q) : r[Len(p) + i] = q[i]
  BY ConcatSeq
<1>4. Joined(p, q) = r
  BY DEF Joined
<1> HIDE DEF r
<1> QED
  BY <1>1, <1>2, <1>3, <1>4

\* f is what FlattenSeq() does on the first n sequences.
Flattens(f, g, n) ==
  f = [i \in 1 .. n |-> IF i = 1 THEN g[i] ELSE Joined(f[i - 1], g[i])]

\* All of them can be put one after the other.
LEMMA FlattensExists ==
  ASSUME NEW g, NEW n \in Nat
  PROVE  \E f : Flattens(f, g, n)
<1> DEFINE Short == {m \in Nat : ~\E f : Flattens(f, g, m)}
<1> SUFFICES ASSUME Short # {} PROVE FALSE
  OBVIOUS
<1>1. PICK m \in Short : \A k \in Short : m <= k
  BY LeastNumber
<1>2. CASE m = 0
  <2> DEFINE e == [i \in 1 .. 0 |-> 0]
  <2>1. Flattens(e, g, 0)
    BY DEF Flattens
  <2> QED
    BY <1>2, <2>1
<1>3. CASE m # 0
  <2>1. m - 1 \in Nat /\ m - 1 \notin Short
    BY <1>1, <1>3
  <2>2. PICK f : Flattens(f, g, m - 1)
    BY <2>1
  <2> DEFINE last == IF m = 1 THEN g[m] ELSE Joined(f[m - 1], g[m])
             h == [i \in 1 .. m |-> IF i < m THEN f[i] ELSE last]
  <2>3. Flattens(h, g, m)
    <3>1. ASSUME NEW i \in 1 .. m
          PROVE  h[i] = IF i = 1 THEN g[i] ELSE Joined(h[i - 1], g[i])
      <4>1. CASE i = m
        BY <4>1, <1>3, <2>1
      <4>2. CASE i < m
        <5>1. f[i] = IF i = 1 THEN g[i] ELSE Joined(f[i - 1], g[i])
          BY <2>1, <2>2, <4>2 DEF Flattens
        <5>2. i # 1 => i - 1 \in 1 .. m /\ i - 1 < m
          BY <2>1, <4>2
        <5> QED
          BY <4>2, <5>1, <5>2
      <4> QED
        BY <2>1, <4>1, <4>2
    <3> HIDE DEF last
    <3> QED
      BY <3>1 DEF Flattens
  <2> QED
    BY <2>3
<1> QED
  BY <1>2, <1>3

\* There is one way to do it.
LEMMA FlattensSame ==
  ASSUME NEW g, NEW n \in Nat, NEW f, Flattens(f, g, n),
         NEW d, NEW m \in 0 .. n, NEW e, Flattens(e, d, m),
         \A i \in 1 .. m : d[i] = g[i]
  PROVE  \A i \in 1 .. m : f[i] = e[i]
<1> DEFINE Wrong == {i \in 1 .. m : f[i] # e[i]}
<1> SUFFICES ASSUME Wrong # {} PROVE FALSE
  OBVIOUS
<1>1. Wrong \in SUBSET Nat
  OBVIOUS
<1>2. PICK k \in Wrong : \A i \in Wrong : k <= i
  <2> HIDE DEF Wrong
  <2> QED
    BY <1>1, LeastNumber
<1>3. /\ f[k] = IF k = 1 THEN g[k] ELSE Joined(f[k - 1], g[k])
      /\ e[k] = IF k = 1 THEN d[k] ELSE Joined(e[k - 1], d[k])
  BY <1>2 DEF Flattens
<1>4. CASE k = 1
  BY <1>2, <1>3, <1>4
<1>5. CASE k # 1
  <2>1. k - 1 \in 1 .. m /\ k - 1 \notin Wrong
    BY <1>2, <1>5
  <2> QED
    BY <1>2, <1>3, <1>5, <2>1
<1> QED
  BY <1>4, <1>5

\* FlattenSeq() does it.
LEMMA FlattenTrace ==
  ASSUME NEW g, Len(g) \in Nat
  PROVE  \E f : Flattens(f, g, Len(g)) /\ (Len(g) # 0 => FlattenSeq(g) = f[Len(g)])
<1> DEFINE n == Len(g)
           f == CHOOSE h : Flattens(h, g, n)
<1>1. Flattens(f, g, n)
  BY FlattensExists
<1>2. n # 0 => FlattenSeq(g) = f[n]
  BY DEF FlattenSeq, Flattens, Joined
<1> HIDE DEF f
<1> QED
  BY <1>1, <1>2

\* FlattenSeq() of one sequence more.
LEMMA FlattenStep ==
  ASSUME NEW g, IsSeq(g), NEW d, IsSeq(d), Len(g) = Len(d) + 1, Len(d) \in Nat,
         \A i \in 1 .. Len(d) : d[i] = g[i], IsSeq(g[Len(d) + 1])
  PROVE  FlattenSeq(g) = FlattenSeq(d) \o g[Len(d) + 1]
<1> DEFINE n == Len(d)
           m == Len(g)
<1>0. m \in Nat /\ m # 0 /\ m = n + 1 /\ n \in Nat
  OBVIOUS
<1>3. PICK f : Flattens(f, g, m) /\ FlattenSeq(g) = f[m]
  BY <1>0, FlattenTrace
<1>4. PICK e : Flattens(e, d, n) /\ (n # 0 => FlattenSeq(d) = e[n])
  BY <1>0, FlattenTrace
<1>5. \A i \in 1 .. n : d[i] = g[i]
  OBVIOUS
<1>6. IsSeq(g[m])
  BY <1>0
<1>10. n = 0 => FlattenSeq(d) = <<>>
  BY ConcatNone DEF FlattenSeq
<1> HIDE DEF n, m
<1>7. f[m] = IF m = 1 THEN g[m] ELSE Joined(f[m - 1], g[m])
  BY <1>0, <1>3 DEF Flattens
<1>8. CASE n = 0
  <2>2. FlattenSeq(g) = g[m]
    BY <1>0, <1>3, <1>7, <1>8
  <2>3. <<>> \o g[m] = g[m]
    BY <1>6, ConcatNone
  <2> QED
    BY <1>0, <1>8, <1>10, <2>2, <2>3 DEF n
<1>9. CASE n # 0
  <2>1. n \in 0 .. m
    BY <1>0
  <2>2. \A i \in 1 .. n : f[i] = e[i]
    BY <1>0, <1>3, <1>4, <1>5, <2>1, FlattensSame
  <2>3. f[n] = e[n]
    BY <1>0, <1>9, <2>2
  <2>4. FlattenSeq(g) = Joined(f[n], g[m])
    BY <1>0, <1>3, <1>7, <1>9
  <2> QED
    BY <1>0, <1>4, <1>9, <2>3, <2>4 DEF Joined, n
<1> QED
  BY <1>8, <1>9

\* FlattenSeq() of none.
LEMMA FlattenNone ==
  ASSUME NEW d, DOMAIN d = 1 .. 0, d = [i \in 1 .. 0 |-> d[i]]
  PROVE  FlattenSeq(d) = <<>>
<1>1. IsSeq(d) /\ Len(d) = 0
  BY MapSeq
<1> QED
  BY <1>1, ConcatNone DEF FlattenSeq

\* The first k elements.
Prefix(q, k) == [i \in 1 .. k |-> q[i]]

\* It is a sequence, and has these elements.
LEMMA PrefixSeq ==
  ASSUME NEW q, NEW k \in Nat
  PROVE  /\ IsSeq(Prefix(q, k)) /\ Len(Prefix(q, k)) = k
         /\ DOMAIN Prefix(q, k) = 1 .. k /\ \A i \in 1 .. k : Prefix(q, k)[i] = q[i]
         /\ Prefix(q, 0) = <<>>
         /\ IsSeq(q) /\ k = Len(q) => Prefix(q, k) = q
<1> DEFINE p == Prefix(q, k)
<1>1. DOMAIN p = 1 .. k /\ p = [i \in 1 .. k |-> p[i]] /\ \A i \in 1 .. k : p[i] = q[i]
  BY DEF Prefix
<1> HIDE DEF p
<1>2. IsSeq(p) /\ Len(p) = k
  BY <1>1, MapSeq
<1>3. Prefix(q, 0) = <<>>
  BY DEF Prefix
<1>4. ASSUME IsSeq(q), k = Len(q) PROVE p = q
  BY <1>1, <1>2, <1>4, SameSeq
<1> QED
  BY <1>1, <1>2, <1>3, <1>4 DEF p

\* One element more.
LEMMA PrefixStep ==
  ASSUME NEW q, NEW k \in Nat
  PROVE  Prefix(q, k + 1) = Append(Prefix(q, k), q[k + 1])
<1> DEFINE p == Prefix(q, k)
           n == k + 1
           r == Prefix(q, n)
           a == Append(p, q[n])
<1>1. n \in Nat
  OBVIOUS
<1>2. IsSeq(p) /\ Len(p) = k /\ \A i \in 1 .. k : p[i] = q[i]
  BY PrefixSeq
<1>3. IsSeq(r) /\ Len(r) = n /\ \A i \in 1 .. n : r[i] = q[i]
  BY <1>1, PrefixSeq
<1>4. IsSeq(a) /\ Len(a) = n /\ a[n] = q[n] /\ \A i \in 1 .. k : a[i] = p[i]
  <2> HIDE DEF p
  <2> QED
    BY <1>2, AppendSeq
<1> HIDE DEF r, a, p
<1>5. \A i \in 1 .. n : r[i] = a[i]
  BY <1>2, <1>3, <1>4
<1>6. r = a
  BY <1>3, <1>4, <1>5, SameSeq
<1> QED
  BY <1>6 DEF r, a, p

\* FlattenSeq() of the first sequences.
LEMMA FlattenPrefix ==
  ASSUME NEW q, NEW k \in Nat, IsSeq(q[k + 1])
  PROVE  /\ FlattenSeq(Prefix(q, 0)) = <<>>
         /\ FlattenSeq(Prefix(q, k + 1)) = FlattenSeq(Prefix(q, k)) \o q[k + 1]
<1> DEFINE d == Prefix(q, k)
           n == k + 1
           g == Prefix(q, n)
<1>1. n \in Nat
  OBVIOUS
<1>2. IsSeq(d) /\ Len(d) = k /\ \A i \in 1 .. k : d[i] = q[i]
  BY PrefixSeq
<1>3. IsSeq(g) /\ Len(g) = n /\ \A i \in 1 .. n : g[i] = q[i]
  BY <1>1, PrefixSeq
<1> HIDE DEF d, g
<1>4. \A i \in 1 .. Len(d) : d[i] = g[i]
  BY <1>2, <1>3
<1>5. g[n] = q[n]
  BY <1>3
<1>6. FlattenSeq(g) = FlattenSeq(d) \o g[Len(d) + 1]
  BY <1>2, <1>3, <1>4, <1>5, FlattenStep
<1>7. FlattenSeq(g) = FlattenSeq(d) \o q[n]
  BY <1>2, <1>5, <1>6
<1>8. FlattenSeq(Prefix(q, 0)) = <<>>
  <2>1. Prefix(q, 0) = <<>>
    BY PrefixSeq
  <2> QED
    BY <2>1 DEF FlattenSeq
<1> QED
  BY <1>7, <1>8 DEF d, g

\* It is a sequence.
LEMMA FlattenIsSeq ==
  ASSUME NEW q, NEW n \in Nat, \A i \in 1 .. n : IsSeq(q[i])
  PROVE  \A k \in 0 .. n : IsSeq(FlattenSeq(Prefix(q, k)))
<1> DEFINE Wrong == {k \in 0 .. n : ~IsSeq(FlattenSeq(Prefix(q, k)))}
<1> SUFFICES ASSUME Wrong # {} PROVE FALSE
  OBVIOUS
<1>1. PICK m \in Wrong : \A k \in Wrong : m <= k
  <2>1. Wrong \in SUBSET Nat
    OBVIOUS
  <2> HIDE DEF Wrong
  <2> QED
    BY <2>1, LeastNumber
<1>2. CASE m = 0
  <2>1. FlattenSeq(Prefix(q, 0)) = <<>>
    BY PrefixSeq DEF FlattenSeq
  <2>2. IsSeq(<<>>)
    BY EmptyList
  <2> QED
    BY <1>2, <2>1, <2>2
<1>3. CASE m # 0
  <2> DEFINE k == m - 1
  <2>1. k \in Nat /\ k + 1 = m /\ k \in 0 .. n /\ k \notin Wrong /\ m \in 1 .. n
    BY <1>1, <1>3
  <2>2. IsSeq(FlattenSeq(Prefix(q, k))) /\ IsSeq(q[m])
    BY <2>1
  <2>3. FlattenSeq(Prefix(q, m)) = FlattenSeq(Prefix(q, k)) \o q[m]
    <3> HIDE DEF k
    <3> QED
      BY <2>1, <2>2, FlattenPrefix
  <2>4. IsSeq(FlattenSeq(Prefix(q, m)))
    BY <2>2, <2>3, ConcatSeq
  <2> QED
    BY <2>4
<1> QED
  BY <1>2, <1>3

----------------------------------------------------------------------------
\* What is said in a sequence of pairs, and where.

\* The greatest and the least of some numbers.
LEMMA MaxMin ==
  ASSUME NEW n \in Nat, NEW N \in SUBSET (1 .. n), N # {}
  PROVE  /\ Max(N) \in N /\ \A k \in N : k <= Max(N)
         /\ Min(N) \in N /\ \A k \in N : Min(N) <= k
<1>1. \E m \in N : \A k \in N : m <= k
  <2>1. N \in SUBSET Nat
    OBVIOUS
  <2> QED
    BY <2>1, LeastNumber
<1>2. \E m \in N : \A k \in N : m >= k
  <2> DEFINE D == {n - k : k \in N}
  <2>1. D \in SUBSET Nat
    OBVIOUS
  <2>5. D # {}
    <3>1. PICK k \in N : TRUE
      OBVIOUS
    <3>2. n - k \in D
      OBVIOUS
    <3> QED
      BY <3>2
  <2>2. PICK d \in D : \A e \in D : d <= e
    <3> HIDE DEF D
    <3> QED
      BY <2>1, <2>5, LeastNumber
  <2>3. PICK m \in N : d = n - m
    BY <2>2
  <2>4. ASSUME NEW k \in N PROVE m >= k
    <3>1. n - k \in D
      OBVIOUS
    <3>2. d <= n - k
      BY <2>2, <3>1
    <3> QED
      BY <2>3, <3>2
  <2> QED
    BY <2>4
<1> QED
  BY <1>1, <1>2 DEF Max, Min

\* The last pair of an option.
LastAt(p, option, i) ==
  /\ i \in 1 .. Len(p) /\ p[i][1] = option
  /\ \A j \in 1 .. Len(p) : j > i => p[j][1] # option

FirstAt(p, option, i) ==
  /\ i \in 1 .. Len(p) /\ p[i][1] = option
  /\ \A j \in 1 .. Len(p) : j < i => p[j][1] # option

\* Where an option is not said.
LEMMA NoPlace ==
  ASSUME NEW p, IsSeq(p), NEW option
  PROVE  Places(p, option) = {} <=> \A i \in 1 .. Len(p) : p[i][1] # option
<1>1. DOMAIN p = 1 .. Len(p)
  BY ConcatSeq
<1> QED
  BY <1>1 DEF Places

\* LastSaid() and FirstSaid() find it, if there is one.
LEMMA SaidPlace ==
  ASSUME NEW p, IsSeq(p), NEW option, NEW x
  PROVE  IF Places(p, option) = {}
         THEN LastSaid(p, option, x) = x /\ FirstSaid(p, option, x) = x
         ELSE /\ \E i : LastAt(p, option, i) /\ LastSaid(p, option, x) = p[i][2]
              /\ \E i : FirstAt(p, option, i) /\ FirstSaid(p, option, x) = p[i][2]
<1> DEFINE at == Places(p, option)
<1>1. Len(p) \in Nat /\ DOMAIN p = 1 .. Len(p)
  BY ConcatSeq
<1>2. at \in SUBSET (1 .. Len(p)) /\ \A i \in 1 .. Len(p) : i \in at <=> p[i][1] = option
  BY <1>1 DEF Places
<1>3. /\ LastSaid(p, option, x) = IF at = {} THEN x ELSE p[Max(at)][2]
      /\ FirstSaid(p, option, x) = IF at = {} THEN x ELSE p[Min(at)][2]
  BY DEF LastSaid, FirstSaid
<1> HIDE DEF at
<1>4. CASE at = {}
  BY <1>2, <1>3, <1>4 DEF at
<1>5. CASE at # {}
  <2>1. /\ Max(at) \in at /\ \A k \in at : k <= Max(at)
        /\ Min(at) \in at /\ \A k \in at : Min(at) <= k
    BY <1>1, <1>2, <1>5, MaxMin
  <2> DEFINE a == Max(at)
             b == Min(at)
  <2>2. LastAt(p, option, a)
    <3> HIDE DEF a
    <3>1. a \in at /\ \A k \in at : k <= a
      BY <2>1 DEF a
    <3> QED
      BY <1>1, <1>2, <3>1 DEF LastAt
  <2>3. FirstAt(p, option, b)
    <3> HIDE DEF b
    <3>1. b \in at /\ \A k \in at : b <= k
      BY <2>1 DEF b
    <3> QED
      BY <1>1, <1>2, <3>1 DEF FirstAt
  <2>4. LastSaid(p, option, x) = p[a][2] /\ FirstSaid(p, option, x) = p[b][2]
    BY <1>3, <1>5
  <2> HIDE DEF a, b
  <2> QED
    BY <1>5, <2>2, <2>3, <2>4 DEF at
<1> QED
  BY <1>4, <1>5

\* There is only one such place.
LEMMA SaidThere ==
  ASSUME NEW p, IsSeq(p), NEW option, NEW x, NEW i
  PROVE  /\ LastAt(p, option, i) => LastSaid(p, option, x) = p[i][2]
         /\ FirstAt(p, option, i) => FirstSaid(p, option, x) = p[i][2]
<1>1. Len(p) \in Nat
  BY ConcatSeq
<1>2. ASSUME LastAt(p, option, i) PROVE LastSaid(p, option, x) = p[i][2]
  <2>1. PICK j : LastAt(p, option, j) /\ LastSaid(p, option, x) = p[j][2]
    <3>1. Places(p, option) # {}
      BY <1>2, NoPlace DEF LastAt
    <3> QED
      BY <3>1, SaidPlace
  <2>2. i = j
    BY <1>1, <1>2, <2>1 DEF LastAt
  <2> QED
    BY <2>1, <2>2
<1>3. ASSUME FirstAt(p, option, i) PROVE FirstSaid(p, option, x) = p[i][2]
  <2>1. PICK j : FirstAt(p, option, j) /\ FirstSaid(p, option, x) = p[j][2]
    <3>1. Places(p, option) # {}
      BY <1>3, NoPlace DEF FirstAt
    <3> QED
      BY <3>1, SaidPlace
  <2>2. i = j
    BY <1>1, <1>3, <2>1 DEF FirstAt
  <2> QED
    BY <2>1, <2>2
<1> QED
  BY <1>2, <1>3

\* Of what is said in two places, one after the other.
LEMMA SaidTwice ==
  ASSUME NEW p, IsSeq(p), NEW q, IsSeq(q), NEW option, NEW x
  PROVE  /\ LastSaid(Joined(p, q), option, x) = LastSaid(q, option, LastSaid(p, option, x))
         /\ FirstSaid(Joined(p, q), option, x) = FirstSaid(p, option, FirstSaid(q, option, x))
         /\ Places(Joined(p, q), option) = {} <=> Places(p, option) = {} /\ Places(q, option) = {}
<1> DEFINE r == Joined(p, q)
           m == Len(p)
           n == Len(q)
<1>1. /\ IsSeq(r) /\ Len(r) = m + n /\ m \in Nat /\ n \in Nat
      /\ \A i \in 1 .. m : r[i] = p[i]
      /\ \A i \in 1 .. n : r[m + i] = q[i]
  BY JoinedSeq
<1>2. \A i \in 1 .. m + n : i \in 1 .. m \/ (i - m \in 1 .. n /\ m + (i - m) = i)
  BY <1>1
<1> HIDE DEF r
<1>3. Places(r, option) = {} <=> Places(p, option) = {} /\ Places(q, option) = {}
  <2>1. /\ Places(r, option) = {} <=> \A i \in 1 .. m + n : r[i][1] # option
        /\ Places(p, option) = {} <=> \A i \in 1 .. m : p[i][1] # option
        /\ Places(q, option) = {} <=> \A i \in 1 .. n : q[i][1] # option
    <3>1. Places(r, option) = {} <=> \A i \in 1 .. Len(r) : r[i][1] # option
      BY <1>1, NoPlace
    <3>2. Places(p, option) = {} <=> \A i \in 1 .. m : p[i][1] # option
      BY NoPlace
    <3>3. Places(q, option) = {} <=> \A i \in 1 .. n : q[i][1] # option
      BY NoPlace
    <3> QED
      BY <1>1, <3>1, <3>2, <3>3
  <2>2. \A i \in 1 .. m : i \in 1 .. m + n
    BY <1>1
  <2>3. \A i \in 1 .. n : m + i \in 1 .. m + n
    BY <1>1
  <2>4. (\A i \in 1 .. m + n : r[i][1] # option) => \A i \in 1 .. m : p[i][1] # option
    BY <1>1, <2>2
  <2>5. (\A i \in 1 .. m + n : r[i][1] # option) => \A i \in 1 .. n : q[i][1] # option
    BY <1>1, <2>3
  <2>6. ASSUME \A i \in 1 .. m : p[i][1] # option, \A i \in 1 .. n : q[i][1] # option,
               NEW i \in 1 .. m + n
        PROVE  r[i][1] # option
    <3>1. CASE i \in 1 .. m
      BY <1>1, <2>6, <3>1
    <3>2. CASE i - m \in 1 .. n /\ m + (i - m) = i
      <4>1. r[m + (i - m)] = q[i - m]
        BY <1>1, <3>2
      <4> QED
        BY <2>6, <3>2, <4>1
    <3> QED
      BY <1>2, <3>1, <3>2
  <2> QED
    BY <2>1, <2>4, <2>5, <2>6
<1>4. LastSaid(r, option, x) = LastSaid(q, option, LastSaid(p, option, x))
  <2>1. CASE Places(q, option) # {}
    <3> DEFINE y == LastSaid(p, option, x)
    <3>1. PICK i : LastAt(q, option, i) /\ LastSaid(q, option, y) = q[i][2]
      <4> HIDE DEF y
      <4> QED
        BY <2>1, SaidPlace
    <3>2. i \in 1 .. n /\ q[i][1] = option /\ \A j \in 1 .. n : j > i => q[j][1] # option
      BY <3>1 DEF LastAt
    <3>3. m + i \in 1 .. m + n /\ r[m + i] = q[i]
      BY <1>1, <3>2
    <3>4. ASSUME NEW j \in 1 .. m + n, j > m + i PROVE r[j][1] # option
      <4>1. j - m \in 1 .. n /\ j - m > i /\ m + (j - m) = j
        BY <1>1, <3>2, <3>4
      <4>2. r[m + (j - m)] = q[j - m]
        BY <1>1, <4>1
      <4> QED
        BY <3>2, <4>1, <4>2
    <3>5. LastAt(r, option, m + i)
      BY <1>1, <3>2, <3>3, <3>4 DEF LastAt
    <3>6. LastSaid(r, option, x) = r[m + i][2]
      <4> DEFINE at == m + i
      <4>1. LastAt(r, option, at)
        BY <3>5
      <4> HIDE DEF at
      <4>3. IsSeq(r)
        BY <1>1
      <4>2. LastSaid(r, option, x) = r[at][2]
        BY <4>1, <4>3, SaidThere, Zenon
      <4> QED
        BY <4>2 DEF at
    <3> QED
      BY <3>1, <3>3, <3>6
  <2>2. CASE Places(q, option) = {}
    <3>1. LastSaid(q, option, LastSaid(p, option, x)) = LastSaid(p, option, x)
      BY <2>2 DEF LastSaid
    <3>2. \A i \in 1 .. n : q[i][1] # option
      BY <2>2, NoPlace
    <3>3. CASE Places(p, option) = {}
      BY <1>3, <2>2, <3>1, <3>3 DEF LastSaid
    <3>4. CASE Places(p, option) # {}
      <4>1. PICK i : LastAt(p, option, i) /\ LastSaid(p, option, x) = p[i][2]
        BY <3>4, SaidPlace
      <4>2. i \in 1 .. m /\ p[i][1] = option /\ \A j \in 1 .. m : j > i => p[j][1] # option
        BY <4>1 DEF LastAt
      <4>3. i \in 1 .. m + n /\ r[i] = p[i]
        BY <1>1, <4>2
      <4>4. ASSUME NEW j \in 1 .. m + n, j > i PROVE r[j][1] # option
        <5>1. CASE j \in 1 .. m
          BY <1>1, <4>2, <4>4, <5>1
        <5>2. CASE j - m \in 1 .. n /\ m + (j - m) = j
          <6>1. r[m + (j - m)] = q[j - m]
            BY <1>1, <5>2
          <6> QED
            BY <3>2, <5>2, <6>1
        <5> QED
          BY <1>2, <5>1, <5>2
      <4>5. LastAt(r, option, i)
        BY <1>1, <4>2, <4>3, <4>4 DEF LastAt
      <4> QED
        BY <1>1, <3>1, <4>1, <4>3, <4>5, SaidThere
    <3> QED
      BY <3>3, <3>4
  <2> QED
    BY <2>1, <2>2
<1>5. FirstSaid(r, option, x) = FirstSaid(p, option, FirstSaid(q, option, x))
  <2>1. CASE Places(p, option) # {}
    <3> DEFINE y == FirstSaid(q, option, x)
    <3>1. PICK i : FirstAt(p, option, i) /\ FirstSaid(p, option, y) = p[i][2]
      <4> HIDE DEF y
      <4> QED
        BY <2>1, SaidPlace
    <3>2. i \in 1 .. m /\ p[i][1] = option /\ \A j \in 1 .. m : j < i => p[j][1] # option
      BY <3>1 DEF FirstAt
    <3>3. i \in 1 .. m + n /\ r[i] = p[i]
      BY <1>1, <3>2
    <3>4. ASSUME NEW j \in 1 .. m + n, j < i PROVE r[j][1] # option
      BY <1>1, <3>2, <3>4
    <3>5. FirstAt(r, option, i)
      BY <1>1, <3>2, <3>3, <3>4 DEF FirstAt
    <3> QED
      BY <1>1, <3>1, <3>3, <3>5, SaidThere
  <2>2. CASE Places(p, option) = {}
    <3>1. FirstSaid(p, option, FirstSaid(q, option, x)) = FirstSaid(q, option, x)
      BY <2>2 DEF FirstSaid
    <3>2. \A i \in 1 .. m : p[i][1] # option
      BY <2>2, NoPlace
    <3>3. CASE Places(q, option) = {}
      BY <1>3, <2>2, <3>1, <3>3 DEF FirstSaid
    <3>4. CASE Places(q, option) # {}
      <4>1. PICK i : FirstAt(q, option, i) /\ FirstSaid(q, option, x) = q[i][2]
        BY <3>4, SaidPlace
      <4>2. i \in 1 .. n /\ q[i][1] = option /\ \A j \in 1 .. n : j < i => q[j][1] # option
        BY <4>1 DEF FirstAt
      <4>3. m + i \in 1 .. m + n /\ r[m + i] = q[i]
        BY <1>1, <4>2
      <4>4. ASSUME NEW j \in 1 .. m + n, j < m + i PROVE r[j][1] # option
        <5>1. CASE j \in 1 .. m
          BY <1>1, <3>2, <5>1
        <5>2. CASE j \notin 1 .. m
          <6>1. j - m \in 1 .. n /\ j - m < i /\ m + (j - m) = j
            BY <1>1, <1>2, <4>2, <4>4, <5>2
          <6>2. r[m + (j - m)] = q[j - m]
            BY <1>1, <6>1
          <6> QED
            BY <4>2, <6>1, <6>2
        <5> QED
          BY <5>1, <5>2
      <4>5. FirstAt(r, option, m + i)
        BY <1>1, <4>2, <4>3, <4>4 DEF FirstAt
      <4> QED
        BY <1>1, <3>1, <4>1, <4>3, <4>5, SaidThere
    <3> QED
      BY <3>3, <3>4
  <2> QED
    BY <2>1, <2>2
<1> QED
  BY <1>3, <1>4, <1>5 DEF r

\* One pair.
LEMMA SaidOnce ==
  ASSUME NEW e, NEW option, NEW y
  PROVE  /\ LastSaid(<<e>>, option, y) = IF e[1] = option THEN e[2] ELSE y
         /\ FirstSaid(<<e>>, option, y) = IF e[1] = option THEN e[2] ELSE y
         /\ Places(<<e>>, option) = {} <=> e[1] # option
<1> DEFINE one == <<e>>
<1>1. IsSeq(one) /\ Len(one) = 1 /\ one[1] = e
  BY TupleSeq
<1> HIDE DEF one
<1>2. CASE e[1] = option
  <2>1. LastAt(one, option, 1) /\ FirstAt(one, option, 1)
    BY <1>1, <1>2 DEF LastAt, FirstAt
  <2>2. LastSaid(one, option, y) = e[2] /\ FirstSaid(one, option, y) = e[2]
    BY <1>1, <2>1, SaidThere
  <2>3. Places(one, option) # {}
    BY <1>1, <1>2, NoPlace
  <2> QED
    BY <1>2, <2>2, <2>3 DEF one
<1>3. CASE e[1] # option
  <2>1. Places(one, option) = {}
    BY <1>1, <1>3, NoPlace
  <2>2. LastSaid(one, option, y) = y /\ FirstSaid(one, option, y) = y
    BY <2>1 DEF LastSaid, FirstSaid
  <2> QED
    BY <1>3, <2>1, <2>2 DEF one
<1> QED
  BY <1>2, <1>3

\* One pair more.
LEMMA OneMore ==
  ASSUME NEW q, NEW k \in Nat
  PROVE  /\ IsSeq(Prefix(q, k)) /\ IsSeq(<<q[k + 1]>>)
         /\ Prefix(q, k + 1) = Joined(Prefix(q, k), <<q[k + 1]>>)
<1> DEFINE e == q[k + 1]
           p == Prefix(q, k)
<1>1. IsSeq(p) /\ IsSeq(<<e>>)
  BY PrefixSeq, TupleSeq
<1>2. Prefix(q, k + 1) = Append(p, e)
  BY PrefixStep
<1> HIDE DEF e, p
<1>3. PICK S : p \in Seq(S)
  BY <1>1 DEF IsSeq
<1>4. p \in Seq(S \cup {e}) /\ e \in S \cup {e}
  BY <1>3
<1>5. Prefix(q, k + 1) = Joined(p, <<e>>)
  BY <1>2, <1>4, AppendIsConcat DEF Joined
<1> QED
  BY <1>1, <1>5 DEF p, e

\* LastSaid() takes the new pair, if it is of the option.
LEMMA LastOneMore ==
  ASSUME NEW q, NEW k \in Nat, NEW option, NEW x
  PROVE  LastSaid(Prefix(q, k + 1), option, x) =
           IF q[k + 1][1] = option THEN q[k + 1][2] ELSE LastSaid(Prefix(q, k), option, x)
<1> DEFINE e == q[k + 1]
           p == Prefix(q, k)
           one == <<e>>
<1>1. IsSeq(p) /\ IsSeq(one) /\ Prefix(q, k + 1) = Joined(p, one)
  BY OneMore
<1>2. \A y : LastSaid(one, option, y) = IF e[1] = option THEN e[2] ELSE y
  <2> HIDE DEF e
  <2> QED
    BY SaidOnce
<1> HIDE DEF p, e, one
<1>3. LastSaid(Joined(p, one), option, x) = LastSaid(one, option, LastSaid(p, option, x))
  BY <1>1, SaidTwice
<1>4. LastSaid(Prefix(q, k + 1), option, x) =
        IF e[1] = option THEN e[2] ELSE LastSaid(p, option, x)
  BY <1>1, <1>2, <1>3
<1> QED
  BY <1>4 DEF p, e

\* FirstSaid() takes it only for want of another.
LEMMA FirstOneMore ==
  ASSUME NEW q, NEW k \in Nat, NEW option, NEW x
  PROVE  FirstSaid(Prefix(q, k + 1), option, x) =
           FirstSaid(Prefix(q, k), option, IF q[k + 1][1] = option THEN q[k + 1][2] ELSE x)
<1> DEFINE e == q[k + 1]
           p == Prefix(q, k)
           one == <<e>>
<1>1. IsSeq(p) /\ IsSeq(one) /\ Prefix(q, k + 1) = Joined(p, one)
  BY OneMore
<1>2. FirstSaid(one, option, x) = IF e[1] = option THEN e[2] ELSE x
  <2> HIDE DEF e
  <2> QED
    BY SaidOnce
<1> HIDE DEF p, e, one
<1>3. FirstSaid(Joined(p, one), option, x) = FirstSaid(p, option, FirstSaid(one, option, x))
  BY <1>1, SaidTwice
<1>4. FirstSaid(Prefix(q, k + 1), option, x) =
        FirstSaid(p, option, IF e[1] = option THEN e[2] ELSE x)
  BY <1>1, <1>2, <1>3
<1> QED
  BY <1>4 DEF p, e

\* An option is said if it was, or if the new pair says it.
LEMMA PlaceOneMore ==
  ASSUME NEW q, NEW k \in Nat, NEW option
  PROVE  Places(Prefix(q, k + 1), option) = {} <=>
           Places(Prefix(q, k), option) = {} /\ q[k + 1][1] # option
<1> DEFINE e == q[k + 1]
           p == Prefix(q, k)
           one == <<e>>
<1>1. IsSeq(p) /\ IsSeq(one) /\ Prefix(q, k + 1) = Joined(p, one)
  BY OneMore
<1>2. Places(one, option) = {} <=> e[1] # option
  <2> HIDE DEF e
  <2> QED
    BY SaidOnce
<1> HIDE DEF p, e, one
<1>3. Places(Joined(p, one), option) = {} <=> Places(p, option) = {} /\ Places(one, option) = {}
  BY <1>1, SaidTwice
<1> QED
  BY <1>1, <1>2, <1>3 DEF p, e

----------------------------------------------------------------------------
\* ParseFrom(), on one text after the other.

\* The parser walks over a text in one way.
LEMMA WalkEnds ==
  ASSUME NEW s, NEW text, Len(text) \in Nat, NEW f, f[0] = s,
         \A i \in 1 .. Len(text) : f[i] = Read(f[i - 1], text[i])
  PROVE  f[Len(text)] = ParseFrom(s, text)
<1> DEFINE n == Len(text)
<1>1. PICK g : /\ g[0] = s /\ g[n] = ParseFrom(s, text)
               /\ \A i \in 1 .. n : g[i] = Read(g[i - 1], text[i])
  BY ParseTrace
<1> DEFINE S == {k \in 0 .. n : f[k] = g[k]}
<1>2. 0 \in S
  BY <1>1
<1>3. ASSUME NEW k \in 0 .. n - 1, k \in S PROVE k + 1 \in S
  <2>1. k + 1 \in 1 .. n /\ (k + 1) - 1 = k /\ f[k] = g[k]
    BY <1>3
  <2>2. f[k + 1] = Read(f[k], text[k + 1])
    BY <2>1
  <2>3. g[k + 1] = Read(g[k], text[k + 1])
    BY <1>1, <2>1
  <2> QED
    BY <2>1, <2>2, <2>3
<1>4. \A k \in 0 .. n : k \in S
  <2>1. n \in Nat
    OBVIOUS
  <2> HIDE DEF S, n
  <2> QED
    BY <1>2, <1>3, <2>1, UpTo
<1>5. f[n] = g[n]
  BY <1>4
<1> QED
  BY <1>1, <1>5

\* One text after the other.
LEMMA ParseJoined ==
  ASSUME NEW s, NEW a, IsSeq(a), NEW b, IsSeq(b)
  PROVE  ParseFrom(s, Joined(a, b)) = ParseFrom(ParseFrom(s, a), b)
<1> DEFINE t == Joined(a, b)
           m == Len(a)
           n == Len(b)
<1>1. /\ Len(t) = m + n /\ m \in Nat /\ n \in Nat
      /\ \A i \in 1 .. m : t[i] = a[i]
      /\ \A i \in 1 .. n : t[m + i] = b[i]
  BY JoinedSeq
<1> HIDE DEF t
<1>2. PICK f : /\ f[0] = s /\ f[m + n] = ParseFrom(s, t)
               /\ \A i \in 1 .. m + n : f[i] = Read(f[i - 1], t[i])
  <2>1. Len(t) \in Nat
    BY <1>1
  <2>2. PICK f : /\ f[0] = s /\ f[Len(t)] = ParseFrom(s, t)
                 /\ \A i \in 1 .. Len(t) : f[i] = Read(f[i - 1], t[i])
    BY <2>1, ParseTrace
  <2> QED
    BY <1>1, <2>2
<1>3. f[m] = ParseFrom(s, a)
  <2>1. \A i \in 1 .. m : f[i] = Read(f[i - 1], a[i])
    BY <1>1, <1>2
  <2> QED
    BY <1>1, <1>2, <2>1, WalkEnds
<1> DEFINE g == [j \in 0 .. n |-> f[m + j]]
<1>4. g[n] = ParseFrom(f[m], b)
  <2>1. g[0] = f[m]
    BY <1>1
  <2>2. ASSUME NEW j \in 1 .. n PROVE g[j] = Read(g[j - 1], b[j])
    <3>1. m + j \in 1 .. m + n /\ (m + j) - 1 = m + (j - 1) /\ t[m + j] = b[j] /\ j - 1 \in 0 .. n
      BY <1>1
    <3>2. f[m + j] = Read(f[m + (j - 1)], b[j])
      <4>1. f[m + j] = Read(f[(m + j) - 1], t[m + j])
        BY <1>2, <3>1
      <4> QED
        BY <3>1, <4>1
    <3> QED
      BY <3>1, <3>2
  <2> HIDE DEF g
  <2> QED
    BY <1>1, <2>1, <2>2, WalkEnds
<1>5. g[n] = f[m + n]
  BY <1>1
<1> QED
  BY <1>2, <1>3, <1>4, <1>5 DEF t

\* No lexeme.
LEMMA ParseNone ==
  ASSUME NEW s
  PROVE  ParseFrom(s, <<>>) = s
<1> DEFINE t == <<>>
<1>1. Len(t) = 0
  OBVIOUS
<1> HIDE DEF t
<1>2. ParseFrom(s, t) = s
  BY <1>1, ParseTrace
<1> QED
  BY <1>2 DEF t

\* One lexeme.
LEMMA ParseOne ==
  ASSUME NEW s, NEW a
  PROVE  ParseFrom(s, <<a>>) = Read(s, a)
<1> DEFINE t == <<a>>
<1>1. Len(t) = 1 /\ t[1] = a
  OBVIOUS
<1> HIDE DEF t
<1>2. PICK f : /\ f[0] = s /\ f[Len(t)] = ParseFrom(s, t)
               /\ \A i \in 1 .. Len(t) : f[i] = Read(f[i - 1], t[i])
  <2>1. Len(t) \in Nat
    BY <1>1
  <2> QED
    BY <2>1, ParseTrace
<1>3. f[1] = Read(f[1 - 1], t[1])
  BY <1>1, <1>2
<1> QED
  BY <1>1, <1>2, <1>3 DEF t

\* Two lexemes.
LEMMA ParseTwo ==
  ASSUME NEW s, NEW a, NEW b
  PROVE  ParseFrom(s, <<a, b>>) = Read(Read(s, a), b)
<1> DEFINE t == <<a, b>>
<1>1. Len(t) = 2 /\ t[1] = a /\ t[2] = b
  OBVIOUS
<1> HIDE DEF t
<1>2. PICK f : /\ f[0] = s /\ f[Len(t)] = ParseFrom(s, t)
               /\ \A i \in 1 .. Len(t) : f[i] = Read(f[i - 1], t[i])
  <2>1. Len(t) \in Nat
    BY <1>1
  <2> QED
    BY <2>1, ParseTrace
<1>3. f[1] = Read(f[1 - 1], t[1]) /\ f[2] = Read(f[2 - 1], t[2])
  BY <1>1, <1>2
<1> QED
  BY <1>1, <1>2, <1>3 DEF t

\* Three lexemes.
LEMMA ParseThree ==
  ASSUME NEW s, NEW a, NEW b, NEW c
  PROVE  ParseFrom(s, <<a, b, c>>) = Read(Read(Read(s, a), b), c)
<1> DEFINE t == <<a, b, c>>
<1>1. Len(t) = 3 /\ t[1] = a /\ t[2] = b /\ t[3] = c
  OBVIOUS
<1> HIDE DEF t
<1>2. PICK f : /\ f[0] = s /\ f[Len(t)] = ParseFrom(s, t)
               /\ \A i \in 1 .. Len(t) : f[i] = Read(f[i - 1], t[i])
  <2>1. Len(t) \in Nat
    BY <1>1
  <2> QED
    BY <2>1, ParseTrace
<1>3. f[1] = Read(f[1 - 1], t[1]) /\ f[2] = Read(f[2 - 1], t[2]) /\ f[3] = Read(f[3 - 1], t[3])
  BY <1>1, <1>2
<1> QED
  BY <1>1, <1>2, <1>3 DEF t

----------------------------------------------------------------------------
\* The lexemes of a text without a mistake, one by one.

\* The fields other than those in X are the same.
Same(s, r, X) == DOMAIN r = DOMAIN Fresh /\ \A x \in DOMAIN Fresh \ X : r[x] = s[x]

\* The stack in a section, in an option, in its commands and in one of these.
S1 == Append(<<>>, "INITIAL")
S2 == Append(S1, "OPTION")
S3 == Append(S2, "PARAM")
S4 == Append(S3, "OPTION")

\* What was appended can be taken off.
LEMMA FrontLast ==
  ASSUME NEW q, IsSeq(q), NEW e
  PROVE  Front(Append(q, e)) = q /\ Last(Append(q, e)) = e /\ Append(q, e) # <<>>
<1> DEFINE a == Append(q, e)
           n == Len(q)
<1>1. /\ IsSeq(a) /\ Len(a) = n + 1 /\ n \in Nat /\ a[n + 1] = e
      /\ \A i \in 1 .. n : a[i] = q[i]
  BY AppendSeq
<1> HIDE DEF a
<1>2. Last(a) = e /\ a # <<>>
  <2>1. Len(<<>>) = 0
    OBVIOUS
  <2> QED
    BY <1>1, <2>1 DEF Last
<1>3. PICK S : a \in Seq(S)
  BY <1>1 DEF IsSeq
<1> DEFINE f == Front(a)
<1>4. f \in Seq(S) /\ Len(f) = n /\ \A i \in 1 .. n : f[i] = a[i]
  BY <1>1, <1>3 DEF Front
<1> HIDE DEF f
<1>5. f = q
  BY <1>1, <1>4, SameSeq DEF IsSeq
<1> QED
  BY <1>2, <1>5 DEF f, a

\* PUSH_STATE and POP_STATE go from one to the next and back.
LEMMA Stacks ==
  /\ Front(S1) = <<>> /\ Front(S2) = S1 /\ Front(S3) = S2 /\ Front(S4) = S3
  /\ Last(S1) = "INITIAL" /\ Last(S2) = "OPTION" /\ Last(S3) = "PARAM" /\ Last(S4) = "OPTION"
  /\ S1 # <<>> /\ S2 # <<>> /\ S3 # <<>> /\ S4 # <<>>
  /\ Len(<<>>) # StackSize /\ Len(S1) # StackSize /\ Len(S2) # StackSize /\ Len(S3) # StackSize
<1>0. IsSeq(<<>>) /\ Len(<<>>) = 0
  <2>1. <<>> \in Seq({})
    OBVIOUS
  <2> QED
    BY <2>1 DEF IsSeq
<1>1. IsSeq(S1) /\ Len(S1) = 1
  <2>1. IsSeq(S1) /\ Len(S1) = Len(<<>>) + 1
    BY <1>0, AppendSeq, Zenon DEF S1
  <2> QED
    BY <1>0, <2>1
<1>2. IsSeq(S2) /\ Len(S2) = 2
  BY <1>1, AppendSeq DEF S2
<1>3. IsSeq(S3) /\ Len(S3) = 3
  <2>1. IsSeq(S3) /\ Len(S3) = Len(S2) + 1
    BY <1>2, AppendSeq, Zenon DEF S3
  <2> QED
    BY <1>2, <2>1
<1>4. Front(S1) = <<>> /\ Last(S1) = "INITIAL" /\ S1 # <<>>
  BY <1>0, FrontLast DEF S1
<1>5. Front(S2) = S1 /\ Last(S2) = "OPTION" /\ S2 # <<>>
  BY <1>1, FrontLast DEF S2
<1>6. Front(S3) = S2 /\ Last(S3) = "PARAM" /\ S3 # <<>>
  BY <1>2, FrontLast DEF S3
<1>7. Front(S4) = S3 /\ Last(S4) = "OPTION" /\ S4 # <<>>
  BY <1>3, FrontLast DEF S4
<1>8. StackSize \in Nat /\ StackSize >= 4
  BY ConfigAssumption
<1> QED
  BY <1>0, <1>1, <1>2, <1>3, <1>4, <1>5, <1>6, <1>7, <1>8

\* What the scanner makes of the lexemes of a text: a '{'.
LEMMA ScanOpen ==
  ASSUME NEW s, NEW w, w.k = "{", ~Full(s)
  PROVE  Token(s, w) = "{" /\ Scanned(s, w) = Push(s, "OPTION")
<1>1. Token(s, w) = "{"
  BY DEF Token, IsKeyword
<1>2. Scanned(s, w) = Push(s, "OPTION")
  BY DEF Scanned, IsKeyword
<1> QED
  BY <1>1, <1>2

\* A '}', which POP_STATE follows.
LEMMA ScanClose ==
  ASSUME NEW s, NEW w, w.k = "}", s.stack # <<>>
  PROVE  Token(s, w) = "}" /\ Scanned(s, w) = Pop(s)
<1>1. Token(s, w) = "}"
  BY DEF Token, IsKeyword
<1>2. Scanned(s, w) = Pop(s)
  BY DEF Scanned, IsKeyword
<1> QED
  BY <1>1, <1>2

\* A ';' after a parameter.
LEMMA ScanSemi ==
  ASSUME NEW s, NEW w, w.k = ";", s.start = "PARAM"
  PROVE  Token(s, w) = "none" /\ Scanned(s, w) = Pop(s)
<1>1. Token(s, w) = "none"
  BY DEF Token, IsKeyword
<1>2. Scanned(s, w) = Pop(s)
  BY DEF Scanned, IsKeyword
<1> QED
  BY <1>1, <1>2

\* A keyword in a section.
LEMMA ScanKeyword ==
  ASSUME NEW s, NEW w, w.k = "WORD", w.v \in Keywords, s.start = "OPTION", ~Full(s)
  PROVE  Token(s, w) = w.v /\ Scanned(s, w) = Push(s, "PARAM")
<1>1. Token(s, w) = w.v
  BY DEF Token, IsKeyword
<1>2. Scanned(s, w) = Push(s, "PARAM")
  BY DEF Scanned, IsKeyword
<1> QED
  BY <1>1, <1>2

\* The name of a section.
LEMMA ScanName ==
  ASSUME NEW s, NEW w, w.k = "WORD", s.start = "INITIAL"
  PROVE  /\ Token(s, w) = IF w.v \in Keywords THEN w.v ELSE "K_HOST"
         /\ Scanned(s, w) = s
<1>1. Token(s, w) = IF w.v \in Keywords THEN w.v ELSE "K_HOST"
  BY DEF Token, IsKeyword
<1>2. Scanned(s, w) = s
  BY DEF Scanned, IsKeyword
<1> QED
  BY <1>1, <1>2

\* A parameter.
LEMMA ScanParam ==
  ASSUME NEW s, NEW w, w.k \in {"WORD", "NUM", "STRING"}, s.start = "PARAM"
  PROVE  Token(s, w) = w.k /\ Scanned(s, w) = s
<1>1. Token(s, w) = w.k
  BY DEF Token, IsKeyword
<1>2. Scanned(s, w) = s
  BY DEF Scanned, IsKeyword
<1> QED
  BY <1>1, <1>2

\* The scanner's state.
LEMMA PushPop ==
  ASSUME NEW s, DOMAIN s = DOMAIN Fresh, NEW c
  PROVE  /\ Same(s, Push(s, c), {"start", "stack"})
         /\ Push(s, c).start = c /\ Push(s, c).stack = Append(s.stack, s.start)
         /\ Same(s, Pop(s), {"start", "stack"})
         /\ Pop(s).start = Last(s.stack) /\ Pop(s).stack = Front(s.stack)
  BY DEF Same, Push, Pop, Fresh

\* While there is no error, a lexeme goes from the scanner to the parser.
LEMMA ReadsOn ==
  ASSUME NEW s, s.at # "error", ~s.crash, NEW w
  PROVE  Read(s, w) = IF Token(s, w) = "none" THEN Scanned(s, w)
                      ELSE Parsed(Scanned(s, w), Token(s, w), w)
  BY DEF Read

\* The grammar, at the name of a session.
LEMMA ParsedHost ==
  ASSUME NEW s, NEW t, NEW w, s.at = "top", t = "K_HOST"
  PROVE  Parsed(s, t, w) = K_HOST(s, NameOf(w))
  BY DEF Parsed, Commands

\* At the parameter of an option.
LEMMA ParsedParam ==
  ASSUME NEW s, NEW t, NEW w, s.at = "param",
         t = (IF s.option \in {"passwd", "device"} THEN "WORD" ELSE "NUM")
  PROVE  Parsed(s, t, w) = SetOption(s, w.v)
  BY DEF Parsed, Commands

\* At a command of up.
LEMMA ParsedCommand ==
  ASSUME NEW s, NEW t, NEW w, s.at = "cmds", t \in Commands
  PROVE  Parsed(s, t, w) = [s EXCEPT !.at = t]
  BY DEF Parsed, Commands

\* At what the command is to do.
LEMMA ParsedString ==
  ASSUME NEW s, NEW t, NEW w, s.at \in Commands, t = "STRING"
  PROVE  Parsed(s, t, w) = [Put(s, "up", Append(ParseHost(s).up, IF s.at = "program" THEN Shell ELSE w.v))
                              EXCEPT !.at = "cmds"]
  BY DEF Parsed, Commands

\* The fields of the scanner, and of the place where the parser is.
Scan == {"at", "start", "stack", "option"}

\* A session or default_host g is h with another value for one field.
With(g, h, option, v) ==
  DOMAIN g = DOMAIN h /\ \A o \in DOMAIN h : g[o] = IF o = option THEN v ELSE h[o]

\* The section in hand has another value for one of its fields.
Puts(s, r, option, v) ==
  /\ Same(s, r, Scan \cup {"default", "host"})
  /\ With(ParseHost(r), ParseHost(s), option, v)
  /\ s.section = "host" => r.default = s.default

\* That is what Put() does.
LEMMA PutFields ==
  ASSUME NEW s, DOMAIN s = DOMAIN Fresh, DOMAIN s.default = DOMAIN BuiltIn,
         s.section = "host" => DOMAIN s.host = HostFields, s.section \in {"default", "host"},
         NEW option \in DOMAIN BuiltIn,
         NEW v
  PROVE  /\ Puts(s, Put(s, option, v), option, v)
         /\ Same(s, Put(s, option, v), {"default", "host"})
<1> DEFINE r == Put(s, option, v)
<1>1. /\ DOMAIN s = DOMAIN Fresh /\ DOMAIN s.default = DOMAIN BuiltIn
      /\ s.section = "host" => DOMAIN s.host = HostFields
  OBVIOUS
<1>2. DOMAIN BuiltIn \subseteq HostFields
  BY DEF HostFields
<1>3. "default" \in DOMAIN Fresh /\ "host" \in DOMAIN Fresh /\ "section" \in DOMAIN Fresh
  BY DEF Fresh
<1>4. CASE s.section = "default"
  <2>1. r = [s EXCEPT !.default[option] = v]
    BY <1>4 DEF Put
  <2> HIDE DEF r
  <2>2. /\ DOMAIN r = DOMAIN Fresh /\ r.default = [s.default EXCEPT ![option] = v]
        /\ \A x \in DOMAIN Fresh \ {"default"} : r[x] = s[x]
    BY <1>1, <1>3, <2>1
  <2>3. r.section = s.section
    BY <1>3, <2>2
  <2>4. ParseHost(r) = r.default /\ ParseHost(s) = s.default
    BY <1>4, <2>3 DEF ParseHost
  <2>5. With(r.default, s.default, option, v)
    BY <1>1, <2>2 DEF With
  <2> QED
    BY <1>4, <2>2, <2>4, <2>5 DEF Puts, Same, r
<1>5. CASE s.section = "host"
  <2>1. r = [s EXCEPT !.host[option] = v]
    BY <1>5 DEF Put
  <2> HIDE DEF r
  <2>2. /\ DOMAIN r = DOMAIN Fresh /\ r.host = [s.host EXCEPT ![option] = v]
        /\ \A x \in DOMAIN Fresh \ {"host"} : r[x] = s[x]
    BY <1>1, <1>3, <2>1
  <2>3. r.section = s.section /\ r.default = s.default
    BY <1>3, <2>2
  <2>4. ParseHost(r) = r.host /\ ParseHost(s) = s.host
    BY <1>5, <2>3 DEF ParseHost
  <2>5. With(r.host, s.host, option, v)
    BY <1>1, <1>2, <1>5, <2>2 DEF With
  <2> QED
    BY <1>5, <2>2, <2>3, <2>4, <2>5 DEF Puts, Same, r
<1> QED
  BY <1>4, <1>5

\* So it puts the value there, and changes nothing else.
LEMMA PutPuts ==
  ASSUME NEW s, ParseOK(s), s.section \in {"default", "host"}, NEW option \in DOMAIN BuiltIn,
         NEW v
  PROVE  /\ Puts(s, Put(s, option, v), option, v)
         /\ Same(s, Put(s, option, v), {"default", "host"})
<1>1. /\ DOMAIN s = DOMAIN Fresh /\ DOMAIN s.default = DOMAIN BuiltIn
      /\ s.section = "host" => DOMAIN s.host = HostFields
  BY DEF ParseOK, IsSession
<1> QED
  BY <1>1, PutFields

\* What is not in Scan stays in hand.
LEMMA SameHand ==
  ASSUME NEW s, NEW r, Same(s, r, Scan)
  PROVE  /\ r.section = s.section /\ r.default = s.default /\ r.host = s.host
         /\ r.vtun = s.vtun /\ r.heap = s.heap /\ r.sound = s.sound /\ r.hosts = s.hosts
         /\ r.rest = s.rest /\ r.crash = s.crash /\ r.syslog = s.syslog
         /\ ParseHost(r) = ParseHost(s)
<1>1. /\ r.section = s.section /\ r.default = s.default /\ r.host = s.host
      /\ r.vtun = s.vtun /\ r.heap = s.heap /\ r.sound = s.sound /\ r.hosts = s.hosts
      /\ r.rest = s.rest /\ r.crash = s.crash /\ r.syslog = s.syslog
  BY DEF Same, Scan, Fresh
<1> QED
  BY <1>1 DEF ParseHost

\* One Put() after another, and what the scanner does before and after.
LEMMA PutsOn ==
  ASSUME NEW s, NEW a, Same(s, a, Scan) , NEW b, NEW option, NEW v, Puts(a, b, option, v),
         NEW c, Same(b, c, Scan)
  PROVE  Puts(s, c, option, v)
<1>1. /\ a.section = s.section /\ a.default = s.default /\ ParseHost(a) = ParseHost(s)
      /\ c.default = b.default /\ ParseHost(c) = ParseHost(b)
  BY SameHand
<1>2. Same(s, c, Scan \cup {"default", "host"})
  BY DEF Puts, Same
<1> QED
  BY <1>1, <1>2 DEF Puts

\* The second of two values is the one that counts.
LEMMA PutsTwice ==
  ASSUME NEW s, NEW a, NEW b, NEW option, NEW v, NEW w, Puts(s, a, option, v), Puts(a, b, option, w)
  PROVE  Puts(s, b, option, w)
<1>1. a.section = s.section
  BY DEF Puts, Same, Scan, Fresh
<1>2. Same(s, b, Scan \cup {"default", "host"})
  BY DEF Puts, Same
<1>3. With(ParseHost(b), ParseHost(s), option, w)
  BY DEF Puts, With
<1> QED
  BY <1>1, <1>2, <1>3 DEF Puts

\* A keyword in a section.
LEMMA ReadKeyword ==
  ASSUME NEW s, DOMAIN s = DOMAIN Fresh, s.start = "OPTION", s.stack \in {S1, S3}, ~s.crash,
         s.at # "error", NEW k \in Keywords
  PROVE  \E a : /\ Same(s, a, {"start", "stack"}) /\ a.start = "PARAM"
                /\ a.stack = Append(s.stack, "OPTION")
                /\ Read(s, Word(k)) = Parsed(a, k, Word(k))
<1> DEFINE w == Word(k)
           a == Push(s, "PARAM")
<1>1. w.k = "WORD" /\ w.v = k
  BY DEF Word
<1>2. ~Full(s)
  BY Stacks DEF Full
<1>3. Token(s, w) = k /\ Scanned(s, w) = a
  BY <1>1, <1>2, ScanKeyword
<1>4. k # "none"
  BY DEF Keywords, GeneralOptions, HostOptions, Numbers, Commands
<1>5. Read(s, w) = Parsed(a, k, w)
  BY <1>3, <1>4, ReadsOn
<1>6. Same(s, a, {"start", "stack"}) /\ a.start = "PARAM" /\ a.stack = Append(s.stack, "OPTION")
  BY PushPop
<1> HIDE DEF a
<1> QED
  BY <1>5, <1>6

\* The ';' after an option.
LEMMA ReadSemi ==
  ASSUME NEW s, DOMAIN s = DOMAIN Fresh, s.start = "PARAM", ~s.crash, s.at # "error"
  PROVE  LET r == Read(s, Mark(";"))
         IN  Same(s, r, {"start", "stack"}) /\ r.start = Last(s.stack) /\ r.stack = Front(s.stack)
<1> DEFINE w == Mark(";")
<1>1. w.k = ";"
  BY DEF Mark
<1>2. Token(s, w) = "none" /\ Scanned(s, w) = Pop(s)
  BY <1>1, ScanSemi
<1>3. Read(s, w) = Pop(s)
  BY <1>2, ReadsOn
<1> QED
  BY <1>3, PushPop

----------------------------------------------------------------------------
\* An option: what the lexemes of a pair do, all together.

\* The option that a field holds, and its value; the device's name is on a heap.
OptionOf(o) == IF o = "dev" THEN "device" ELSE o
Field(hp, h, o) ==
  IF o = "dev" THEN (IF h.dev = 0 THEN NULL ELSE hp[h.dev].name) ELSE h[o]

\* A general option that is set once takes the first value it gets.
Takes(s, r, p) ==
  \A o \in DOMAIN Fallback :
    r.vtun[o] = IF s.vtun[o] = None /\ o = p[1] /\ (s.section = "options" <=> o # "persist")
                THEN p[2] ELSE s.vtun[o]

\* syslog takes whatever it gets.
Log(x, section, p) == IF section = "options" /\ p[1] = "syslog" THEN p[2] ELSE x

\* The heap after "device".
Moves(s, r, name) ==
  LET old == ParseHost(s).dev
      n == Len(s.heap)
  IN  /\ Len(r.heap) = n + 1 /\ ParseHost(r).dev = n + 1
      /\ r.heap[n + 1].name = name /\ r.heap[n + 1].live
      /\ \A i \in 1 .. n : /\ r.heap[i].name = s.heap[i].name
                           /\ r.heap[i].live = (s.heap[i].live /\ i # old)
      /\ r.sound = (s.sound /\ (old # 0 => s.heap[old].live))

\* What the pair p does.
Effect(s, r, p) ==
  /\ Same(s, r, Scan \cup {"default", "host", "vtun", "syslog", "heap", "sound"})
  /\ Takes(s, r, p)
  /\ r.syslog = Log(s.syslog, s.section, p)
  /\ s.section # "default" => r.default = s.default
  /\ s.section = "host" => r.host.name = s.host.name
  /\ s.section = "options" => r.heap = s.heap /\ r.sound = s.sound
  /\ s.section # "options" =>
       /\ \A o \in DOMAIN BuiltIn :
            Field(r.heap, ParseHost(r), o) =
              IF OptionOf(o) = p[1] THEN p[2] ELSE Field(s.heap, ParseHost(s), o)
       /\ IF p[1] = "device" THEN Moves(s, r, p[2])
          ELSE r.heap = s.heap /\ r.sound = s.sound /\ ParseHost(r).dev = ParseHost(s).dev

\* The scanner and the place of the parser are as before.
Still(s, r) == Same(s, r, {"default", "host", "vtun", "syslog", "heap", "sound"})

\* What the scanner does before and after is no part of it.
LEMMA EffectOn ==
  ASSUME NEW s, NEW a, Same(s, a, Scan) , NEW b, NEW p, Effect(a, b, p), NEW c, Same(b, c, Scan)
  PROVE  Effect(s, c, p)
<1>1. /\ a.section = s.section /\ a.default = s.default /\ a.host = s.host
      /\ a.vtun = s.vtun /\ a.heap = s.heap /\ a.sound = s.sound
      /\ a.syslog = s.syslog /\ ParseHost(a) = ParseHost(s)
  BY SameHand
<1>2. /\ c.default = b.default /\ c.host = b.host /\ c.vtun = b.vtun /\ c.heap = b.heap
      /\ c.sound = b.sound /\ c.syslog = b.syslog /\ ParseHost(c) = ParseHost(b)
  BY SameHand
<1>3. Same(s, c, Scan \cup {"default", "host", "vtun", "syslog", "heap", "sound"})
  BY DEF Effect, Same
<1>4. Takes(s, c, p)
  BY <1>1, <1>2 DEF Effect, Takes
<1> HIDE DEF Same
<1>5. p[1] = "device" /\ s.section # "options" => Moves(s, c, p[2])
  BY <1>1, <1>2 DEF Effect, Moves
<1>6. c.syslog = Log(s.syslog, s.section, p)
  BY <1>1, <1>2 DEF Effect
<1> QED
  BY <1>1, <1>2, <1>3, <1>4, <1>5, <1>6 DEF Effect

\* An option of a session or default_host that is no general one.
LEMMA PutsEffect ==
  ASSUME NEW s, ParseOK(s), s.section \in {"default", "host"}, NEW r, NEW p,
         p[1] \in HostOptions \ {"device", "persist"}, Puts(s, r, p[1], p[2])
  PROVE  Effect(s, r, p)
<1>1. p[1] \in DOMAIN BuiltIn \ {"dev"} /\ p[1] \notin {"device", "persist", "name", "port"}
  BY DEF HostOptions, Numbers, BuiltIn
<1>2. /\ DOMAIN s.default = DOMAIN BuiltIn
      /\ s.section = "host" => DOMAIN s.host = HostFields
  BY DEF ParseOK, IsSession
<1>3. DOMAIN BuiltIn \subseteq DOMAIN ParseHost(s)
  BY <1>2 DEF ParseHost, HostFields
<1>4. /\ r.vtun = s.vtun /\ r.heap = s.heap /\ r.sound = s.sound /\ r.section = s.section
      /\ r.syslog = Log(s.syslog, s.section, p)
  BY DEF Puts, Same, Scan, Fresh, Log
<1>5. Same(s, r, Scan \cup {"default", "host", "vtun", "syslog", "heap", "sound"})
  BY DEF Puts, Same
<1>6. \A o \in DOMAIN BuiltIn : ParseHost(r)[o] = IF o = p[1] THEN p[2] ELSE ParseHost(s)[o]
  BY <1>3 DEF Puts, With
<1>7. "dev" \in DOMAIN BuiltIn
  BY DEF BuiltIn
<1>8. ParseHost(r).dev = ParseHost(s).dev
  BY <1>1, <1>6, <1>7
<1>9. \A o \in DOMAIN BuiltIn :
        Field(r.heap, ParseHost(r), o) =
          IF OptionOf(o) = p[1] THEN p[2] ELSE Field(s.heap, ParseHost(s), o)
  BY <1>1, <1>4, <1>6, <1>8 DEF Field, OptionOf
<1>10. Takes(s, r, p)
  BY <1>1, <1>4 DEF Takes, Fallback
<1>11. s.section = "host" => r.host.name = s.host.name
  <2> SUFFICES ASSUME s.section = "host" PROVE r.host.name = s.host.name
    OBVIOUS
  <2>1. ParseHost(r) = r.host /\ ParseHost(s) = s.host /\ "name" \in DOMAIN s.host
    BY <1>2, <1>4 DEF ParseHost, HostFields
  <2> QED
    BY <1>1, <2>1 DEF Puts, With
<1>12. s.section # "default" => r.default = s.default
  BY DEF Puts
<1> QED
  BY <1>1, <1>4, <1>5, <1>8, <1>9, <1>10, <1>11, <1>12 DEF Effect

\* SetGeneral().
LEMMA GeneralTakes ==
  ASSUME NEW s, DOMAIN s = DOMAIN Fresh, AreOptions(s.vtun), NEW option \in DOMAIN Fallback, NEW v
  PROVE  LET r == SetGeneral(s, option, v)
         IN  /\ Same(s, r, {"vtun"})
             /\ \A o \in DOMAIN Fallback :
                  r.vtun[o] = IF s.vtun[o] = None /\ o = option THEN v ELSE s.vtun[o]
<1> DEFINE r == SetGeneral(s, option, v)
           new == [s.vtun EXCEPT ![option] = IF @ = None THEN v ELSE @]
<1>1. r = [s EXCEPT !.vtun = new]
  BY DEF SetGeneral, Fallback
<1>2. \A o \in DOMAIN Fallback :
        new[o] = IF s.vtun[o] = None /\ o = option THEN v ELSE s.vtun[o]
  <2>1. DOMAIN s.vtun = DOMAIN Fallback
    BY DEF AreOptions
  <2> QED
    BY <2>1
<1> HIDE DEF new, r
<1>3. Same(s, r, {"vtun"}) /\ r.vtun = new
  BY <1>1 DEF Same, Fresh
<1> QED
  BY <1>2, <1>3 DEF r

\* In an options section.
LEMMA GeneralEffect ==
  ASSUME NEW s, ParseOK(s), s.section = "options", NEW p, p[1] \in GeneralOptions
  PROVE  Effect(s, SetGeneral(s, p[1], p[2]), p) /\ Still(s, SetGeneral(s, p[1], p[2]))
<1> DEFINE r == SetGeneral(s, p[1], p[2])
           o1 == p[1]
           v1 == p[2]
<1>1. /\ p[1] # "persist" /\ DOMAIN s = DOMAIN Fresh
      /\ p[1] \in DOMAIN Fallback <=> p[1] # "syslog"
  BY DEF GeneralOptions, Fallback, ParseOK
<1>2. /\ Same(s, r, {"vtun", "syslog"})
      /\ \A o \in DOMAIN Fallback :
           r.vtun[o] = IF s.vtun[o] = None /\ o = p[1] THEN p[2] ELSE s.vtun[o]
      /\ r.syslog = Log(s.syslog, s.section, p)
  <2>1. CASE p[1] # "syslog"
    <3>1. o1 \in DOMAIN Fallback
      BY <1>1, <2>1
    <3> HIDE DEF o1, v1
    <3>2. LET q == SetGeneral(s, o1, v1)
          IN  /\ Same(s, q, {"vtun"})
              /\ \A o \in DOMAIN Fallback :
                   q.vtun[o] = IF s.vtun[o] = None /\ o = o1 THEN v1 ELSE s.vtun[o]
      BY <3>1, GeneralTakes DEF ParseOK
    <3>3. /\ Same(s, r, {"vtun"})
          /\ \A o \in DOMAIN Fallback :
               r.vtun[o] = IF s.vtun[o] = None /\ o = p[1] THEN p[2] ELSE s.vtun[o]
      BY <3>2 DEF o1, v1
    <3> HIDE DEF r
    <3>4. Same(s, r, {"vtun", "syslog"}) /\ r.syslog = s.syslog
      BY <3>3 DEF Same, Fresh
    <3> QED
      BY <2>1, <3>3, <3>4 DEF Log
  <2>2. CASE p[1] = "syslog"
    <3>1. r = [s EXCEPT !.syslog = v1]
      BY <2>2 DEF SetGeneral
    <3> HIDE DEF r, v1
    <3>2. /\ Same(s, r, {"vtun", "syslog"})
          /\ r.syslog = v1 /\ r.vtun = s.vtun
      BY <1>1, <3>1 DEF Same, Fresh
    <3>3. \A o \in DOMAIN Fallback : o # p[1]
      BY <1>1, <2>2
    <3>4. r.syslog = p[2]
      BY <3>2 DEF v1
    <3> QED
      BY <2>2, <3>2, <3>3, <3>4 DEF Log
  <2> QED
    BY <2>1, <2>2
<1> HIDE DEF r
<1>3. r.default = s.default /\ r.heap = s.heap /\ r.sound = s.sound
  BY <1>2 DEF Same, Fresh
<1>4. Takes(s, r, p)
  BY <1>1, <1>2 DEF Takes
<1>5. Same(s, r, Scan \cup {"default", "host", "vtun", "syslog", "heap", "sound"})
  BY <1>2 DEF Same
<1>6. Effect(s, r, p) /\ Still(s, r)
  BY <1>2, <1>3, <1>4, <1>5 DEF Effect, Still, Same
<1> QED
  BY <1>6 DEF r

\* persist, in any other section.
LEMMA PersistEffect ==
  ASSUME NEW s, ParseOK(s), s.section \in {"default", "host"}, NEW p, p[1] = "persist"
  PROVE  /\ Effect(s, SetGeneral(Put(s, "persist", p[2]), "persist", p[2]), p)
         /\ Still(s, SetGeneral(Put(s, "persist", p[2]), "persist", p[2]))
<1> DEFINE v == p[2]
           t == Put(s, "persist", v)
           r == SetGeneral(t, "persist", v)
<1>1. "persist" \in DOMAIN BuiltIn \ {"dev", "name"} /\ "persist" \in DOMAIN Fallback
  BY DEF BuiltIn, Fallback
<1>2. Puts(s, t, "persist", v) /\ Same(s, t, {"default", "host"})
  <2> HIDE DEF v
  <2> QED
    BY <1>1, PutPuts
<1> HIDE DEF t
<1>3. /\ t.vtun = s.vtun /\ t.heap = s.heap /\ t.sound = s.sound /\ t.section = s.section
      /\ t.syslog = s.syslog /\ DOMAIN t = DOMAIN Fresh
  BY <1>2 DEF Same, Fresh
<1>4. /\ Same(t, r, {"vtun"})
      /\ \A o \in DOMAIN Fallback :
           r.vtun[o] = IF t.vtun[o] = None /\ o = "persist" THEN v ELSE t.vtun[o]
  <2>1. AreOptions(t.vtun)
    BY <1>3 DEF ParseOK
  <2> HIDE DEF v
  <2> QED
    BY <1>1, <1>3, <2>1, GeneralTakes
<1> HIDE DEF r
<1>5. /\ r.default = t.default /\ r.host = t.host /\ r.section = s.section
      /\ r.heap = s.heap /\ r.sound = s.sound /\ r.syslog = Log(s.syslog, s.section, p)
  BY <1>3, <1>4 DEF Same, Fresh, Log
<1>6. ParseHost(r) = ParseHost(t)
  BY <1>3, <1>5 DEF ParseHost
<1>7. Same(s, r, Scan \cup {"default", "host", "vtun", "syslog", "heap", "sound"})
  BY <1>2, <1>4 DEF Same
<1>8. Takes(s, r, p)
  BY <1>3, <1>4 DEF Takes
<1>9. /\ DOMAIN s.default = DOMAIN BuiltIn
      /\ s.section = "host" => DOMAIN s.host = HostFields
  BY DEF ParseOK, IsSession
<1>10. DOMAIN BuiltIn \subseteq DOMAIN ParseHost(s)
  BY <1>9 DEF ParseHost, HostFields
<1>11. \A o \in DOMAIN BuiltIn : ParseHost(r)[o] = IF o = "persist" THEN v ELSE ParseHost(s)[o]
  BY <1>2, <1>6, <1>10 DEF Puts, With
<1>12. "dev" \in DOMAIN BuiltIn
  BY DEF BuiltIn
<1>13. ParseHost(r).dev = ParseHost(s).dev
  BY <1>11, <1>12
<1>14. \A o \in DOMAIN BuiltIn :
        Field(r.heap, ParseHost(r), o) =
          IF OptionOf(o) = p[1] THEN p[2] ELSE Field(s.heap, ParseHost(s), o)
  BY <1>5, <1>11, <1>13 DEF Field, OptionOf
<1>15. s.section = "host" => r.host.name = s.host.name
  <2> SUFFICES ASSUME s.section = "host" PROVE r.host.name = s.host.name
    OBVIOUS
  <2>1. ParseHost(t) = t.host /\ ParseHost(s) = s.host /\ "name" \in DOMAIN s.host
    BY <1>3, <1>9 DEF ParseHost, HostFields
  <2> QED
    BY <1>2, <1>5, <2>1 DEF Puts, With
<1>16. s.section # "default" => r.default = s.default
  BY <1>2, <1>5 DEF Puts
<1>17. Effect(s, r, p)
  BY <1>5, <1>7, <1>8, <1>13, <1>14, <1>15, <1>16 DEF Effect
<1>18. Still(s, r)
  BY <1>2, <1>4 DEF Still, Same
<1> QED
  BY <1>17, <1>18 DEF r, t, v

\* device.
LEMMA DeviceEffect ==
  ASSUME NEW s, ParseOK(s), s.section \in {"default", "host"}, NEW p, p[1] = "device"
  PROVE  Effect(s, K_DEVICE(s, p[2]), p) /\ Still(s, K_DEVICE(s, p[2]))
<1> DEFINE name == p[2]
           r == K_DEVICE(s, name)
           n == Len(s.heap)
           t == Put(s, "dev", n + 1)
           old == ParseHost(s).dev
           freed == [i \in DOMAIN s.heap |-> [s.heap[i] EXCEPT !.live = @ /\ i # old]]
           e == [name |-> name, live |-> TRUE]
           hp == Append(freed, e)
           ok == s.sound /\ (old # 0 => s.heap[old].live)
<1>1. IsSeq(s.heap) /\ n \in Nat /\ DOMAIN s.heap = 1 .. n
  BY AppendSeq DEF ParseOK, IsHeap
<1>2. \A i \in 1 .. n : DOMAIN s.heap[i] = {"name", "live"}
  BY DEF ParseOK, IsHeap
<1>3. IsSeq(freed) /\ Len(freed) = n
  <2> DEFINE q == freed
  <2>1. DOMAIN q = 1 .. n /\ q = [i \in 1 .. n |-> q[i]]
    BY <1>1
  <2> HIDE DEF q
  <2>2. IsSeq(q) /\ Len(q) = n
    BY <1>1, <2>1, MapSeq
  <2> QED
    BY <2>2 DEF q
<1>4. \A i \in 1 .. n : /\ freed[i].name = s.heap[i].name
                        /\ freed[i].live = (s.heap[i].live /\ i # old)
  BY <1>1, <1>2
<1>5. e.name = name /\ e.live
  OBVIOUS
<1> HIDE DEF freed, e
<1>6. /\ IsSeq(hp) /\ Len(hp) = n + 1 /\ hp[n + 1] = e
      /\ \A i \in 1 .. n : hp[i] = freed[i]
  BY <1>3, AppendSeq
<1> HIDE DEF hp, t, ok
<1>7. "dev" \in DOMAIN BuiltIn
  BY DEF BuiltIn
<1>8. Puts(s, t, "dev", n + 1) /\ Same(s, t, {"default", "host"})
  BY <1>7, PutPuts DEF t
<1>9. r = [t EXCEPT !.heap = hp, !.sound = ok]
  <2>1. t.sound = s.sound
    BY <1>8 DEF Same, Fresh
  <2> QED
    BY <2>1 DEF K_DEVICE, t, hp, ok, freed, e
<1> HIDE DEF r
<1>10. Same(t, r, {"heap", "sound"}) /\ r.heap = hp /\ r.sound = ok
  BY <1>8, <1>9 DEF Same, Fresh
<1>11. /\ r.vtun = s.vtun /\ t.section = s.section /\ r.section = s.section
       /\ r.default = t.default /\ r.host = t.host /\ r.syslog = Log(s.syslog, s.section, p)
  BY <1>8, <1>10 DEF Same, Fresh, Log
<1>12. ParseHost(r) = ParseHost(t)
  BY <1>11 DEF ParseHost
<1>13. Same(s, r, Scan \cup {"default", "host", "vtun", "syslog", "heap", "sound"})
  BY <1>8, <1>10 DEF Same
<1>14. Takes(s, r, p)
  BY <1>11 DEF Takes, Fallback
<1>15. /\ DOMAIN s.default = DOMAIN BuiltIn
       /\ s.section = "host" => DOMAIN s.host = HostFields
  BY DEF ParseOK, IsSession
<1>16. DOMAIN BuiltIn \subseteq DOMAIN ParseHost(s)
  BY <1>15 DEF ParseHost, HostFields
<1>17. \A o \in DOMAIN BuiltIn : ParseHost(r)[o] = IF o = "dev" THEN n + 1 ELSE ParseHost(s)[o]
  BY <1>8, <1>12, <1>16 DEF Puts, With
<1>18. Moves(s, r, name)
  BY <1>1, <1>4, <1>5, <1>6, <1>7, <1>10, <1>17 DEF Moves, ok
<1>19. \A o \in DOMAIN BuiltIn :
        Field(r.heap, ParseHost(r), o) =
          IF OptionOf(o) = p[1] THEN p[2] ELSE Field(s.heap, ParseHost(s), o)
  <2> TAKE o \in DOMAIN BuiltIn
  <2>1. CASE o = "dev"
    <3>1. ParseHost(r).dev = n + 1 /\ n + 1 # 0 /\ r.heap[n + 1].name = name
      BY <1>1, <1>18 DEF Moves
    <3> QED
      BY <2>1, <3>1 DEF Field, OptionOf
  <2>2. CASE o # "dev"
    <3>1. o # "device"
      BY DEF BuiltIn
    <3> QED
      BY <1>17, <2>2, <3>1 DEF Field, OptionOf
  <2> QED
    BY <2>1, <2>2
<1>20. s.section = "host" => r.host.name = s.host.name
  <2> SUFFICES ASSUME s.section = "host" PROVE r.host.name = s.host.name
    OBVIOUS
  <2>1. ParseHost(t) = t.host /\ ParseHost(s) = s.host /\ "name" \in DOMAIN s.host
    BY <1>11, <1>15 DEF ParseHost, HostFields
  <2> QED
    BY <1>8, <1>11, <2>1 DEF Puts, With
<1>21. s.section # "default" => r.default = s.default
  BY <1>8, <1>11 DEF Puts
<1>22. Effect(s, r, p)
  BY <1>11, <1>13, <1>14, <1>18, <1>19, <1>20, <1>21 DEF Effect
<1>23. Still(s, r)
  BY <1>8, <1>10 DEF Still, Same
<1> QED
  BY <1>22, <1>23 DEF r

\* An option with its parameter.
LEMMA SetEffect ==
  ASSUME NEW s, ParseOK(s), s.at = "param", NEW p, p[1] = s.option
  PROVE  LET r == SetOption(s, p[2])
         IN  Effect(s, r, p) /\ r.at = "body" /\ r.start = s.start /\ r.stack = s.stack
<1> DEFINE t == [s EXCEPT !.at = "body"]
           v == p[2]
           r == SetOption(s, v)
<1>1. DOMAIN s = DOMAIN Fresh /\ PlaceOK(s)
  BY DEF ParseOK
<1>2. /\ s.section \in {"options", "default", "host"}
      /\ s.option \in OptionsOf(s.section) \ {"up"}
  BY <1>1 DEF PlaceOK
<1>3. Same(s, t, {"at"}) /\ t.at = "body"
  BY <1>1 DEF Same, Fresh
<1>4. r = CASE s.section = "options" -> SetGeneral(t, s.option, v)
            [] s.option = "device" -> K_DEVICE(t, v)
            [] s.option = "persist" -> SetGeneral(Put(t, "persist", v), "persist", v)
            [] OTHER -> Put(t, s.option, v)
  BY DEF SetOption
<1> HIDE DEF t, v, r
<1>5. /\ t.start = s.start /\ t.stack = s.stack /\ t.rest = s.rest /\ t.default = s.default
      /\ t.vtun = s.vtun /\ t.heap = s.heap /\ t.hosts = s.hosts /\ t.host = s.host
      /\ t.section = s.section
  BY <1>3 DEF Same, Fresh
<1>6. ParseOK(t)
  <2>1. PlaceOK(t)
    BY <1>2, <1>3, <1>5 DEF PlaceOK, Commands
  <2> QED
    BY <1>3, <1>5, <2>1 DEF ParseOK, Same
<1>7. Effect(t, r, p) /\ Still(t, r)
  <2>1. CASE s.section = "options"
    <3>1. s.option \in GeneralOptions /\ s.option \notin {"device", "persist"}
      BY <1>2, <2>1 DEF OptionsOf, GeneralOptions
    <3>2. r = SetGeneral(t, p[1], p[2])
      BY <1>4, <2>1, <3>1 DEF v
    <3> QED
      BY <1>5, <1>6, <2>1, <3>1, <3>2, GeneralEffect
  <2>2. CASE s.section # "options"
    <3>1. t.section \in {"default", "host"} /\ s.option \in HostOptions \ {"up"}
      BY <1>2, <1>5, <2>2 DEF OptionsOf
    <3>2. CASE s.option = "device"
      <4>1. r = K_DEVICE(t, p[2])
        BY <1>4, <2>2, <3>2 DEF v
      <4> QED
        BY <1>6, <3>1, <3>2, <4>1, DeviceEffect
    <3>3. CASE s.option = "persist"
      <4>1. r = SetGeneral(Put(t, "persist", p[2]), "persist", p[2])
        BY <1>4, <2>2, <3>3 DEF v
      <4> QED
        BY <1>6, <3>1, <3>3, <4>1, PersistEffect
    <3>4. CASE s.option \notin {"device", "persist"}
      <4>1. r = Put(t, p[1], v)
        BY <1>4, <2>2, <3>4
      <4>2. s.option \in DOMAIN BuiltIn
        BY <3>1, <3>4 DEF HostOptions, Numbers, BuiltIn
      <4> DEFINE o == p[1]
      <4>3. o \in DOMAIN BuiltIn
        BY <4>2
      <4>4. Puts(t, Put(t, o, v), o, v) /\ Same(t, Put(t, o, v), {"default", "host"})
        <5> HIDE DEF o
        <5> QED
          BY <1>6, <3>1, <4>3, PutPuts
      <4>5. Effect(t, r, p)
        BY <1>6, <3>1, <3>4, <4>1, <4>4, PutsEffect DEF v
      <4> QED
        BY <4>1, <4>4, <4>5 DEF Still, Same
    <3> QED
      BY <3>2, <3>3, <3>4
  <2> QED
    BY <2>1, <2>2
<1>8. Same(s, t, Scan) /\ Same(r, r, Scan)
  BY <1>3, <1>7 DEF Same, Scan, Still
<1>9. Effect(s, r, p)
  BY <1>7, <1>8, EffectOn
<1>10. r.at = "body" /\ r.start = s.start /\ r.stack = s.stack
  BY <1>3, <1>5, <1>7 DEF Still, Same, Fresh
<1> QED
  BY <1>9, <1>10 DEF r, v

\* In a section, before one of its options.
InBody(s) ==
  /\ s.at \in {"first", "body"} /\ s.start = "OPTION" /\ s.stack = S1 /\ ~s.crash
  /\ s.section \in {"options", "default", "host"}

\* After it.
AfterOption(s, r, p) == Effect(s, r, p) /\ r.at = "body" /\ r.start = "OPTION" /\ r.stack = S1

\* An option with a parameter: a keyword, the parameter and a ';'.
LEMMA ReadOption ==
  ASSUME NEW s, Parsing(s), Len(heap) \in Nat, InBody(s),
         NEW p, IsOption(s.section, p), p[1] # "up"
  PROVE  AfterOption(s, ParseFrom(s, Written(p)), p)
<1> DEFINE k == p[1]
           w == Param(p[1], p[2])
           a == Read(s, Word(k))
           b == Read(a, w)
           c == Read(b, Mark(";"))
<1>1. k \in OptionsOf(s.section) \ {"up"} /\ k \in Keywords
  BY DEF IsOption, OptionsOf, Keywords
<1>2. ParseFrom(s, Written(p)) = c
  <2>1. Written(p) = <<Word(k), w, Mark(";")>>
    BY DEF Written
  <2> DEFINE semi == Mark(";")
  <2> HIDE DEF k, w, semi
  <2>2. ParseFrom(s, <<Word(k), w, semi>>) = Read(b, semi)
    BY ParseThree
  <2> QED
    BY <2>1, <2>2 DEF semi
<1>3. DOMAIN s = DOMAIN Fresh
  BY DEF Parsing, ParseOK
<1>4. /\ Same(s, a, Scan) /\ a.at = "param" /\ a.option = k /\ a.start = "PARAM" /\ a.stack = S2
      /\ ParseOK(a)
  <2>1. PICK t : /\ Same(s, t, {"start", "stack"}) /\ t.start = "PARAM"
                 /\ t.stack = Append(s.stack, "OPTION") /\ a = Parsed(t, k, Word(k))
    <3> HIDE DEF k
    <3> QED
      BY <1>1, <1>3, ReadKeyword DEF InBody
  <2>2. t.at = s.at /\ t.section = s.section
    BY <2>1 DEF Same, Fresh
  <2>3. a = [t EXCEPT !.at = "param", !.option = k]
    <3> DEFINE x == Word(k)
    <3> HIDE DEF k, a, x
    <3>1. t.at \in {"first", "body"} /\ k \in OptionsOf(t.section) \ {"up"}
      BY <1>1, <2>2 DEF InBody
    <3>2. Parsed(t, k, x) = [t EXCEPT !.at = "param", !.option = k]
      BY <3>1 DEF Parsed, Commands, OptionsOf, GeneralOptions, HostOptions, Numbers
    <3> QED
      BY <2>1, <3>2 DEF x
  <2>4. ParseOK(a)
    BY ReadKeeps DEF Parsing
  <2> HIDE DEF a
  <2>5. /\ Same(s, a, Scan) /\ a.at = "param" /\ a.option = k /\ a.start = "PARAM"
        /\ a.stack = Append(s.stack, "OPTION")
    BY <2>1, <2>3 DEF Same, Scan, Fresh
  <2> QED
    BY <2>4, <2>5 DEF InBody, S2
<1>5. w.k = (IF k \in {"passwd", "device"} THEN "WORD" ELSE "NUM") /\ w.v = p[2]
  BY DEF Param, Word, Num
<1>6. ~a.crash
  BY <1>4, SameHand DEF InBody
<1> HIDE DEF a, w
<1>7. b = SetOption(a, p[2])
  <2>1. Token(a, w) = w.k /\ Scanned(a, w) = a /\ w.k # "none"
    BY <1>4, <1>5, ScanParam
  <2>2. b = Parsed(a, w.k, w)
    BY <1>4, <1>6, <2>1, ReadsOn
  <2>3. Parsed(a, w.k, w) = SetOption(a, w.v)
    BY <1>4, <1>5, ParsedParam
  <2> QED
    BY <1>5, <2>2, <2>3
<1>8. Effect(a, b, p) /\ b.at = "body" /\ b.start = "PARAM" /\ b.stack = S2
  BY <1>4, <1>7, SetEffect
<1> HIDE DEF b
<1>9. ~b.crash /\ DOMAIN b = DOMAIN Fresh
  BY <1>6, <1>8 DEF Effect, Same, Scan, Fresh
<1>10. Same(b, c, {"start", "stack"}) /\ c.start = Last(S2) /\ c.stack = Front(S2)
  BY <1>8, <1>9, ReadSemi
<1> HIDE DEF c
<1>11. Same(b, c, Scan) /\ c.at = "body" /\ c.start = "OPTION" /\ c.stack = S1
  BY <1>8, <1>10, Stacks DEF Same, Scan, Fresh
<1>12. Effect(s, c, p)
  BY <1>4, <1>8, <1>11, EffectOn
<1> QED
  BY <1>2, <1>11, <1>12 DEF AfterOption

\* In the commands of up, the first of which have been read.
InCommands(s, r, v) ==
  /\ Puts(s, r, "up", v) /\ r.at = "cmds" /\ r.start = "OPTION" /\ r.stack = S3

\* One more of them.
LEMMA ReadCommand ==
  ASSUME NEW s, s.section \in {"default", "host"}, ~s.crash, ParseOK(s),
         NEW r, Parsing(r), Len(heap) \in Nat, NEW v, InCommands(s, r, v), NEW c
  PROVE  InCommands(s, ParseFrom(r, Command(c)), Append(v, c))
<1> DEFINE t == IF c = Shell THEN "program" ELSE "ifconfig"
           a == Read(r, Word(t))
           b == Read(a, Str(c))
           d == Read(b, Mark(";"))
<1>1. ParseFrom(r, Command(c)) = d
  <2>1. Command(c) = <<Word(t), Str(c), Mark(";")>>
    BY DEF Command
  <2> DEFINE semi == Mark(";")
  <2> HIDE DEF t, semi
  <2>2. ParseFrom(r, <<Word(t), Str(c), semi>>) = Read(b, semi)
    BY ParseThree
  <2> QED
    BY <2>1, <2>2 DEF semi
<1>2. t \in Commands /\ t \in Keywords /\ (t = "program" <=> c = Shell)
  BY DEF Commands, Keywords
<1> HIDE DEF t
<1>3. DOMAIN r = DOMAIN Fresh /\ ParseOK(r)
  BY DEF Parsing, ParseOK
<1>4. r.section = s.section /\ ~r.crash
  BY DEF InCommands, Puts, Same, Scan, Fresh
<1>5. /\ Same(r, a, Scan) /\ a.at = t /\ a.start = "PARAM" /\ a.stack = S4
      /\ Parsing(a)
  <2>1. PICK x : /\ Same(r, x, {"start", "stack"}) /\ x.start = "PARAM"
                 /\ x.stack = Append(r.stack, "OPTION") /\ a = Parsed(x, t, Word(t))
    BY <1>2, <1>3, <1>4, ReadKeyword DEF InCommands
  <2>2. x.at = "cmds" /\ x.section = r.section
    BY <2>1 DEF Same, Fresh, InCommands
  <2>3. a = [x EXCEPT !.at = t]
    BY <1>2, <2>1, <2>2, ParsedCommand
  <2>4. Parsing(a)
    BY ReadKeeps
  <2> HIDE DEF a
  <2>5. /\ Same(r, a, Scan) /\ a.at = t /\ a.start = "PARAM" /\ a.stack = Append(r.stack, "OPTION")
    BY <2>1, <2>3 DEF Same, Scan, Fresh
  <2> QED
    BY <2>4, <2>5 DEF InCommands, S4
<1>6. a.section = s.section /\ ~a.crash /\ ParseHost(a) = ParseHost(r) /\ ParseOK(a)
  BY <1>4, <1>5, SameHand DEF Parsing
<1>7. ParseHost(r).up = v
  <2>1. "up" \in DOMAIN ParseHost(s)
    <3>1. /\ DOMAIN s.default = DOMAIN BuiltIn
          /\ s.section = "host" => DOMAIN s.host = HostFields
      BY DEF ParseOK, IsSession
    <3> QED
      BY <3>1 DEF ParseHost, HostFields, BuiltIn
  <2> QED
    BY <2>1 DEF InCommands, Puts, With
<1> HIDE DEF a
<1>8. /\ Puts(a, b, "up", Append(v, c)) /\ b.at = "cmds" /\ b.start = "PARAM" /\ b.stack = S4
  <2> DEFINE w == Str(c)
             p == Put(a, "up", Append(v, c))
  <2>1. w.k = "STRING" /\ w.v = c
    BY DEF Str
  <2> HIDE DEF w
  <2>2. Token(a, w) = "STRING" /\ Scanned(a, w) = a
    BY <1>5, <2>1, ScanParam
  <2>3. b = Parsed(a, "STRING", w)
    <3>1. a.at # "error"
      BY <1>2, <1>5 DEF Commands
    <3> QED
      BY <1>6, <2>2, <3>1, ReadsOn DEF w
  <2>4. b = [p EXCEPT !.at = "cmds"]
    <3>1. Parsed(a, "STRING", w) =
            [Put(a, "up", Append(ParseHost(a).up, IF a.at = "program" THEN Shell ELSE w.v))
               EXCEPT !.at = "cmds"]
      BY <1>2, <1>5, ParsedString
    <3>2. (IF a.at = "program" THEN Shell ELSE w.v) = c
      BY <1>2, <1>5, <2>1
    <3> QED
      BY <1>6, <1>7, <2>3, <3>1, <3>2
  <2>5. Puts(a, p, "up", Append(v, c)) /\ Same(a, p, {"default", "host"})
    <3>1. "up" \in DOMAIN BuiltIn
      BY DEF BuiltIn
    <3> QED
      BY <1>6, <3>1, PutPuts
  <2> HIDE DEF p, b
  <2>6. Same(p, b, Scan) /\ b.at = "cmds" /\ b.start = "PARAM" /\ b.stack = S4
    BY <1>5, <2>4, <2>5 DEF Same, Scan, Fresh
  <2>7. Same(a, a, Scan)
    BY <1>6 DEF ParseOK, Same
  <2>8. Puts(a, b, "up", Append(v, c))
    BY <2>5, <2>6, <2>7, PutsOn
  <2> QED
    BY <2>6, <2>8
<1> HIDE DEF b
<1>9. ~b.crash /\ DOMAIN b = DOMAIN Fresh
  BY <1>6, <1>8 DEF Puts, Same, Scan, Fresh
<1>10. Same(b, d, {"start", "stack"}) /\ d.start = Last(S4) /\ d.stack = Front(S4)
  BY <1>8, <1>9, ReadSemi
<1> HIDE DEF d
<1>11. Same(b, d, Scan) /\ d.at = "cmds" /\ d.start = "OPTION" /\ d.stack = S3
  BY <1>8, <1>10, Stacks DEF Same, Scan, Fresh
<1>12. Puts(r, d, "up", Append(v, c))
  BY <1>5, <1>8, <1>11, PutsOn
<1>13. Puts(s, d, "up", Append(v, c))
  BY <1>12, PutsTwice DEF InCommands
<1> QED
  BY <1>1, <1>11, <1>13 DEF InCommands

\* The '{' of a section, or of up.
LEMMA ReadOpen ==
  ASSUME NEW s, DOMAIN s = DOMAIN Fresh, s.stack \in {<<>>, S2}, s.at \in {"open", "up"}, ~s.crash
  PROVE  LET r == Read(s, Mark("{"))
         IN  /\ Same(s, r, {"start", "stack", "at"}) /\ r.start = "OPTION"
             /\ r.stack = Append(s.stack, s.start)
             /\ r.at = IF s.at = "open" THEN "first" ELSE "cmds"
<1> DEFINE w == Mark("{")
           t == Push(s, "OPTION")
           r == Read(s, w)
<1>1. w.k = "{"
  BY DEF Mark
<1> HIDE DEF w, t, r
<1>2. ~Full(s)
  BY Stacks DEF Full
<1>3. Token(s, w) = "{" /\ Scanned(s, w) = t
  BY <1>1, <1>2, ScanOpen DEF t
<1>4. r = Parsed(t, "{", w)
  BY <1>3, ReadsOn DEF r
<1>5. Same(s, t, {"start", "stack"}) /\ t.start = "OPTION" /\ t.stack = Append(s.stack, s.start)
  BY PushPop DEF t
<1>6. t.at = s.at
  BY <1>5 DEF Same, Fresh
<1>7. r = [t EXCEPT !.at = IF s.at = "open" THEN "first" ELSE "cmds"]
  <2>1. CASE s.at = "open"
    <3>1. Parsed(t, "{", w) = [t EXCEPT !.at = "first"]
      BY <1>6, <2>1 DEF Parsed, Commands
    <3> QED
      BY <1>4, <2>1, <3>1
  <2>2. CASE s.at = "up"
    <3>1. Parsed(t, "{", w) = [t EXCEPT !.at = "cmds"]
      BY <1>6, <2>2 DEF Parsed, Commands
    <3> QED
      BY <1>4, <2>2, <3>1
  <2> QED
    BY <2>1, <2>2
<1>8. /\ Same(s, r, {"start", "stack", "at"}) /\ r.start = "OPTION"
      /\ r.stack = Append(s.stack, s.start)
      /\ r.at = IF s.at = "open" THEN "first" ELSE "cmds"
  BY <1>5, <1>7 DEF Same, Fresh
<1> QED
  BY <1>8 DEF r, w

\* The '}' of up.
LEMMA ReadUpEnd ==
  ASSUME NEW s, DOMAIN s = DOMAIN Fresh, s.stack = S3, s.at = "cmds", ~s.crash
  PROVE  LET r == Read(s, Mark("}"))
         IN  /\ Same(s, r, {"start", "stack", "at"}) /\ r.start = "PARAM" /\ r.stack = S2
             /\ r.at = "body"
<1> DEFINE w == Mark("}")
           t == Pop(s)
           r == Read(s, w)
<1>1. w.k = "}"
  BY DEF Mark
<1> HIDE DEF w, t, r
<1>2. s.stack # <<>>
  BY Stacks
<1>3. Token(s, w) = "}" /\ Scanned(s, w) = t
  BY <1>1, <1>2, ScanClose DEF t
<1>4. r = Parsed(t, "}", w)
  BY <1>3, ReadsOn DEF r
<1>5. Same(s, t, {"start", "stack"}) /\ t.start = "PARAM" /\ t.stack = S2
  BY PushPop, Stacks DEF t
<1>6. t.at = "cmds"
  BY <1>5 DEF Same, Fresh
<1>7. r = [t EXCEPT !.at = "body"]
  <2>1. Parsed(t, "}", w) = [t EXCEPT !.at = "body"]
    BY <1>6 DEF Parsed, Commands
  <2> QED
    BY <1>4, <2>1
<1>8. /\ Same(s, r, {"start", "stack", "at"}) /\ r.start = "PARAM" /\ r.stack = S2
      /\ r.at = "body"
  BY <1>5, <1>7 DEF Same, Fresh
<1> QED
  BY <1>8 DEF r, w

\* "up" itself.
LEMMA ReadUpStart ==
  ASSUME NEW s, Parsing(s), InBody(s), s.section # "options", Len(heap) \in Nat
  PROVE  LET r == Read(s, Word("up"))
         IN  /\ Puts(s, r, "up", <<>>) /\ r.at = "up" /\ r.start = "PARAM" /\ r.stack = S2
             /\ ~r.crash /\ DOMAIN r = DOMAIN Fresh
<1> DEFINE k == "up"
           w == Word(k)
           a == Read(s, w)
<1>1. DOMAIN s = DOMAIN Fresh /\ k \in Keywords
  BY DEF Parsing, ParseOK, Keywords, HostOptions
<1> HIDE DEF a
<1>2. PICK t : /\ Same(s, t, {"start", "stack"}) /\ t.start = "PARAM"
               /\ t.stack = Append(s.stack, "OPTION") /\ a = Parsed(t, k, w)
  <2> HIDE DEF k
  <2> QED
    BY <1>1, ReadKeyword DEF InBody, a
<1>3. /\ t.at = s.at /\ t.section = s.section /\ t.rest = s.rest /\ t.default = s.default
      /\ t.vtun = s.vtun /\ t.heap = s.heap /\ t.hosts = s.hosts /\ t.host = s.host
      /\ t.crash = s.crash
  BY <1>2 DEF Same, Fresh
<1> DEFINE x == Put(t, "up", <<>>)
<1>4. a = [x EXCEPT !.at = "up"]
  <2> HIDE DEF w
  <2> QED
    BY <1>2, <1>3 DEF InBody, Parsed, Commands
<1>5. /\ DOMAIN t = DOMAIN Fresh /\ DOMAIN t.default = DOMAIN BuiltIn
      /\ t.section = "host" => DOMAIN t.host = HostFields
  BY <1>2, <1>3 DEF Parsing, ParseOK, IsSession, Same
<1>6. Puts(t, x, "up", <<>>) /\ Same(t, x, {"default", "host"})
  <2>1. "up" \in DOMAIN BuiltIn /\ t.section \in {"default", "host"}
    BY <1>3 DEF BuiltIn, InBody
  <2> QED
    BY <1>5, <2>1, PutFields
<1> HIDE DEF x
<1>7. Same(x, a, Scan) /\ a.at = "up" /\ a.start = "PARAM" /\ a.stack = t.stack
      /\ a.crash = t.crash
  BY <1>2, <1>4, <1>6 DEF Same, Scan, Fresh
<1>8. Same(s, t, Scan)
  BY <1>2 DEF Same, Scan
<1>9. Puts(s, a, "up", <<>>)
  BY <1>6, <1>7, <1>8, PutsOn
<1>10. t.stack = S2 /\ ~a.crash
  BY <1>2, <1>3, <1>7 DEF InBody, S2
<1> QED
  BY <1>7, <1>9, <1>10 DEF a, Same

\* The commands of up.
LEMMA ReadUp ==
  ASSUME NEW s, Parsing(s), Len(heap) \in Nat, InBody(s),
         NEW p, IsOption(s.section, p), p[1] = "up"
  PROVE  AfterOption(s, ParseFrom(s, Written(p)), p)
<1> DEFINE v == p[2]
           n == Len(v)
           cs == [i \in DOMAIN v |-> Command(v[i])]
           all == FlattenSeq(cs)
           u == Word("up")
           open == Mark("{")
           close == Mark("}")
           semi == Mark(";")
           a == Read(s, u)
           b == Read(a, open)
<1>1. s.section \in {"default", "host"} /\ IsSeq(v)
  <2>1. s.section # "options"
    BY DEF IsOption, OptionsOf, GeneralOptions
  <2> QED
    BY <2>1, ListSeq DEF InBody, IsOption
<1>2. n \in Nat /\ DOMAIN v = 1 .. n
  BY <1>1, AppendSeq
<1>3. Written(p) = Joined(Joined(<<u, open>>, all), <<close, semi>>)
  BY DEF Written, Joined
<1> HIDE DEF v, u, open, close, semi
<1>4. cs = Prefix(cs, n)
  BY <1>2 DEF Prefix
<1>5. \A i \in 1 .. n : IsSeq(cs[i]) /\ cs[i] = Command(v[i])
  <2> TAKE i \in 1 .. n
  <2>1. cs[i] = Command(v[i])
    BY <1>2
  <2>2. IsSeq(Command(v[i]))
    BY TupleSeq DEF Command
  <2> QED
    BY <2>1, <2>2
<1> HIDE DEF cs
<1>6. \A k \in 0 .. n : IsSeq(FlattenSeq(Prefix(cs, k)))
  BY <1>2, <1>5, FlattenIsSeq
<1>7. IsSeq(all)
  BY <1>2, <1>4, <1>6
<1>8. /\ Puts(s, a, "up", <<>>) /\ a.at = "up" /\ a.start = "PARAM" /\ a.stack = S2
      /\ ~a.crash /\ DOMAIN a = DOMAIN Fresh
  BY <1>1, ReadUpStart DEF u
<1>9. Parsing(a)
  BY ReadKeeps
<1> HIDE DEF a
<1>10. Parsing(b)
  BY <1>9, ReadKeeps
<1>11. /\ Same(a, b, {"start", "stack", "at"}) /\ b.start = "OPTION"
       /\ b.stack = Append(S2, "PARAM") /\ b.at = "cmds"
  BY <1>8, ReadOpen DEF open
<1> HIDE DEF b
<1>12. InCommands(s, b, <<>>)
  <2>1. Same(a, b, Scan)
    BY <1>11 DEF Same, Scan
  <2>2. Same(s, s, Scan)
    BY DEF Parsing, ParseOK, Same
  <2>3. Puts(s, b, "up", <<>>)
    BY <1>8, <2>1, <2>2, PutsOn
  <2> QED
    BY <1>11, <2>3 DEF InCommands, S3
<1> DEFINE r(k) == ParseFrom(b, FlattenSeq(Prefix(cs, k)))
           S == {k \in 0 .. n : InCommands(s, r(k), Prefix(v, k))}
<1>13. 0 \in S
  <2>1. Prefix(cs, 0) = <<>> /\ Prefix(v, 0) = <<>>
    BY PrefixSeq
  <2>2. FlattenSeq(Prefix(cs, 0)) = <<>>
    BY <2>1, FlattenNone DEF Prefix
  <2>3. r(0) = b
    BY <2>2, ParseNone
  <2> QED
    BY <1>2, <1>12, <2>1, <2>3
<1>14. ASSUME NEW k \in 0 .. n - 1, k \in S PROVE k + 1 \in S
  <2>1. k \in Nat /\ k + 1 \in 1 .. n /\ k \in 0 .. n /\ k + 1 \in 0 .. n
    BY <1>2
  <2> DEFINE t == FlattenSeq(Prefix(cs, k))
  <2>2. FlattenSeq(Prefix(cs, k + 1)) = Joined(t, Command(v[k + 1]))
    BY <1>5, <2>1, FlattenPrefix DEF Joined
  <2>3. IsSeq(t) /\ IsSeq(Command(v[k + 1]))
    BY <1>5, <1>6, <2>1
  <2>4. r(k + 1) = ParseFrom(r(k), Command(v[k + 1]))
    BY <2>2, <2>3, ParseJoined
  <2>5. Parsing(r(k))
    <3>1. Len(t) \in Nat
      BY <2>3, AppendSeq
    <3> QED
      BY <1>10, <3>1, ParseKeeps
  <2>6. InCommands(s, r(k), Prefix(v, k))
    BY <1>14
  <2>7. Prefix(v, k + 1) = Append(Prefix(v, k), v[k + 1])
    BY <2>1, PrefixStep
  <2>8. ~s.crash /\ ParseOK(s)
    BY DEF InBody, Parsing
  <2> HIDE DEF r, t
  <2>9. InCommands(s, ParseFrom(r(k), Command(v[k + 1])), Append(Prefix(v, k), v[k + 1]))
    BY <1>1, <2>5, <2>6, <2>8, ReadCommand
  <2> QED
    BY <2>1, <2>4, <2>7, <2>9
<1>15. n \in S
  <2>1. \A k \in 0 .. n : k \in S
    <3> HIDE DEF S, n
    <3> QED
      BY <1>2, <1>13, <1>14, UpTo
  <2> QED
    BY <1>2, <2>1
<1> DEFINE d == ParseFrom(b, all)
           e == Read(d, close)
           f == Read(e, semi)
<1>16. InCommands(s, d, v) /\ Parsing(d)
  <2>1. Prefix(v, n) = v
    BY <1>1, <1>2, PrefixSeq
  <2>2. r(n) = d
    BY <1>4
  <2>3. Len(all) \in Nat
    BY <1>7, AppendSeq
  <2> HIDE DEF all
  <2>4. Parsing(d)
    BY <1>10, <2>3, ParseKeeps
  <2> QED
    BY <1>15, <2>1, <2>2, <2>4
<1>17. ParseFrom(s, Written(p)) = f
  <2> DEFINE x == <<u, open>>
             y == <<close, semi>>
  <2>1. IsSeq(x) /\ IsSeq(y)
    BY TupleSeq
  <2>2. ParseFrom(s, x) = b /\ ParseFrom(d, y) = f
    BY ParseTwo DEF b, a
  <2> HIDE DEF x, y, all
  <2>3. IsSeq(Joined(x, all))
    BY <1>7, <2>1, JoinedSeq
  <2>4. ParseFrom(s, Joined(Joined(x, all), y)) = ParseFrom(ParseFrom(s, Joined(x, all)), y)
    BY <2>1, <2>3, ParseJoined
  <2>5. ParseFrom(s, Joined(x, all)) = ParseFrom(ParseFrom(s, x), all)
    BY <1>7, <2>1, ParseJoined
  <2> QED
    BY <1>3, <2>2, <2>4, <2>5 DEF x, y
<1> HIDE DEF d
<1>18. /\ Puts(s, d, "up", v) /\ d.at = "cmds" /\ d.stack = S3 /\ DOMAIN d = DOMAIN Fresh
       /\ ~d.crash
  <2>1. ~s.crash
    BY DEF InBody
  <2> QED
    BY <1>16, <2>1 DEF InCommands, Puts, Same, Scan, Fresh
<1>19. /\ Same(d, e, {"start", "stack", "at"}) /\ e.start = "PARAM" /\ e.stack = S2
       /\ e.at = "body"
  BY <1>18, ReadUpEnd DEF close
<1> HIDE DEF e
<1>20. ~e.crash /\ DOMAIN e = DOMAIN Fresh
  BY <1>18, <1>19 DEF Same, Fresh
<1>21. Same(e, f, {"start", "stack"}) /\ f.start = Last(S2) /\ f.stack = Front(S2)
  BY <1>19, <1>20, ReadSemi DEF semi
<1> HIDE DEF f
<1>22. Same(d, f, Scan) /\ f.at = "body" /\ f.start = "OPTION" /\ f.stack = S1
  BY <1>19, <1>21, Stacks DEF Same, Scan, Fresh
<1>23. Puts(s, f, "up", v)
  <2>1. Same(s, s, Scan)
    BY DEF Parsing, ParseOK, Same
  <2> QED
    BY <1>18, <1>22, <2>1, PutsOn
<1>24. Effect(s, f, p)
  <2>1. p[1] \in HostOptions \ {"device", "persist"}
    BY DEF HostOptions
  <2> QED
    BY <1>1, <1>23, <2>1, PutsEffect DEF Parsing, v
<1> QED
  BY <1>17, <1>22, <1>24 DEF AfterOption

\* An option, whichever it is.
LEMMA ReadPair ==
  ASSUME NEW s, Parsing(s), Len(heap) \in Nat, InBody(s),
         NEW p, IsOption(s.section, p)
  PROVE  AfterOption(s, ParseFrom(s, Written(p)), p)
  BY ReadOption, ReadUp

----------------------------------------------------------------------------
\* The options of a section.

\* The same after the pairs q of a section.
Given(v, section, q, o) ==
  IF v = None /\ (section = "options" <=> o # "persist") THEN FirstSaid(q, o, None) ELSE v

\* The names on the heap stay.
NamesStay(old, new) ==
  /\ Len(new) >= Len(old) /\ \A i \in 1 .. Len(old) : new[i].name = old[i].name

\* The heap after a section that names a device: the name it began with, at e,
\* is free, and the last one it gave is at d.
MovedTo(s, r, e, d) ==
  LET n == Len(s.heap)
  IN  /\ d \in n + 1 .. Len(r.heap) /\ r.heap[d].live
      /\ \A i \in 1 .. n : r.heap[i].live = (s.heap[i].live /\ i # e)
      /\ r.sound = (s.sound /\ (e # 0 => s.heap[e].live))

Moved(s, r) == MovedTo(s, r, ParseHost(s).dev, ParseHost(r).dev)

\* syslog after them.
Logs(x, section, q) == IF section = "options" THEN LastSaid(q, "syslog", x) ELSE x

\* What the pairs q do, in a section that begins in s.
Body(s, r, q) ==
  /\ Same(s, r, Scan \cup {"default", "host", "vtun", "syslog", "heap", "sound"})
  /\ \A o \in DOMAIN Fallback : r.vtun[o] = Given(s.vtun[o], s.section, q, o)
  /\ r.syslog = Logs(s.syslog, s.section, q)
  /\ NamesStay(s.heap, r.heap)
  /\ s.section # "default" => r.default = s.default
  /\ s.section = "host" => r.host.name = s.host.name
  /\ s.section = "options" => r.heap = s.heap /\ r.sound = s.sound
  /\ s.section # "options" =>
       /\ \A o \in DOMAIN BuiltIn :
            Field(r.heap, ParseHost(r), o) =
              LastSaid(q, OptionOf(o), Field(s.heap, ParseHost(s), o))
       /\ IF Places(q, "device") = {}
          THEN r.heap = s.heap /\ r.sound = s.sound /\ ParseHost(r).dev = ParseHost(s).dev
          ELSE Moved(s, r)

\* Where nothing is said.
LEMMA SaidNone ==
  ASSUME NEW option, NEW x
  PROVE  LastSaid(<<>>, option, x) = x /\ FirstSaid(<<>>, option, x) = x /\ Places(<<>>, option) = {}
<1>1. Places(<<>>, option) = {}
  BY DEF Places
<1> QED
  BY <1>1 DEF LastSaid, FirstSaid

\* A section that has just begun.
LEMMA BodyNone ==
  ASSUME NEW s, ParseOK(s)
  PROVE  Body(s, s, <<>>)
<1>1. Same(s, s, Scan \cup {"default", "host", "vtun", "syslog", "heap", "sound"})
  BY DEF Same, ParseOK
<1>2. \A o \in DOMAIN Fallback : s.vtun[o] = Given(s.vtun[o], s.section, <<>>, o)
  BY SaidNone DEF Given
<1>3. NamesStay(s.heap, s.heap)
  <2>1. Len(s.heap) \in Nat
    BY AppendSeq DEF ParseOK, IsHeap
  <2> QED
    BY <2>1 DEF NamesStay
<1>4. \A o \in DOMAIN BuiltIn :
        Field(s.heap, ParseHost(s), o) = LastSaid(<<>>, OptionOf(o), Field(s.heap, ParseHost(s), o))
  BY SaidNone
<1>5. Places(<<>>, "device") = {}
  BY SaidNone
<1>6. s.syslog = Logs(s.syslog, s.section, <<>>)
  BY SaidNone DEF Logs
<1> QED
  BY <1>1, <1>2, <1>3, <1>4, <1>5, <1>6 DEF Body

\* The general options that are set once.
LEMMA GivenStep ==
  ASSUME NEW q, NEW k \in Nat, NEW o \in DOMAIN Fallback,
         \A i \in 1 .. k : q[i][1] = o => q[i][2] # None,
         NEW v, NEW section, NEW u, u = Given(v, section, Prefix(q, k), o)
  PROVE  Given(v, section, Prefix(q, k + 1), o) =
           IF u = None /\ o = q[k + 1][1] /\ (section = "options" <=> o # "persist")
           THEN q[k + 1][2] ELSE u
<1> DEFINE p == Prefix(q, k)
           g == Prefix(q, k + 1)
           e == q[k + 1]
           yes == section = "options" <=> o # "persist"
<1>1. FirstSaid(g, o, None) = FirstSaid(p, o, IF e[1] = o THEN e[2] ELSE None)
  <2> DEFINE x == None
  <2> HIDE DEF x
  <2>1. FirstSaid(g, o, x) = FirstSaid(p, o, IF e[1] = o THEN e[2] ELSE x)
    BY ONLY k \in Nat, FirstOneMore
  <2> QED
    BY <2>1 DEF x
<1>2. \A x : IF Places(p, o) = {} THEN FirstSaid(p, o, x) = x
             ELSE FirstSaid(p, o, x) # None /\ FirstSaid(p, o, x) = FirstSaid(p, o, None)
  <2> TAKE x
  <2>1. IsSeq(p) /\ Len(p) = k /\ \A i \in 1 .. k : p[i] = q[i]
    BY PrefixSeq
  <2> HIDE DEF p
  <2>2. CASE Places(p, o) = {}
    BY <2>2 DEF FirstSaid
  <2>3. CASE Places(p, o) # {}
    <3>1. PICK i : FirstAt(p, o, i) /\ FirstSaid(p, o, x) = p[i][2]
      BY <2>1, <2>3, SaidPlace
    <3>2. FirstSaid(p, o, None) = p[i][2]
      BY <2>1, <3>1, SaidThere
    <3>3. i \in 1 .. k /\ p[i][1] = o
      BY <2>1, <3>1 DEF FirstAt
    <3>4. p[i][2] # None
      BY <2>1, <3>3
    <3> QED
      BY <2>3, <3>1, <3>2, <3>4
  <2> QED
    BY <2>2, <2>3
<1>3. u = IF v = None /\ yes THEN FirstSaid(p, o, None) ELSE v
  BY DEF Given
<1>4. Given(v, section, g, o) = IF v = None /\ yes THEN FirstSaid(g, o, None) ELSE v
  BY DEF Given
<1> HIDE DEF p, g, e, yes
<1>5. CASE v = None /\ yes
  <2>1. CASE Places(p, o) = {}
    <3>1. u = None
      BY <1>2, <1>3, <1>5, <2>1
    <3>2. Given(v, section, g, o) = IF e[1] = o THEN e[2] ELSE None
      BY <1>1, <1>2, <1>4, <1>5, <2>1
    <3>3. Given(v, section, g, o) = IF u = None /\ o = e[1] /\ yes THEN e[2] ELSE u
      BY <1>5, <3>1, <3>2
    <3> QED
      BY <3>3 DEF g, e, yes
  <2>2. CASE Places(p, o) # {}
    <3>1. u # None /\ u = FirstSaid(p, o, None)
      BY <1>2, <1>3, <1>5, <2>2
    <3>2. Given(v, section, g, o) = u
      BY <1>1, <1>2, <1>4, <1>5, <2>2, <3>1
    <3> QED
      BY <3>1, <3>2 DEF g
  <2> QED
    BY <2>1, <2>2
<1>6. CASE ~(v = None /\ yes)
  <2>1. Given(v, section, g, o) = u /\ u = v
    BY <1>3, <1>4, <1>6
  <2>2. Given(v, section, g, o) = IF u = None /\ o = e[1] /\ yes THEN e[2] ELSE u
    BY <1>6, <2>1
  <2> QED
    BY <2>2 DEF g, e, yes
<1> QED
  BY <1>5, <1>6

\* syslog, with one pair more.
LEMMA LogsStep ==
  ASSUME NEW q, NEW k \in Nat, NEW x, NEW section
  PROVE  Logs(x, section, Prefix(q, k + 1)) = Log(Logs(x, section, Prefix(q, k)), section, q[k + 1])
<1> DEFINE o == "syslog"
<1> HIDE DEF o
<1>1. LastSaid(Prefix(q, k + 1), o, x) =
        IF q[k + 1][1] = o THEN q[k + 1][2] ELSE LastSaid(Prefix(q, k), o, x)
  BY LastOneMore
<1> QED
  BY <1>1 DEF Logs, Log, o

\* The heap.
LEMMA MovedStep ==
  ASSUME NEW s, NEW r, NEW t, NEW name, Moves(r, t, name), NamesStay(s.heap, r.heap),
         Len(s.heap) \in Nat, Len(r.heap) \in Nat,
         \/ r.heap = s.heap /\ r.sound = s.sound /\ ParseHost(r).dev = ParseHost(s).dev
         \/ Moved(s, r)
  PROVE  Moved(s, t) /\ NamesStay(s.heap, t.heap)
<1> DEFINE n == Len(s.heap)
           m == Len(r.heap)
           e == ParseHost(s).dev
           d == ParseHost(r).dev
<1>1. /\ Len(t.heap) = m + 1 /\ ParseHost(t).dev = m + 1 /\ t.heap[m + 1].live
      /\ \A i \in 1 .. m : /\ t.heap[i].name = r.heap[i].name
                           /\ t.heap[i].live = (r.heap[i].live /\ i # d)
      /\ t.sound = (r.sound /\ (d # 0 => r.heap[d].live))
  BY DEF Moves
<1>2. m >= n /\ \A i \in 1 .. n : r.heap[i].name = s.heap[i].name
  BY DEF NamesStay
<1>3. CASE r.heap = s.heap /\ r.sound = s.sound /\ d = e
  <2>1. m = n
    BY <1>3
  <2> QED
    BY <1>1, <1>2, <1>3, <2>1 DEF Moved, MovedTo, NamesStay
<1>4. CASE Moved(s, r)
  <2>1. /\ d \in n + 1 .. m /\ r.heap[d].live
        /\ \A i \in 1 .. n : r.heap[i].live = (s.heap[i].live /\ i # e)
        /\ r.sound = (s.sound /\ (e # 0 => s.heap[e].live))
    BY <1>4 DEF Moved, MovedTo
  <2>2. \A i \in 1 .. n : i \in 1 .. m /\ i # d
    BY <1>2, <2>1
  <2>3. \A i \in 1 .. n : t.heap[i].live = (s.heap[i].live /\ i # e)
    BY <1>1, <2>1, <2>2
  <2>4. t.sound = (s.sound /\ (e # 0 => s.heap[e].live))
    BY <1>1, <2>1
  <2>5. NamesStay(s.heap, t.heap)
    BY <1>1, <1>2, <2>2 DEF NamesStay
  <2>6. m + 1 \in n + 1 .. m + 1
    BY <1>2
  <2> QED
    BY <1>1, <2>3, <2>4, <2>5, <2>6 DEF Moved, MovedTo
<1> QED
  BY <1>3, <1>4

\* All of it.
LEMMA BodyStep ==
  ASSUME NEW s, ParseOK(s), NEW q, NEW k \in Nat,
         NEW r, ParseOK(r), Body(s, r, Prefix(q, k)),
         \A i \in 1 .. k : q[i][1] \in DOMAIN Fallback => q[i][2] # None,
         NEW t, Effect(r, t, q[k + 1])
  PROVE  Body(s, t, Prefix(q, k + 1))
<1> DEFINE p == Prefix(q, k)
           g == Prefix(q, k + 1)
           e == q[k + 1]
<1>1. r.section = s.section
  BY DEF Body, Same, Scan, Fresh
<1>2. Same(s, t, Scan \cup {"default", "host", "vtun", "syslog", "heap", "sound"})
  BY DEF Body, Effect, Same
<1>3. \A o \in DOMAIN Fallback : t.vtun[o] = Given(s.vtun[o], s.section, g, o)
  <2> TAKE o \in DOMAIN Fallback
  <2>1. r.vtun[o] = Given(s.vtun[o], s.section, p, o)
    BY DEF Body
  <2>2. t.vtun[o] = IF r.vtun[o] = None /\ o = e[1] /\ (s.section = "options" <=> o # "persist")
                    THEN e[2] ELSE r.vtun[o]
    BY <1>1 DEF Effect, Takes
  <2>3. \A i \in 1 .. k : q[i][1] = o => q[i][2] # None
    OBVIOUS
  <2> DEFINE v == s.vtun[o]
             section == s.section
             u == r.vtun[o]
  <2>4. u = Given(v, section, p, o)
    BY <2>1
  <2> HIDE DEF v, section, u
  <2>5. Given(v, section, g, o) = IF u = None /\ o = e[1] /\ (section = "options" <=> o # "persist")
                                  THEN e[2] ELSE u
    BY <2>3, <2>4, GivenStep
  <2> QED
    BY <2>2, <2>5 DEF v, section, u
<1>4. t.syslog = Logs(s.syslog, s.section, g)
  <2> DEFINE x == s.syslog
             section == s.section
  <2>1. t.syslog = Log(Logs(x, section, p), section, e)
    BY <1>1 DEF Body, Effect
  <2> HIDE DEF x, section
  <2>2. Logs(x, section, g) = Log(Logs(x, section, p), section, e)
    BY LogsStep
  <2> QED
    BY <2>1, <2>2 DEF x, section
<1>5. s.section # "default" => t.default = s.default
  BY <1>1 DEF Body, Effect
<1>6. s.section = "host" => t.host.name = s.host.name
  BY <1>1 DEF Body, Effect
<1>7. CASE s.section = "options"
  <2>1. t.heap = s.heap /\ t.sound = s.sound /\ NamesStay(s.heap, t.heap)
    BY <1>1, <1>7 DEF Body, Effect
  <2> QED
    BY <1>2, <1>3, <1>4, <1>5, <1>6, <1>7, <2>1 DEF Body
<1>8. CASE s.section # "options"
  <2>1. \A o \in DOMAIN BuiltIn :
          Field(t.heap, ParseHost(t), o) =
            LastSaid(g, OptionOf(o), Field(s.heap, ParseHost(s), o))
    <3>0. ASSUME NEW y, NEW x
          PROVE  LastSaid(g, y, x) = IF e[1] = y THEN e[2] ELSE LastSaid(p, y, x)
      BY ONLY k \in Nat, LastOneMore
    <3> TAKE o \in DOMAIN BuiltIn
    <3> DEFINE x == Field(s.heap, ParseHost(s), o)
               y == OptionOf(o)
    <3>1. Field(r.heap, ParseHost(r), o) = LastSaid(p, y, x)
      BY <1>8 DEF Body
    <3>2. Field(t.heap, ParseHost(t), o) =
            IF y = e[1] THEN e[2] ELSE Field(r.heap, ParseHost(r), o)
      BY <1>1, <1>8 DEF Effect
    <3> HIDE DEF x, y
    <3>3. LastSaid(g, y, x) = IF e[1] = y THEN e[2] ELSE LastSaid(p, y, x)
      BY <3>0
    <3>4. Field(t.heap, ParseHost(t), o) = LastSaid(g, y, x)
      BY <3>1, <3>2, <3>3
    <3> QED
      BY <3>4 DEF x, y
  <2>2. Places(g, "device") = {} <=> Places(p, "device") = {} /\ e[1] # "device"
    <3> DEFINE y == "device"
    <3> HIDE DEF y
    <3>1. Places(g, y) = {} <=> Places(p, y) = {} /\ e[1] # y
      BY PlaceOneMore
    <3> QED
      BY <3>1 DEF y
  <2>3. CASE e[1] = "device"
    <3>1. Moves(r, t, e[2])
      BY <1>1, <1>8, <2>3 DEF Effect
    <3>2. /\ NamesStay(s.heap, r.heap)
          /\ \/ r.heap = s.heap /\ r.sound = s.sound /\ ParseHost(r).dev = ParseHost(s).dev
             \/ Moved(s, r)
      BY <1>8 DEF Body
    <3>3. Len(s.heap) \in Nat /\ Len(r.heap) \in Nat
      BY AppendSeq DEF ParseOK, IsHeap
    <3> HIDE DEF e
    <3>4. Moved(s, t) /\ NamesStay(s.heap, t.heap)
      BY <3>1, <3>2, <3>3, MovedStep
    <3> QED
      BY <1>2, <1>3, <1>4, <1>5, <1>6, <1>8, <2>1, <2>2, <2>3, <3>4 DEF Body
  <2>4. CASE e[1] # "device"
    <3>1. t.heap = r.heap /\ t.sound = r.sound /\ ParseHost(t).dev = ParseHost(r).dev
      BY <1>1, <1>8, <2>4 DEF Effect
    <3>2. NamesStay(s.heap, t.heap)
      BY <3>1 DEF Body
    <3>3. IF Places(p, "device") = {}
          THEN t.heap = s.heap /\ t.sound = s.sound /\ ParseHost(t).dev = ParseHost(s).dev
          ELSE Moved(s, t)
      BY <1>8, <3>1 DEF Body, Moved, MovedTo
    <3> QED
      BY <1>2, <1>3, <1>4, <1>5, <1>6, <1>8, <2>1, <2>2, <2>4, <3>2, <3>3 DEF Body
  <2> QED
    BY <2>3, <2>4
<1> QED
  BY <1>7, <1>8

\* What is written is a sequence.
LEMMA WrittenSeq ==
  ASSUME NEW kind, NEW p, IsOption(kind, p)
  PROVE  IsSeq(Written(p))
<1>1. CASE p[1] # "up"
  <2> DEFINE x == Word(p[1])
             y == Param(p[1], p[2])
             z == Mark(";")
  <2>1. Written(p) = <<x, y, z>>
    BY <1>1 DEF Written
  <2> HIDE DEF x, y, z
  <2>2. IsSeq(<<x, y, z>>)
    BY TupleSeq
  <2> QED
    BY <2>1, <2>2
<1>2. CASE p[1] = "up"
  <2> DEFINE v == p[2]
             n == Len(v)
             cs == [i \in DOMAIN v |-> Command(v[i])]
             all == FlattenSeq(cs)
             x == <<Word("up"), Mark("{")>>
             y == <<Mark("}"), Mark(";")>>
  <2>1. Written(p) = Joined(Joined(x, all), y)
    BY <1>2 DEF Written, Joined
  <2>2. IsSeq(v)
    BY <1>2, ListSeq DEF IsOption
  <2> HIDE DEF v
  <2>3. n \in Nat /\ DOMAIN v = 1 .. n
    BY <2>2, AppendSeq
  <2>4. cs = Prefix(cs, n)
    BY <2>3 DEF Prefix
  <2>5. \A i \in 1 .. n : IsSeq(cs[i])
    <3> TAKE i \in 1 .. n
    <3>1. cs[i] = Command(v[i])
      BY <2>3
    <3>2. IsSeq(Command(v[i]))
      BY TupleSeq DEF Command
    <3> QED
      BY <3>1, <3>2
  <2> HIDE DEF cs
  <2>6. IsSeq(all)
    <3>1. \A k \in 0 .. n : IsSeq(FlattenSeq(Prefix(cs, k)))
      BY <2>3, <2>5, FlattenIsSeq
    <3> QED
      BY <2>3, <2>4, <3>1
  <2>7. IsSeq(x) /\ IsSeq(y)
    BY TupleSeq
  <2> HIDE DEF x, y, all
  <2>8. IsSeq(Joined(Joined(x, all), y))
    BY <2>6, <2>7, JoinedSeq
  <2> QED
    BY <2>1, <2>8
<1> QED
  BY <1>1, <1>2

\* The options of a section, one after the other.
LEMMA ReadBody ==
  ASSUME NEW s, Parsing(s), Len(heap) \in Nat, InBody(s),
         NEW q, IsSeq(q), q # <<>>, \A i \in DOMAIN q : IsOption(s.section, q[i])
  PROVE  LET t == FlattenSeq([i \in DOMAIN q |-> Written(q[i])])
             r == ParseFrom(s, t)
         IN  /\ IsSeq(t) /\ Parsing(r)
             /\ Body(s, r, q) /\ r.at = "body" /\ r.start = "OPTION" /\ r.stack = S1
<1> DEFINE n == Len(q)
           ws == [i \in DOMAIN q |-> Written(q[i])]
           all == FlattenSeq(ws)
<1>1. n \in Nat /\ DOMAIN q = 1 .. n /\ n # 0
  BY AppendSeq, ConcatNone
<1>2. ws = Prefix(ws, n)
  BY <1>1 DEF Prefix
<1>3. \A i \in 1 .. n : IsSeq(ws[i]) /\ ws[i] = Written(q[i])
  <2> TAKE i \in 1 .. n
  <2>1. ws[i] = Written(q[i])
    BY <1>1
  <2>2. IsSeq(Written(q[i]))
    BY <1>1, WrittenSeq
  <2> QED
    BY <2>1, <2>2
<1> HIDE DEF ws
<1>4. \A k \in 0 .. n : IsSeq(FlattenSeq(Prefix(ws, k)))
  BY <1>1, <1>3, FlattenIsSeq
<1>5. IsSeq(all)
  BY <1>1, <1>2, <1>4
<1>6. \A i \in 1 .. n : q[i][1] \in DOMAIN Fallback => q[i][2] # None
  BY <1>1 DEF IsOption, None
<1> DEFINE r(k) == ParseFrom(s, FlattenSeq(Prefix(ws, k)))
           Good(k) == /\ Body(s, r(k), Prefix(q, k)) /\ r(k).start = "OPTION" /\ r(k).stack = S1
                      /\ r(k).at \in {"first", "body"} /\ (k # 0 => r(k).at = "body")
           S == {k \in 0 .. n : Good(k)}
<1>7. \A k \in 0 .. n : Parsing(r(k))
  <2> TAKE k \in 0 .. n
  <2> DEFINE t == FlattenSeq(Prefix(ws, k))
  <2>1. Len(t) \in Nat
    BY <1>4, AppendSeq
  <2> HIDE DEF t
  <2>2. Parsing(ParseFrom(s, t))
    BY <2>1, ParseKeeps
  <2> QED
    BY <2>2 DEF t
<1>8. 0 \in S
  <2>1. Prefix(ws, 0) = <<>> /\ Prefix(q, 0) = <<>>
    BY PrefixSeq
  <2>2. FlattenSeq(Prefix(ws, 0)) = <<>>
    BY <2>1, FlattenNone DEF Prefix
  <2>3. r(0) = s
    BY <2>2, ParseNone
  <2>4. Body(s, s, <<>>)
    BY BodyNone DEF Parsing
  <2> QED
    BY <1>1, <2>1, <2>3, <2>4 DEF InBody
<1>9. ASSUME NEW k \in 0 .. n - 1, k \in S PROVE k + 1 \in S
  <2>1. k \in Nat /\ k + 1 \in 1 .. n /\ k \in 0 .. n /\ k + 1 \in 0 .. n /\ k + 1 # 0
    BY <1>1
  <2> DEFINE t == FlattenSeq(Prefix(ws, k))
             p == q[k + 1]
             d == r(k)
             e == r(k + 1)
  <2>2. FlattenSeq(Prefix(ws, k + 1)) = Joined(t, Written(p))
    BY <1>3, <2>1, FlattenPrefix DEF Joined
  <2>3. IsSeq(t) /\ IsSeq(Written(p))
    BY <1>3, <1>4, <2>1
  <2>4. e = ParseFrom(d, Written(p))
    BY <2>2, <2>3, ParseJoined
  <2>5. Parsing(d)
    BY <1>7, <2>1
  <2>6. Good(k)
    BY <1>9
  <2>7. /\ Body(s, d, Prefix(q, k)) /\ d.start = "OPTION" /\ d.stack = S1
        /\ d.at \in {"first", "body"}
    BY <2>6
  <2> HIDE DEF d, e, r, t
  <2>8. d.section = s.section /\ d.crash = s.crash
    BY <2>7 DEF Body, Same, Scan, Fresh
  <2>9. InBody(d)
    BY <2>7, <2>8 DEF InBody
  <2>10. IsOption(d.section, p)
    BY <1>1, <2>1, <2>8
  <2> HIDE DEF p
  <2>11. AfterOption(d, e, p)
    BY <2>4, <2>5, <2>9, <2>10, ReadPair
  <2>12. Body(s, e, Prefix(q, k + 1))
    <3>1. \A i \in 1 .. k : q[i][1] \in DOMAIN Fallback => q[i][2] # None
      BY <1>1, <1>6, <2>1
    <3>2. Effect(d, e, q[k + 1])
      BY <2>11 DEF AfterOption, p
    <3>3. ParseOK(s) /\ ParseOK(d)
      BY <2>5 DEF Parsing
    <3> QED
      BY <2>1, <2>7, <3>1, <3>2, <3>3, BodyStep
  <2>13. e.at = "body" /\ e.start = "OPTION" /\ e.stack = S1
    BY <2>11 DEF AfterOption
  <2>14. Good(k + 1)
    BY <2>12, <2>13 DEF e
  <2> HIDE DEF Good
  <2> QED
    BY <2>1, <2>14
<1>10. n \in S
  <2>1. \A k \in 0 .. n : k \in S
    <3> HIDE DEF S, n
    <3> QED
      BY <1>1, <1>8, <1>9, UpTo
  <2> QED
    BY <1>1, <2>1
<1>11. Good(n) /\ Parsing(r(n))
  BY <1>1, <1>7, <1>10
<1>12. r(n) = ParseFrom(s, all) /\ Prefix(q, n) = q
  BY <1>1, <1>2, PrefixSeq
<1>13. /\ IsSeq(all) /\ Parsing(ParseFrom(s, all))
       /\ Body(s, ParseFrom(s, all), q) /\ ParseFrom(s, all).at = "body"
       /\ ParseFrom(s, all).start = "OPTION" /\ ParseFrom(s, all).stack = S1
  BY <1>1, <1>5, <1>11, <1>12
<1> QED
  BY <1>13 DEF ws

----------------------------------------------------------------------------
\* A section.

\* Between two sections.
AtTop(s) == s.at = "top" /\ s.start = "INITIAL" /\ s.stack = <<>> /\ ~s.crash

\* What a new session begins with.
Copy(default0, name) ==
  [o \in HostFields |-> CASE o = "name" -> name [] o = "passwd" -> NULL [] OTHER -> default0[o]]

\* The name of a section.
LEMMA ReadName ==
  ASSUME NEW s, ParseOK(s), AtTop(s),
         NEW name, name \in {"options", "default"} \/ name \notin Keywords
  PROVE  LET a == Read(s, Word(name))
         IN  /\ Same(s, a, {"at", "section", "host", "crash"})
             /\ a.at = "open" /\ a.section = Kind(name)
             /\ (a.crash <=> Kind(name) = "host" /\ Contains(s.default.up, Shell))
             /\ Kind(name) = "host" => a.host = Copy(s.default, name)
<1> DEFINE w == Word(name)
           a == Read(s, w)
           t == IF name \in Keywords THEN name ELSE "K_HOST"
<1>1. w.k = "WORD" /\ w.v = name /\ NameOf(w) = name
  BY DEF Word, NameOf
<1>2. DOMAIN s = DOMAIN Fresh /\ DOMAIN s.default = DOMAIN BuiltIn
  BY DEF ParseOK
<1> HIDE DEF w, a
<1>3. Token(s, w) = t /\ Scanned(s, w) = s
  BY <1>1, ScanName DEF AtTop
<1>4. t # "none" /\ (t = IF name \in {"options", "default"} THEN name ELSE "K_HOST")
  BY DEF Keywords, GeneralOptions, HostOptions, Numbers, Commands
<1> HIDE DEF t
<1>5. a = Parsed(s, t, w)
  BY <1>3, <1>4, ReadsOn DEF a, AtTop
<1>6. CASE name \in {"options", "default"}
  <2>1. Kind(name) = name /\ Kind(name) # "host" /\ t = name
    BY <1>4, <1>6 DEF Kind
  <2>2. a = [s EXCEPT !.at = "open", !.section = name]
    BY <1>5, <1>6, <2>1 DEF Parsed, Commands, AtTop
  <2>3. /\ Same(s, a, {"at", "section", "host", "crash"}) /\ a.at = "open" /\ a.section = name
        /\ a.crash = s.crash
    BY <1>2, <2>2 DEF Same, Fresh
  <2>4. ~a.crash
    BY <2>3 DEF AtTop
  <2> QED
    BY <2>1, <2>3, <2>4 DEF a, w
<1>7. CASE name \notin {"options", "default"}
  <2>1. Kind(name) = "host" /\ t = "K_HOST"
    BY <1>4, <1>7 DEF Kind
  <2> DEFINE h == [o \in DOMAIN s.default \cup {"name"} |->
                        CASE o = "name" -> name
                          [] o = "passwd" -> NULL
                          [] OTHER -> s.default[o]]
             c == s.crash \/ Contains(s.default.up, Shell)
  <2>2. h = Copy(s.default, name)
    BY <1>2 DEF Copy, HostFields
  <2>3. a = K_HOST(s, name)
    BY <1>1, <1>5, <2>1, ParsedHost DEF AtTop
  <2>4. K_HOST(s, name) = [s EXCEPT !.at = "open", !.section = "host", !.host = h, !.crash = c]
    BY DEF K_HOST
  <2> HIDE DEF h
  <2>5. c = Contains(s.default.up, Shell)
    BY DEF AtTop, Contains
  <2> HIDE DEF c
  <2>6. /\ Same(s, a, {"at", "section", "host", "crash"}) /\ a.at = "open" /\ a.section = "host"
        /\ a.crash = c /\ a.host = h
    BY <1>2, <2>3, <2>4 DEF Same, Fresh
  <2> QED
    BY <2>1, <2>2, <2>5, <2>6 DEF a, w
<1> QED
  BY <1>6, <1>7

\* The '}' at its end.
LEMMA ReadEnd ==
  ASSUME NEW s, DOMAIN s = DOMAIN Fresh, s.stack = S1, s.at = "body", ~s.crash
  PROVE  LET r == Read(s, Mark("}"))
         IN  /\ Same(s, r, {"start", "stack", "at", "section", "hosts"})
             /\ r.at = "top" /\ r.start = "INITIAL" /\ r.stack = <<>> /\ r.section = "none"
             /\ r.hosts = IF s.section = "host" /\ s.host.passwd # NULL
                          THEN Append(s.hosts, s.host) ELSE s.hosts
<1> DEFINE w == Mark("}")
           t == Pop(s)
           r == Read(s, w)
<1>1. w.k = "}"
  BY DEF Mark
<1> HIDE DEF w, t, r
<1>2. s.stack # <<>>
  BY Stacks
<1>3. Token(s, w) = "}" /\ Scanned(s, w) = t
  BY <1>1, <1>2, ScanClose DEF t
<1>4. r = Parsed(t, "}", w)
  BY <1>3, ReadsOn DEF r
<1>5. Same(s, t, {"start", "stack"}) /\ t.start = "INITIAL" /\ t.stack = <<>>
  BY PushPop, Stacks DEF t
<1>6. t.at = "body" /\ t.section = s.section /\ t.host = s.host /\ t.hosts = s.hosts
  BY <1>5 DEF Same, Fresh
<1>7. Parsed(t, "}", w) = EndOfSection(t)
  BY <1>6 DEF Parsed, Commands, OptionsOf, GeneralOptions, HostOptions, Numbers
<1> DEFINE hs == IF s.section = "host" /\ s.host.passwd # NULL
                 THEN Append(s.hosts, s.host) ELSE s.hosts
<1>8. EndOfSection(t) = [t EXCEPT !.at = "top", !.section = "none", !.hosts = hs]
  BY <1>6 DEF EndOfSection
<1> HIDE DEF hs
<1>9. /\ Same(s, r, {"start", "stack", "at", "section", "hosts"})
      /\ r.at = "top" /\ r.start = "INITIAL" /\ r.stack = <<>> /\ r.section = "none"
      /\ r.hosts = hs
  <2>1. r = [t EXCEPT !.at = "top", !.section = "none", !.hosts = hs]
    BY <1>4, <1>7, <1>8
  <2> QED
    BY <1>5, <2>1 DEF Same, Fresh
<1> QED
  BY <1>9 DEF r, w, hs

\* After a crash there is no return.
LEMMA CrashStays ==
  ASSUME NEW s, DOMAIN s = DOMAIN Fresh, s.crash, NEW text, Len(text) \in Nat
  PROVE  ParseFrom(s, text).crash /\ DOMAIN ParseFrom(s, text) = DOMAIN Fresh
<1> DEFINE n == Len(text)
<1>1. PICK f : /\ f[0] = s /\ f[n] = ParseFrom(s, text)
               /\ \A i \in 1 .. n : f[i] = Read(f[i - 1], text[i])
  BY ParseTrace
<1> DEFINE S == {k \in 0 .. n : f[k].crash /\ DOMAIN f[k] = DOMAIN Fresh}
<1>2. 0 \in S
  BY <1>1
<1>3. ASSUME NEW k \in 0 .. n - 1, k \in S PROVE k + 1 \in S
  <2>1. k + 1 \in 1 .. n /\ (k + 1) - 1 = k /\ f[k].crash /\ DOMAIN f[k] = DOMAIN Fresh
    BY <1>3
  <2>2. f[k + 1] = Read(f[k], text[k + 1])
    BY <1>1, <2>1
  <2> DEFINE x == f[k]
             w == text[k + 1]
  <2>3. x.crash /\ DOMAIN x = DOMAIN Fresh
    BY <2>1
  <2> HIDE DEF x, w
  <2>4. Read(x, w).crash /\ DOMAIN Read(x, w) = DOMAIN Fresh
    BY <2>3 DEF Read, Fresh
  <2> QED
    BY <2>1, <2>2, <2>4 DEF x, w
<1>4. \A k \in 0 .. n : k \in S
  <2>1. n \in Nat
    OBVIOUS
  <2> HIDE DEF S, n
  <2> QED
    BY <1>2, <1>3, <2>1, UpTo
<1>5. n \in 0 .. n
  OBVIOUS
<1>6. f[n].crash /\ DOMAIN f[n] = DOMAIN Fresh
  BY <1>4, <1>5
<1> QED
  BY <1>1, <1>6

\* Where the device's name is after a section that began with e: at d.
DevStep(s, r, q, e, d) ==
  IF Places(q, "device") = {} THEN r.heap = s.heap /\ r.sound = s.sound /\ d = e
  ELSE MovedTo(s, r, e, d)

\* The session h of a section with the pairs q.
NewHost(s, r, name, q, h) ==
  /\ r.hosts = IF Places(q, "passwd") = {} THEN s.hosts ELSE Append(s.hosts, h)
  /\ DOMAIN h = HostFields /\ h.name = name
  /\ \A o \in DOMAIN BuiltIn :
       Field(r.heap, h, o) =
         LastSaid(q, OptionOf(o), IF o = "passwd" THEN NULL ELSE Field(s.heap, s.default, o))
  /\ DevStep(s, r, q, s.default.dev, h.dev)

\* default_host after a section with the pairs q.
NewDefault(s, r, q) ==
  /\ \A o \in DOMAIN BuiltIn :
       Field(r.heap, r.default, o) = LastSaid(q, OptionOf(o), Field(s.heap, s.default, o))
  /\ DevStep(s, r, q, s.default.dev, r.default.dev)

\* A section.
After(s, r, kind, name, q) ==
  /\ AtTop(r) /\ r.rest = s.rest
  /\ \A o \in DOMAIN Fallback : r.vtun[o] = Given(s.vtun[o], kind, q, o)
  /\ r.syslog = Logs(s.syslog, kind, q)
  /\ NamesStay(s.heap, r.heap)
  /\ kind # "default" => r.default = s.default
  /\ kind # "host" => r.hosts = s.hosts
  /\ kind = "options" => r.heap = s.heap /\ r.sound = s.sound
  /\ kind = "default" => NewDefault(s, r, q)
  /\ kind = "host" => \E h : NewHost(s, r, name, q, h)

\* A password is there if there is one in the section.
LEMMA PasswdSaid ==
  ASSUME NEW q, IsSeq(q), NEW kind, \A i \in DOMAIN q : IsOption(kind, q[i])
  PROVE  LastSaid(q, "passwd", NULL) = NULL <=> Places(q, "passwd") = {}
<1> DEFINE o == "passwd"
           x == NULL
<1>1. \A i \in 1 .. Len(q) : q[i][1] = o => q[i][2] # x
  <2>1. DOMAIN q = 1 .. Len(q)
    BY AppendSeq
  <2> QED
    BY <2>1 DEF IsOption
<1> HIDE DEF o, x
<1>2. CASE Places(q, o) = {}
  BY <1>2 DEF LastSaid, o, x
<1>3. CASE Places(q, o) # {}
  <2>1. PICK i : LastAt(q, o, i) /\ LastSaid(q, o, x) = q[i][2]
    BY <1>3, SaidPlace
  <2>2. i \in 1 .. Len(q) /\ q[i][1] = o
    BY <2>1 DEF LastAt
  <2>3. LastSaid(q, o, x) # x
    BY <1>1, <2>1, <2>2
  <2> QED
    BY <1>3, <2>3 DEF o, x
<1> QED
  BY <1>2, <1>3

\* The fields of a new session.
LEMMA CopyField ==
  ASSUME NEW hp, NEW d, NEW name, NEW o \in DOMAIN BuiltIn
  PROVE  Field(hp, Copy(d, name), o) = IF o = "passwd" THEN NULL ELSE Field(hp, d, o)
<1> DEFINE h == Copy(d, name)
<1>1. "dev" \in HostFields /\ o \in HostFields /\ o # "name"
  BY DEF HostFields, BuiltIn
<1>2. h.dev = d.dev /\ h[o] = IF o = "passwd" THEN NULL ELSE d[o]
  BY <1>1 DEF Copy
<1> HIDE DEF h
<1>3. Field(hp, h, o) = IF o = "passwd" THEN NULL ELSE Field(hp, d, o)
  BY <1>2 DEF Field
<1> QED
  BY <1>3 DEF h

\* What the name, the options and the end of a section do, together.
LEMMA SectionAfter ==
  ASSUME NEW s, ParseOK(s), NEW kind, kind \in {"options", "default", "host"}, NEW name,
         NEW b, ParseOK(b), Same(s, b, {"at", "start", "stack", "section", "host", "crash"}),
         b.section = kind, kind = "host" => b.host = Copy(s.default, name), ~b.crash,
         NEW q, IsSeq(q), \A i \in DOMAIN q : IsOption(kind, q[i]),
         NEW d, ParseOK(d), Body(b, d, q),
         NEW r, Same(d, r, {"start", "stack", "at", "section", "hosts"}),
         r.at = "top", r.start = "INITIAL", r.stack = <<>>,
         r.hosts = IF d.section = "host" /\ d.host.passwd # NULL
                   THEN Append(d.hosts, d.host) ELSE d.hosts
  PROVE  After(s, r, kind, name, q)
<1>1. /\ b.rest = s.rest /\ b.vtun = s.vtun /\ b.heap = s.heap /\ b.sound = s.sound
      /\ b.default = s.default /\ b.hosts = s.hosts /\ b.syslog = s.syslog
  BY DEF Same, Fresh
<1>2. /\ d.rest = b.rest /\ d.hosts = b.hosts /\ d.crash = b.crash /\ d.section = b.section
  BY DEF Body, Same, Scan, Fresh
<1>3. /\ r.rest = d.rest /\ r.vtun = d.vtun /\ r.heap = d.heap /\ r.sound = d.sound
      /\ r.default = d.default /\ r.crash = d.crash /\ r.host = d.host /\ r.syslog = d.syslog
  BY DEF Same, Fresh
<1>4. AtTop(r) /\ r.rest = s.rest
  BY <1>1, <1>2, <1>3 DEF AtTop
<1>5. \A o \in DOMAIN Fallback : r.vtun[o] = Given(s.vtun[o], kind, q, o)
  BY <1>1, <1>3 DEF Body
<1>6. NamesStay(s.heap, r.heap)
  BY <1>1, <1>3 DEF Body
<1>7. kind # "default" => r.default = s.default
  BY <1>1, <1>3 DEF Body
<1>8. kind # "host" => r.hosts = s.hosts
  BY <1>1, <1>2
<1>9. kind = "options" => r.heap = s.heap /\ r.sound = s.sound
  BY <1>1, <1>3 DEF Body
<1>10. kind = "default" => NewDefault(s, r, q)
  <2> SUFFICES ASSUME kind = "default" PROVE NewDefault(s, r, q)
    OBVIOUS
  <2>1. ParseHost(b) = s.default /\ ParseHost(d) = r.default
    BY <1>1, <1>2, <1>3 DEF ParseHost
  <2>2. \A o \in DOMAIN BuiltIn :
          Field(r.heap, r.default, o) = LastSaid(q, OptionOf(o), Field(s.heap, s.default, o))
    BY <1>1, <1>3, <2>1 DEF Body
  <2>3. DevStep(s, r, q, s.default.dev, r.default.dev)
    BY <1>1, <1>3, <2>1 DEF Body, DevStep, Moved, MovedTo
  <2> QED
    BY <2>2, <2>3 DEF NewDefault
<1>11. kind = "host" => \E h : NewHost(s, r, name, q, h)
  <2> SUFFICES ASSUME kind = "host" PROVE \E h : NewHost(s, r, name, q, h)
    OBVIOUS
  <2> DEFINE h == d.host
             c == Copy(s.default, name)
  <2>1. ParseHost(b) = c /\ ParseHost(d) = h
    BY <1>2 DEF ParseHost
  <2>2. c.name = name /\ c.dev = s.default.dev
    BY DEF Copy, HostFields, BuiltIn
  <2>3. DOMAIN h = HostFields /\ h.name = name
    BY <1>2, <2>2 DEF ParseOK, IsSession, Body
  <2>4. ASSUME NEW o \in DOMAIN BuiltIn
        PROVE  Field(r.heap, h, o) =
                 LastSaid(q, OptionOf(o), IF o = "passwd" THEN NULL ELSE Field(s.heap, s.default, o))
    <3>1. Field(r.heap, h, o) = LastSaid(q, OptionOf(o), Field(s.heap, c, o))
      BY <1>1, <1>3, <2>1 DEF Body
    <3>2. Field(s.heap, c, o) = IF o = "passwd" THEN NULL ELSE Field(s.heap, s.default, o)
      <4> DEFINE hp == s.heap
                 e == s.default
      <4> HIDE DEF hp, e
      <4>1. Field(hp, Copy(e, name), o) = IF o = "passwd" THEN NULL ELSE Field(hp, e, o)
        BY CopyField
      <4> QED
        BY <4>1 DEF hp, e
    <3> QED
      BY <3>1, <3>2
  <2>5. DevStep(s, r, q, s.default.dev, h.dev)
    BY <1>1, <1>3, <2>1, <2>2 DEF Body, DevStep, Moved, MovedTo
  <2>6. h.passwd = LastSaid(q, "passwd", NULL)
    <3>1. "passwd" \in DOMAIN BuiltIn
      BY DEF BuiltIn
    <3>2. Field(r.heap, h, "passwd") = LastSaid(q, OptionOf("passwd"), NULL)
      BY <2>4, <3>1
    <3>3. Field(r.heap, h, "passwd") = h.passwd /\ OptionOf("passwd") = "passwd"
      BY DEF Field, OptionOf
    <3> QED
      BY <3>2, <3>3
  <2>7. h.passwd = NULL <=> Places(q, "passwd") = {}
    BY <2>6, PasswdSaid
  <2>8. r.hosts = IF Places(q, "passwd") = {} THEN s.hosts ELSE Append(s.hosts, h)
    BY <1>1, <1>2, <2>7
  <2> HIDE DEF h
  <2>9. NewHost(s, r, name, q, h)
    BY <2>3, <2>4, <2>5, <2>8 DEF NewHost
  <2> QED
    BY <2>9
<1>12. r.syslog = Logs(s.syslog, kind, q)
  BY <1>1, <1>3 DEF Body
<1> QED
  BY <1>4, <1>5, <1>6, <1>7, <1>8, <1>9, <1>10, <1>11, <1>12 DEF After

\* The text of a section, in three parts.
LEMMA SectionSeq ==
  ASSUME NEW sec, IsSection(sec)
  PROVE  LET all == FlattenSeq([i \in DOMAIN sec.options |-> Written(sec.options[i])])
         IN  /\ IsSeq(sec.options) /\ IsSeq(all) /\ IsSeq(Section(sec))
             /\ Section(sec) = Joined(Joined(<<Word(sec.name), Mark("{")>>, all), <<Mark("}")>>)
<1> DEFINE q == sec.options
           n == Len(q)
           ws == [i \in DOMAIN q |-> Written(q[i])]
           all == FlattenSeq(ws)
           x == <<Word(sec.name), Mark("{")>>
           y == <<Mark("}")>>
<1>1. Section(sec) = Joined(Joined(x, all), y)
  BY DEF Section, Joined
<1>2. IsSeq(q) /\ \A i \in DOMAIN q : IsOption(Kind(sec.name), q[i])
  BY ListSeq DEF IsSection
<1>3. n \in Nat /\ DOMAIN q = 1 .. n
  BY <1>2, AppendSeq
<1>4. ws = Prefix(ws, n)
  BY <1>3 DEF Prefix
<1>5. \A i \in 1 .. n : IsSeq(ws[i])
  <2> TAKE i \in 1 .. n
  <2>1. ws[i] = Written(q[i])
    BY <1>3
  <2>2. IsSeq(Written(q[i]))
    BY <1>2, <1>3, WrittenSeq
  <2> QED
    BY <2>1, <2>2
<1>6. IsSeq(all)
  <2> HIDE DEF ws
  <2>1. \A k \in 0 .. n : IsSeq(FlattenSeq(Prefix(ws, k)))
    BY <1>3, <1>5, FlattenIsSeq
  <2> QED
    BY <1>3, <1>4, <2>1
<1>7. IsSeq(x) /\ IsSeq(y)
  BY TupleSeq
<1> HIDE DEF x, y, all
<1>8. IsSeq(Joined(Joined(x, all), y))
  BY <1>6, <1>7, JoinedSeq
<1>9. IsSeq(q) /\ IsSeq(all) /\ IsSeq(Section(sec)) /\ Section(sec) = Joined(Joined(x, all), y)
  BY <1>1, <1>2, <1>6, <1>8
<1> QED
  BY <1>9 DEF x, y, all, ws

\* A section, from its name to its '}'.
LEMMA ReadSection ==
  ASSUME NEW s, Parsing(s), Len(heap) \in Nat, AtTop(s), NEW sec, IsSection(sec)
  PROVE  LET r == ParseFrom(s, Section(sec))
         IN  /\ Parsing(r)
             /\ IF Kind(sec.name) = "host" /\ Contains(s.default.up, Shell) THEN r.crash
                ELSE After(s, r, Kind(sec.name), sec.name, sec.options)
<1> DEFINE q == sec.options
           name == sec.name
           kind == Kind(name)
           all == FlattenSeq([i \in DOMAIN q |-> Written(q[i])])
           word == Word(name)
           open == Mark("{")
           close == Mark("}")
           a == Read(s, word)
           b == Read(a, open)
           d == ParseFrom(b, all)
           r == Read(d, close)
<1>1. /\ IsSeq(q) /\ IsSeq(all) /\ IsSeq(Section(sec))
      /\ Section(sec) = Joined(Joined(<<word, open>>, all), <<close>>)
  BY SectionSeq
<1>2. /\ name \in {"options", "default"} \/ name \notin Keywords
      /\ q # <<>> /\ \A i \in DOMAIN q : IsOption(kind, q[i])
      /\ kind \in {"options", "default", "host"}
  BY DEF IsSection, Kind
<1>3. Parsing(ParseFrom(s, Section(sec)))
  <2>1. Len(Section(sec)) \in Nat
    BY <1>1, AppendSeq
  <2> QED
    BY <2>1, ParseKeeps
<1> HIDE DEF word, open, close
<1>4. ParseFrom(s, Section(sec)) = r
  <2> DEFINE x == <<word, open>>
             y == <<close>>
  <2>1. IsSeq(x) /\ IsSeq(y)
    BY TupleSeq
  <2>2. ParseFrom(s, x) = b
    BY ParseTwo
  <2> HIDE DEF d, b
  <2>3. ParseFrom(d, y) = r
    BY ParseOne
  <2> HIDE DEF x, y, all, r
  <2>4. IsSeq(Joined(x, all))
    BY <1>1, <2>1, JoinedSeq
  <2>5. ParseFrom(s, Joined(Joined(x, all), y)) = ParseFrom(ParseFrom(s, Joined(x, all)), y)
    BY <2>1, <2>4, ParseJoined
  <2>6. ParseFrom(s, Joined(x, all)) = ParseFrom(ParseFrom(s, x), all)
    BY <1>1, <2>1, ParseJoined
  <2> QED
    BY <1>1, <2>2, <2>3, <2>5, <2>6 DEF x, y, d
<1>5. ParseOK(s) /\ DOMAIN s = DOMAIN Fresh
  BY DEF Parsing, ParseOK
<1> HIDE DEF all
<1>6. /\ Same(s, a, {"at", "section", "host", "crash"})
      /\ a.at = "open" /\ a.section = kind
      /\ (a.crash <=> kind = "host" /\ Contains(s.default.up, Shell))
      /\ kind = "host" => a.host = Copy(s.default, name)
  <2> HIDE DEF name
  <2> QED
    BY <1>2, <1>5, ReadName DEF word
<1>7. Parsing(a)
  BY ReadKeeps
<1> HIDE DEF a
<1>8. Parsing(b)
  BY <1>7, ReadKeeps
<1>9. CASE a.crash
  <2>1. DOMAIN a = DOMAIN Fresh
    BY <1>6 DEF Same
  <2>2. b.crash /\ DOMAIN b = DOMAIN Fresh
    BY <1>9, <2>1 DEF Read, Fresh
  <2> HIDE DEF b
  <2>3. d.crash /\ DOMAIN d = DOMAIN Fresh
    <3>1. Len(all) \in Nat
      BY <1>1, AppendSeq
    <3> QED
      BY <2>2, <3>1, CrashStays
  <2> HIDE DEF d
  <2>4. r.crash
    BY <2>3 DEF Read, Fresh
  <2> QED
    BY <1>3, <1>4, <1>6, <1>9, <2>4
<1>10. CASE ~a.crash
  <2>1. /\ Same(a, b, {"start", "stack", "at"}) /\ b.start = "OPTION" /\ b.stack = S1
        /\ b.at = "first"
    <3>1. DOMAIN a = DOMAIN Fresh /\ a.stack = <<>> /\ a.start = "INITIAL"
      BY <1>6 DEF Same, Fresh, AtTop
    <3> QED
      BY <1>6, <1>10, <3>1, ReadOpen DEF open, S1
  <2> HIDE DEF b
  <2>2. b.section = kind /\ b.crash = a.crash /\ b.host = a.host
    BY <1>6, <2>1 DEF Same, Fresh
  <2>3. InBody(b)
    BY <1>2, <1>10, <2>1, <2>2 DEF InBody
  <2>4. /\ Parsing(d) /\ Body(b, d, q) /\ d.at = "body" /\ d.start = "OPTION" /\ d.stack = S1
    <3>1. \A i \in DOMAIN q : IsOption(b.section, q[i])
      BY <1>2, <2>2
    <3> HIDE DEF q
    <3> QED
      BY <1>1, <1>2, <1>8, <2>3, <3>1, ReadBody DEF all
  <2> HIDE DEF d
  <2>5. ~d.crash /\ DOMAIN d = DOMAIN Fresh
    BY <1>10, <2>2, <2>4 DEF Body, Same, Scan, Fresh
  <2>6. /\ Same(d, r, {"start", "stack", "at", "section", "hosts"})
        /\ r.at = "top" /\ r.start = "INITIAL" /\ r.stack = <<>>
        /\ r.hosts = IF d.section = "host" /\ d.host.passwd # NULL
                     THEN Append(d.hosts, d.host) ELSE d.hosts
    BY <2>4, <2>5, ReadEnd DEF close
  <2> HIDE DEF r
  <2>7. Same(s, b, {"at", "start", "stack", "section", "host", "crash"})
    BY <1>6, <2>1 DEF Same
  <2>8. ParseOK(b) /\ ParseOK(d) /\ ~b.crash
    BY <1>8, <1>10, <2>2, <2>4 DEF Parsing
  <2>9. kind = "host" => b.host = Copy(s.default, name)
    BY <1>6, <2>2
  <2> HIDE DEF kind, name, q
  <2>10. After(s, r, kind, name, q)
    BY <1>1, <1>2, <1>5, <2>2, <2>4, <2>6, <2>7, <2>8, <2>9, SectionAfter
  <2> QED
    BY <1>3, <1>4, <1>6, <1>10, <2>10 DEF kind, name, q
<1> QED
  BY <1>9, <1>10

----------------------------------------------------------------------------
\* What the sections of a file mean: Said() and Sessions(), section by section.

\* FlattenSeq() of a function, as far as k and to the next.
LEMMA FlattenNext ==
  ASSUME NEW n \in Nat, NEW g, g = [i \in 1 .. n |-> g[i]], NEW k \in 0 .. n,
         \A i \in 1 .. n : IsSeq(g[i])
  PROVE  /\ IsSeq(FlattenSeq(Prefix(g, k)))
         /\ k < n => FlattenSeq(Prefix(g, k + 1)) = Joined(FlattenSeq(Prefix(g, k)), g[k + 1])
<1>1. k \in Nat
  OBVIOUS
<1>2. IsSeq(FlattenSeq(Prefix(g, k)))
  BY FlattenIsSeq
<1>3. ASSUME k < n
      PROVE  FlattenSeq(Prefix(g, k + 1)) = Joined(FlattenSeq(Prefix(g, k)), g[k + 1])
  <2>1. k + 1 \in 1 .. n
    BY <1>3
  <2> QED
    BY <1>1, <2>1, FlattenPrefix DEF Joined
<1> QED
  BY <1>2, <1>3

\* The sections of a file that was written without a mistake.
AreSections(ss) == IsSeq(ss) /\ \A i \in 1 .. Len(ss) : IsSection(ss[i])

\* What section i contributes to Said().
Part(ss, i, kinds) == IF Kind(ss[i].name) \in kinds THEN ss[i].options ELSE <<>>

\* It is a sequence.
LEMMA PartSeq ==
  ASSUME NEW ss, AreSections(ss), NEW i \in 1 .. Len(ss), NEW kinds
  PROVE  IsSeq(Part(ss, i, kinds))
<1>1. IsSeq(ss[i].options)
  BY ListSeq DEF AreSections, IsSection
<1>2. IsSeq(<<>>)
  BY <1>1, ConcatNone
<1> QED
  BY <1>1, <1>2 DEF Part

\* Said(), one section after the other.
LEMMA SaidStep ==
  ASSUME NEW ss, AreSections(ss), NEW k \in 0 .. Len(ss), NEW kinds
  PROVE  /\ IsSeq(Said(ss, k, kinds))
         /\ k < Len(ss) => Said(ss, k + 1, kinds) = Joined(Said(ss, k, kinds), Part(ss, k + 1, kinds))
         /\ Said(ss, 0, kinds) = <<>>
<1> DEFINE n == Len(ss)
           g == [i \in 1 .. n |-> Part(ss, i, kinds)]
<1>1. n \in Nat
  BY AppendSeq DEF AreSections
<1>2. g = [i \in 1 .. n |-> g[i]] /\ \A i \in 1 .. n : IsSeq(g[i]) /\ g[i] = Part(ss, i, kinds)
  BY PartSeq
<1>3. \A m \in 0 .. n : Said(ss, m, kinds) = FlattenSeq(Prefix(g, m))
  <2> TAKE m \in 0 .. n
  <2>1. [i \in 1 .. m |-> IF Kind(ss[i].name) \in kinds THEN ss[i].options ELSE <<>>]
          = Prefix(g, m)
    BY <1>1 DEF Prefix, Part
  <2> QED
    BY <2>1 DEF Said
<1> HIDE DEF g
<1>4. /\ IsSeq(FlattenSeq(Prefix(g, k)))
      /\ k < n => FlattenSeq(Prefix(g, k + 1)) = Joined(FlattenSeq(Prefix(g, k)), g[k + 1])
  BY <1>1, <1>2, FlattenNext
<1>5. Said(ss, 0, kinds) = <<>>
  <2>1. Prefix(g, 0) = <<>>
    BY PrefixSeq
  <2>2. FlattenSeq(Prefix(g, 0)) = <<>>
    BY <2>1, FlattenNone DEF Prefix
  <2> QED
    BY <1>1, <1>3, <2>2
<1>6. k < n => k + 1 \in 0 .. n /\ k + 1 \in 1 .. n
  BY <1>1
<1>7. k < n => Said(ss, k + 1, kinds) = Joined(Said(ss, k, kinds), Part(ss, k + 1, kinds))
  <2> SUFFICES ASSUME k < n
               PROVE  Said(ss, k + 1, kinds) = Joined(Said(ss, k, kinds), Part(ss, k + 1, kinds))
    OBVIOUS
  <2>1. k + 1 \in 0 .. n /\ k + 1 \in 1 .. n
    BY <1>6
  <2>2. Said(ss, k + 1, kinds) = FlattenSeq(Prefix(g, k + 1))
    BY <1>3, <2>1
  <2>3. Said(ss, k, kinds) = FlattenSeq(Prefix(g, k))
    BY <1>3
  <2>4. g[k + 1] = Part(ss, k + 1, kinds)
    BY <1>2, <2>1
  <2> QED
    BY <1>4, <2>2, <2>3, <2>4
<1>8. IsSeq(Said(ss, k, kinds))
  BY <1>3, <1>4
<1> QED
  BY <1>5, <1>7, <1>8

\* None of the options that are set once has None for its value, and nat_hack not NULL.
IsValued(p) == (p[1] \in DOMAIN Fallback => p[2] # None) /\ (p[1] = "nat_hack" => p[2] # NULL)
Valued(q) == \A i \in 1 .. Len(q) : IsValued(q[i])

\* So it is with two such sequences together.
LEMMA ValuedJoined ==
  ASSUME NEW p, IsSeq(p), Valued(p), NEW q, IsSeq(q), Valued(q)
  PROVE  Valued(Joined(p, q))
<1> DEFINE r == Joined(p, q)
           m == Len(p)
           n == Len(q)
<1>1. /\ Len(r) = m + n /\ m \in Nat /\ n \in Nat
      /\ \A i \in 1 .. m : r[i] = p[i]
      /\ \A i \in 1 .. n : r[m + i] = q[i]
  BY JoinedSeq
<1> HIDE DEF r
<1>2. ASSUME NEW i \in 1 .. m + n PROVE IsValued(r[i])
  <2>1. CASE i <= m
    <3>1. i \in 1 .. m
      BY <1>1, <2>1
    <3>2. r[i] = p[i]
      BY <1>1, <3>1
    <3> QED
      BY <3>1, <3>2 DEF Valued
  <2>2. CASE i > m
    <3> DEFINE j == i - m
    <3>1. j \in 1 .. n /\ m + j = i
      BY <1>1, <2>2
    <3> HIDE DEF j
    <3>2. r[i] = q[j]
      BY <1>1, <3>1
    <3> QED
      BY <3>1, <3>2 DEF Valued
  <2> QED
    BY <1>1, <2>1, <2>2
<1>3. Valued(r)
  BY <1>1, <1>2 DEF Valued
<1> QED
  BY <1>3 DEF r

\* So it is with what a section says.
LEMMA PartValued ==
  ASSUME NEW ss, AreSections(ss), NEW i \in 1 .. Len(ss), NEW kinds
  PROVE  Valued(Part(ss, i, kinds))
<1> DEFINE q == ss[i].options
<1>1. IsSeq(q) /\ \A j \in DOMAIN q : IsOption(Kind(ss[i].name), q[j])
  BY ListSeq DEF AreSections, IsSection
<1>2. DOMAIN q = 1 .. Len(q)
  BY <1>1, AppendSeq
<1>3. Valued(q)
  BY <1>1, <1>2 DEF Valued, IsValued, IsOption, None
<1>4. Valued(<<>>)
  <2>1. Len(<<>>) = 0
    OBVIOUS
  <2> QED
    BY <2>1 DEF Valued
<1> QED
  BY <1>3, <1>4 DEF Part

\* So it is with what the first k sections say.
LEMMA SaidValued ==
  ASSUME NEW ss, AreSections(ss), NEW kinds
  PROVE  \A k \in 0 .. Len(ss) : Valued(Said(ss, k, kinds))
<1> DEFINE n == Len(ss)
           S == {k \in 0 .. n : Valued(Said(ss, k, kinds))}
<1>1. n \in Nat
  BY AppendSeq DEF AreSections
<1>2. 0 \in S
  <2>1. Said(ss, 0, kinds) = <<>> /\ Len(<<>>) = 0
    BY <1>1, SaidStep
  <2> QED
    BY <1>1, <2>1 DEF Valued
<1>3. ASSUME NEW k \in 0 .. n - 1, k \in S PROVE k + 1 \in S
  <2>1. k \in 0 .. n /\ k < n /\ k + 1 \in 1 .. n /\ k + 1 \in 0 .. n
    BY <1>1
  <2>2. /\ IsSeq(Said(ss, k, kinds))
        /\ Said(ss, k + 1, kinds) = Joined(Said(ss, k, kinds), Part(ss, k + 1, kinds))
    BY <2>1, SaidStep
  <2>3. IsSeq(Part(ss, k + 1, kinds)) /\ Valued(Part(ss, k + 1, kinds))
    BY <2>1, PartSeq, PartValued
  <2>4. Valued(Said(ss, k + 1, kinds))
    BY <1>3, <2>2, <2>3, ValuedJoined
  <2> QED
    BY <2>1, <2>4
<1>4. \A k \in 0 .. n : k \in S
  <2> HIDE DEF S, n
  <2> QED
    BY <1>1, <1>2, <1>3, UpTo
<1> QED
  BY <1>4

\* So the first of them does not depend on what there would be without it.
LEMMA ValuedFirst ==
  ASSUME NEW q, IsSeq(q), Valued(q), NEW o \in DOMAIN Fallback, NEW x
  PROVE  IF FirstSaid(q, o, None) = None THEN FirstSaid(q, o, x) = x
         ELSE FirstSaid(q, o, x) = FirstSaid(q, o, None)
<1>1. CASE Places(q, o) = {}
  BY <1>1 DEF FirstSaid
<1>2. CASE Places(q, o) # {}
  <2>1. PICK i : FirstAt(q, o, i) /\ FirstSaid(q, o, x) = q[i][2]
    BY <1>2, SaidPlace
  <2>2. FirstSaid(q, o, None) = q[i][2]
    BY <2>1, SaidThere
  <2>3. i \in 1 .. Len(q) /\ q[i][1] = o
    BY <2>1 DEF FirstAt
  <2>4. q[i][2] # None
    BY <2>3 DEF Valued, IsValued
  <2> QED
    BY <2>1, <2>2, <2>4
<1> QED
  BY <1>1, <1>2

\* What section i contributes to Sessions().
SessionPart(earlier, ss, i, ignored) ==
  IF Kind(ss[i].name) = "host" /\ Places(ss[i].options, "passwd") # {}
  THEN <<SessionOf(earlier, ss, i, ignored)>> ELSE <<>>

\* Sessions(), one section after the other.
LEMMA SessionsStep ==
  ASSUME NEW ss, NEW earlier, NEW k \in Nat, NEW ignored
  PROVE  /\ IsSeq(Sessions(earlier, ss, k, ignored))
         /\ Sessions(earlier, ss, k + 1, ignored) =
              Joined(Sessions(earlier, ss, k, ignored), SessionPart(earlier, ss, k + 1, ignored))
         /\ Sessions(earlier, ss, 0, ignored) = <<>>
<1> DEFINE n == k + 1
           g == [i \in 1 .. n |-> SessionPart(earlier, ss, i, ignored)]
           all(m) == Sessions(earlier, ss, m, ignored)
<1>1. n \in Nat /\ k \in 0 .. n /\ k < n
  OBVIOUS
<1> HIDE DEF n
<1>2. g = [i \in 1 .. n |-> g[i]]
  OBVIOUS
<1>9. \A i \in 1 .. n : IsSeq(g[i]) /\ g[i] = SessionPart(earlier, ss, i, ignored)
  <2> TAKE i \in 1 .. n
  <2>1. g[i] = SessionPart(earlier, ss, i, ignored)
    OBVIOUS
  <2> DEFINE e == SessionOf(earlier, ss, i, ignored)
  <2>2. SessionPart(earlier, ss, i, ignored) \in {<<e>>, <<>>}
    BY DEF SessionPart
  <2> HIDE DEF e, g
  <2>3. IsSeq(<<e>>)
    BY TupleSeq
  <2>4. IsSeq(<<>>)
    BY <2>3, ConcatNone
  <2> QED
    BY <2>1, <2>2, <2>3, <2>4
<1>3. \A m \in 0 .. n : all(m) = FlattenSeq(Prefix(g, m))
  <2> TAKE m \in 0 .. n
  <2>0. \A i \in 1 .. m : i \in 1 .. n
    BY <1>1
  <2>1. [i \in 1 .. m |->
           IF Kind(ss[i].name) = "host" /\ Places(ss[i].options, "passwd") # {}
           THEN <<SessionOf(earlier, ss, i, ignored)>> ELSE <<>>] = Prefix(g, m)
    BY <2>0 DEF Prefix, SessionPart
  <2> QED
    BY <2>1 DEF Sessions
<1> HIDE DEF g
<1>4. /\ IsSeq(FlattenSeq(Prefix(g, k)))
      /\ k < n => FlattenSeq(Prefix(g, k + 1)) = Joined(FlattenSeq(Prefix(g, k)), g[k + 1])
  BY <1>1, <1>2, <1>9, FlattenNext
<1>5. all(0) = <<>>
  <2>1. Prefix(g, 0) = <<>>
    BY PrefixSeq
  <2>2. FlattenSeq(Prefix(g, 0)) = <<>>
    BY <2>1, FlattenNone DEF Prefix
  <2>3. 0 \in 0 .. n
    BY <1>1
  <2> QED
    BY <1>3, <2>2, <2>3
<1>7. all(k + 1) = Joined(all(k), SessionPart(earlier, ss, k + 1, ignored))
  <2>1. k + 1 \in 0 .. n /\ k + 1 \in 1 .. n
    BY <1>1
  <2>2. all(k + 1) = FlattenSeq(Prefix(g, k + 1))
    BY <1>3, <2>1
  <2>3. all(k) = FlattenSeq(Prefix(g, k))
    BY <1>1, <1>3
  <2>4. g[k + 1] = SessionPart(earlier, ss, k + 1, ignored)
    BY <1>9, <2>1
  <2> HIDE DEF all
  <2> QED
    BY <1>1, <1>4, <2>2, <2>3, <2>4
<1>8. IsSeq(all(k))
  BY <1>1, <1>3, <1>4
<1> QED
  BY <1>5, <1>7, <1>8

\* A general option that is set once after the first k sections.
KindsOf(o) == IF o = "persist" THEN {"default", "host"} ELSE {"options"}
GivenIn(v, ss, k, o) == IF v # None THEN v ELSE FirstSaid(Said(ss, k, KindsOf(o)), o, None)

\* One section more.
LEMMA GivenInStep ==
  ASSUME NEW ss, AreSections(ss), NEW k \in 0 .. Len(ss), k < Len(ss),
         NEW o \in DOMAIN Fallback, NEW v
  PROVE  GivenIn(v, ss, k + 1, o) =
           Given(GivenIn(v, ss, k, o), Kind(ss[k + 1].name), ss[k + 1].options, o)
<1> DEFINE kinds == KindsOf(o)
           kind == Kind(ss[k + 1].name)
           q == ss[k + 1].options
           p == Said(ss, k, kinds)
           g == Said(ss, k + 1, kinds)
           part == Part(ss, k + 1, kinds)
           u == GivenIn(v, ss, k, o)
<1>1. k + 1 \in 1 .. Len(ss)
  BY AppendSeq DEF AreSections
<1>2. IsSeq(p) /\ g = Joined(p, part) /\ Valued(p) /\ IsSeq(part)
  BY <1>1, SaidStep, SaidValued, PartSeq
<1>3. kind \in {"options", "default", "host"}
  BY DEF Kind
<1>4. kind \in kinds <=> (kind = "options" <=> o # "persist")
  BY <1>3 DEF KindsOf
<1>5. part = IF kind \in kinds THEN q ELSE <<>>
  BY DEF Part
<1>6. u = IF v # None THEN v ELSE FirstSaid(p, o, None)
  BY DEF GivenIn
<1>7. GivenIn(v, ss, k + 1, o) = IF v # None THEN v ELSE FirstSaid(g, o, None)
  BY DEF GivenIn
<1>8. Given(u, kind, q, o) =
        IF u = None /\ (kind = "options" <=> o # "persist") THEN FirstSaid(q, o, None) ELSE u
  BY DEF Given
<1> HIDE DEF kinds, kind, q, p, g, part, u
<1>9. FirstSaid(g, o, None) = FirstSaid(p, o, FirstSaid(part, o, None))
  <2>1. FirstSaid(Joined(p, part), o, None) = FirstSaid(p, o, FirstSaid(part, o, None))
    <3> DEFINE x == None
    <3> HIDE DEF x
    <3>1. FirstSaid(Joined(p, part), o, x) = FirstSaid(p, o, FirstSaid(part, o, x))
      BY <1>2, SaidTwice
    <3> QED
      BY <3>1 DEF x
  <2> QED
    BY <1>2, <2>1
<1>10. kind \notin kinds => FirstSaid(part, o, None) = None
  BY <1>5, SaidNone
<1>11. \A x : IF FirstSaid(p, o, None) = None THEN FirstSaid(p, o, x) = x
              ELSE FirstSaid(p, o, x) = FirstSaid(p, o, None)
  BY <1>2, ValuedFirst
<1>12. IF FirstSaid(p, o, None) = None THEN FirstSaid(g, o, None) = FirstSaid(part, o, None)
       ELSE FirstSaid(g, o, None) = FirstSaid(p, o, None)
  BY <1>9, <1>11
<1>13. GivenIn(v, ss, k + 1, o) = Given(u, kind, q, o)
  <2>1. CASE v # None
    BY <1>6, <1>7, <1>8, <2>1
  <2>2. CASE v = None /\ FirstSaid(p, o, None) # None
    BY <1>6, <1>7, <1>8, <1>12, <2>2
  <2>3. CASE v = None /\ FirstSaid(p, o, None) = None /\ kind \in kinds
    BY <1>4, <1>5, <1>6, <1>7, <1>8, <1>12, <2>3
  <2>4. CASE v = None /\ FirstSaid(p, o, None) = None /\ kind \notin kinds
    BY <1>4, <1>6, <1>7, <1>8, <1>10, <1>12, <2>4
  <2> QED
    BY <2>1, <2>2, <2>3, <2>4
<1> QED
  BY <1>13 DEF u, kind, q

\* What default_host brings from the files before.
Inherited(earlier, o) ==
  IF o = "up" THEN <<>> ELSE IF o = "passwd" THEN NULL
  ELSE LastSaid(earlier, OptionOf(o), IF o = "dev" THEN NULL ELSE BuiltIn[o])

\* default_host after the first k sections.
DefaultIn(hp, h, earlier, ss, k) ==
  \A o \in DOMAIN BuiltIn :
    Field(hp, h, o) = LastSaid(Said(ss, k, {"default"}), OptionOf(o), Inherited(earlier, o))

\* The value of an option that is said in three places.
LEMMA SaidThrice ==
  ASSUME NEW p, IsSeq(p), NEW q, IsSeq(q), NEW r, IsSeq(r), NEW option, NEW x
  PROVE  LastSaid(p \o (q \o r), option, x) =
           LastSaid(r, option, LastSaid(q, option, LastSaid(p, option, x)))
<1> DEFINE j == Joined(q, r)
<1>1. IsSeq(j)
  BY JoinedSeq
<1>2. \A y : LastSaid(j, option, y) = LastSaid(r, option, LastSaid(q, option, y))
  BY SaidTwice
<1>3. p \o (q \o r) = Joined(p, j)
  BY DEF Joined
<1> HIDE DEF j
<1>4. LastSaid(Joined(p, j), option, x) = LastSaid(j, option, LastSaid(p, option, x))
  BY <1>1, SaidTwice
<1> QED
  BY <1>2, <1>3, <1>4

\* nat_hack is never NULL.
LEMMA HackSaid ==
  ASSUME NEW q, IsSeq(q), Valued(q), NEW x, x # NULL
  PROVE  LastSaid(q, "nat_hack", x) # NULL
<1> DEFINE o == "nat_hack"
<1>1. \A i \in 1 .. Len(q) : q[i][1] = o => q[i][2] # NULL
  BY DEF Valued, IsValued
<1> HIDE DEF o
<1>2. CASE Places(q, o) = {}
  BY <1>2 DEF LastSaid, o
<1>3. CASE Places(q, o) # {}
  <2>1. PICK i : LastAt(q, o, i) /\ LastSaid(q, o, x) = q[i][2]
    BY <1>3, SaidPlace
  <2>2. i \in 1 .. Len(q) /\ q[i][1] = o
    BY <2>1 DEF LastAt
  <2> QED
    BY <1>1, <2>1, <2>2 DEF o
<1> QED
  BY <1>2, <1>3

\* The fields of SessionOf().
LEMMA SessionFields ==
  ASSUME NEW ss, AreSections(ss), NEW k \in 0 .. Len(ss), k < Len(ss),
         NEW earlier, IsSeq(earlier), Valued(earlier), NEW ignored
  PROVE  LET own == ss[k + 1].options
             e == SessionOf(earlier, ss, k + 1, ignored)
             was(o) == LastSaid(own, OptionOf(o), IF o = "passwd" THEN NULL
                         ELSE LastSaid(Said(ss, k, {"default"}), OptionOf(o), Inherited(earlier, o)))
         IN  /\ DOMAIN e = HostFields /\ e.name = ss[k + 1].name
             /\ \A o \in DOMAIN BuiltIn \ {"nat_hack"} : e[o] = was(o)
             /\ e.nat_hack = (IF was("nat_hack") = ignored THEN "no" ELSE was("nat_hack"))
             /\ was("nat_hack") # NULL
<1> DEFINE own == ss[k + 1].options
           i == k + 1
           p == Said(ss, k, {"default"})
           here == p \o own
           ever == earlier \o here
           hack == LastSaid(ever, "nat_hack", BuiltIn.nat_hack)
           e == SessionOf(earlier, ss, i, ignored)
           was(o) == LastSaid(own, OptionOf(o), IF o = "passwd" THEN NULL
                       ELSE LastSaid(p, OptionOf(o), Inherited(earlier, o)))
           f(o) == CASE o = "name" -> ss[i].name
                     [] o = "passwd" -> LastSaid(own, "passwd", NULL)
                     [] o = "up" -> LastSaid(here, "up", <<>>)
                     [] o = "dev" -> LastSaid(ever, "device", NULL)
                     [] o = "nat_hack" -> IF hack = ignored THEN "no" ELSE hack
                     [] OTHER -> LastSaid(ever, o, BuiltIn[o])
<1>1. Len(ss) \in Nat /\ i - 1 = k /\ i \in 1 .. Len(ss)
  BY AppendSeq DEF AreSections
<1>2. IsSeq(own) /\ IsSeq(p)
  BY <1>1, ListSeq, SaidStep DEF AreSections, IsSection
<1>3. e = [o \in DOMAIN BuiltIn \cup {"name"} |-> f(o)]
  BY <1>1 DEF SessionOf
<1> DEFINE D == DOMAIN BuiltIn
<1>4. D = {"passwd", "dev", "up", "timeout", "persist", "nat_hack"}
  BY DEF BuiltIn
<1> HIDE DEF D, hack, here, ever, p
<1>5. DOMAIN e = HostFields /\ \A o \in D \cup {"name"} : e[o] = f(o)
  <2> HIDE DEF f, e
  <2> QED
    BY <1>3 DEF HostFields, D
<1> HIDE DEF e, i
<1>6. e.name = ss[i].name
  BY <1>5
<1>7. e.passwd = was("passwd")
  BY <1>4, <1>5 DEF OptionOf
<1>8. e.up = was("up")
  <2>1. e.up = LastSaid(here, "up", <<>>)
    BY <1>4, <1>5
  <2>2. was("up") = LastSaid(own, "up", LastSaid(p, "up", <<>>))
    BY DEF OptionOf, Inherited
  <2>3. LastSaid(Joined(p, own), "up", <<>>) = LastSaid(own, "up", LastSaid(p, "up", <<>>))
    <3> DEFINE x == <<>>
               o == "up"
    <3> HIDE DEF x, o, own
    <3>1. LastSaid(Joined(p, own), o, x) = LastSaid(own, o, LastSaid(p, o, x))
      BY <1>2, SaidTwice
    <3> QED
      BY <3>1 DEF x, o
  <2> HIDE DEF was
  <2> QED
    BY <2>1, <2>2, <2>3 DEF here, Joined
<1>9. ASSUME NEW option, NEW x
      PROVE  LastSaid(ever, option, x) =
               LastSaid(own, option, LastSaid(p, option, LastSaid(earlier, option, x)))
  <2> HIDE DEF own
  <2>1. LastSaid(earlier \o (p \o own), option, x) =
          LastSaid(own, option, LastSaid(p, option, LastSaid(earlier, option, x)))
    BY <1>2, SaidThrice
  <2> QED
    BY <2>1 DEF ever, here
<1>10. e.dev = was("dev")
  <2>1. e.dev = LastSaid(ever, "device", NULL)
    BY <1>4, <1>5
  <2>2. was("dev") = LastSaid(own, "device", LastSaid(p, "device", LastSaid(earlier, "device", NULL)))
    BY DEF OptionOf, Inherited
  <2>3. LastSaid(ever, "device", NULL) =
          LastSaid(own, "device", LastSaid(p, "device", LastSaid(earlier, "device", NULL)))
    BY <1>9
  <2> HIDE DEF was
  <2> QED
    BY <2>1, <2>2, <2>3
<1>11. ASSUME NEW o \in {"timeout", "persist"} PROVE e[o] = was(o)
  <2>1. e[o] = LastSaid(ever, o, BuiltIn[o])
    BY <1>4, <1>5
  <2>2. was(o) = LastSaid(own, o, LastSaid(p, o, LastSaid(earlier, o, BuiltIn[o])))
    BY DEF OptionOf, Inherited
  <2>3. LastSaid(ever, o, BuiltIn[o]) =
          LastSaid(own, o, LastSaid(p, o, LastSaid(earlier, o, BuiltIn[o])))
    BY <1>9
  <2> HIDE DEF was
  <2> QED
    BY <2>1, <2>2, <2>3
<1>12. hack = was("nat_hack")
  <2>1. was("nat_hack") =
          LastSaid(own, "nat_hack", LastSaid(p, "nat_hack", LastSaid(earlier, "nat_hack", BuiltIn.nat_hack)))
    BY DEF OptionOf, Inherited
  <2>2. hack =
          LastSaid(own, "nat_hack", LastSaid(p, "nat_hack", LastSaid(earlier, "nat_hack", BuiltIn.nat_hack)))
    BY <1>9 DEF hack
  <2> HIDE DEF was
  <2> QED
    BY <2>1, <2>2
<1>13. e.nat_hack = IF hack = ignored THEN "no" ELSE hack
  BY <1>4, <1>5
<1>14. hack # NULL
  <2>1. Valued(own)
    <3>1. Valued(Part(ss, i, {Kind(ss[i].name)}))
      BY <1>1, PartValued
    <3>2. Part(ss, i, {Kind(ss[i].name)}) = own
      BY DEF Part, i
    <3> QED
      BY <3>1, <3>2
  <2>2. Valued(p)
    BY SaidValued DEF p
  <2>3. BuiltIn.nat_hack # NULL
    BY DEF BuiltIn, NULL
  <2> DEFINE x == BuiltIn.nat_hack
             y == LastSaid(earlier, "nat_hack", x)
             z == LastSaid(p, "nat_hack", y)
  <2> HIDE DEF x, own
  <2>4. y # NULL
    BY <2>3, HackSaid DEF x
  <2> HIDE DEF y
  <2>5. z # NULL
    BY <1>2, <2>2, <2>4, HackSaid
  <2> HIDE DEF z
  <2>6. LastSaid(own, "nat_hack", z) # NULL
    BY <1>2, <2>1, <2>5, HackSaid
  <2> QED
    BY <1>9, <2>6 DEF x, y, z, hack
<1>15. \A o \in D \ {"nat_hack"} : e[o] = was(o)
  <2> HIDE DEF was
  <2> QED
    BY <1>4, <1>7, <1>8, <1>10, <1>11
<1> HIDE DEF was
<1>16. /\ DOMAIN e = HostFields /\ e.name = ss[i].name
       /\ \A o \in D \ {"nat_hack"} : e[o] = was(o)
       /\ e.nat_hack = (IF was("nat_hack") = ignored THEN "no" ELSE was("nat_hack"))
       /\ was("nat_hack") # NULL
  BY <1>5, <1>6, <1>12, <1>13, <1>14, <1>15
<1> QED
  BY <1>16 DEF e, was, D, i, p

----------------------------------------------------------------------------
\* The sections of a file, from s to r: the sessions, default_host, the options.

\* A session as it is shown.
LEMMA ShownField ==
  ASSUME NEW hp, NEW h, DOMAIN h = HostFields
  PROVE  /\ DOMAIN ShownIn(hp, h) = HostFields /\ ShownIn(hp, h).name = h.name
         /\ \A o \in DOMAIN BuiltIn : ShownIn(hp, h)[o] = Field(hp, h, o)
         /\ ShownIn(hp, h) = [o \in HostFields |-> ShownIn(hp, h)[o]]
<1>1. "name" \in HostFields /\ "dev" \in HostFields /\ "name" \notin DOMAIN BuiltIn
      /\ DOMAIN BuiltIn \subseteq HostFields
  BY DEF HostFields, BuiltIn
<1> DEFINE d == IF h.dev = 0 THEN NULL ELSE hp[h.dev].name
           g == [h EXCEPT !.dev = d]
<1>2. ShownIn(hp, h) = g
  BY DEF ShownIn
<1>3. \A o \in DOMAIN BuiltIn : Field(hp, h, o) = IF o = "dev" THEN d ELSE h[o]
  BY DEF Field
<1> HIDE DEF d
<1>4. /\ DOMAIN g = HostFields /\ g = [o \in HostFields |-> g[o]]
      /\ \A o \in HostFields : g[o] = IF o = "dev" THEN d ELSE h[o]
  BY <1>1
<1> HIDE DEF g
<1> QED
  BY <1>1, <1>2, <1>3, <1>4

\* A new session is as SessionOf() has it.
LEMMA HostShown ==
  ASSUME NEW ss, AreSections(ss), NEW k \in 0 .. Len(ss), k < Len(ss),
         NEW earlier, IsSeq(earlier), Valued(earlier),
         NEW s, DefaultIn(s.heap, s.default, earlier, ss, k),
         NEW r, NEW h, NewHost(s, r, ss[k + 1].name, ss[k + 1].options, h)
  PROVE  ShownIn(r.heap, h) = SessionOf(earlier, ss, k + 1, NULL)
<1> DEFINE own == ss[k + 1].options
           e == SessionOf(earlier, ss, k + 1, NULL)
           was(o) == LastSaid(own, OptionOf(o), IF o = "passwd" THEN NULL
                       ELSE LastSaid(Said(ss, k, {"default"}), OptionOf(o), Inherited(earlier, o)))
           g == ShownIn(r.heap, h)
<1>1. /\ DOMAIN e = HostFields /\ e.name = ss[k + 1].name
      /\ \A o \in DOMAIN BuiltIn \ {"nat_hack"} : e[o] = was(o)
      /\ e.nat_hack = (IF was("nat_hack") = NULL THEN "no" ELSE was("nat_hack"))
      /\ was("nat_hack") # NULL
  <2> DEFINE x == NULL
  <2> HIDE DEF x
  <2>1. LET own1 == ss[k + 1].options
            e1 == SessionOf(earlier, ss, k + 1, x)
            was1(o) == LastSaid(own1, OptionOf(o), IF o = "passwd" THEN NULL
                         ELSE LastSaid(Said(ss, k, {"default"}), OptionOf(o), Inherited(earlier, o)))
         IN  /\ DOMAIN e1 = HostFields /\ e1.name = ss[k + 1].name
             /\ \A o \in DOMAIN BuiltIn \ {"nat_hack"} : e1[o] = was1(o)
             /\ e1.nat_hack = (IF was1("nat_hack") = x THEN "no" ELSE was1("nat_hack"))
             /\ was1("nat_hack") # NULL
    BY SessionFields
  <2> QED
    BY <2>1 DEF x
<1>2. \A o \in DOMAIN BuiltIn : Field(r.heap, h, o) = was(o)
  BY DEF NewHost, DefaultIn
<1>3. DOMAIN h = HostFields /\ h.name = ss[k + 1].name
  BY DEF NewHost
<1>4. /\ DOMAIN g = HostFields /\ g.name = h.name
      /\ \A o \in DOMAIN BuiltIn : g[o] = Field(r.heap, h, o)
      /\ g = [o \in HostFields |-> g[o]]
  <2> DEFINE hp == r.heap
  <2> HIDE DEF hp
  <2>1. /\ DOMAIN ShownIn(hp, h) = HostFields /\ ShownIn(hp, h).name = h.name
        /\ \A o \in DOMAIN BuiltIn : ShownIn(hp, h)[o] = Field(hp, h, o)
        /\ ShownIn(hp, h) = [o \in HostFields |-> ShownIn(hp, h)[o]]
    BY <1>3, ShownField
  <2> QED
    BY <2>1 DEF hp
<1>5. e = [o \in HostFields |-> e[o]]
  <2>1. e = [o \in DOMAIN e |-> e[o]]
    BY DEF SessionOf
  <2> QED
    BY <1>1, <2>1
<1>6. "nat_hack" \in DOMAIN BuiltIn
  BY DEF BuiltIn
<1> HIDE DEF e, was, g, own
<1>7. e.nat_hack = was("nat_hack")
  BY <1>1
<1>8. \A o \in DOMAIN BuiltIn : e[o] = g[o]
  BY <1>1, <1>2, <1>4, <1>7
<1>9. \A o \in HostFields : e[o] = g[o]
  BY <1>1, <1>3, <1>4, <1>8 DEF HostFields
<1>10. e = g
  BY <1>4, <1>5, <1>9
<1> QED
  BY <1>10 DEF e, g

\* It is shown so as long as the names stay.
LEMMA ShownStays ==
  ASSUME NEW old, Len(old) \in Nat, NEW new, NamesStay(old, new), NEW h, IsSession(h, Len(old))
  PROVE  ShownIn(new, h) = ShownIn(old, h)
<1>1. h.dev \in 0 .. Len(old)
  BY DEF IsSession
<1>2. h.dev # 0 => new[h.dev].name = old[h.dev].name
  BY <1>1 DEF NamesStay
<1> QED
  BY <1>2 DEF ShownIn

\* The list is as Sessions() has it.
Shows(hp, list, all) ==
  /\ IsSeq(all) /\ Len(list) = Len(all)
  /\ \A i \in 1 .. Len(list) : ShownIn(hp, list[i]) = all[i]

\* The first k sections.
Filed(s, r, earlier, ss, k) ==
  /\ AtTop(r) /\ r.rest = s.rest
  /\ \A o \in DOMAIN Fallback : r.vtun[o] = GivenIn(s.vtun[o], ss, k, o)
  /\ r.syslog = LastSaid(Said(ss, k, {"options"}), "syslog", s.syslog)
  /\ NamesStay(s.heap, r.heap)
  /\ DefaultIn(r.heap, r.default, earlier, ss, k)
  /\ Shows(r.heap, r.hosts, Sessions(earlier, ss, k, NULL))

\* One section more.
LEMMA FiledHosts ==
  ASSUME NEW ss, AreSections(ss), NEW k \in 0 .. Len(ss), k < Len(ss),
         NEW earlier, IsSeq(earlier), Valued(earlier),
         NEW r, ParseOK(r), DefaultIn(r.heap, r.default, earlier, ss, k),
         Shows(r.heap, r.hosts, Sessions(earlier, ss, k, NULL)),
         NEW t, ParseOK(t), After(r, t, Kind(ss[k + 1].name), ss[k + 1].name, ss[k + 1].options)
  PROVE  Shows(t.heap, t.hosts, Sessions(earlier, ss, k + 1, NULL))
<1> DEFINE n == Len(ss)
           all == Sessions(earlier, ss, k, NULL)
           new == Sessions(earlier, ss, k + 1, NULL)
           e == SessionOf(earlier, ss, k + 1, NULL)
           one == <<e>>
           part == SessionPart(earlier, ss, k + 1, NULL)
           q == ss[k + 1].options
           kind == Kind(ss[k + 1].name)
<1>1. n \in Nat /\ k \in Nat
  BY AppendSeq DEF AreSections
<1>2. IsSeq(all) /\ new = Joined(all, part)
  <2> DEFINE x == NULL
  <2> HIDE DEF x, n
  <2>1. /\ IsSeq(Sessions(earlier, ss, k, x))
        /\ Sessions(earlier, ss, k + 1, x) =
             Joined(Sessions(earlier, ss, k, x), SessionPart(earlier, ss, k + 1, x))
    BY <1>1, SessionsStep
  <2> QED
    BY <2>1 DEF x
<1>3. /\ IsSeq(r.hosts) /\ Len(r.heap) \in Nat /\ Len(r.hosts) \in Nat
      /\ \A i \in 1 .. Len(r.hosts) : IsSession(r.hosts[i], Len(r.heap))
  BY AppendSeq DEF ParseOK, IsHeap, AreHosts
<1>4. NamesStay(r.heap, t.heap)
  BY DEF After
<1>5. Len(r.hosts) = Len(all) /\ \A i \in 1 .. Len(r.hosts) : ShownIn(t.heap, r.hosts[i]) = all[i]
  <2>1. ASSUME NEW i \in 1 .. Len(r.hosts) PROVE ShownIn(t.heap, r.hosts[i]) = ShownIn(r.heap, r.hosts[i])
    <3> DEFINE old == r.heap
               now == t.heap
               h == r.hosts[i]
    <3>1. Len(old) \in Nat /\ NamesStay(old, now) /\ IsSession(h, Len(old))
      BY <1>3, <1>4
    <3> HIDE DEF old, now, h
    <3>2. ShownIn(now, h) = ShownIn(old, h)
      BY <3>1, ShownStays
    <3> QED
      BY <3>2 DEF old, now, h
  <2> QED
    BY <2>1 DEF Shows
<1>6. part = IF kind = "host" /\ Places(q, "passwd") # {} THEN one ELSE <<>>
  BY DEF SessionPart
<1>7. kind # "host" => t.hosts = r.hosts
  BY DEF After
<1>8. kind = "host" => \E h : NewHost(r, t, ss[k + 1].name, q, h)
  BY DEF After
<1> HIDE DEF all, new, part
<1>9. CASE t.hosts = r.hosts /\ part = <<>>
  <2>1. new = all
    BY <1>2, <1>9, ConcatNone DEF Joined
  <2> QED
    BY <1>2, <1>5, <1>9, <2>1 DEF Shows, new
<1>10. CASE kind = "host" /\ Places(q, "passwd") # {}
  <2>1. PICK h : NewHost(r, t, ss[k + 1].name, q, h)
    BY <1>8, <1>10
  <2>2. ShownIn(t.heap, h) = e
    BY <2>1, HostShown
  <2>3. t.hosts = Append(r.hosts, h)
    BY <1>10, <2>1 DEF NewHost
  <2>4. part = one
    BY <1>6, <1>10
  <2> DEFINE m == Len(r.hosts)
             a == Append(r.hosts, h)
  <2>5. Len(a) = m + 1 /\ a[m + 1] = h /\ \A i \in 1 .. m : a[i] = r.hosts[i]
    BY <1>3, AppendSeq
  <2>6. IsSeq(one) /\ Len(one) = 1 /\ one[1] = e
    <3> HIDE DEF e
    <3> QED
      BY TupleSeq
  <2> HIDE DEF one, e, a
  <2>7. /\ IsSeq(new) /\ Len(new) = Len(all) + 1
        /\ \A i \in 1 .. Len(all) : new[i] = all[i]
        /\ new[Len(all) + 1] = e
    <3>1. /\ IsSeq(Joined(all, one)) /\ Len(Joined(all, one)) = Len(all) + Len(one)
          /\ \A i \in 1 .. Len(all) : Joined(all, one)[i] = all[i]
          /\ \A i \in 1 .. Len(one) : Joined(all, one)[Len(all) + i] = one[i]
      <4>1. IsSeq(all) /\ IsSeq(one)
        BY <1>2, <2>6
      <4> QED
        BY <4>1, JoinedSeq
    <3> QED
      BY <1>2, <2>4, <2>6, <3>1
  <2>8. \A i \in 1 .. m + 1 : i \in 1 .. m \/ i = m + 1
    BY <1>3
  <2>9. Len(t.hosts) = m + 1 /\ m = Len(all)
    BY <1>5, <2>3, <2>5 DEF a
  <2>10. ASSUME NEW i \in 1 .. m + 1 PROVE ShownIn(t.heap, t.hosts[i]) = new[i]
    <3>1. CASE i \in 1 .. m
      BY <1>5, <2>3, <2>5, <2>7, <2>9, <3>1 DEF a
    <3>2. CASE i = m + 1
      BY <2>2, <2>3, <2>5, <2>7, <2>9, <3>2 DEF a
    <3> QED
      BY <2>8, <3>1, <3>2
  <2> QED
    BY <2>7, <2>9, <2>10 DEF Shows, new
<1>11. CASE kind = "host" /\ Places(q, "passwd") = {}
  <2>1. t.hosts = r.hosts
    BY <1>8, <1>11 DEF NewHost
  <2> QED
    BY <1>6, <1>9, <1>11, <2>1
<1>12. CASE kind # "host"
  BY <1>6, <1>7, <1>9, <1>12
<1> QED
  BY <1>10, <1>11, <1>12

\* The names stay, over two steps.
LEMMA NamesStayOn ==
  ASSUME NEW a, NEW b, NEW c, Len(a) \in Nat, Len(b) \in Nat, Len(c) \in Nat,
         NamesStay(a, b), NamesStay(b, c)
  PROVE  NamesStay(a, c)
  BY DEF NamesStay

\* default_host, when it stays and the names do.
LEMMA DefaultStays ==
  ASSUME NEW old, Len(old) \in Nat, NEW new, NamesStay(old, new), NEW h, h.dev \in 0 .. Len(old),
         NEW o
  PROVE  Field(new, h, o) = Field(old, h, o)
<1>1. h.dev # 0 => new[h.dev].name = old[h.dev].name
  BY DEF NamesStay
<1> QED
  BY <1>1 DEF Field

\* default_host after one section more.
LEMMA FiledDefault ==
  ASSUME NEW ss, AreSections(ss), NEW k \in 0 .. Len(ss), k < Len(ss), NEW earlier,
         NEW r, ParseOK(r), DefaultIn(r.heap, r.default, earlier, ss, k),
         NEW t, ParseOK(t), After(r, t, Kind(ss[k + 1].name), ss[k + 1].name, ss[k + 1].options)
  PROVE  DefaultIn(t.heap, t.default, earlier, ss, k + 1)
<1> DEFINE kinds == {"default"}
           kind == Kind(ss[k + 1].name)
           q == ss[k + 1].options
           p == Said(ss, k, kinds)
           g == Said(ss, k + 1, kinds)
           part == Part(ss, k + 1, kinds)
<1>0. k + 1 \in 1 .. Len(ss)
  BY AppendSeq DEF AreSections
<1> SUFFICES ASSUME NEW o \in DOMAIN BuiltIn
             PROVE  Field(t.heap, t.default, o) = LastSaid(g, OptionOf(o), Inherited(earlier, o))
  BY DEF DefaultIn
<1> DEFINE x == Inherited(earlier, o)
           option == OptionOf(o)
<1>1. Field(r.heap, r.default, o) = LastSaid(p, option, x)
  BY DEF DefaultIn
<1>2. part = IF kind = "default" THEN q ELSE <<>>
  BY DEF Part
<1>3. kind = "default" => NewDefault(r, t, q)
  BY DEF After
<1>4. kind # "default" => t.default = r.default
  BY DEF After
<1>5. NamesStay(r.heap, t.heap)
  BY DEF After
<1>6. Len(r.heap) \in Nat /\ r.default.dev \in 0 .. Len(r.heap)
  BY AppendSeq DEF ParseOK, IsHeap
<1> HIDE DEF kinds, kind, q, x, option
<1>7. IsSeq(p) /\ g = Joined(p, part) /\ IsSeq(part)
  BY <1>0, SaidStep, PartSeq
<1> HIDE DEF p, g, part
<1>8. LastSaid(g, option, x) = LastSaid(part, option, LastSaid(p, option, x))
  BY <1>7, SaidTwice
<1>9. Field(t.heap, t.default, o) = LastSaid(g, option, x)
  <2>1. CASE kind = "default"
    <3>1. Field(t.heap, t.default, o) = LastSaid(q, option, Field(r.heap, r.default, o))
      BY <1>3, <2>1 DEF NewDefault, option
    <3> QED
      BY <1>1, <1>2, <1>8, <2>1, <3>1
  <2>2. CASE kind # "default"
    <3> DEFINE old == r.heap
               now == t.heap
               h == r.default
    <3>1. Len(old) \in Nat /\ NamesStay(old, now) /\ h.dev \in 0 .. Len(old)
      BY <1>5, <1>6
    <3> HIDE DEF old, now, h
    <3>2. Field(now, h, o) = Field(old, h, o)
      BY <3>1, DefaultStays
    <3>3. Field(t.heap, t.default, o) = Field(r.heap, r.default, o)
      BY <1>4, <2>2, <3>2 DEF old, now, h
    <3>4. LastSaid(part, option, LastSaid(p, option, x)) = LastSaid(p, option, x)
      BY <1>2, <2>2, SaidNone
    <3> QED
      BY <1>1, <1>8, <3>3, <3>4
  <2> QED
    BY <2>1, <2>2
<1> QED
  BY <1>9 DEF option, x, g, kinds

\* syslog after one section more.
LEMMA FiledLog ==
  ASSUME NEW ss, AreSections(ss), NEW k \in 0 .. Len(ss), k < Len(ss), NEW x
  PROVE  LastSaid(Said(ss, k + 1, {"options"}), "syslog", x) =
           Logs(LastSaid(Said(ss, k, {"options"}), "syslog", x), Kind(ss[k + 1].name), ss[k + 1].options)
<1> DEFINE kinds == {"options"}
           o == "syslog"
           p == Said(ss, k, kinds)
           g == Said(ss, k + 1, kinds)
           part == Part(ss, k + 1, kinds)
<1>1. k + 1 \in 1 .. Len(ss)
  BY AppendSeq DEF AreSections
<1>2. part = IF Kind(ss[k + 1].name) = "options" THEN ss[k + 1].options ELSE <<>>
  BY DEF Part
<1> HIDE DEF kinds, o
<1>3. IsSeq(p) /\ g = Joined(p, part) /\ IsSeq(part)
  BY <1>1, SaidStep, PartSeq
<1> HIDE DEF p, g, part
<1>4. LastSaid(g, o, x) = LastSaid(part, o, LastSaid(p, o, x))
  BY <1>3, SaidTwice
<1>5. LastSaid(<<>>, o, LastSaid(p, o, x)) = LastSaid(p, o, x)
  BY SaidNone
<1> QED
  BY <1>2, <1>4, <1>5 DEF Logs, o, g, p, kinds

\* All of it.
LEMMA FiledStep ==
  ASSUME NEW ss, AreSections(ss), NEW k \in 0 .. Len(ss), k < Len(ss),
         NEW earlier, IsSeq(earlier), Valued(earlier),
         NEW s, ParseOK(s), NEW r, ParseOK(r), Filed(s, r, earlier, ss, k),
         NEW t, ParseOK(t), After(r, t, Kind(ss[k + 1].name), ss[k + 1].name, ss[k + 1].options)
  PROVE  Filed(s, t, earlier, ss, k + 1)
<1>1. AtTop(t) /\ t.rest = s.rest
  BY DEF After, Filed
<1>2. \A o \in DOMAIN Fallback : t.vtun[o] = GivenIn(s.vtun[o], ss, k + 1, o)
  <2> TAKE o \in DOMAIN Fallback
  <2>1. t.vtun[o] = Given(r.vtun[o], Kind(ss[k + 1].name), ss[k + 1].options, o)
    BY DEF After
  <2>2. r.vtun[o] = GivenIn(s.vtun[o], ss, k, o)
    BY DEF Filed
  <2> DEFINE v == s.vtun[o]
  <2> HIDE DEF v
  <2>3. GivenIn(v, ss, k + 1, o) =
          Given(GivenIn(v, ss, k, o), Kind(ss[k + 1].name), ss[k + 1].options, o)
    BY GivenInStep
  <2> QED
    BY <2>1, <2>2, <2>3 DEF v
<1>3. NamesStay(s.heap, t.heap)
  <2> DEFINE a == s.heap
             b == r.heap
             c == t.heap
  <2>1. Len(a) \in Nat /\ Len(b) \in Nat /\ Len(c) \in Nat
    BY AppendSeq DEF ParseOK, IsHeap
  <2>2. NamesStay(a, b) /\ NamesStay(b, c)
    BY DEF Filed, After
  <2> HIDE DEF a, b, c
  <2>3. NamesStay(a, c)
    BY <2>1, <2>2, NamesStayOn
  <2> QED
    BY <2>3 DEF a, c
<1>4. DefaultIn(r.heap, r.default, earlier, ss, k)
      /\ Shows(r.heap, r.hosts, Sessions(earlier, ss, k, NULL))
  BY DEF Filed
<1>5. DefaultIn(t.heap, t.default, earlier, ss, k + 1)
  BY <1>4, FiledDefault
<1>6. Shows(t.heap, t.hosts, Sessions(earlier, ss, k + 1, NULL))
  BY <1>4, FiledHosts
<1>7. t.syslog = LastSaid(Said(ss, k + 1, {"options"}), "syslog", s.syslog)
  <2> DEFINE x == s.syslog
  <2>1. /\ r.syslog = LastSaid(Said(ss, k, {"options"}), "syslog", x)
        /\ t.syslog = Logs(r.syslog, Kind(ss[k + 1].name), ss[k + 1].options)
    BY DEF Filed, After
  <2> HIDE DEF x
  <2>2. LastSaid(Said(ss, k + 1, {"options"}), "syslog", x) =
          Logs(LastSaid(Said(ss, k, {"options"}), "syslog", x), Kind(ss[k + 1].name), ss[k + 1].options)
    BY FiledLog
  <2> QED
    BY <2>1, <2>2 DEF x
<1> QED
  BY <1>1, <1>2, <1>3, <1>5, <1>6, <1>7 DEF Filed

\* Before the first section.
LEMMA FiledNone ==
  ASSUME NEW ss, AreSections(ss), NEW earlier, IsSeq(earlier),
         NEW s, ParseOK(s), AtTop(s), s.hosts = <<>>,
         \A o \in DOMAIN BuiltIn : Field(s.heap, s.default, o) = Inherited(earlier, o)
  PROVE  Filed(s, s, earlier, ss, 0)
<1>1. 0 \in 0 .. Len(ss) /\ 0 \in Nat
  BY AppendSeq DEF AreSections
<1>2. /\ Said(ss, 0, {"default"}) = <<>> /\ Said(ss, 0, {"options"}) = <<>>
      /\ \A o : Said(ss, 0, KindsOf(o)) = <<>>
  <2>1. \A kinds : Said(ss, 0, kinds) = <<>>
    BY <1>1, SaidStep
  <2> QED
    BY <2>1
<1>3. \A o \in DOMAIN Fallback : s.vtun[o] = GivenIn(s.vtun[o], ss, 0, o)
  <2> TAKE o \in DOMAIN Fallback
  <2>1. FirstSaid(<<>>, o, None) = None
    BY SaidNone
  <2> QED
    BY <1>2, <2>1 DEF GivenIn
<1>4. DefaultIn(s.heap, s.default, earlier, ss, 0)
  <2> SUFFICES ASSUME NEW o \in DOMAIN BuiltIn
               PROVE  Field(s.heap, s.default, o) =
                        LastSaid(Said(ss, 0, {"default"}), OptionOf(o), Inherited(earlier, o))
    BY DEF DefaultIn
  <2> DEFINE x == Inherited(earlier, o)
             option == OptionOf(o)
  <2> HIDE DEF x, option
  <2>1. LastSaid(<<>>, option, x) = x
    BY SaidNone
  <2> QED
    BY <1>2, <2>1 DEF x, option
<1>5. Shows(s.heap, s.hosts, Sessions(earlier, ss, 0, NULL))
  <2> DEFINE x == NULL
  <2> HIDE DEF x
  <2>1. IsSeq(Sessions(earlier, ss, 0, x)) /\ Sessions(earlier, ss, 0, x) = <<>>
    BY <1>1, SessionsStep
  <2>2. Len(<<>>) = 0
    OBVIOUS
  <2> QED
    BY <2>1, <2>2 DEF Shows, x
<1>6. NamesStay(s.heap, s.heap)
  BY AppendSeq DEF NamesStay, ParseOK, IsHeap
<1>7. s.syslog = LastSaid(Said(ss, 0, {"options"}), "syslog", s.syslog)
  BY <1>2, SaidNone
<1> QED
  BY <1>3, <1>4, <1>5, <1>6, <1>7 DEF Filed

----------------------------------------------------------------------------
\* The device names.

\* A default section has named a device, before the file or in its first k sections.
NamedIn(ss, k, before) == before \/ \E j \in 1 .. k : DefaultNames(ss, j)

\* A session has the name of default_host, if there is one.
Lends(r) == \E i \in 1 .. Len(r.hosts) : r.hosts[i].dev = r.default.dev /\ r.default.dev # 0

\* The heap after the first k sections.
HeapIn(s, r, ss, k, before) ==
  /\ r.sound
  /\ r.default.dev # 0 <=> NamedIn(ss, k, before)
  /\ r.default.dev # 0 => r.heap[r.default.dev].live
  /\ \A i \in 1 .. Len(r.hosts) : r.hosts[i].dev # 0 => r.heap[r.hosts[i].dev].live
  /\ Lends(r) => \E i \in 1 .. k : Kind(ss[i].name) = "host" /\ NamedIn(ss, i - 1, before)
  /\ Len(r.heap) >= Len(s.heap)
  /\ \A i \in 1 .. Len(s.heap) :
       s.heap[i].live => r.heap[i].live \/ \E j \in 1 .. k : DefaultNames(ss, j)

\* Neither the heap nor default_host nor the list changes.
LEMMA HeapQuiet ==
  ASSUME NEW ss, NEW k \in Nat, NEW before, NEW s, NEW r, HeapIn(s, r, ss, k, before),
         NEW t, t.heap = r.heap, t.sound = r.sound, t.default.dev = r.default.dev,
         t.hosts = r.hosts, ~DefaultNames(ss, k + 1)
  PROVE  HeapIn(s, t, ss, k + 1, before)
<1>1. \A j : j \in 1 .. k + 1 <=> j \in 1 .. k \/ j = k + 1
  OBVIOUS
<1>2. (\E j \in 1 .. k + 1 : DefaultNames(ss, j)) <=> \E j \in 1 .. k : DefaultNames(ss, j)
  BY <1>1
<1>3. NamedIn(ss, k + 1, before) <=> NamedIn(ss, k, before)
  BY <1>2 DEF NamedIn
<1>4. Lends(t) <=> Lends(r)
  BY DEF Lends
<1>5. Lends(t) => \E i \in 1 .. k + 1 : Kind(ss[i].name) = "host" /\ NamedIn(ss, i - 1, before)
  BY <1>1, <1>4 DEF HeapIn
<1> QED
  BY <1>2, <1>3, <1>5 DEF HeapIn

\* The default section k + 1 names a device.
LEMMA HeapDefault ==
  ASSUME NEW ss, Len(ss) \in Nat, NEW k \in 0 .. Len(ss), k < Len(ss), DOMAIN ss = 1 .. Len(ss),
         NEW before, ~SharedIn(ss, before),
         NEW s, NEW r, ParseOK(r), HeapIn(s, r, ss, k, before), Len(s.heap) \in Nat,
         NEW t, ParseOK(t), NamesStay(r.heap, t.heap), t.hosts = r.hosts,
         MovedTo(r, t, r.default.dev, t.default.dev), DefaultNames(ss, k + 1)
  PROVE  HeapIn(s, t, ss, k + 1, before)
<1> DEFINE n == Len(r.heap)
           old == r.default.dev
           new == t.default.dev
<1>1. n \in Nat /\ Len(t.heap) \in Nat /\ Len(r.hosts) \in Nat
  BY AppendSeq DEF ParseOK, IsHeap, AreHosts
<1>2. \A i \in 1 .. Len(r.hosts) : r.hosts[i].dev \in 0 .. n
  BY DEF ParseOK, AreHosts, IsSession
<1>3. /\ new \in n + 1 .. Len(t.heap) /\ t.heap[new].live
      /\ \A i \in 1 .. n : t.heap[i].live = (r.heap[i].live /\ i # old)
      /\ t.sound = (r.sound /\ (old # 0 => r.heap[old].live))
  BY DEF MovedTo
<1>4. k + 1 \in 1 .. k + 1 /\ k \in Nat
  OBVIOUS
<1>5. ~Lends(r)
  <2> SUFFICES ASSUME Lends(r) PROVE FALSE
    OBVIOUS
  <2>1. PICK i \in 1 .. k : Kind(ss[i].name) = "host" /\ NamedIn(ss, i - 1, before)
    BY DEF HeapIn
  <2>2. i \in DOMAIN ss /\ k + 1 \in i + 1 .. Len(ss)
    OBVIOUS
  <2> QED
    BY <2>1, <2>2 DEF SharedIn, NamedIn
<1>6. \A i \in 1 .. Len(r.hosts) : r.hosts[i].dev # 0 => r.hosts[i].dev # old
  BY <1>5 DEF Lends
<1>7. t.sound
  BY <1>3 DEF HeapIn
<1> HIDE DEF n, old, new
<1>8. \A i \in 1 .. Len(t.hosts) : t.hosts[i].dev # 0 => t.heap[t.hosts[i].dev].live
  <2> SUFFICES ASSUME NEW i \in 1 .. Len(r.hosts), r.hosts[i].dev # 0
               PROVE  t.heap[r.hosts[i].dev].live
    OBVIOUS
  <2>1. r.hosts[i].dev \in 1 .. n
    BY <1>1, <1>2
  <2>2. r.heap[r.hosts[i].dev].live
    BY DEF HeapIn
  <2> QED
    BY <1>3, <1>6, <2>1, <2>2
<1>9. ~Lends(t)
  <2>1. \A i \in 1 .. Len(r.hosts) : r.hosts[i].dev # new
    BY <1>1, <1>2, <1>3
  <2> QED
    BY <2>1 DEF Lends, new
<1>10. new # 0
  BY <1>1, <1>3
<1>11. NamedIn(ss, k + 1, before) /\ \E j \in 1 .. k + 1 : DefaultNames(ss, j)
  BY <1>4 DEF NamedIn
<1>12. Len(t.heap) >= Len(s.heap)
  BY <1>1 DEF HeapIn, NamesStay, n
<1> QED
  BY <1>3, <1>7, <1>8, <1>9, <1>10, <1>11, <1>12 DEF HeapIn, new

\* The session of section k + 1 gets the name of default_host, or its own.
LEMMA HeapHost ==
  ASSUME NEW ss, Len(ss) \in Nat, NEW k \in 0 .. Len(ss), k < Len(ss), DOMAIN ss = 1 .. Len(ss),
         NEW before, ~SharedIn(ss, before), Kind(ss[k + 1].name) = "host",
         NEW s, NEW r, ParseOK(r), HeapIn(s, r, ss, k, before), Len(s.heap) \in Nat,
         NEW t, ParseOK(t), NamesStay(r.heap, t.heap), t.default = r.default,
         NEW h, NewHost(r, t, ss[k + 1].name, ss[k + 1].options, h)
  PROVE  HeapIn(s, t, ss, k + 1, before)
<1> DEFINE n == Len(r.heap)
           old == r.default.dev
           q == ss[k + 1].options
           m == Len(r.hosts)
<1>1. n \in Nat /\ Len(t.heap) \in Nat /\ m \in Nat /\ IsSeq(r.hosts) /\ old \in 0 .. n
  BY AppendSeq DEF ParseOK, IsHeap, AreHosts
<1>2. \A i \in 1 .. m : r.hosts[i].dev \in 0 .. n
  BY DEF ParseOK, AreHosts, IsSession
<1>3. k + 1 \in DOMAIN ss /\ (k + 1) - 1 = k /\ k \in Nat /\ k + 1 \in 1 .. k + 1
  OBVIOUS
<1>4. \A j : j \in 1 .. k + 1 <=> j \in 1 .. k \/ j = k + 1
  BY <1>3
<1>5. ~DefaultNames(ss, k + 1)
  BY DEF DefaultNames
<1>6. (\E j \in 1 .. k + 1 : DefaultNames(ss, j)) <=> \E j \in 1 .. k : DefaultNames(ss, j)
  BY <1>4, <1>5
<1>7. NamedIn(ss, k + 1, before) <=> NamedIn(ss, k, before)
  BY <1>6 DEF NamedIn
<1>8. Places(q, "device") # {} => old = 0
  <2> SUFFICES ASSUME Places(q, "device") # {}, NamedIn(ss, k, before) PROVE FALSE
    BY DEF HeapIn
  <2> QED
    BY <1>3 DEF SharedIn, NamedIn, NamesDevice
<1>9. IF Places(q, "device") = {} THEN t.heap = r.heap /\ t.sound = r.sound /\ h.dev = old
      ELSE MovedTo(r, t, old, h.dev)
  BY DEF NewHost, DevStep
<1>10. t.hosts = r.hosts \/ t.hosts = Append(r.hosts, h)
  BY DEF NewHost
<1> HIDE DEF n, old, q
<1>11. t.sound /\ (\A i \in 1 .. n : r.heap[i].live => t.heap[i].live)
       /\ (h.dev # 0 => t.heap[h.dev].live)
  <2>1. CASE Places(q, "device") = {}
    BY <1>9, <2>1 DEF HeapIn, old
  <2>2. CASE Places(q, "device") # {}
    <3>1. old = 0 /\ MovedTo(r, t, old, h.dev)
      BY <1>8, <1>9, <2>2
    <3>2. /\ t.heap[h.dev].live
          /\ \A i \in 1 .. n : t.heap[i].live = (r.heap[i].live /\ i # old)
          /\ t.sound = (r.sound /\ (old # 0 => r.heap[old].live))
      BY <3>1 DEF MovedTo, n
    <3>3. \A i \in 1 .. n : i # 0
      BY <1>1
    <3>4. r.sound
      BY DEF HeapIn
    <3> QED
      BY <3>1, <3>2, <3>3, <3>4
  <2> QED
    BY <2>1, <2>2
<1>12. old # 0 => t.heap[old].live
  <2>1. old # 0 => old \in 1 .. n /\ r.heap[old].live
    BY <1>1 DEF HeapIn, old
  <2> QED
    BY <1>11, <2>1
<1>13. \A i \in 1 .. m : r.hosts[i].dev # 0 => t.heap[r.hosts[i].dev].live
  <2> SUFFICES ASSUME NEW i \in 1 .. m, r.hosts[i].dev # 0
               PROVE  t.heap[r.hosts[i].dev].live
    OBVIOUS
  <2>1. r.hosts[i].dev \in 1 .. n
    BY <1>1, <1>2
  <2>2. r.heap[r.hosts[i].dev].live
    BY DEF HeapIn
  <2> QED
    BY <1>11, <2>1, <2>2
<1>14. \A i \in 1 .. Len(t.hosts) : (i \in 1 .. m /\ t.hosts[i] = r.hosts[i]) \/ t.hosts[i] = h
  <2> DEFINE a == Append(r.hosts, h)
  <2>1. Len(a) = m + 1 /\ a[m + 1] = h /\ \A i \in 1 .. m : a[i] = r.hosts[i]
    BY <1>1, AppendSeq
  <2>2. \A i \in 1 .. m + 1 : i \in 1 .. m \/ i = m + 1
    BY <1>1
  <2> HIDE DEF a
  <2>3. \A i \in 1 .. Len(a) : (i \in 1 .. m /\ a[i] = r.hosts[i]) \/ a[i] = h
    BY <2>1, <2>2
  <2> QED
    BY <1>10, <2>3 DEF a
<1>15. \A i \in 1 .. Len(t.hosts) : t.hosts[i].dev # 0 => t.heap[t.hosts[i].dev].live
  BY <1>11, <1>13, <1>14
<1>16. Lends(t) => \E i \in 1 .. k + 1 : Kind(ss[i].name) = "host" /\ NamedIn(ss, i - 1, before)
  <2> SUFFICES ASSUME Lends(t)
               PROVE  Kind(ss[k + 1].name) = "host" /\ NamedIn(ss, (k + 1) - 1, before)
    BY <1>3
  <2>1. old # 0
    BY DEF Lends, old
  <2>2. NamedIn(ss, k, before)
    BY <2>1 DEF HeapIn, old
  <2> QED
    BY <1>3, <2>2
<1>17. Len(t.heap) >= Len(s.heap) /\ n >= Len(s.heap)
  BY <1>1 DEF HeapIn, NamesStay, n
<1>18. \A i \in 1 .. Len(s.heap) :
         s.heap[i].live => t.heap[i].live \/ \E j \in 1 .. k + 1 : DefaultNames(ss, j)
  <2> TAKE i \in 1 .. Len(s.heap)
  <2>1. i \in 1 .. n
    BY <1>1, <1>17
  <2>2. s.heap[i].live => r.heap[i].live \/ \E j \in 1 .. k : DefaultNames(ss, j)
    BY DEF HeapIn
  <2> QED
    BY <1>6, <1>11, <2>1, <2>2
<1>19. (t.default.dev # 0 <=> NamedIn(ss, k + 1, before))
       /\ (t.default.dev # 0 => t.heap[t.default.dev].live)
  BY <1>7, <1>12 DEF HeapIn, old
<1> QED
  BY <1>11, <1>15, <1>16, <1>17, <1>18, <1>19 DEF HeapIn

\* Whichever it is.
LEMMA HeapStep ==
  ASSUME NEW ss, AreSections(ss), NEW k \in 0 .. Len(ss), k < Len(ss),
         NEW before, ~SharedIn(ss, before),
         NEW s, NEW r, ParseOK(r), HeapIn(s, r, ss, k, before), Len(s.heap) \in Nat,
         NEW t, ParseOK(t), After(r, t, Kind(ss[k + 1].name), ss[k + 1].name, ss[k + 1].options)
  PROVE  HeapIn(s, t, ss, k + 1, before)
<1> DEFINE kind == Kind(ss[k + 1].name)
           q == ss[k + 1].options
<1>1. Len(ss) \in Nat /\ DOMAIN ss = 1 .. Len(ss) /\ k \in Nat
  BY AppendSeq DEF AreSections
<1>2. NamesStay(r.heap, t.heap) /\ (kind # "default" => t.default = r.default)
      /\ (kind # "host" => t.hosts = r.hosts)
  BY DEF After
<1>3. DefaultNames(ss, k + 1) <=> kind = "default" /\ Places(q, "device") # {}
  BY DEF DefaultNames, NamesDevice
<1>4. CASE kind = "options"
  <2>1. t.heap = r.heap /\ t.sound = r.sound
    BY <1>4 DEF After
  <2> QED
    BY <1>1, <1>2, <1>3, <1>4, <2>1, HeapQuiet
<1>5. CASE kind = "default"
  <2>1. IF Places(q, "device") = {}
        THEN t.heap = r.heap /\ t.sound = r.sound /\ t.default.dev = r.default.dev
        ELSE MovedTo(r, t, r.default.dev, t.default.dev)
    BY <1>5 DEF After, NewDefault, DevStep
  <2>2. CASE Places(q, "device") = {}
    BY <1>1, <1>2, <1>3, <1>5, <2>1, <2>2, HeapQuiet
  <2>3. CASE Places(q, "device") # {}
    BY <1>1, <1>2, <1>3, <1>5, <2>1, <2>3, HeapDefault
  <2> QED
    BY <2>2, <2>3
<1>6. CASE kind = "host"
  <2>1. PICK h : NewHost(r, t, ss[k + 1].name, q, h)
    BY <1>6 DEF After
  <2> QED
    BY <1>1, <1>2, <1>6, <2>1, HeapHost
<1> QED
  BY <1>4, <1>5, <1>6 DEF Kind

\* Before the first section.
LEMMA HeapNone ==
  ASSUME NEW ss, NEW before, NEW s, Len(s.heap) \in Nat, s.hosts = <<>>, s.sound,
         s.default.dev # 0 <=> before, s.default.dev # 0 => s.heap[s.default.dev].live
  PROVE  HeapIn(s, s, ss, 0, before)
<1>1. 1 .. 0 = {} /\ Len(s.hosts) = 0
  OBVIOUS
<1>2. ~Lends(s)
  BY <1>1 DEF Lends
<1>3. NamedIn(ss, 0, before) <=> before
  BY <1>1 DEF NamedIn
<1> QED
  BY <1>1, <1>2, <1>3 DEF HeapIn

----------------------------------------------------------------------------
\* A whole file.

\* A command of a default section without a path.
Shelled(q) == \E i \in Places(q, "up") : Contains(q[i][2], Shell)

\* It is still there when more is said.
LEMMA ShelledOn ==
  ASSUME NEW p, IsSeq(p), NEW q, IsSeq(q), Shelled(p)
  PROVE  Shelled(Joined(p, q))
<1> DEFINE j == Joined(p, q)
<1>1. PICK i \in Places(p, "up") : Contains(p[i][2], Shell)
  BY DEF Shelled
<1>2. i \in 1 .. Len(p) /\ p[i][1] = "up"
  BY <1>1, AppendSeq DEF Places
<1>3. /\ IsSeq(j) /\ Len(j) = Len(p) + Len(q) /\ Len(p) \in Nat /\ Len(q) \in Nat
      /\ \A x \in 1 .. Len(p) : j[x] = p[x]
  BY JoinedSeq
<1> HIDE DEF j
<1>4. i \in DOMAIN j
  BY <1>2, <1>3, AppendSeq
<1>5. j[i] = p[i]
  BY <1>2, <1>3
<1>6. i \in Places(j, "up")
  BY <1>2, <1>4, <1>5 DEF Places
<1> QED
  BY <1>1, <1>5, <1>6 DEF Shelled, j

\* default_host has such a command only if it was said in this file.
LEMMA ShellSaid ==
  ASSUME NEW q, IsSeq(q), Contains(LastSaid(q, "up", <<>>), Shell)
  PROVE  Shelled(q)
<1> DEFINE o == "up"
           x == <<>>
<1>1. ~Contains(x, Shell)
  BY DEF Contains
<1> HIDE DEF o, x
<1>2. CASE Places(q, o) = {}
  <2>1. LastSaid(q, o, x) = x
    BY <1>2, SaidPlace
  <2> QED
    BY <1>1, <2>1 DEF o, x
<1>3. CASE Places(q, o) # {}
  <2>1. PICK i : LastAt(q, o, i) /\ LastSaid(q, o, x) = q[i][2]
    BY <1>3, SaidPlace
  <2>2. i \in 1 .. Len(q) /\ q[i][1] = o /\ DOMAIN q = 1 .. Len(q)
    BY <2>1, AppendSeq DEF LastAt
  <2>3. i \in Places(q, o)
    BY <2>2 DEF Places
  <2> QED
    BY <2>1, <2>3 DEF Shelled, o, x
<1> QED
  BY <1>2, <1>3

\* The first k sections, from s to r.
Good(s, r, earlier, ss, k, before) ==
  /\ Parsing(r)
  /\ \/ r.crash /\ Shelled(Said(ss, k, {"default"}))
     \/ /\ Filed(s, r, earlier, ss, k)
        /\ ~SharedIn(ss, before) /\ HeapIn(s, s, ss, 0, before) => HeapIn(s, r, ss, k, before)

\* One section more.
LEMMA GoodStep ==
  ASSUME NEW ss, AreSections(ss), NEW k \in 0 .. Len(ss), k < Len(ss),
         NEW earlier, IsSeq(earlier), Valued(earlier), NEW before,
         NEW s, Parsing(s), Len(heap) \in Nat, NEW r, Good(s, r, earlier, ss, k, before)
  PROVE  Good(s, ParseFrom(r, Section(ss[k + 1])), earlier, ss, k + 1, before)
<1> DEFINE t == ParseFrom(r, Section(ss[k + 1]))
           sec == ss[k + 1]
           kinds == {"default"}
           p == Said(ss, k, kinds)
           g == Said(ss, k + 1, kinds)
           part == Part(ss, k + 1, kinds)
<1>1. k + 1 \in 1 .. Len(ss)
  BY AppendSeq DEF AreSections
<1>2. IsSection(sec)
  BY <1>1 DEF AreSections
<1>3. Parsing(r) /\ ParseOK(r) /\ ParseOK(s)
  BY DEF Good, Parsing
<1>4. Len(Section(sec)) \in Nat
  <2>1. IsSeq(Section(sec))
    <3> HIDE DEF sec
    <3> QED
      BY <1>2, SectionSeq
  <2> DEFINE q == Section(sec)
  <2> HIDE DEF q
  <2>2. IsSeq(q) => Len(q) \in Nat
    BY AppendSeq
  <2> QED
    BY <2>1, <2>2 DEF q
<1>5. Parsing(t)
  <2> DEFINE q == Section(sec)
  <2> HIDE DEF q
  <2>1. Len(q) \in Nat => Parsing(ParseFrom(r, q))
    BY <1>3, ParseKeeps
  <2> QED
    BY <1>4, <2>1 DEF q
<1>6. IsSeq(p) /\ g = Joined(p, part) /\ IsSeq(part)
  <2> HIDE DEF kinds
  <2> QED
    BY <1>1, SaidStep, PartSeq
<1>7. CASE r.crash /\ Shelled(p)
  <2>1. t.crash
    <3> DEFINE q == Section(sec)
    <3> HIDE DEF q
    <3>1. DOMAIN r = DOMAIN Fresh
      BY <1>3 DEF ParseOK
    <3>2. Len(q) \in Nat => ParseFrom(r, q).crash
      BY <1>7, <3>1, CrashStays
    <3> QED
      BY <1>4, <3>2 DEF q
  <2>2. Shelled(g)
    <3> HIDE DEF p, g, part
    <3> QED
      BY <1>6, <1>7, ShelledOn
  <2> QED
    BY <1>5, <2>1, <2>2 DEF Good
<1>8. CASE Filed(s, r, earlier, ss, k)
           /\ (~SharedIn(ss, before) /\ HeapIn(s, s, ss, 0, before) => HeapIn(s, r, ss, k, before))
  <2>1. AtTop(r)
    BY <1>8 DEF Filed
  <2>2. IF Kind(sec.name) = "host" /\ Contains(r.default.up, Shell) THEN t.crash
        ELSE After(r, t, Kind(sec.name), sec.name, sec.options)
    <3> HIDE DEF sec
    <3>1. LET e == ParseFrom(r, Section(sec))
          IN  /\ Parsing(e)
              /\ IF Kind(sec.name) = "host" /\ Contains(r.default.up, Shell) THEN e.crash
                 ELSE After(r, e, Kind(sec.name), sec.name, sec.options)
      BY <1>2, <1>3, <2>1, ReadSection
    <3> QED
      BY <3>1 DEF sec
  <2>3. CASE Kind(sec.name) = "host" /\ Contains(r.default.up, Shell)
    <3>1. "up" \in DOMAIN BuiltIn
      BY DEF BuiltIn
    <3>2. Field(r.heap, r.default, "up") = LastSaid(p, OptionOf("up"), Inherited(earlier, "up"))
      BY <1>8, <3>1 DEF Filed, DefaultIn
    <3>3. r.default.up = LastSaid(p, "up", <<>>)
      BY <3>2 DEF Field, OptionOf, Inherited
    <3>4. Contains(LastSaid(p, "up", <<>>), Shell)
      BY <2>3, <3>3
    <3>5. Shelled(p)
      <4> HIDE DEF p
      <4> QED
        BY <1>6, <3>4, ShellSaid
    <3>6. Shelled(g)
      <4> HIDE DEF p, g, part
      <4> QED
        BY <1>6, <3>5, ShelledOn
    <3> QED
      BY <1>5, <2>2, <2>3, <3>6 DEF Good
  <2>4. CASE ~(Kind(sec.name) = "host" /\ Contains(r.default.up, Shell))
    <3>1. After(r, t, Kind(ss[k + 1].name), ss[k + 1].name, ss[k + 1].options)
      BY <2>2, <2>4
    <3>2. ParseOK(t) /\ Len(s.heap) \in Nat
      BY <1>3, <1>5, AppendSeq DEF Parsing, ParseOK, IsHeap
    <3> HIDE DEF t
    <3>3. Filed(s, t, earlier, ss, k + 1)
      BY <1>3, <1>8, <3>1, <3>2, FiledStep
    <3>4. ~SharedIn(ss, before) /\ HeapIn(s, s, ss, 0, before) => HeapIn(s, t, ss, k + 1, before)
      BY <1>3, <1>8, <3>1, <3>2, HeapStep
    <3> QED
      BY <1>5, <3>3, <3>4 DEF Good, t
  <2> QED
    BY <2>3, <2>4
<1> QED
  BY <1>7, <1>8 DEF Good

\* A file without a mistake, from its first section to its last.
LEMMA ReadFile ==
  ASSUME NEW ss, AreSections(ss), NEW earlier, IsSeq(earlier), Valued(earlier), NEW before,
         NEW s, Parsing(s), Len(heap) \in Nat, AtTop(s), s.hosts = <<>>,
         \A o \in DOMAIN BuiltIn : Field(s.heap, s.default, o) = Inherited(earlier, o)
  PROVE  Good(s, ParseFrom(s, Text(ss)), earlier, ss, Len(ss), before)
<1> DEFINE n == Len(ss)
           xs == [i \in 1 .. n |-> Section(ss[i])]
           text(k) == FlattenSeq(Prefix(xs, k))
           r(k) == ParseFrom(s, text(k))
           S == {k \in 0 .. n : Good(s, r(k), earlier, ss, k, before)}
<1>1. n \in Nat /\ DOMAIN ss = 1 .. n
  BY AppendSeq DEF AreSections
<1>2. \A i \in 1 .. n : xs[i] = Section(ss[i]) /\ IsSeq(xs[i])
  <2> TAKE i \in 1 .. n
  <2>1. IsSection(ss[i])
    BY DEF AreSections
  <2> DEFINE sec == ss[i]
  <2> HIDE DEF sec
  <2>2. IsSection(sec) => IsSeq(Section(sec))
    BY SectionSeq
  <2> QED
    BY <2>1, <2>2 DEF sec
<1>3. xs = [i \in 1 .. n |-> xs[i]]
  OBVIOUS
<1> HIDE DEF xs
<1>4. ASSUME NEW k \in 0 .. n PROVE IsSeq(text(k)) /\ (k < n => text(k + 1) = Joined(text(k), xs[k + 1]))
  <2> HIDE DEF n
  <2> QED
    BY <1>1, <1>2, <1>3, FlattenNext
<1>5. 0 \in S
  <2>1. text(0) = <<>>
    <3>1. Prefix(xs, 0) = <<>>
      BY PrefixSeq
    <3> QED
      BY <3>1, FlattenNone DEF Prefix
  <2> HIDE DEF text
  <2>2. r(0) = s
    BY <2>1, ParseNone
  <2> HIDE DEF r
  <2>3. ParseOK(s)
    BY DEF Parsing
  <2>4. Filed(s, s, earlier, ss, 0)
    BY <2>3, FiledNone
  <2>5. Good(s, s, earlier, ss, 0, before)
    BY <2>4 DEF Good
  <2> QED
    BY <1>1, <2>2, <2>5
<1>6. \A k \in 0 .. n - 1 : k \in S => k + 1 \in S
  <2> SUFFICES ASSUME NEW k \in 0 .. n - 1, Good(s, r(k), earlier, ss, k, before)
               PROVE  Good(s, r(k + 1), earlier, ss, k + 1, before)
    BY <1>1
  <2>1. k \in 0 .. n /\ k < n /\ k + 1 \in 1 .. n
    BY <1>1
  <2>2. IsSeq(text(k)) /\ text(k + 1) = Joined(text(k), xs[k + 1])
    BY <1>4, <2>1
  <2> DEFINE a == text(k)
             b == Section(ss[k + 1])
  <2>3. IsSeq(b) /\ text(k + 1) = Joined(a, b)
    BY <1>2, <2>1, <2>2
  <2> HIDE DEF text, b
  <2>4. ParseFrom(s, Joined(a, b)) = ParseFrom(ParseFrom(s, a), b)
    <3> HIDE DEF a
    <3>1. IsSeq(a)
      BY <2>2 DEF a
    <3> QED
      BY <2>3, <3>1, ParseJoined
  <2>5. r(k + 1) = ParseFrom(r(k), b)
    BY <2>3, <2>4
  <2> DEFINE e == r(k)
  <2>6. Good(s, e, earlier, ss, k, before)
    OBVIOUS
  <2> HIDE DEF e
  <2>7. Good(s, ParseFrom(e, b), earlier, ss, k + 1, before)
    BY <2>1, <2>6, GoodStep DEF b
  <2> QED
    BY <2>5, <2>7 DEF e
<1>7. Good(s, r(n), earlier, ss, n, before)
  <2> HIDE DEF S, n
  <2>1. \A k \in 0 .. n : k \in S
    BY <1>1, <1>5, <1>6, UpTo
  <2>2. n \in S
    BY <1>1, <2>1
  <2> QED
    BY <2>2 DEF S
<1>8. text(n) = Text(ss)
  <2>1. Prefix(xs, n) = [i \in DOMAIN ss |-> Section(ss[i])]
    BY <1>1, <1>2 DEF Prefix
  <2> QED
    BY <2>1 DEF Text
<1> QED
  BY <1>7, <1>8

----------------------------------------------------------------------------
\* The files, one after the other.

\* A file without a mistake.
LEMMA FileOf ==
  ASSUME NEW f \in DOMAIN Files, ~Files[f].flawed
  PROVE  /\ AreSections(Files[f].sections) /\ Files[f].text = Text(Files[f].sections)
         /\ ~Files[f].readable => Files[f].sections = <<>>
<1> DEFINE ss == Files[f].sections
<1>1. /\ IsList(ss) /\ \A i \in DOMAIN ss : IsSection(ss[i])
      /\ Files[f].text = Text(ss) /\ (~Files[f].readable => ss = <<>>)
  BY ConfigAssumption
<1> HIDE DEF ss
<1>2. IsSeq(ss)
  BY <1>1, ListSeq
<1>3. DOMAIN ss = 1 .. Len(ss)
  BY <1>2, AppendSeq
<1>4. AreSections(ss)
  BY <1>1, <1>2, <1>3 DEF AreSections
<1> QED
  BY <1>1, <1>4 DEF ss

\* What the files fs say, and Defaults().
SectionsOf(fs, n) == Files[fs[n]].sections
SaidBy(fs, n, kinds) == FlattenSeq([m \in 1 .. n |-> SaidIn(SectionsOf(fs, m), kinds)])
DefaultsOf(fs, n) == SaidBy(fs, n, {"default"})

\* The first n files are without a mistake.
CleanOf(fs, n) == \A m \in 1 .. n : fs[m] \in DOMAIN Files /\ ~Files[fs[m]].flawed

\* It depends on the first n files only.
LEMMA SaidSame ==
  ASSUME NEW a, NEW b, NEW n \in Nat, NEW kinds, \A m \in 1 .. n : a[m] = b[m]
  PROVE  SaidBy(a, n, kinds) = SaidBy(b, n, kinds)
<1>1. [m \in 1 .. n |-> SaidIn(SectionsOf(a, m), kinds)] =
      [m \in 1 .. n |-> SaidIn(SectionsOf(b, m), kinds)]
  BY DEF SectionsOf
<1> QED
  BY <1>1 DEF SaidBy

\* The defaults do so.
LEMMA DefaultsSame ==
  ASSUME NEW a, NEW b, NEW n \in Nat, \A m \in 1 .. n : a[m] = b[m]
  PROVE  DefaultsOf(a, n) = DefaultsOf(b, n)
  BY SaidSame DEF DefaultsOf

\* One file after the other.
LEMMA SaidNext ==
  ASSUME NEW fs, NEW n \in Nat, CleanOf(fs, n), NEW k \in 0 .. n, NEW kinds
  PROVE  /\ IsSeq(SaidBy(fs, k, kinds)) /\ SaidBy(fs, 0, kinds) = <<>>
         /\ k < n => SaidBy(fs, k + 1, kinds) =
                       Joined(SaidBy(fs, k, kinds), SaidIn(SectionsOf(fs, k + 1), kinds))
<1> DEFINE g == [m \in 1 .. n |-> SaidIn(SectionsOf(fs, m), kinds)]
<1>1. \A m \in 1 .. n : g[m] = SaidIn(SectionsOf(fs, m), kinds) /\ IsSeq(g[m])
  <2> TAKE m \in 1 .. n
  <2>1. AreSections(SectionsOf(fs, m))
    <3> DEFINE f == fs[m]
    <3>1. f \in DOMAIN Files /\ ~Files[f].flawed
      BY DEF CleanOf
    <3> HIDE DEF f
    <3>2. AreSections(Files[f].sections)
      BY <3>1, FileOf
    <3> QED
      BY <3>2 DEF SectionsOf, f
  <2> DEFINE ss == SectionsOf(fs, m)
  <2> HIDE DEF ss
  <2>2. AreSections(ss) => IsSeq(Said(ss, Len(ss), kinds))
    <3> SUFFICES ASSUME AreSections(ss) PROVE IsSeq(Said(ss, Len(ss), kinds))
      OBVIOUS
    <3>1. Len(ss) \in 0 .. Len(ss)
      BY AppendSeq DEF AreSections
    <3> QED
      BY <3>1, SaidStep
  <2> QED
    BY <2>1, <2>2 DEF ss, SaidIn
<1>2. g = [i \in 1 .. n |-> g[i]]
  OBVIOUS
<1>3. ASSUME NEW m \in 0 .. n PROVE SaidBy(fs, m, kinds) = FlattenSeq(Prefix(g, m))
  <2>1. [i \in 1 .. m |-> SaidIn(SectionsOf(fs, i), kinds)] = Prefix(g, m)
    BY DEF Prefix
  <2> QED
    BY <2>1 DEF SaidBy
<1> HIDE DEF g
<1>4. /\ IsSeq(FlattenSeq(Prefix(g, k)))
      /\ k < n => FlattenSeq(Prefix(g, k + 1)) = Joined(FlattenSeq(Prefix(g, k)), g[k + 1])
  BY <1>1, <1>2, FlattenNext
<1>5. SaidBy(fs, 0, kinds) = <<>>
  <2>1. Prefix(g, 0) = <<>>
    BY PrefixSeq
  <2>2. FlattenSeq(Prefix(g, 0)) = <<>>
    BY <2>1, FlattenNone DEF Prefix
  <2> QED
    BY <1>3, <2>2
<1>6. SaidBy(fs, k, kinds) = FlattenSeq(Prefix(g, k))
  BY <1>3
<1>7. k < n => k + 1 \in 0 .. n /\ k + 1 \in 1 .. n
  OBVIOUS
<1>8. k < n => SaidBy(fs, k + 1, kinds) = FlattenSeq(Prefix(g, k + 1))
  BY <1>3, <1>7
<1> QED
  BY <1>1, <1>4, <1>5, <1>6, <1>7, <1>8

\* The defaults, one file after the other.
LEMMA DefaultsNext ==
  ASSUME NEW fs, NEW n \in Nat, CleanOf(fs, n), NEW k \in 0 .. n
  PROVE  /\ IsSeq(DefaultsOf(fs, k)) /\ DefaultsOf(fs, 0) = <<>>
         /\ k < n => DefaultsOf(fs, k + 1) =
                       Joined(DefaultsOf(fs, k), SaidIn(SectionsOf(fs, k + 1), {"default"}))
<1> DEFINE kinds == {"default"}
<1> HIDE DEF kinds
<1>1. /\ IsSeq(SaidBy(fs, k, kinds)) /\ SaidBy(fs, 0, kinds) = <<>>
      /\ k < n => SaidBy(fs, k + 1, kinds) =
                    Joined(SaidBy(fs, k, kinds), SaidIn(SectionsOf(fs, k + 1), kinds))
  BY SaidNext
<1> QED
  BY <1>1 DEF DefaultsOf, kinds

\* They are pairs with a value.
LEMMA DefaultsValued ==
  ASSUME NEW fs, NEW n \in Nat, CleanOf(fs, n)
  PROVE  Valued(DefaultsOf(fs, n)) /\ IsSeq(DefaultsOf(fs, n))
<1> DEFINE S == {k \in 0 .. n : Valued(DefaultsOf(fs, k))}
<1>1. 0 \in S
  <2>1. DefaultsOf(fs, 0) = <<>>
    BY DefaultsNext
  <2>2. Valued(<<>>)
    BY DEF Valued
  <2> QED
    BY <2>1, <2>2
<1>2. \A k \in 0 .. n - 1 : k \in S => k + 1 \in S
  <2> SUFFICES ASSUME NEW k \in 0 .. n - 1, Valued(DefaultsOf(fs, k))
               PROVE  Valued(DefaultsOf(fs, k + 1))
    OBVIOUS
  <2> DEFINE ss == SectionsOf(fs, k + 1)
             p == DefaultsOf(fs, k)
             q == SaidIn(ss, {"default"})
  <2>1. k \in 0 .. n /\ k < n /\ k + 1 \in 1 .. n
    OBVIOUS
  <2>2. IsSeq(p) /\ DefaultsOf(fs, k + 1) = Joined(p, q)
    BY <2>1, DefaultsNext
  <2>3. AreSections(ss)
    <3> DEFINE f == fs[k + 1]
    <3>1. f \in DOMAIN Files /\ ~Files[f].flawed
      BY <2>1 DEF CleanOf
    <3> HIDE DEF f
    <3>2. AreSections(Files[f].sections)
      BY <3>1, FileOf
    <3> QED
      BY <3>2 DEF SectionsOf, f
  <2> HIDE DEF ss
  <2>4. IsSeq(q) /\ Valued(q)
    <3>1. Len(ss) \in 0 .. Len(ss)
      BY <2>3, AppendSeq DEF AreSections
    <3> QED
      BY <2>3, <3>1, SaidStep, SaidValued DEF SaidIn
  <2> HIDE DEF p, q
  <2>5. Valued(p)
    BY DEF p
  <2>6. Valued(Joined(p, q))
    BY <2>2, <2>4, <2>5, ValuedJoined
  <2> QED
    BY <2>2, <2>6 DEF p
<1>3. \A k \in 0 .. n : k \in S
  <2> HIDE DEF S
  <2> QED
    BY <1>1, <1>2, UpTo
<1>4. n \in 0 .. n
  OBVIOUS
<1> QED
  BY <1>3, <1>4, DefaultsNext

\* default_host after a file, for the next one.
LEMMA InheritedOn ==
  ASSUME NEW p, IsSeq(p), NEW q, IsSeq(q), NEW o \in DOMAIN BuiltIn \ {"up", "passwd"}
  PROVE  Inherited(Joined(p, q), o) = LastSaid(q, OptionOf(o), Inherited(p, o))
<1> DEFINE option == OptionOf(o)
           x == IF o = "dev" THEN NULL ELSE BuiltIn[o]
<1>1. /\ Inherited(p, o) = LastSaid(p, option, x)
      /\ Inherited(Joined(p, q), o) = LastSaid(Joined(p, q), option, x)
  BY DEF Inherited
<1> HIDE DEF option, x
<1>2. LastSaid(Joined(p, q), option, x) = LastSaid(q, option, LastSaid(p, option, x))
  BY SaidTwice
<1> QED
  BY <1>1, <1>2 DEF option

----------------------------------------------------------------------------
\* main()'s clear_nat_hack_flags().

\* Two lists of Sessions() differ in what they ignore only.
LEMMA SessionsPaired ==
  ASSUME NEW ss, NEW earlier, NEW a, NEW b, NEW n \in Nat
  PROVE  LET p == Sessions(earlier, ss, n, a)
             q == Sessions(earlier, ss, n, b)
         IN  /\ IsSeq(p) /\ IsSeq(q) /\ Len(p) = Len(q)
             /\ \A i \in 1 .. Len(p) : \E j \in 1 .. n :
                  p[i] = SessionOf(earlier, ss, j, a) /\ q[i] = SessionOf(earlier, ss, j, b)
<1> DEFINE P(k) == Sessions(earlier, ss, k, a)
           Q(k) == Sessions(earlier, ss, k, b)
           Alike(k) == /\ IsSeq(P(k)) /\ IsSeq(Q(k)) /\ Len(P(k)) = Len(Q(k))
                       /\ \A i \in 1 .. Len(P(k)) : \E j \in 1 .. k :
                            P(k)[i] = SessionOf(earlier, ss, j, a) /\ Q(k)[i] = SessionOf(earlier, ss, j, b)
           S == {k \in 0 .. n : Alike(k)}
<1>1. 0 \in S
  <2>1. P(0) = <<>> /\ Q(0) = <<>> /\ IsSeq(P(0)) /\ IsSeq(Q(0))
    BY SessionsStep
  <2> HIDE DEF P, Q
  <2>2. Len(P(0)) = 0 /\ Len(Q(0)) = 0
    BY <2>1
  <2> QED
    BY <2>1, <2>2
<1>2. \A k \in 0 .. n - 1 : k \in S => k + 1 \in S
  <2> SUFFICES ASSUME NEW k \in 0 .. n - 1, Alike(k) PROVE Alike(k + 1)
    OBVIOUS
  <2> DEFINE x == SessionPart(earlier, ss, k + 1, a)
             y == SessionPart(earlier, ss, k + 1, b)
             d == SessionOf(earlier, ss, k + 1, a)
             e == SessionOf(earlier, ss, k + 1, b)
             p == P(k)
             q == Q(k)
  <2>1. k \in Nat
    OBVIOUS
  <2>2. P(k + 1) = Joined(p, x)
    BY <2>1, SessionsStep
  <2>3. Q(k + 1) = Joined(q, y)
    BY <2>1, SessionsStep
  <2>4. (x = <<>> /\ y = <<>>) \/ (x = <<d>> /\ y = <<e>>)
    BY DEF SessionPart
  <2> HIDE DEF P, Q, x, y, d, e
  <2>5. IsSeq(p) /\ IsSeq(q) /\ Len(p) = Len(q)
    OBVIOUS
  <2>6. \A i \in 1 .. Len(p) : \E j \in 1 .. k + 1 :
          p[i] = SessionOf(earlier, ss, j, a) /\ q[i] = SessionOf(earlier, ss, j, b)
    <3>1. \A j \in 1 .. k : j \in 1 .. k + 1
      OBVIOUS
    <3> QED
      BY <3>1
  <2> HIDE DEF p, q, Alike
  <2>7. CASE x = <<>> /\ y = <<>>
    <3>1. Joined(p, x) = p /\ Joined(q, y) = q
      BY <2>5, <2>7, ConcatNone DEF Joined
    <3> QED
      BY <2>2, <2>3, <2>5, <2>6, <3>1 DEF Alike
  <2>8. CASE x = <<d>> /\ y = <<e>>
    <3>1. IsSeq(x) /\ Len(x) = 1 /\ x[1] = d
      BY <2>8, TupleSeq
    <3>2. IsSeq(y) /\ Len(y) = 1 /\ y[1] = e
      BY <2>8, TupleSeq
    <3> DEFINE m == Len(p)
               u == Joined(p, x)
               v == Joined(q, y)
    <3>3. /\ IsSeq(u) /\ Len(u) = m + Len(x) /\ m \in Nat
          /\ \A i \in 1 .. m : u[i] = p[i]
          /\ \A i \in 1 .. Len(x) : u[m + i] = x[i]
      <4>1. IsSeq(p) /\ IsSeq(x)
        BY <2>5, <3>1
      <4> QED
        BY <4>1, JoinedSeq
    <3>4. /\ IsSeq(v) /\ Len(v) = Len(q) + Len(y)
          /\ \A i \in 1 .. Len(q) : v[i] = q[i]
          /\ \A i \in 1 .. Len(y) : v[Len(q) + i] = y[i]
      <4>1. IsSeq(q) /\ IsSeq(y)
        BY <2>5, <3>2
      <4> QED
        BY <4>1, JoinedSeq
    <3> HIDE DEF u, v
    <3>5. Len(u) = m + 1 /\ Len(v) = m + 1 /\ u[m + 1] = d /\ v[m + 1] = e
      BY <2>5, <3>1, <3>2, <3>3, <3>4
    <3>6. \A i \in 1 .. m : u[i] = p[i] /\ v[i] = q[i]
      BY <2>5, <3>3, <3>4
    <3>7. \A i \in 1 .. m + 1 : i \in 1 .. m \/ i = m + 1
      BY <3>3
    <3>8. k + 1 \in 1 .. k + 1
      OBVIOUS
    <3>9. \A i \in 1 .. Len(u) : \E j \in 1 .. k + 1 :
            u[i] = SessionOf(earlier, ss, j, a) /\ v[i] = SessionOf(earlier, ss, j, b)
      <4> TAKE i \in 1 .. Len(u)
      <4>1. CASE i \in 1 .. m
        <5>1. PICK j \in 1 .. k + 1 :
                p[i] = SessionOf(earlier, ss, j, a) /\ q[i] = SessionOf(earlier, ss, j, b)
          BY <2>6, <4>1
        <5> QED
          BY <3>6, <4>1, <5>1
      <4>2. CASE i = m + 1
        BY <3>5, <3>8, <4>2 DEF d, e
      <4> QED
        BY <3>5, <3>7, <4>1, <4>2
    <3>10. P(k + 1) = u /\ Q(k + 1) = v
      BY <2>2, <2>3 DEF u, v
    <3> QED
      BY <3>3, <3>4, <3>5, <3>9, <3>10 DEF Alike
  <2> QED
    BY <2>4, <2>7, <2>8
<1>3. \A k \in 0 .. n : k \in S
  <2> HIDE DEF S
  <2> QED
    BY <1>1, <1>2, UpTo
<1>4. n \in S
  BY <1>3
<1>5. Alike(n)
  BY <1>4
<1> HIDE DEF S
<1> QED
  BY <1>5

\* The session without what is ignored.
Ignoring(e, ignored) == [e EXCEPT !.nat_hack = IF @ = ignored THEN "no" ELSE @]

\* SessionOf() does no more with what is to be ignored.
LEMMA SessionIgnoring ==
  ASSUME NEW ss, AreSections(ss), NEW j \in 1 .. Len(ss),
         NEW earlier, IsSeq(earlier), Valued(earlier), NEW ignored
  PROVE  SessionOf(earlier, ss, j, ignored) = Ignoring(SessionOf(earlier, ss, j, NULL), ignored)
<1> DEFINE k == j - 1
           own == ss[k + 1].options
           was(o) == LastSaid(own, OptionOf(o), IF o = "passwd" THEN NULL
                       ELSE LastSaid(Said(ss, k, {"default"}), OptionOf(o), Inherited(earlier, o)))
           e == SessionOf(earlier, ss, k + 1, ignored)
           d == SessionOf(earlier, ss, k + 1, NULL)
<1>1. Len(ss) \in Nat
  BY AppendSeq DEF AreSections
<1>2. k \in 0 .. Len(ss) /\ k < Len(ss) /\ k + 1 = j
  BY <1>1
<1> HIDE DEF k
<1>3. ASSUME NEW x
      PROVE  LET own1 == ss[k + 1].options
                 e1 == SessionOf(earlier, ss, k + 1, x)
                 was1(o) == LastSaid(own1, OptionOf(o), IF o = "passwd" THEN NULL
                              ELSE LastSaid(Said(ss, k, {"default"}), OptionOf(o), Inherited(earlier, o)))
             IN  /\ DOMAIN e1 = HostFields /\ e1.name = ss[k + 1].name
                 /\ \A o \in DOMAIN BuiltIn \ {"nat_hack"} : e1[o] = was1(o)
                 /\ e1.nat_hack = (IF was1("nat_hack") = x THEN "no" ELSE was1("nat_hack"))
                 /\ was1("nat_hack") # NULL
  BY <1>2, SessionFields
<1>4. /\ DOMAIN e = HostFields /\ e.name = ss[k + 1].name
      /\ \A o \in DOMAIN BuiltIn \ {"nat_hack"} : e[o] = was(o)
      /\ e.nat_hack = (IF was("nat_hack") = ignored THEN "no" ELSE was("nat_hack"))
  BY <1>3
<1>5. /\ DOMAIN d = HostFields /\ d.name = ss[k + 1].name
      /\ \A o \in DOMAIN BuiltIn \ {"nat_hack"} : d[o] = was(o)
      /\ d.nat_hack = was("nat_hack")
  <2> DEFINE x == NULL
  <2> HIDE DEF x
  <2>1. LET own1 == ss[k + 1].options
            e1 == SessionOf(earlier, ss, k + 1, x)
            was1(o) == LastSaid(own1, OptionOf(o), IF o = "passwd" THEN NULL
                         ELSE LastSaid(Said(ss, k, {"default"}), OptionOf(o), Inherited(earlier, o)))
        IN  /\ DOMAIN e1 = HostFields /\ e1.name = ss[k + 1].name
            /\ \A o \in DOMAIN BuiltIn \ {"nat_hack"} : e1[o] = was1(o)
            /\ e1.nat_hack = (IF was1("nat_hack") = x THEN "no" ELSE was1("nat_hack"))
            /\ was1("nat_hack") # NULL
    BY <1>3
  <2> QED
    BY <2>1 DEF x
<1>6. e = [o \in DOMAIN e |-> e[o]] /\ d = [o \in DOMAIN d |-> d[o]]
  BY DEF SessionOf
<1> HIDE DEF e, d, was
<1>7. HostFields = (DOMAIN BuiltIn \ {"nat_hack"}) \cup {"name", "nat_hack"} /\ "nat_hack" # "name"
  BY DEF HostFields, BuiltIn
<1> DEFINE g == Ignoring(d, ignored)
<1>8. /\ DOMAIN g = HostFields /\ g = [o \in HostFields |-> g[o]]
      /\ \A o \in HostFields : g[o] = IF o # "nat_hack" THEN d[o]
                                      ELSE IF d[o] = ignored THEN "no" ELSE d[o]
  BY <1>5, <1>7 DEF Ignoring
<1> HIDE DEF g
<1>9. \A o \in DOMAIN BuiltIn \ {"nat_hack"} : e[o] = g[o]
  BY <1>4, <1>5, <1>7, <1>8
<1>10. e.name = g.name /\ e.nat_hack = g.nat_hack
  BY <1>4, <1>5, <1>7, <1>8
<1>11. \A o \in HostFields : e[o] = g[o]
  BY <1>7, <1>9, <1>10
<1>12. e = [o \in HostFields |-> e[o]]
  BY <1>4, <1>6
<1>13. e = g
  BY <1>8, <1>11, <1>12
<1> QED
  BY <1>2, <1>13 DEF e, d, g

\* clear_nat_hack_flags() does just that.
LEMMA ClearShown ==
  ASSUME NEW hp, NEW list, NEW n \in Nat, AreHosts(list, n),
         NEW ss, AreSections(ss), NEW earlier, IsSeq(earlier), Valued(earlier),
         Shows(hp, list, Sessions(earlier, ss, Len(ss), NULL))
  PROVE  Shows(hp, clear_nat_hack_flags(list),
               Sessions(earlier, ss, Len(ss), IF svr THEN "client" ELSE "server"))
<1> DEFINE ignored == IF svr THEN "client" ELSE "server"
           p == Sessions(earlier, ss, Len(ss), NULL)
           q == Sessions(earlier, ss, Len(ss), ignored)
           c == clear_nat_hack_flags(list)
<1>1. Len(ss) \in Nat
  BY AppendSeq DEF AreSections
<1>2. /\ IsSeq(p) /\ IsSeq(q) /\ Len(p) = Len(q)
      /\ \A i \in 1 .. Len(p) : \E j \in 1 .. Len(ss) :
           p[i] = SessionOf(earlier, ss, j, NULL) /\ q[i] = SessionOf(earlier, ss, j, ignored)
  <2> DEFINE a == NULL
             m == Len(ss)
  <2> HIDE DEF a, ignored, m
  <2>1. LET p1 == Sessions(earlier, ss, m, a)
            q1 == Sessions(earlier, ss, m, ignored)
        IN  /\ IsSeq(p1) /\ IsSeq(q1) /\ Len(p1) = Len(q1)
            /\ \A i \in 1 .. Len(p1) : \E j \in 1 .. m :
                 p1[i] = SessionOf(earlier, ss, j, a) /\ q1[i] = SessionOf(earlier, ss, j, ignored)
    <3>1. m \in Nat
      BY <1>1 DEF m
    <3> QED
      BY <3>1, SessionsPaired
  <2> QED
    BY <2>1 DEF a, m
<1>3. c = [i \in DOMAIN list |-> Ignoring(list[i], ignored)]
  BY DEF clear_nat_hack_flags, Ignoring
<1>4. Len(list) \in Nat /\ DOMAIN list = 1 .. Len(list) /\ Len(list) = Len(p)
  BY AppendSeq DEF AreHosts, Shows
<1> HIDE DEF ignored, p, q, c
<1>5. \A i \in 1 .. Len(list) : c[i] = Ignoring(list[i], ignored)
  BY <1>3, <1>4
<1>6. Len(c) = Len(list)
  <2>1. DOMAIN c = 1 .. Len(list) /\ c = [i \in 1 .. Len(list) |-> c[i]]
    BY <1>3, <1>4
  <2> DEFINE m == Len(list)
  <2> HIDE DEF m
  <2>2. DOMAIN c = 1 .. m /\ c = [i \in 1 .. m |-> c[i]] /\ m \in Nat
    BY <1>4, <2>1 DEF m
  <2>3. Len(c) = m
    BY <2>2, MapSeq
  <2> QED
    BY <2>3 DEF m
<1>7. ASSUME NEW i \in 1 .. Len(list) PROVE ShownIn(hp, c[i]) = q[i]
  <2> DEFINE h == list[i]
             d == IF h.dev = 0 THEN NULL ELSE hp[h.dev].name
  <2>1. DOMAIN h = HostFields
    BY DEF AreHosts, IsSession
  <2>2. ShownIn(hp, h) = p[i]
    BY DEF Shows, p
  <2>3. PICK j \in 1 .. Len(ss) :
          p[i] = SessionOf(earlier, ss, j, NULL) /\ q[i] = SessionOf(earlier, ss, j, ignored)
    BY <1>2, <1>4
  <2>4. q[i] = Ignoring(p[i], ignored)
    BY <2>3, SessionIgnoring
  <2> HIDE DEF h
  <2>5. ShownIn(hp, Ignoring(h, ignored)) = Ignoring(ShownIn(hp, h), ignored)
    <3>1. "dev" \in HostFields /\ "nat_hack" \in HostFields
      BY DEF HostFields, BuiltIn
    <3>2. ShownIn(hp, h) = [h EXCEPT !.dev = d]
      BY DEF ShownIn
    <3>3. ShownIn(hp, Ignoring(h, ignored)) = [Ignoring(h, ignored) EXCEPT !.dev = d]
      BY <2>1, <3>1 DEF ShownIn, Ignoring
    <3> HIDE DEF d
    <3>4. [Ignoring(h, ignored) EXCEPT !.dev = d] = Ignoring([h EXCEPT !.dev = d], ignored)
      BY <2>1, <3>1 DEF Ignoring
    <3> QED
      BY <3>2, <3>3, <3>4
  <2> QED
    BY <1>5, <2>2, <2>4, <2>5 DEF h
<1>8. Shows(hp, c, q)
  BY <1>2, <1>4, <1>6, <1>7 DEF Shows
<1> QED
  BY <1>8 DEF c, q, ignored

----------------------------------------------------------------------------
\* What a load does, after any number of them.

\* The files that were read.
History ==
  /\ loads \in Nat /\ IsSeq(files) /\ Len(files) = loads
  /\ \A n \in 1 .. loads : files[n] \in DOMAIN Files
  /\ foundAt \in 0 .. loads
  /\ pc = "start" => loads = 0 /\ vtun = cmd
  /\ pc # "start" => loads > 0
  /\ pc \in {"start", "listen", "auth", "find"} => foundAt = 0
  /\ pc \in {"checked", "session"} => foundAt > 0

\* Between two files the scanner is where it began, and default_host is what
\* the default sections so far have made of it.
AtRest ==
  Clean /\ pc # "undefined" =>
    /\ scan.start = "INITIAL" /\ scan.stack = <<>> /\ scan.rest = <<>>
    /\ \A o \in DOMAIN BuiltIn : Field(heap, default, o) = Inherited(Defaults(loads), o)
    /\ syslog = LastSaid(Options(loads), "syslog", LOG_DAEMON)

\* The options that are set once; of syslog AtRest says the rest of OptionsAsGiven.
FirstCounts ==
  pc \in Running /\ ~Loaded(1).flawed =>
    \A o \in DOMAIN Fallback :
      vtun[o] = IF cmd[o] # None THEN cmd[o]
                ELSE FirstSaid(SaidIn(Loaded(1).sections, KindsOf(o)), o, Fallback[o])

\* What the n-th load leaves in the list: Meaning(n), but only main() ignores the
\* nat_hack of the other side.
Left(n) ==
  LET sections == Loaded(n).sections
  IN  Sessions(Defaults(n - 1), sections, Len(sections),
               IF n > 1 THEN NULL ELSE IF svr THEN "client" ELSE "server")

\* What find_host() found, in the same way.
OfHost(all) == {i \in DOMAIN all : all[i].name = Host}
LastNamed(all, shown) == OfHost(all) # {} /\ shown = all[Max(OfHost(all))]
FoundKept == Clean /\ pc \in {"checked", "session"} => LastNamed(Left(foundAt), Shown(found))

\* That, after a step.
LEMMA KeptNext ==
  FoundKept' <=> (Clean' /\ pc' \in {"checked", "session"} => LastNamed(Left(foundAt)', Shown(found)'))
  BY DEF FoundKept, LastNamed, OfHost

\* The history that a load adds to.
LEMMA LoadFiles ==
  ASSUME History, NEW f \in DOMAIN Files, loads' = loads + 1, files' = Append(files, f)
  PROVE  /\ \A n \in 1 .. loads : files'[n] = files[n]
         /\ files'[loads + 1] = f /\ IsSeq(files') /\ Len(files') = loads + 1
         /\ \A n \in 1 .. loads' : files'[n] \in DOMAIN Files
         /\ Clean' => Clean /\ ~Files[f].flawed
         /\ Clean' => CleanOf(files', loads + 1)
         /\ loads \in Nat
<1>1. /\ IsSeq(files') /\ Len(files') = loads + 1 /\ files'[loads + 1] = f
      /\ \A n \in 1 .. loads : files'[n] = files[n]
  BY AppendSeq DEF History
<1>2. loads \in Nat /\ \A n \in 1 .. loads : files[n] \in DOMAIN Files
  BY DEF History
<1>3. \A n \in 1 .. loads + 1 : n \in 1 .. loads \/ n = loads + 1
  BY <1>2
<1>4. \A n \in 1 .. loads' : files'[n] \in DOMAIN Files
  BY <1>1, <1>2, <1>3
<1>5. Clean' <=> \A n \in 1 .. loads + 1 : ~Files[files'[n]].flawed
  BY DEF Clean, Loaded
<1>6. Clean' => Clean /\ ~Files[f].flawed
  <2> SUFFICES ASSUME Clean' PROVE Clean /\ ~Files[f].flawed
    OBVIOUS
  <2>1. loads + 1 \in 1 .. loads + 1 /\ \A n \in 1 .. loads : n \in 1 .. loads + 1
    BY <1>2
  <2>2. ~Files[f].flawed
    BY <1>1, <1>5, <2>1
  <2>3. \A n \in 1 .. loads : ~Files[files[n]].flawed
    BY <1>1, <1>5, <2>1
  <2> QED
    BY <2>2, <2>3 DEF Clean, Loaded
<1>7. Clean' => CleanOf(files', loads + 1)
  BY <1>4, <1>5 DEF CleanOf
<1> QED
  BY <1>1, <1>2, <1>4, <1>6, <1>7

\* What is known before a load.
LEMMA CleanHistory ==
  ASSUME History, Clean
  PROVE  /\ CleanOf(files, loads) /\ loads \in Nat
         /\ IsSeq(DefaultsOf(files, loads)) /\ Valued(DefaultsOf(files, loads))
         /\ Defaults(loads) = DefaultsOf(files, loads)
<1>1. CleanOf(files, loads) /\ loads \in Nat
  BY DEF CleanOf, Clean, Loaded, History
<1>2. IsSeq(DefaultsOf(files, loads)) /\ Valued(DefaultsOf(files, loads))
  BY <1>1, DefaultsValued
<1> QED
  BY <1>1, <1>2 DEF Defaults, DefaultsOf, SaidBy, SectionsOf, Loaded

\* The defaults after a load.
LEMMA LoadDefaults ==
  ASSUME History, NEW f \in DOMAIN Files, loads' = loads + 1, files' = Append(files, f), Clean'
  PROVE  /\ DefaultsOf(files', loads) = DefaultsOf(files, loads)
         /\ Defaults(loads)' = Joined(DefaultsOf(files, loads), SaidIn(Files[f].sections, {"default"}))
         /\ IsSeq(DefaultsOf(files, loads)) /\ IsSeq(SaidIn(Files[f].sections, {"default"}))
<1> DEFINE fs == files'
           n == loads + 1
           ss == Files[f].sections
<1>1. /\ \A m \in 1 .. loads : fs[m] = files[m]
      /\ fs[loads + 1] = f /\ CleanOf(fs, n) /\ loads \in Nat /\ Clean /\ ~Files[f].flawed
  BY LoadFiles
<1>2. n \in Nat /\ loads \in 0 .. n /\ loads < n
  BY <1>1
<1> HIDE DEF fs, n
<1>3. DefaultsOf(fs, loads) = DefaultsOf(files, loads)
  BY <1>1, DefaultsSame
<1>4. DefaultsOf(fs, loads + 1) =
        Joined(DefaultsOf(fs, loads), SaidIn(SectionsOf(fs, loads + 1), {"default"}))
  BY <1>1, <1>2, DefaultsNext
<1>5. SectionsOf(fs, loads + 1) = ss
  BY <1>1 DEF SectionsOf
<1>6. Defaults(loads)' = DefaultsOf(fs, loads + 1)
  BY DEF Defaults, DefaultsOf, SaidBy, SectionsOf, Loaded, fs
<1>7. IsSeq(DefaultsOf(files, loads))
  BY <1>1, CleanHistory
<1>8. IsSeq(SaidIn(ss, {"default"}))
  <2>1. AreSections(ss)
    BY <1>1, FileOf
  <2> HIDE DEF ss
  <2>2. Len(ss) \in 0 .. Len(ss)
    BY <2>1, AppendSeq DEF AreSections
  <2> QED
    BY <2>1, <2>2, SaidStep DEF SaidIn
<1> QED
  BY <1>3, <1>4, <1>5, <1>6, <1>7, <1>8 DEF fs

\* The options sections after a load.
LEMMA LoadSaid ==
  ASSUME History, NEW f \in DOMAIN Files, loads' = loads + 1, files' = Append(files, f), Clean'
  PROVE  /\ Options(loads) = SaidBy(files, loads, {"options"})
         /\ Options(loads)' = Joined(SaidBy(files, loads, {"options"}), SaidIn(Files[f].sections, {"options"}))
         /\ IsSeq(SaidBy(files, loads, {"options"})) /\ IsSeq(SaidIn(Files[f].sections, {"options"}))
<1> DEFINE fs == files'
           n == loads + 1
           ss == Files[f].sections
           kinds == {"options"}
<1>1. /\ \A m \in 1 .. loads : fs[m] = files[m]
      /\ fs[loads + 1] = f /\ CleanOf(fs, n) /\ loads \in Nat /\ Clean /\ ~Files[f].flawed
  BY LoadFiles
<1>2. n \in Nat /\ loads \in 0 .. n /\ loads < n /\ loads \in 0 .. loads
  BY <1>1
<1>3. Options(loads)' = SaidBy(fs, loads + 1, kinds) /\ Options(loads) = SaidBy(files, loads, kinds)
  BY DEF Options, SaidBy, SectionsOf, Loaded, fs
<1> HIDE DEF fs, n, kinds
<1>4. SaidBy(fs, loads, kinds) = SaidBy(files, loads, kinds)
  BY <1>1, SaidSame
<1>5. SaidBy(fs, loads + 1, kinds) = Joined(SaidBy(fs, loads, kinds), SaidIn(SectionsOf(fs, loads + 1), kinds))
  BY <1>1, <1>2, SaidNext
<1>6. SectionsOf(fs, loads + 1) = ss
  BY <1>1 DEF SectionsOf
<1>7. IsSeq(SaidBy(files, loads, kinds))
  <2>1. CleanOf(files, loads)
    BY <1>1, CleanHistory
  <2> QED
    BY <1>1, <1>2, <2>1, SaidNext
<1>8. IsSeq(SaidIn(ss, kinds))
  <2>1. AreSections(ss)
    BY <1>1, FileOf
  <2> HIDE DEF ss
  <2>2. Len(ss) \in 0 .. Len(ss)
    BY <2>1, AppendSeq DEF AreSections
  <2> QED
    BY <2>1, <2>2, SaidStep DEF SaidIn
<1> QED
  BY <1>3, <1>4, <1>5, <1>6, <1>7, <1>8 DEF kinds

\* A load of a file without a mistake, after others without a mistake.
LEMMA LoadReads ==
  ASSUME Inv, History, AtRest, Clean, pc # "undefined",
         NEW f \in DOMAIN Files, ~Files[f].flawed, NEW before
  PROVE  Good(Fresh, yyparse(scan.rest \o Files[f].text), DefaultsOf(files, loads),
              Files[f].sections, Len(Files[f].sections), before)
<1> DEFINE ss == Files[f].sections
           earlier == DefaultsOf(files, loads)
           s == Fresh
           r == yyparse(scan.rest \o Files[f].text)
<1>1. IsSeq(earlier) /\ Valued(earlier) /\ Defaults(loads) = earlier
  BY CleanHistory
<1>2. AreSections(ss) /\ Files[f].text = Text(ss)
  BY FileOf
<1>3. Parsing(s)
  BY FreshParsing
<1>4. Len(heap) \in Nat
  BY Lengths DEF Inv
<1>5. scan.start = "INITIAL" /\ scan.stack = <<>> /\ scan.rest = <<>>
  BY DEF AtRest
<1>6. AtTop(s) /\ s.hosts = <<>> /\ s.heap = heap /\ s.default = default
  BY <1>5 DEF AtTop, Fresh
<1>7. \A o \in DOMAIN BuiltIn : Field(s.heap, s.default, o) = Inherited(earlier, o)
  BY <1>1, <1>6 DEF AtRest
<1>8. r = ParseFrom(s, Text(ss))
  <2>1. IsSeq(Files[f].text)
    <3> DEFINE q == Files[f].text
    <3>1. IsList(q)
      BY ConfigAssumption
    <3> HIDE DEF q
    <3>2. IsSeq(q)
      BY <3>1, ListSeq
    <3> QED
      BY <3>2 DEF q
  <2> DEFINE q == Files[f].text
  <2> HIDE DEF q
  <2>2. IsSeq(q) => <<>> \o q = q
    BY ConcatNone
  <2>3. <<>> \o Files[f].text = Files[f].text
    BY <2>1, <2>2 DEF q
  <2> QED
    BY <1>2, <1>5, <2>3 DEF yyparse
<1> HIDE DEF ss, earlier, s, r
<1>9. Good(s, ParseFrom(s, Text(ss)), earlier, ss, Len(ss), before)
  BY <1>1, <1>2, <1>3, <1>4, <1>6, <1>7, ReadFile
<1> QED
  BY <1>8, <1>9 DEF ss, earlier, s, r

\* A load, as far as it matters here.
Loads(f, first, next) ==
  /\ Load(f, first, next) /\ pc # "undefined"
  /\ first \in BOOLEAN /\ (first <=> pc = "start")
  /\ UNCHANGED <<svr, cmd, found, walk, foundAt>>

\* Where the program goes from there.
Leads(next) ==
  IF pc = "start" THEN next \in {"listen", "auth", "find"}
  ELSE next = pc /\ pc \in {"listen", "auth", "find", "checked"}

\* A file that is not there says nothing.
LEMMA NothingSaid ==
  ASSUME NEW f \in DOMAIN Files, ~Files[f].flawed, ~Files[f].readable
  PROVE  /\ Files[f].sections = <<>> /\ Len(Files[f].sections) = 0
         /\ \A kinds : SaidIn(Files[f].sections, kinds) = <<>>
<1>1. Files[f].sections = <<>> /\ AreSections(Files[f].sections)
  BY FileOf
<1> DEFINE ss == <<>>
<1>2. AreSections(ss) /\ Len(ss) = 0
  BY <1>1
<1> HIDE DEF ss
<1>3. 0 \in 0 .. Len(ss)
  BY <1>2
<1>4. \A kinds : Said(ss, 0, kinds) = <<>>
  BY <1>2, <1>3, SaidStep
<1> QED
  BY <1>1, <1>2, <1>4 DEF ss, SaidIn

\* A file that is there: what the parser has, and where that goes.
LEMMA LoadParsed ==
  ASSUME Inv, History, AtRest, NEW f \in DOMAIN Files, NEW first, NEW next, Loads(f, first, next),
         Files[f].readable, NEW before
  PROVE  LET r == yyparse(scan.rest \o Files[f].text)
         IN  /\ hosts' = IF first THEN clear_nat_hack_flags(r.hosts) ELSE r.hosts
             /\ default' = [r.default EXCEPT !.up = <<>>]
             /\ scan' = [start |-> r.start, stack |-> r.stack, rest |-> r.rest]
             /\ vtun' = IF first THEN FillDefaults(r.vtun) ELSE r.vtun
             /\ syslog' = r.syslog /\ heap' = r.heap /\ sound' = r.sound
             /\ pc' = IF r.crash \/ r.default.passwd # NULL THEN "undefined"
                      ELSE IF r.hosts = <<>> THEN "exited" ELSE next
             /\ Parsing(r)
             /\ Clean' => Good(Fresh, r, DefaultsOf(files, loads), Files[f].sections,
                               Len(Files[f].sections), before)
<1> DEFINE r == yyparse(scan.rest \o Files[f].text)
<1>1. Parsing(r)
  BY ParsedFile
<1>2. Clean' => Good(Fresh, r, DefaultsOf(files, loads), Files[f].sections,
                     Len(Files[f].sections), before)
  <2> SUFFICES ASSUME Clean' PROVE Good(Fresh, r, DefaultsOf(files, loads), Files[f].sections,
                                        Len(Files[f].sections), before)
    OBVIOUS
  <2>1. Clean /\ ~Files[f].flawed
    BY LoadFiles DEF Loads, Load
  <2> QED
    BY <2>1, LoadReads DEF Loads
<1>3. /\ hosts' = IF first THEN clear_nat_hack_flags(r.hosts) ELSE r.hosts
      /\ default' = [r.default EXCEPT !.up = <<>>]
      /\ scan' = [start |-> r.start, stack |-> r.stack, rest |-> r.rest]
      /\ vtun' = IF first THEN FillDefaults(r.vtun) ELSE r.vtun
      /\ syslog' = r.syslog /\ heap' = r.heap /\ sound' = r.sound
      /\ pc' = IF r.crash \/ r.default.passwd # NULL THEN "undefined"
               ELSE IF r.hosts = <<>> THEN "exited" ELSE next
  <2> HIDE DEF r
  <2> QED
    BY DEF Loads, Load, r
<1> HIDE DEF r
<1> QED
  BY <1>1, <1>2, <1>3 DEF r

\* What Fresh is.
LEMMA FreshFields ==
  /\ Fresh.rest = <<>> /\ Fresh.hosts = <<>> /\ Fresh.heap = heap /\ Fresh.sound = sound
  /\ Fresh.default = default /\ Fresh.vtun = vtun /\ Fresh.syslog = syslog
  BY DEF Fresh

\* The history after a load.
LEMMA LoadHistory ==
  ASSUME Inv, History, NEW f \in DOMAIN Files, NEW first, NEW next, Loads(f, first, next), Leads(next)
  PROVE  History'
<1>1. /\ IsSeq(files') /\ Len(files') = loads + 1 /\ loads \in Nat /\ loads' = loads + 1
      /\ \A n \in 1 .. loads' : files'[n] \in DOMAIN Files
  BY LoadFiles DEF Loads, Load
<1>2. foundAt' \in 0 .. loads'
  BY <1>1 DEF Loads, History
<1>3. pc' \in {next, "exited", "undefined"} /\ foundAt' = foundAt
  BY LoadEnds DEF Loads
<1>4. pc' # "start"
  BY <1>3 DEF Leads
<1>5. pc' \in {"listen", "auth", "find"} => foundAt = 0
  BY <1>3 DEF Leads, History
<1>6. pc' \in {"checked", "session"} => foundAt > 0
  BY <1>3 DEF Leads, History
<1> QED
  BY <1>1, <1>2, <1>3, <1>4, <1>5, <1>6 DEF History

\* default_host and the scanner after a load.
LEMMA LoadRest ==
  ASSUME Inv, History, AtRest, NEW f \in DOMAIN Files, NEW first, NEW next, Loads(f, first, next)
  PROVE  AtRest'
<1> SUFFICES ASSUME Clean', pc' # "undefined"
             PROVE  /\ scan'.start = "INITIAL" /\ scan'.stack = <<>> /\ scan'.rest = <<>>
                    /\ \A o \in DOMAIN BuiltIn : Field(heap', default', o) = Inherited(Defaults(loads)', o)
                    /\ syslog' = LastSaid(Options(loads)', "syslog", LOG_DAEMON)
  BY DEF AtRest
<1> DEFINE ss == Files[f].sections
           p == DefaultsOf(files, loads)
           q == SaidIn(ss, {"default"})
           u == SaidBy(files, loads, {"options"})
           v == SaidIn(ss, {"options"})
           log == "syslog"
           facility == LOG_DAEMON
<1>1. loads' = loads + 1 /\ files' = Append(files, f)
  BY DEF Loads, Load
<1>2. Clean /\ ~Files[f].flawed
  BY <1>1, LoadFiles
<1>3. Defaults(loads)' = Joined(p, q) /\ IsSeq(p) /\ IsSeq(q)
  BY <1>1, LoadDefaults
<1>4. Defaults(loads) = p
  BY <1>2, CleanHistory
<1>5. Options(loads)' = Joined(u, v) /\ Options(loads) = u /\ IsSeq(u) /\ IsSeq(v)
  BY <1>1, LoadSaid
<1>6. syslog = LastSaid(u, log, facility)
  BY <1>2, <1>5 DEF AtRest, Loads
<1>7. LastSaid(Joined(u, v), log, facility) = LastSaid(v, log, LastSaid(u, log, facility))
  <2> HIDE DEF u, v, log, facility
  <2> QED
    BY <1>5, SaidTwice
<1>8. syslog' = LastSaid(v, log, syslog) => syslog' = LastSaid(Options(loads)', "syslog", LOG_DAEMON)
  <2> SUFFICES ASSUME syslog' = LastSaid(v, log, syslog)
               PROVE  syslog' = LastSaid(Options(loads)', "syslog", LOG_DAEMON)
    OBVIOUS
  <2> HIDE DEF u, v
  <2>1. LastSaid(Options(loads)', log, facility) = LastSaid(v, log, syslog)
    BY <1>5, <1>6, <1>7
  <2> QED
    BY <2>1
<1>9. CASE ~Files[f].readable
  <2>1. UNCHANGED <<default, scan, heap, syslog>>
    BY <1>9 DEF Loads, Load
  <2>2. q = <<>> /\ v = <<>>
    BY <1>2, <1>9, NothingSaid
  <2> HIDE DEF p, q
  <2>3. Joined(p, q) = p
    BY <1>3, <2>2, ConcatNone DEF Joined
  <2>4. LastSaid(<<>>, log, syslog) = syslog
    BY SaidNone
  <2>5. syslog' = LastSaid(v, log, syslog)
    BY <2>1, <2>2, <2>4
  <2> HIDE DEF u, v, log, facility
  <2> QED
    BY <1>2, <1>3, <1>4, <1>8, <2>1, <2>3, <2>5 DEF AtRest, Loads
<1>10. CASE Files[f].readable
  <2> DEFINE r == yyparse(scan.rest \o Files[f].text)
  <2>1. /\ default' = [r.default EXCEPT !.up = <<>>]
        /\ scan' = [start |-> r.start, stack |-> r.stack, rest |-> r.rest]
        /\ syslog' = r.syslog /\ heap' = r.heap
        /\ pc' = IF r.crash \/ r.default.passwd # NULL THEN "undefined"
                 ELSE IF r.hosts = <<>> THEN "exited" ELSE next
        /\ Parsing(r)
    BY <1>10, LoadParsed
  <2>2. Good(Fresh, r, p, ss, Len(ss), FALSE)
    BY <1>10, LoadParsed
  <2> HIDE DEF r, p, q
  <2>3. ~r.crash /\ r.default.passwd = NULL
    BY <2>1
  <2>4. Filed(Fresh, r, p, ss, Len(ss))
    BY <2>2, <2>3 DEF Good
  <2>5. r.start = "INITIAL" /\ r.stack = <<>> /\ r.rest = <<>>
    BY <2>4, FreshFields DEF Filed, AtTop
  <2>6. DOMAIN r.default = DOMAIN BuiltIn
    BY <2>1 DEF Parsing, ParseOK
  <2>7. \A o \in DOMAIN BuiltIn : Field(r.heap, r.default, o) = LastSaid(q, OptionOf(o), Inherited(p, o))
    BY <2>4 DEF Filed, DefaultIn, q, SaidIn
  <2>8. ASSUME NEW o \in DOMAIN BuiltIn
        PROVE  Field(heap', default', o) = Inherited(Joined(p, q), o)
    <3>1. CASE o = "up"
      BY <2>1, <2>6, <3>1 DEF Field, Inherited, BuiltIn
    <3>2. CASE o = "passwd"
      BY <2>1, <2>3, <2>6, <3>2 DEF Field, Inherited, BuiltIn
    <3>3. CASE o \in DOMAIN BuiltIn \ {"up", "passwd"}
      <4>1. Inherited(Joined(p, q), o) = LastSaid(q, OptionOf(o), Inherited(p, o))
        BY <1>3, <3>3, InheritedOn
      <4>2. default'[o] = r.default[o] /\ default'.dev = r.default.dev
        BY <2>1, <2>6, <3>3 DEF BuiltIn
      <4>3. Field(heap', default', o) = Field(r.heap, r.default, o)
        BY <2>1, <4>2 DEF Field
      <4> QED
        BY <2>7, <4>1, <4>3
    <3> QED
      BY <3>1, <3>2, <3>3
  <2>9. syslog' = LastSaid(v, log, syslog)
    BY <2>1, <2>4, FreshFields DEF Filed, SaidIn
  <2> HIDE DEF u, v, log, facility
  <2> QED
    BY <1>3, <1>8, <2>1, <2>5, <2>8, <2>9
<1> QED
  BY <1>9, <1>10

\* What the file of a load means.
LEMMA LoadLeft ==
  ASSUME Inv, History, NEW f \in DOMAIN Files, NEW first, NEW next, Loads(f, first, next), Clean'
  PROVE  Left(loads)' =
           Sessions(DefaultsOf(files, loads), Files[f].sections, Len(Files[f].sections),
                    IF first THEN IF svr THEN "client" ELSE "server" ELSE NULL)
<1>1. loads' = loads + 1 /\ files' = Append(files, f) /\ svr' = svr
  BY DEF Loads, Load
<1>2. loads \in Nat /\ files'[loads + 1] = f
  BY <1>1, LoadFiles
<1>3. DefaultsOf(files', loads) = DefaultsOf(files, loads)
  BY <1>1, LoadDefaults
<1>4. loads' > 1 <=> ~first
  BY <1>1, <1>2 DEF Loads, History
<1>5. loads' - 1 = loads
  BY <1>1, <1>2
<1>6. Loaded(loads)' = Files[f]
  BY <1>1, <1>2 DEF Loaded
<1>7. Defaults(loads - 1)' = DefaultsOf(files, loads)
  BY <1>3, <1>5 DEF Defaults, DefaultsOf, SaidBy, SectionsOf, Loaded
<1>8. Left(loads)' =
        Sessions(Defaults(loads - 1)', Loaded(loads)'.sections, Len(Loaded(loads)'.sections),
                 IF loads' > 1 THEN NULL ELSE IF svr' THEN "client" ELSE "server")
  BY DEF Left
<1> QED
  BY <1>1, <1>4, <1>6, <1>7, <1>8

\* The list after a load.
LEMMA LoadListed ==
  ASSUME Inv, History, AtRest, NEW f \in DOMAIN Files, NEW first, NEW next, Loads(f, first, next),
         Clean', pc' # "undefined"
  PROVE  Shows(heap', hosts', Left(loads)')
<1> DEFINE ss == Files[f].sections
           p == DefaultsOf(files, loads)
           ignored == IF first THEN IF svr THEN "client" ELSE "server" ELSE NULL
<1>1. Left(loads)' = Sessions(p, ss, Len(ss), ignored)
  BY LoadLeft
<1>2. loads' = loads + 1 /\ files' = Append(files, f) /\ first \in BOOLEAN
  BY DEF Loads, Load
<1>3. Clean /\ ~Files[f].flawed
  BY <1>2, LoadFiles
<1>4. IsSeq(p) /\ Valued(p)
  BY <1>3, CleanHistory
<1>5. AreSections(ss)
  BY <1>3, FileOf
<1>6. CASE ~Files[f].readable
  <2>1. hosts' = <<>>
    BY <1>6 DEF Loads, Load
  <2>2. Len(ss) = 0
    BY <1>3, <1>6, NothingSaid
  <2> HIDE DEF ignored, p
  <2>3. Sessions(p, ss, 0, ignored) = <<>> /\ IsSeq(Sessions(p, ss, 0, ignored))
    <3> HIDE DEF ss
    <3>1. 0 \in Nat
      OBVIOUS
    <3> QED
      BY <3>1, SessionsStep
  <2> QED
    BY <1>1, <2>1, <2>2, <2>3 DEF Shows
<1>7. CASE Files[f].readable
  <2> DEFINE r == yyparse(scan.rest \o Files[f].text)
  <2>1. /\ hosts' = IF first THEN clear_nat_hack_flags(r.hosts) ELSE r.hosts
        /\ heap' = r.heap
        /\ pc' = IF r.crash \/ r.default.passwd # NULL THEN "undefined"
                 ELSE IF r.hosts = <<>> THEN "exited" ELSE next
        /\ Parsing(r)
    BY <1>7, LoadParsed
  <2>2. Good(Fresh, r, p, ss, Len(ss), FALSE)
    BY <1>7, LoadParsed
  <2> HIDE DEF r, p
  <2>3. Shows(r.heap, r.hosts, Sessions(p, ss, Len(ss), NULL))
    BY <2>1, <2>2 DEF Good, Filed
  <2>4. CASE ~first
    BY <1>1, <2>1, <2>3, <2>4
  <2>5. CASE first
    <3> DEFINE hp == r.heap
               list == r.hosts
               n == Len(hp)
    <3>1. n \in Nat /\ AreHosts(list, n)
      BY <2>1, AppendSeq DEF Parsing, ParseOK, IsHeap
    <3> HIDE DEF hp, list, n, ss
    <3>2. Shows(hp, list, Sessions(p, ss, Len(ss), NULL))
      BY <2>3 DEF hp, list
    <3>3. Shows(hp, clear_nat_hack_flags(list),
                Sessions(p, ss, Len(ss), IF svr THEN "client" ELSE "server"))
      BY <1>4, <1>5, <3>1, <3>2, ClearShown
    <3> QED
      BY <1>1, <2>1, <2>5, <3>3 DEF hp, list
  <2> QED
    BY <1>2, <2>4, <2>5
<1> QED
  BY <1>6, <1>7

\* The general options that are set once, after the first load.
LEMMA LoadOptions ==
  ASSUME Inv, History, AtRest, NEW f \in DOMAIN Files, NEW next, Loads(f, TRUE, next),
         ~Files[f].flawed, pc' # "undefined", NEW o \in DOMAIN Fallback
  PROVE  vtun'[o] = IF cmd[o] # None THEN cmd[o]
                    ELSE FirstSaid(SaidIn(Files[f].sections, KindsOf(o)), o, Fallback[o])
<1> DEFINE ss == Files[f].sections
           q == SaidIn(ss, KindsOf(o))
           x == Fallback[o]
<1>1. loads = 0 /\ vtun = cmd /\ loads' = loads + 1 /\ files' = Append(files, f)
  BY DEF Loads, Load, History
<1>2. Clean'
  <2>1. files'[1] = f
    BY <1>1, LoadFiles
  <2>2. \A n \in 1 .. loads' : n = 1
    BY <1>1
  <2> QED
    BY <2>1, <2>2 DEF Clean, Loaded
<1>3. AreOptions(vtun)
  BY DEF Inv, TypeOK
<1>4. IsSeq(q) /\ Valued(q)
  <2>1. AreSections(ss)
    BY FileOf
  <2> HIDE DEF ss
  <2>2. Len(ss) \in 0 .. Len(ss)
    BY <2>1, AppendSeq DEF AreSections
  <2> QED
    BY <2>1, <2>2, SaidStep, SaidValued DEF SaidIn
<1>5. ASSUME NEW v, AreOptions(v), v[o] = IF cmd[o] # None THEN cmd[o] ELSE FirstSaid(q, o, None)
      PROVE  FillDefaults(v)[o] = IF cmd[o] # None THEN cmd[o] ELSE FirstSaid(q, o, x)
  <2>1. FillDefaults(v)[o] = IF v[o] = None THEN x ELSE v[o]
    BY <1>5 DEF FillDefaults, AreOptions
  <2> HIDE DEF q, x
  <2>2. IF FirstSaid(q, o, None) = None THEN FirstSaid(q, o, x) = x
        ELSE FirstSaid(q, o, x) = FirstSaid(q, o, None)
    BY <1>4, ValuedFirst
  <2> QED
    BY <1>5, <2>1, <2>2
<1>6. CASE ~Files[f].readable
  <2>1. vtun' = FillDefaults(vtun)
    BY <1>6 DEF Loads, Load
  <2>2. q = <<>>
    BY <1>6, NothingSaid
  <2>3. FirstSaid(<<>>, o, None) = None
    BY SaidNone
  <2> HIDE DEF q, x
  <2>4. vtun[o] = IF cmd[o] # None THEN cmd[o] ELSE FirstSaid(q, o, None)
    BY <1>1, <2>2, <2>3
  <2>5. FillDefaults(vtun)[o] = IF cmd[o] # None THEN cmd[o] ELSE FirstSaid(q, o, x)
    BY <1>3, <1>5, <2>4
  <2> QED
    BY <2>1, <2>5 DEF q, x
<1>7. CASE Files[f].readable
  <2> DEFINE r == yyparse(scan.rest \o Files[f].text)
             first == TRUE
  <2>1. /\ vtun' = FillDefaults(r.vtun)
        /\ pc' = IF r.crash \/ r.default.passwd # NULL THEN "undefined"
                 ELSE IF r.hosts = <<>> THEN "exited" ELSE next
        /\ Parsing(r)
        /\ Good(Fresh, r, DefaultsOf(files, loads), ss, Len(ss), FALSE)
    <3>0. Loads(f, first, next) /\ first
      OBVIOUS
    <3> HIDE DEF first
    <3>1. /\ vtun' = IF first THEN FillDefaults(r.vtun) ELSE r.vtun
          /\ pc' = IF r.crash \/ r.default.passwd # NULL THEN "undefined"
                   ELSE IF r.hosts = <<>> THEN "exited" ELSE next
          /\ Parsing(r)
      BY <1>7, <3>0, LoadParsed
    <3>2. Good(Fresh, r, DefaultsOf(files, loads), ss, Len(ss), FALSE)
      BY <1>2, <1>7, <3>0, LoadParsed
    <3> QED
      BY <3>0, <3>1, <3>2
  <2> HIDE DEF r
  <2>2. r.vtun[o] = GivenIn(vtun[o], ss, Len(ss), o)
    BY <2>1, FreshFields DEF Good, Filed
  <2>3. AreOptions(r.vtun)
    BY <2>1 DEF Parsing, ParseOK
  <2> DEFINE v == r.vtun
  <2>4. v[o] = IF cmd[o] # None THEN cmd[o] ELSE FirstSaid(q, o, None)
    BY <1>1, <2>2 DEF GivenIn, SaidIn
  <2> HIDE DEF v, q, x
  <2>5. FillDefaults(v)[o] = IF cmd[o] # None THEN cmd[o] ELSE FirstSaid(q, o, x)
    BY <1>5, <2>3, <2>4 DEF v
  <2> QED
    BY <2>1, <2>5 DEF v, q, x
<1> QED
  BY <1>6, <1>7

----------------------------------------------------------------------------
\* The heap, after any number of loads.

\* The heap.
HeapOK ==
  Clean /\ ~DeviceShared /\ pc # "undefined" =>
    /\ sound
    /\ default.dev # 0 <=> \E m \in 1 .. loads : DefaultNamed(m)
    /\ default.dev # 0 => heap[default.dev].live
    /\ \A i \in 1 .. Len(hosts) : hosts[i].dev # 0 => heap[hosts[i].dev].live
    /\ foundAt > 0 /\ found # NoHost /\ found.dev # 0 =>
         heap[found.dev].live \/ \E n \in foundAt + 1 .. loads : DefaultNamed(n)

\* The default sections of the n-th file name a device; the files before do.
NamedOf(fs, n) == \E j \in DOMAIN SectionsOf(fs, n) : DefaultNames(SectionsOf(fs, n), j)
SharedOf(fs, n) == SharedIn(SectionsOf(fs, n), \E m \in 1 .. n - 1 : NamedOf(fs, m))

\* What a load adds to the history of the device names.
LEMMA LoadShared ==
  ASSUME History, NEW f \in DOMAIN Files, loads' = loads + 1, files' = Append(files, f)
  PROVE  /\ \A n \in 1 .. loads : DefaultNamed(n) <=> NamedOf(files', n)
         /\ (\E m \in 1 .. loads : DefaultNamed(m))' <=>
              \/ \E m \in 1 .. loads : DefaultNamed(m)
              \/ \E j \in DOMAIN Files[f].sections : DefaultNames(Files[f].sections, j)
         /\ NamedOf(files', loads + 1) <=>
              \E j \in DOMAIN Files[f].sections : DefaultNames(Files[f].sections, j)
         /\ ~DeviceShared' => /\ ~DeviceShared
                              /\ ~SharedIn(Files[f].sections, \E m \in 1 .. loads : DefaultNamed(m))
<1> DEFINE fs == files'
<1>1. /\ \A n \in 1 .. loads : fs[n] = files[n]
      /\ fs[loads + 1] = f /\ loads \in Nat
  BY LoadFiles
<1>2. \A n \in 1 .. loads : DefaultNamed(n) <=> NamedOf(fs, n)
  BY <1>1 DEF DefaultNamed, NamedOf, Loaded, SectionsOf
<1>3. SectionsOf(fs, loads + 1) = Files[f].sections
  BY <1>1 DEF SectionsOf
<1>4. NamedOf(fs, loads + 1) <=>
        \E j \in DOMAIN Files[f].sections : DefaultNames(Files[f].sections, j)
  BY <1>3 DEF NamedOf
<1>5. (\E m \in 1 .. loads : DefaultNamed(m))' <=> \E m \in 1 .. loads + 1 : NamedOf(fs, m)
  BY DEF DefaultNamed, NamedOf, Loaded, SectionsOf
<1>6. \A m : m \in 1 .. loads + 1 <=> m \in 1 .. loads \/ m = loads + 1
  BY <1>1
<1>7. DeviceShared' <=> \E n \in 1 .. loads + 1 : SharedOf(fs, n)
  BY DEF DeviceShared, SharedOf, DefaultNamed, NamedOf, Loaded, SectionsOf
<1> HIDE DEF fs
<1>8. (\E m \in 1 .. loads + 1 : NamedOf(fs, m)) <=>
        (\E m \in 1 .. loads : DefaultNamed(m)) \/ NamedOf(fs, loads + 1)
  BY <1>2, <1>6
<1>9. \A n \in 1 .. loads : SharedOf(fs, n) <=>
        SharedIn(Loaded(n).sections, \E m \in 1 .. n - 1 : DefaultNamed(m))
  <2> TAKE n \in 1 .. loads
  <2>1. SectionsOf(fs, n) = Loaded(n).sections
    BY <1>1 DEF SectionsOf, Loaded
  <2>2. \A m \in 1 .. n - 1 : m \in 1 .. loads
    BY <1>1
  <2>3. (\E m \in 1 .. n - 1 : NamedOf(fs, m)) <=> \E m \in 1 .. n - 1 : DefaultNamed(m)
    BY <1>2, <2>2
  <2> QED
    BY <2>1, <2>3 DEF SharedOf, SharedIn
<1>10. SharedOf(fs, loads + 1) <=> SharedIn(Files[f].sections, \E m \in 1 .. loads : DefaultNamed(m))
  <2>1. (loads + 1) - 1 = loads
    BY <1>1
  <2>2. (\E m \in 1 .. loads : NamedOf(fs, m)) <=> \E m \in 1 .. loads : DefaultNamed(m)
    BY <1>2
  <2> QED
    BY <1>3, <2>1, <2>2 DEF SharedOf, SharedIn
<1>11. ~DeviceShared' => /\ ~DeviceShared
                         /\ ~SharedIn(Files[f].sections, \E m \in 1 .. loads : DefaultNamed(m))
  BY <1>6, <1>7, <1>9, <1>10 DEF DeviceShared
<1> QED
  BY <1>2, <1>4, <1>5, <1>8, <1>11 DEF fs

\* What is known of the found session's name stays known.
LEMMA FoundDevice ==
  ASSUME Inv, History, NEW f \in DOMAIN Files, loads' = loads + 1, files' = Append(files, f),
         NEW hp, UNCHANGED <<found, foundAt>>, heap' = hp,
         foundAt > 0 /\ found # NoHost /\ found.dev # 0 =>
           heap[found.dev].live \/ \E n \in foundAt + 1 .. loads : DefaultNamed(n),
         \A i \in 1 .. Len(heap) : heap[i].live =>
           hp[i].live \/ \E j \in DOMAIN Files[f].sections : DefaultNames(Files[f].sections, j)
  PROVE  (foundAt > 0 /\ found # NoHost /\ found.dev # 0 =>
            heap[found.dev].live \/ \E n \in foundAt + 1 .. loads : DefaultNamed(n))'
<1>1. /\ \A n \in 1 .. loads : DefaultNamed(n) <=> NamedOf(files', n)
      /\ NamedOf(files', loads + 1) <=>
           \E j \in DOMAIN Files[f].sections : DefaultNames(Files[f].sections, j)
  BY LoadShared
<1>2. loads \in Nat /\ foundAt \in 0 .. loads
  BY DEF History
<1>3. Len(heap) \in Nat
  BY Lengths DEF Inv
<1> SUFFICES ASSUME foundAt > 0, found # NoHost, found.dev # 0
             PROVE  hp[found.dev].live \/ \E n \in foundAt + 1 .. loads + 1 : NamedOf(files', n)
  BY DEF DefaultNamed, NamedOf, Loaded, SectionsOf
<1>4. found.dev \in 1 .. Len(heap)
  BY <1>3 DEF Inv, TypeOK, IsSession
<1>5. loads + 1 \in foundAt + 1 .. loads + 1
      /\ \A n \in foundAt + 1 .. loads : n \in 1 .. loads /\ n \in foundAt + 1 .. loads + 1
  BY <1>2
<1>6. CASE heap[found.dev].live
  BY <1>1, <1>4, <1>5, <1>6
<1>7. CASE \E n \in foundAt + 1 .. loads : DefaultNamed(n)
  BY <1>1, <1>5, <1>7
<1> QED
  BY <1>6, <1>7

\* The heap after a load.
LEMMA LoadHeap ==
  ASSUME Inv, History, AtRest, HeapOK,
         NEW f \in DOMAIN Files, NEW first, NEW next, Loads(f, first, next)
  PROVE  HeapOK'
<1> SUFFICES ASSUME Clean', ~DeviceShared', pc' # "undefined"
             PROVE  /\ sound'
                    /\ default'.dev # 0 <=> (\E m \in 1 .. loads : DefaultNamed(m))'
                    /\ default'.dev # 0 => heap'[default'.dev].live
                    /\ \A i \in 1 .. Len(hosts') : hosts'[i].dev # 0 => heap'[hosts'[i].dev].live
                    /\ (foundAt > 0 /\ found # NoHost /\ found.dev # 0 =>
                         heap[found.dev].live \/ \E n \in foundAt + 1 .. loads : DefaultNamed(n))'
  BY DEF HeapOK
<1> DEFINE ss == Files[f].sections
           p == DefaultsOf(files, loads)
           before == \E m \in 1 .. loads : DefaultNamed(m)
           n == Len(ss)
           named == \E j \in DOMAIN ss : DefaultNames(ss, j)
<1>1. loads' = loads + 1 /\ files' = Append(files, f) /\ first \in BOOLEAN
      /\ UNCHANGED <<found, foundAt>> /\ pc # "undefined"
  BY DEF Loads, Load
<1>2. Clean /\ ~Files[f].flawed
  BY <1>1, LoadFiles
<1>3. ~DeviceShared /\ ~SharedIn(ss, before)
      /\ ((\E m \in 1 .. loads : DefaultNamed(m))' <=> before \/ named)
  BY <1>1, LoadShared
<1>4. /\ sound /\ (default.dev # 0 <=> before)
      /\ default.dev # 0 => heap[default.dev].live
      /\ foundAt > 0 /\ found # NoHost /\ found.dev # 0 =>
           heap[found.dev].live \/ \E m \in foundAt + 1 .. loads : DefaultNamed(m)
  BY <1>1, <1>2, <1>3 DEF HeapOK
<1>5. AreSections(ss)
  BY <1>2, FileOf
<1>6. DOMAIN ss = 1 .. n /\ n \in Nat
  <2> HIDE DEF ss
  <2> QED
    BY <1>5, AppendSeq DEF AreSections
<1>7. CASE ~Files[f].readable
  <2>1. UNCHANGED <<default, heap, sound>> /\ hosts' = <<>>
    BY <1>7 DEF Loads, Load
  <2>2. ~named
    <3>1. n = 0
      BY <1>2, <1>7, NothingSaid
    <3> QED
      BY <1>6, <3>1
  <2>3. Len(hosts') = 0
    BY <2>1
  <2> DEFINE hp == heap
  <2>4. heap' = hp /\ \A i \in 1 .. Len(heap) : heap[i].live => hp[i].live \/ named
    BY <2>1
  <2> HIDE DEF hp
  <2>5. (foundAt > 0 /\ found # NoHost /\ found.dev # 0 =>
           heap[found.dev].live \/ \E m \in foundAt + 1 .. loads : DefaultNamed(m))'
    BY <1>1, <1>4, <2>4, FoundDevice
  <2> QED
    BY <1>3, <1>4, <2>1, <2>2, <2>3, <2>5
<1>8. CASE Files[f].readable
  <2> DEFINE r == yyparse(scan.rest \o Files[f].text)
             s == Fresh
  <2> HIDE DEF before
  <2>1. /\ hosts' = IF first THEN clear_nat_hack_flags(r.hosts) ELSE r.hosts
        /\ default' = [r.default EXCEPT !.up = <<>>]
        /\ heap' = r.heap /\ sound' = r.sound
        /\ pc' = IF r.crash \/ r.default.passwd # NULL THEN "undefined"
                 ELSE IF r.hosts = <<>> THEN "exited" ELSE next
        /\ Parsing(r)
    BY <1>8, LoadParsed
  <2>2. Good(s, r, p, ss, Len(ss), before)
    BY <1>8, LoadParsed
  <2>3. s.heap = heap /\ s.hosts = <<>> /\ s.sound = sound /\ s.default = default
    BY FreshFields
  <2> HIDE DEF r, p, s
  <2>4. Len(heap) \in Nat
    BY Lengths DEF Inv
  <2>5. HeapIn(s, s, ss, 0, before)
    <3> HIDE DEF ss
    <3> QED
      BY <1>4, <2>3, <2>4, HeapNone
  <2>6. HeapIn(s, r, ss, n, before)
    BY <1>3, <2>1, <2>2, <2>5 DEF Good
  <2>7. default'.dev = r.default.dev
    <3>1. DOMAIN r.default = DOMAIN BuiltIn
      BY <2>1 DEF Parsing, ParseOK
    <3> QED
      BY <2>1, <3>1 DEF BuiltIn
  <2>8. NamedIn(ss, n, before) <=> before \/ named
    BY <1>6 DEF NamedIn
  <2>9. sound' /\ (default'.dev # 0 => heap'[default'.dev].live)
        /\ (default'.dev # 0 <=> before \/ named)
    BY <2>1, <2>6, <2>7, <2>8 DEF HeapIn
  <2>10. \A i \in 1 .. Len(hosts') : hosts'[i].dev # 0 => heap'[hosts'[i].dev].live
    <3>1. \A i \in 1 .. Len(r.hosts) : r.hosts[i].dev # 0 => r.heap[r.hosts[i].dev].live
      BY <2>6 DEF HeapIn
    <3>2. CASE ~first
      BY <2>1, <3>1, <3>2
    <3>3. CASE first
      <4> DEFINE list == r.hosts
                 m == Len(r.heap)
                 c == clear_nat_hack_flags(list)
      <4>1. AreHosts(list, m) /\ m \in Nat
        BY <2>1, AppendSeq DEF Parsing, ParseOK, IsHeap
      <4> HIDE DEF list, m
      <4>2. Len(c) = Len(list) /\ \A i \in 1 .. Len(list) : c[i].dev = list[i].dev
        BY <4>1, ClearFact
      <4> HIDE DEF c
      <4>3. \A i \in 1 .. Len(c) : c[i].dev # 0 => r.heap[c[i].dev].live
        BY <3>1, <4>2 DEF list
      <4> QED
        BY <2>1, <3>3, <4>3 DEF c, list
    <3> QED
      BY <1>1, <3>2, <3>3
  <2> DEFINE hp == r.heap
  <2>11. heap' = hp /\ \A i \in 1 .. Len(heap) : heap[i].live => hp[i].live \/ named
    BY <1>6, <2>1, <2>3, <2>6 DEF HeapIn
  <2> HIDE DEF hp
  <2>12. (foundAt > 0 /\ found # NoHost /\ found.dev # 0 =>
           heap[found.dev].live \/ \E m \in foundAt + 1 .. loads : DefaultNamed(m))'
    BY <1>1, <1>4, <2>11, FoundDevice
  <2> QED
    BY <1>3, <2>9, <2>10, <2>12 DEF before
<1> QED
  BY <1>7, <1>8

\* The file that ends a server.
LEMMA LoadSurvives ==
  ASSUME Inv, History, AtRest, NEW f \in DOMAIN Files, NEW first, NEW next, Loads(f, first, next),
         pc' \in {"exited", "undefined"}, next \notin {"exited", "undefined"}
  PROVE  (~Clean \/ (Loaded(loads).readable /\ Left(loads) = <<>>) \/ DefaultUnbearable)'
<1> SUFFICES ASSUME Clean'
             PROVE  (Loaded(loads)'.readable /\ Left(loads)' = <<>>) \/ DefaultUnbearable'
  OBVIOUS
<1> DEFINE ss == Files[f].sections
           p == DefaultsOf(files, loads)
           q == SaidIn(ss, {"default"})
           r == yyparse(scan.rest \o Files[f].text)
<1>1. loads' = loads + 1 /\ files' = Append(files, f)
  BY DEF Loads, Load
<1>2. Clean /\ ~Files[f].flawed /\ files'[loads + 1] = f
  BY <1>1, LoadFiles
<1>3. Loaded(loads)' = Files[f]
  BY <1>1, <1>2 DEF Loaded
<1>4. Files[f].readable
  <2> SUFFICES ASSUME ~Files[f].readable PROVE FALSE
    OBVIOUS
  <2>1. pc' = next
    BY DEF Loads, Load
  <2> QED
    BY <2>1
<1>5. /\ pc' = IF r.crash \/ r.default.passwd # NULL THEN "undefined"
               ELSE IF r.hosts = <<>> THEN "exited" ELSE next
      /\ hosts' = (IF first THEN clear_nat_hack_flags(r.hosts) ELSE r.hosts)
      /\ Parsing(r)
  BY <1>4, LoadParsed
<1>6. Good(Fresh, r, p, ss, Len(ss), FALSE)
  BY <1>4, LoadParsed
<1>7. DefaultUnbearable' <=> Places(q, "passwd") # {} \/ Shelled(q)
  BY <1>3 DEF DefaultUnbearable, Shelled
<1>8. IsSeq(q)
  BY <1>1, LoadDefaults
<1> HIDE DEF r, q
<1>9. CASE r.crash
  <2>1. Shelled(q)
    BY <1>6, <1>9 DEF Good, Filed, AtTop, q, SaidIn
  <2> QED
    BY <1>7, <2>1
<1>10. CASE ~r.crash /\ r.default.passwd # NULL
  <2>1. "passwd" \in DOMAIN BuiltIn
    BY DEF BuiltIn
  <2>2. Field(r.heap, r.default, "passwd") = LastSaid(q, OptionOf("passwd"), Inherited(p, "passwd"))
    BY <1>6, <1>10, <2>1 DEF Good, Filed, DefaultIn, q, SaidIn
  <2>3. r.default.passwd = LastSaid(q, "passwd", NULL)
    BY <2>2 DEF Field, OptionOf, Inherited
  <2>4. Places(q, "passwd") # {}
    BY <1>10, <2>3 DEF LastSaid
  <2> QED
    BY <1>7, <2>4
<1>11. CASE ~r.crash /\ r.default.passwd = NULL
  <2>1. r.hosts = <<>> /\ pc' # "undefined"
    BY <1>5, <1>11
  <2>2. Shows(heap', hosts', Left(loads)')
    BY <2>1, LoadListed
  <2>3. Len(hosts') = 0
    <3>1. Len(clear_nat_hack_flags(<<>>)) = 0
      BY DEF clear_nat_hack_flags
    <3> QED
      BY <1>5, <2>1, <3>1
  <2> DEFINE all == Left(loads)'
  <2>4. IsSeq(all) /\ Len(all) = 0
    BY <2>2, <2>3 DEF Shows
  <2> HIDE DEF all
  <2>5. all = <<>>
    BY <2>4, ConcatNone
  <2> QED
    BY <1>3, <1>4, <2>5 DEF all
<1> QED
  BY <1>9, <1>10, <1>11

----------------------------------------------------------------------------
\* Names, where the files have mistakes: none comes from nowhere.

\* The session in hand keeps its name.
NameKept(s, r) == r.section = "host" => s.section = "host" /\ r.host.name = s.host.name

\* An option is not the name.
LEMMA PutName ==
  ASSUME NEW s, ParseOK(s), NEW option, option # "name", NEW v
  PROVE  /\ NameKept(s, Put(s, option, v)) /\ DOMAIN Put(s, option, v) = DOMAIN Fresh
<1>1. DOMAIN s = DOMAIN Fresh /\ (s.section = "host" => "name" \in DOMAIN s.host)
  BY DEF ParseOK, IsSession, HostFields
<1>2. CASE s.section = "default"
  BY <1>1, <1>2 DEF Put, NameKept, Fresh
<1>3. CASE s.section # "default"
  <2> DEFINE r == [s EXCEPT !.host[option] = v]
  <2>1. DOMAIN r = DOMAIN Fresh /\ r.host = [s.host EXCEPT ![option] = v] /\ r.section = s.section
    BY <1>1 DEF Fresh
  <2>2. Put(s, option, v) = r
    BY <1>3 DEF Put
  <2> HIDE DEF r
  <2>3. s.section = "host" => r.host.name = s.host.name
    BY <1>1, <2>1
  <2> QED
    BY <2>1, <2>2, <2>3 DEF NameKept
<1> QED
  BY <1>2, <1>3

\* An option with its parameter.
LEMMA OptionName ==
  ASSUME NEW s, ParseOK(s), s.at = "param", NEW v
  PROVE  NameKept(s, SetOption(s, v))
<1> DEFINE next == [s EXCEPT !.at = "body"]
<1>1. DOMAIN s = DOMAIN Fresh /\ PlaceOK(s)
  BY DEF ParseOK
<1>2. /\ DOMAIN next = DOMAIN Fresh /\ next.at = "body"
      /\ \A x \in DOMAIN Fresh \ {"at"} : next[x] = s[x]
  BY <1>1 DEF Fresh
<1>3. /\ s.section \in {"options", "default", "host"}
      /\ s.option \in OptionsOf(s.section) \ {"up"}
  BY <1>1 DEF PlaceOK
<1>4. SetOption(s, v) =
        CASE s.section = "options" -> SetGeneral(next, s.option, v)
          [] s.option = "device" -> K_DEVICE(next, v)
          [] s.option = "persist" -> SetGeneral(Put(next, "persist", v), "persist", v)
          [] OTHER -> Put(next, s.option, v)
  BY DEF SetOption
<1> HIDE DEF next
<1>5. ParseOK(next)
  <2>1. /\ next.start = s.start /\ next.stack = s.stack /\ next.rest = s.rest
        /\ next.default = s.default
        /\ next.vtun = s.vtun /\ next.heap = s.heap /\ next.sound = s.sound
        /\ next.hosts = s.hosts /\ next.host = s.host /\ next.section = s.section
    BY <1>2 DEF Fresh
  <2>2. PlaceOK(next)
    BY <1>2, <1>3, <2>1 DEF PlaceOK, Commands
  <2> QED
    BY <1>2, <2>1, <2>2 DEF ParseOK
<1>6. next.section = s.section /\ next.host = s.host
  BY <1>2 DEF Fresh
<1>7. ASSUME NEW t, NEW option, DOMAIN t = DOMAIN Fresh, NameKept(s, t)
      PROVE  NameKept(s, SetGeneral(t, option, v))
  BY <1>7 DEF NameKept, SetGeneral, Fresh
<1>8. ASSUME NEW option, option # "name" PROVE NameKept(s, Put(next, option, v))
                                              /\ DOMAIN Put(next, option, v) = DOMAIN Fresh
  <2>1. NameKept(next, Put(next, option, v)) /\ DOMAIN Put(next, option, v) = DOMAIN Fresh
    BY <1>5, <1>8, PutName
  <2> QED
    BY <1>6, <2>1 DEF NameKept
<1>9. CASE s.section = "options"
  <2>1. s.option \notin {"device"} \cup {"persist"}
    BY <1>3, <1>9 DEF OptionsOf, GeneralOptions
  <2>2. SetOption(s, v) = SetGeneral(next, s.option, v)
    BY <1>4, <1>9, <2>1
  <2>3. NameKept(s, next)
    BY <1>6 DEF NameKept
  <2> QED
    BY <1>2, <1>7, <2>2, <2>3
<1>10. CASE s.section # "options" /\ s.option = "device"
  <2> DEFINE a == Put(next, "dev", Len(next.heap) + 1)
  <2>1. DOMAIN a = DOMAIN Fresh /\ NameKept(s, a)
    <3> DEFINE o == "dev"
               x == Len(next.heap) + 1
    <3>1. o # "name"
      OBVIOUS
    <3> HIDE DEF o, x
    <3>2. NameKept(next, Put(next, o, x)) /\ DOMAIN Put(next, o, x) = DOMAIN Fresh
      BY <1>5, <3>1, PutName
    <3> QED
      BY <1>6, <3>2 DEF NameKept, o, x
  <2>2. SetOption(s, v) = K_DEVICE(next, v)
    BY <1>4, <1>10
  <2>3. K_DEVICE(next, v).section = a.section /\ K_DEVICE(next, v).host = a.host
    <3> HIDE DEF a
    <3> QED
      BY <2>1 DEF K_DEVICE, a, Fresh
  <2> HIDE DEF a
  <2> QED
    BY <2>1, <2>2, <2>3 DEF NameKept
<1>11. CASE s.section # "options" /\ s.option = "persist"
  <2>1. SetOption(s, v) = SetGeneral(Put(next, "persist", v), "persist", v)
    BY <1>4, <1>11
  <2>2. NameKept(s, Put(next, "persist", v)) /\ DOMAIN Put(next, "persist", v) = DOMAIN Fresh
    BY <1>8
  <2> QED
    BY <1>7, <2>1, <2>2
<1>12. CASE s.section # "options" /\ s.option \notin {"device", "persist"}
  <2>1. s.option # "name"
    BY <1>3, <1>12 DEF OptionsOf, HostOptions, Numbers
  <2>2. SetOption(s, v) = Put(next, s.option, v)
    BY <1>4, <1>12
  <2> QED
    BY <1>8, <2>1, <2>2
<1> QED
  BY <1>9, <1>10, <1>11, <1>12

\* Only the name of a section makes another session.
LEMMA ParsedName ==
  ASSUME NEW s, ParseOK(s), NEW t, NEW w
  PROVE  \/ NameKept(s, Parsed(s, t, w))
         \/ Parsed(s, t, w).section = "host" /\ Parsed(s, t, w).host.name = NameOf(w)
<1> DEFINE r == Parsed(s, t, w)
           Go(at) == [s EXCEPT !.at = at]
           section == [s EXCEPT !.at = "open", !.section = t]
           host == K_HOST(s, NameOf(w))
           up == [Put(s, "up", <<>>) EXCEPT !.at = "up"]
           param == [s EXCEPT !.at = "param", !.option = t]
           option == SetOption(s, w.v)
           end == EndOfSection(s)
           command == [Put(s, "up", Append(ParseHost(s).up,
                                           IF s.at = "program" THEN Shell ELSE w.v))
                         EXCEPT !.at = "cmds"]
           first == Go("first")
           cmds == Go("cmds")
           program == Go(t)
           body == Go("body")
           error == Go("error")
<1>1. DOMAIN s = DOMAIN Fresh
  BY DEF ParseOK
<1>2. ASSUME NEW at PROVE NameKept(s, Go(at))
  BY <1>1 DEF NameKept, Fresh
<1>3. t \in {"options", "default"} => NameKept(s, section)
  BY <1>1 DEF NameKept, Fresh
<1>4. host.section = "host" /\ host.host.name = NameOf(w)
  BY <1>1 DEF K_HOST, Fresh
<1>5. ASSUME NEW v, NEW at PROVE NameKept(s, [Put(s, "up", v) EXCEPT !.at = at])
  <2> DEFINE a == Put(s, "up", v)
  <2>1. DOMAIN a = DOMAIN Fresh /\ NameKept(s, a)
    BY PutName
  <2> HIDE DEF a
  <2>2. NameKept(s, [a EXCEPT !.at = at])
    BY <2>1 DEF NameKept, Fresh
  <2> QED
    BY <2>2 DEF a
<1>6. NameKept(s, up)
  BY <1>5
<1>7. NameKept(s, command)
  BY <1>5
<1>8. NameKept(s, param)
  BY <1>1 DEF NameKept, Fresh
<1>9. s.at = "param" => NameKept(s, option)
  BY OptionName
<1>10. NameKept(s, end)
  BY <1>1 DEF NameKept, EndOfSection, Fresh
<1>11. /\ NameKept(s, first) /\ NameKept(s, cmds) /\ NameKept(s, program)
       /\ NameKept(s, body) /\ NameKept(s, error)
  BY <1>2
<1>12. r = CASE s.at = "top" /\ t \in {"options", "default"} -> section
             [] s.at = "top" /\ t = "K_HOST" -> host
             [] s.at = "open" /\ t = "{" -> first
             [] s.at \in {"first", "body"} /\ t = "up" /\ s.section # "options" -> up
             [] s.at \in {"first", "body"} /\ t \in OptionsOf(s.section) \ {"up"} -> param
             [] s.at = "param"
                /\ t = (IF s.option \in {"passwd", "device"} THEN "WORD" ELSE "NUM") -> option
             [] s.at = "body" /\ t = "}" -> end
             [] s.at = "up" /\ t = "{" -> cmds
             [] s.at = "cmds" /\ t \in Commands -> program
             [] s.at \in Commands /\ t = "STRING" -> command
             [] s.at = "cmds" /\ t = "}" -> body
             [] OTHER -> error
  BY DEF Parsed
<1> HIDE DEF r, section, host, up, param, option, end, command, first, cmds, program, body,
       error
<1>13. NameKept(s, r) \/ (r.section = "host" /\ r.host.name = NameOf(w))
  BY <1>3, <1>4, <1>6, <1>7, <1>8, <1>9, <1>10, <1>11, <1>12
<1> QED
  BY <1>13 DEF r

\* What is in flex's buffer, in the list and in hand was in a text; its names
\* are in W.
Within(text, W) == \A i \in 1 .. Len(text) : NameOf(text[i]) \in W
Told(s, W) ==
  /\ Within(s.rest, W)
  /\ \A i \in 1 .. Len(s.hosts) : s.hosts[i].name \in W
  /\ s.section = "host" => s.host.name \in W

\* One lexeme.
LEMMA ReadTold ==
  ASSUME NEW s, Parsing(s), NEW W, Told(s, W), NEW w, NameOf(w) \in W
  PROVE  Told(Read(s, w), W)
<1> DEFINE later == [s EXCEPT !.rest = Append(@, w)]
           t == Scanned(s, w)
           token == Token(s, w)
           p == Parsed(t, token, w)
<1>1. DOMAIN s = DOMAIN Fresh /\ ScanOK(s.start, s.stack) /\ IsSeq(s.rest)
  BY DEF Parsing, ParseOK
<1>2. Told(later, W)
  <2> DEFINE q == s.rest
             a == Append(q, w)
             n == Len(q)
  <2>1. later.rest = a /\ later.hosts = s.hosts /\ later.section = s.section /\ later.host = s.host
    BY <1>1 DEF Fresh
  <2>2. IsSeq(q)
    BY <1>1
  <2>3. \A i \in 1 .. Len(q) : NameOf(q[i]) \in W
    BY DEF Told, Within
  <2> HIDE DEF q, later
  <2>4. Len(a) = n + 1 /\ n \in Nat /\ a[n + 1] = w /\ \A i \in 1 .. n : a[i] = q[i]
    BY <2>2, AppendSeq
  <2> HIDE DEF a
  <2>5. \A i \in 1 .. Len(a) : i \in 1 .. n \/ i = n + 1
    BY <2>4
  <2>6. \A i \in 1 .. Len(a) : NameOf(a[i]) \in W
    BY <2>3, <2>4, <2>5
  <2> QED
    BY <2>1, <2>6 DEF Told, Within
<1>3. /\ ParseOK(t) /\ t.rest = s.rest /\ t.hosts = s.hosts /\ t.section = s.section
      /\ t.host = s.host
  <2>1. /\ DOMAIN t = DOMAIN Fresh /\ ScanOK(t.start, t.stack)
        /\ \A x \in DOMAIN Fresh \ {"start", "stack"} : t[x] = s[x]
    BY <1>1, ScannedOK
  <2> HIDE DEF t
  <2>2. t.rest = s.rest /\ t.hosts = s.hosts /\ t.section = s.section /\ t.host = s.host
    BY <2>1 DEF Fresh
  <2>3. \A x \in DOMAIN Fresh \ {"start", "stack", "rest"} : t[x] = s[x]
    BY <2>1
  <2>4. Parsing(t)
    BY <1>1, <2>1, <2>2, <2>3, ScanKeeps
  <2> QED
    BY <2>2, <2>4 DEF Parsing
<1> HIDE DEF t, token
<1>4. Told(t, W)
  BY <1>3 DEF Told
<1>5. Told(p, W)
  <2>1. Shape(t, p)
    BY <1>3, ParsedShape
  <2>2. NameKept(t, p) \/ (p.section = "host" /\ p.host.name = NameOf(w))
    BY <1>3, ParsedName
  <2> HIDE DEF p
  <2>3. p.section = "host" => p.host.name \in W
    BY <1>4, <2>2 DEF NameKept, Told
  <2>4. p.rest = t.rest
    BY <2>1 DEF Shape, Frame
  <2>5. p.hosts = t.hosts \/ (t.section = "host" /\ p.hosts = Append(t.hosts, t.host))
    BY <2>1 DEF Shape, Plain, Adds, Renames
  <2>6. \A i \in 1 .. Len(p.hosts) : p.hosts[i].name \in W
    <3>1. CASE p.hosts = t.hosts
      BY <1>4, <3>1 DEF Told
    <3>2. CASE t.section = "host" /\ p.hosts = Append(t.hosts, t.host)
      <4> DEFINE q == t.hosts
                 h == t.host
                 a == Append(q, h)
                 n == Len(q)
      <4>1. IsSeq(q) /\ h.name \in W /\ \A i \in 1 .. Len(q) : q[i].name \in W
        BY <1>3, <1>4, <3>2 DEF ParseOK, AreHosts, Told
      <4> HIDE DEF q, h
      <4>2. Len(a) = n + 1 /\ n \in Nat /\ a[n + 1] = h /\ \A i \in 1 .. n : a[i] = q[i]
        BY <4>1, AppendSeq
      <4> HIDE DEF a
      <4>3. \A i \in 1 .. Len(a) : i \in 1 .. n \/ i = n + 1
        BY <4>2
      <4>4. \A i \in 1 .. Len(a) : a[i].name \in W
        BY <4>1, <4>2, <4>3
      <4> QED
        BY <3>2, <4>4 DEF a, q, h
    <3> QED
      BY <2>5, <3>1, <3>2
  <2> QED
    BY <1>4, <2>3, <2>4, <2>6 DEF Told
<1>6. Read(s, w) = IF s.at = "error" \/ s.crash THEN later
                   ELSE IF Token(s, w) = "none" THEN t ELSE p
  BY DEF Read, t, token
<1> HIDE DEF later, p
<1> QED
  BY <1>2, <1>4, <1>5, <1>6

\* A whole text.
LEMMA ParseTold ==
  ASSUME NEW s, Parsing(s), Len(heap) \in Nat, NEW W, Told(s, W), NEW text, Len(text) \in Nat,
         Within(text, W)
  PROVE  Told(ParseFrom(s, text), W)
<1> DEFINE n == Len(text)
<1>1. PICK f : /\ f[0] = s /\ f[n] = ParseFrom(s, text)
               /\ \A i \in 1 .. n : f[i] = Read(f[i - 1], text[i])
  BY ParseTrace
<1> DEFINE S == {k \in 0 .. n : Parsing(f[k]) /\ Told(f[k], W)}
<1>2. 0 \in S
  BY <1>1
<1>3. ASSUME NEW k \in 0 .. n - 1, k \in S PROVE k + 1 \in S
  <2>1. k + 1 \in 1 .. n /\ (k + 1) - 1 = k /\ Parsing(f[k]) /\ Told(f[k], W)
    BY <1>3
  <2>2. f[k + 1] = Read(f[k], text[k + 1]) /\ NameOf(text[k + 1]) \in W
    BY <1>1, <2>1 DEF Within
  <2>3. Parsing(f[k + 1])
    BY <2>1, <2>2, ReadKeeps
  <2>4. Told(f[k + 1], W)
    BY <2>1, <2>2, ReadTold
  <2> QED
    BY <2>1, <2>3, <2>4
<1>4. \A k \in 0 .. n : k \in S
  <2>1. n \in Nat
    OBVIOUS
  <2> HIDE DEF S, n
  <2> QED
    BY <1>2, <1>3, <2>1, UpTo
<1>5. Told(f[n], W)
  BY <1>4
<1> QED
  BY <1>1, <1>5

\* The names in the texts of the files from the first one with a mistake on.
WordsOf(fs, n) == {NameOf(Files[fs[n]].text[i]) : i \in DOMAIN Files[fs[n]].text}
FlawedBy(fs, n) == \E m \in 1 .. n : Files[fs[m]].flawed
Source(fs, n) == UNION {WordsOf(fs, k) : k \in {j \in 1 .. n : FlawedBy(fs, j)}}

Sourced ==
  ~Clean /\ pc # "undefined" =>
    /\ Within(scan.rest, Source(files, loads))
    /\ pc \in {"listen", "auth"} =>
         \A i \in 1 .. Len(hosts) : hosts[i].name \in Source(files, loads)

\* One file more.
LEMMA LoadSource ==
  ASSUME History, NEW f \in DOMAIN Files, loads' = loads + 1, files' = Append(files, f), ~Clean'
  PROVE  /\ Source(files, loads) \subseteq Source(files', loads + 1)
         /\ \A i \in DOMAIN Files[f].text : NameOf(Files[f].text[i]) \in Source(files', loads + 1)
<1> DEFINE fs == files'
           n == loads + 1
<1>1. /\ \A m \in 1 .. loads : fs[m] = files[m]
      /\ fs[n] = f /\ loads \in Nat
  BY LoadFiles
<1>2. FlawedBy(fs, n)
  BY DEF Clean, Loaded, FlawedBy
<1>3. n \in 1 .. n /\ \A k \in 1 .. loads : k \in 1 .. n
  BY <1>1
<1> HIDE DEF fs, n
<1>4. \A k \in 1 .. loads : WordsOf(fs, k) = WordsOf(files, k)
  BY <1>1 DEF WordsOf
<1>5. ASSUME NEW k \in 1 .. loads, FlawedBy(files, k) PROVE FlawedBy(fs, k)
  <2>1. PICK m \in 1 .. k : Files[files[m]].flawed
    BY <1>5 DEF FlawedBy
  <2>2. m \in 1 .. loads
    BY <1>1
  <2> QED
    BY <1>1, <2>1, <2>2 DEF FlawedBy
<1>6. Source(files, loads) \subseteq Source(fs, n)
  <2> SUFFICES ASSUME NEW x \in Source(files, loads) PROVE x \in Source(fs, n)
    OBVIOUS
  <2>1. PICK k \in 1 .. loads : FlawedBy(files, k) /\ x \in WordsOf(files, k)
    BY DEF Source
  <2>2. k \in 1 .. n /\ FlawedBy(fs, k) /\ x \in WordsOf(fs, k)
    BY <1>3, <1>4, <1>5, <2>1
  <2> QED
    BY <2>2 DEF Source
<1>7. ASSUME NEW i \in DOMAIN Files[f].text PROVE NameOf(Files[f].text[i]) \in Source(fs, n)
  <2>1. NameOf(Files[f].text[i]) \in WordsOf(fs, n)
    BY <1>1 DEF WordsOf
  <2> QED
    BY <1>2, <1>3, <2>1 DEF Source
<1> QED
  BY <1>6, <1>7 DEF fs, n

\* clear_nat_hack_flags() leaves the names.
LEMMA ClearNames ==
  ASSUME NEW list, NEW n \in Nat, AreHosts(list, n), NEW W,
         \A i \in 1 .. Len(list) : list[i].name \in W
  PROVE  \A i \in 1 .. Len(clear_nat_hack_flags(list)) : clear_nat_hack_flags(list)[i].name \in W
<1> DEFINE c == clear_nat_hack_flags(list)
<1>1. Len(c) = Len(list)
  BY ClearFact
<1>2. DOMAIN list = 1 .. Len(list)
  BY AppendSeq DEF AreHosts
<1>3. \A i \in 1 .. Len(list) : DOMAIN list[i] = HostFields
  BY DEF AreHosts, IsSession
<1>4. \A i \in 1 .. Len(list) : c[i].name = list[i].name
  BY <1>2, <1>3 DEF clear_nat_hack_flags, HostFields
<1> HIDE DEF c
<1>5. \A i \in 1 .. Len(c) : c[i].name \in W
  BY <1>1, <1>4
<1> QED
  BY <1>5 DEF c

\* The names after a load.
LEMMA LoadSourced ==
  ASSUME Inv, History, AtRest, Sourced,
         NEW f \in DOMAIN Files, NEW first, NEW next, Loads(f, first, next)
  PROVE  Sourced'
<1> SUFFICES ASSUME ~Clean', pc' # "undefined"
             PROVE  /\ Within(scan'.rest, Source(files', loads'))
                    /\ \A i \in 1 .. Len(hosts') : hosts'[i].name \in Source(files', loads')
  BY DEF Sourced
<1> DEFINE W == Source(files', loads')
           text == Files[f].text
<1>1. loads' = loads + 1 /\ files' = Append(files, f) /\ first \in BOOLEAN /\ pc # "undefined"
  BY DEF Loads, Load
<1>2. Source(files, loads) \subseteq W /\ \A i \in DOMAIN text : NameOf(text[i]) \in W
  BY <1>1, LoadSource
<1>3. IsSeq(text)
  <2>1. IsList(text)
    BY ConfigAssumption
  <2> HIDE DEF text
  <2> QED
    BY <2>1, ListSeq
<1>4. Within(<<>>, W)
  BY DEF Within
<1>5. Within(scan.rest, W)
  <2>1. CASE Clean
    BY <1>1, <1>4, <2>1 DEF AtRest
  <2>2. CASE ~Clean
    BY <1>1, <1>2, <2>2 DEF Sourced, Within
  <2> QED
    BY <2>1, <2>2
<1> HIDE DEF W
<1>6. CASE ~Files[f].readable
  <2>1. scan' = scan /\ hosts' = <<>>
    BY <1>6 DEF Loads, Load
  <2> QED
    BY <1>5, <2>1 DEF W
<1>7. CASE Files[f].readable
  <2> DEFINE rest == scan.rest
             s == Fresh
             all == Joined(rest, text)
             r == yyparse(scan.rest \o Files[f].text)
  <2>1. /\ hosts' = IF first THEN clear_nat_hack_flags(r.hosts) ELSE r.hosts
        /\ scan' = [start |-> r.start, stack |-> r.stack, rest |-> r.rest]
        /\ Parsing(r)
    BY <1>7, LoadParsed
  <2>2. IsSeq(rest)
    BY DEF Inv, TypeOK
  <2>3. Within(text, W)
    <3> HIDE DEF text
    <3>1. DOMAIN text = 1 .. Len(text)
      BY <1>3, AppendSeq
    <3> QED
      BY <1>2, <3>1 DEF Within
  <2>4. Parsing(s) /\ Len(heap) \in Nat
    BY FreshParsing, Lengths DEF Inv
  <2>5. Told(s, W)
    BY <1>4 DEF Told, Fresh
  <2>6. r = ParseFrom(s, all)
    BY DEF yyparse, Joined
  <2> HIDE DEF text, rest, s, r
  <2>7. /\ IsSeq(all) /\ Len(all) = Len(rest) + Len(text) /\ Len(rest) \in Nat /\ Len(text) \in Nat
        /\ \A i \in 1 .. Len(rest) : all[i] = rest[i]
        /\ \A i \in 1 .. Len(text) : all[Len(rest) + i] = text[i]
    BY <1>3, <2>2, JoinedSeq
  <2> HIDE DEF all
  <2>8. Within(all, W)
    <3> SUFFICES ASSUME NEW i \in 1 .. Len(all) PROVE NameOf(all[i]) \in W
      BY DEF Within
    <3>1. CASE i \in 1 .. Len(rest)
      BY <1>5, <2>7, <3>1 DEF Within, rest
    <3>2. CASE i > Len(rest)
      <4> DEFINE j == i - Len(rest)
      <4>1. j \in 1 .. Len(text) /\ Len(rest) + j = i
        BY <2>7, <3>2
      <4>2. all[i] = text[j]
        BY <2>7, <4>1
      <4> QED
        BY <2>3, <4>1, <4>2 DEF Within
    <3> QED
      BY <2>7, <3>1, <3>2
  <2>9. Len(all) \in Nat
    BY <2>7
  <2>10. Told(r, W)
    <3>1. Told(ParseFrom(s, all), W)
      BY <2>4, <2>5, <2>8, <2>9, ParseTold
    <3> QED
      BY <2>6, <3>1
  <2>11. \A i \in 1 .. Len(hosts') : hosts'[i].name \in W
    <3>1. \A i \in 1 .. Len(r.hosts) : r.hosts[i].name \in W
      BY <2>10 DEF Told
    <3>2. CASE ~first
      BY <2>1, <3>1, <3>2
    <3>3. CASE first
      <4> DEFINE list == r.hosts
                 n == Len(r.heap)
      <4>1. AreHosts(list, n) /\ n \in Nat /\ \A i \in 1 .. Len(list) : list[i].name \in W
        BY <2>1, <3>1, AppendSeq DEF Parsing, ParseOK, IsHeap
      <4> HIDE DEF list, n
      <4>2. \A i \in 1 .. Len(clear_nat_hack_flags(list)) : clear_nat_hack_flags(list)[i].name \in W
        BY <4>1, ClearNames
      <4> QED
        BY <2>1, <3>3, <4>2 DEF list
    <3> QED
      BY <1>1, <3>2, <3>3
  <2>12. Within(scan'.rest, W)
    BY <2>1, <2>10 DEF Told
  <2> QED
    BY <2>11, <2>12 DEF W
<1> QED
  BY <1>6, <1>7

----------------------------------------------------------------------------
\* The invariant that says what the files mean, and the steps.

\* The list has the sessions of the last file.
Listed == Clean /\ pc \in {"listen", "auth", "find"} => Shows(heap, hosts, Left(loads))

\* find_host() has the last match of the elements it has dealt with.
Walked ==
  pc = "find" =>
    IF found = NoHost THEN \A j \in 1 .. walk : hosts[j].name # Host
    ELSE \E i \in 1 .. walk : found = hosts[i] /\ \A j \in i + 1 .. walk : hosts[j].name # Host

\* All of it: the invariant from which the theorems follow.
Meant ==
  /\ Inv /\ History /\ AtRest /\ Listed /\ Walked
  /\ FoundKept /\ FirstCounts /\ HeapOK /\ Sourced

\* Left(), for the files fs.
LeftOf(fs, sv, n) ==
  LET sections == SectionsOf(fs, n)
  IN  Sessions(DefaultsOf(fs, n - 1), sections, Len(sections),
               IF n > 1 THEN NULL ELSE IF sv THEN "client" ELSE "server")

\* That is what it is, before and after a step.
LEMMA LeftIs ==
  /\ \A n : Left(n) = LeftOf(files, svr, n)
  /\ Left(loads)' = LeftOf(files', svr', loads')
  /\ Left(foundAt)' = LeftOf(files', svr', foundAt')
  BY DEF Left, LeftOf, Defaults, DefaultsOf, SaidBy, SectionsOf, Loaded

\* What another file adds does not change what an earlier one means.
LEMMA LeftSame ==
  ASSUME NEW a, NEW b, NEW sv, NEW n \in Nat, n > 0, \A m \in 1 .. n : a[m] = b[m]
  PROVE  LeftOf(a, sv, n) = LeftOf(b, sv, n)
<1>1. n - 1 \in Nat /\ n \in 1 .. n /\ \A m \in 1 .. n - 1 : m \in 1 .. n
  OBVIOUS
<1>2. DefaultsOf(a, n - 1) = DefaultsOf(b, n - 1)
  <2> DEFINE k == n - 1
  <2>1. k \in Nat /\ \A m \in 1 .. k : a[m] = b[m]
    BY <1>1
  <2> HIDE DEF k
  <2>2. DefaultsOf(a, k) = DefaultsOf(b, k)
    BY <2>1, DefaultsSame
  <2> QED
    BY <2>2 DEF k
<1>3. SectionsOf(a, n) = SectionsOf(b, n)
  BY <1>1 DEF SectionsOf
<1> QED
  BY <1>2, <1>3 DEF LeftOf

\* Steps that read no file.
LEMMA SameHistory ==
  ASSUME UNCHANGED <<svr, loads, files>>
  PROVE  /\ Clean' <=> Clean
         /\ Defaults(loads)' = Defaults(loads) /\ Left(loads)' = Left(loads)
         /\ Options(loads)' = Options(loads)
         /\ DeviceShared' <=> DeviceShared
         /\ \A n : DefaultNamed(n)' <=> DefaultNamed(n)
<1>1. Clean' <=> Clean
  BY DEF Clean, Loaded
<1>2. Defaults(loads)' = DefaultsOf(files', loads') /\ Defaults(loads) = DefaultsOf(files, loads)
  BY DEF Defaults, DefaultsOf, SaidBy, SectionsOf, Loaded
<1>3. Left(loads)' = Left(loads)
  BY LeftIs
<1>4. \A n : DefaultNamed(n)' <=> DefaultNamed(n)
  BY DEF DefaultNamed, Loaded
<1> DEFINE Shared(fs, k) == \E n \in 1 .. k : SharedOf(fs, n)
<1>5. (DeviceShared' <=> Shared(files', loads')) /\ (DeviceShared <=> Shared(files, loads))
  BY DEF DeviceShared, SharedOf, DefaultNamed, NamedOf, Loaded, SectionsOf
<1> HIDE DEF Shared
<1>6. Options(loads)' = SaidBy(files', loads', {"options"}) /\ Options(loads) = SaidBy(files, loads, {"options"})
  BY DEF Options, SaidBy, SectionsOf, Loaded
<1> QED
  BY <1>1, <1>2, <1>3, <1>4, <1>5, <1>6

\* main()'s start.
LEMMA InitMeant == Init => Meant
<1> SUFFICES ASSUME Init PROVE Meant
  OBVIOUS
<1>1. Inv
  BY InitInv
<1>2. loads = 0 /\ pc = "start" /\ foundAt = 0 /\ vtun = cmd /\ files = <<>> /\ found = NoHost
      /\ default = BuiltIn /\ hosts = <<>> /\ heap = <<>> /\ sound /\ syslog = LOG_DAEMON
      /\ scan = [start |-> "INITIAL", stack |-> <<>>, rest |-> <<>>]
  BY DEF Init
<1>3. IsSeq(<<>>) /\ Len(<<>>) = 0
  BY EmptyList
<1>4. 1 .. 0 = {} /\ 0 \in Nat
  OBVIOUS
<1>5. History
  BY <1>2, <1>3, <1>4 DEF History
<1>6. Clean
  BY <1>2, <1>4 DEF Clean
<1>7. AtRest
  <2>1. Defaults(loads) = <<>>
    <3>1. CleanOf(files, 0) /\ 0 \in 0 .. 0
      BY <1>4 DEF CleanOf
    <3>2. DefaultsOf(files, 0) = <<>>
      BY <1>4, <3>1, DefaultsNext
    <3> QED
      BY <1>2, <3>2 DEF Defaults, DefaultsOf, SaidBy, SectionsOf, Loaded
  <2>2. ASSUME NEW o \in DOMAIN BuiltIn PROVE Field(heap, default, o) = Inherited(<<>>, o)
    <3>1. \A option, x : LastSaid(<<>>, option, x) = x
      BY SaidNone
    <3>2. Inherited(<<>>, o) = IF o = "up" THEN <<>> ELSE IF o = "passwd" THEN NULL
                               ELSE IF o = "dev" THEN NULL ELSE BuiltIn[o]
      BY <3>1 DEF Inherited
    <3>3. Field(heap, BuiltIn, o) = IF o = "dev" THEN NULL ELSE BuiltIn[o]
      BY DEF Field, BuiltIn
    <3>4. BuiltIn.up = <<>> /\ BuiltIn.passwd = NULL
      BY DEF BuiltIn
    <3> QED
      BY <1>2, <3>2, <3>3, <3>4
  <2>3. Options(loads) = <<>>
    <3> DEFINE kinds == {"options"}
    <3>1. CleanOf(files, 0) /\ 0 \in 0 .. 0
      BY <1>4 DEF CleanOf
    <3> HIDE DEF kinds
    <3>2. SaidBy(files, 0, kinds) = <<>>
      BY <1>4, <3>1, SaidNext
    <3> QED
      BY <1>2, <3>2 DEF Options, SaidBy, SectionsOf, Loaded, kinds
  <2>4. \A option, x : LastSaid(<<>>, option, x) = x
    BY SaidNone
  <2> QED
    BY <1>2, <2>1, <2>2, <2>3, <2>4 DEF AtRest
<1>8. Listed /\ Walked /\ FoundKept /\ FirstCounts
  BY <1>2 DEF Listed, Walked, FoundKept, FirstCounts, Running
<1>9. HeapOK
  <2>1. default.dev = 0
    BY <1>2 DEF BuiltIn
  <2> QED
    BY <1>2, <1>3, <1>4, <2>1 DEF HeapOK
<1>10. Sourced
  BY <1>6 DEF Sourced
<1> QED
  BY <1>1, <1>5, <1>7, <1>8, <1>9, <1>10 DEF Meant

\* The names on the heap stay over a load.
LEMMA LoadNames ==
  ASSUME Inv, History, AtRest, NEW f \in DOMAIN Files, NEW first, NEW next, Loads(f, first, next),
         Clean', pc' # "undefined"
  PROVE  NamesStay(heap, heap')
<1>1. CASE ~Files[f].readable
  <2>1. heap' = heap
    BY <1>1 DEF Loads, Load
  <2> QED
    BY <2>1, Lengths DEF NamesStay, Inv
<1>2. CASE Files[f].readable
  <2> DEFINE r == yyparse(scan.rest \o Files[f].text)
  <2>1. /\ heap' = r.heap
        /\ pc' = IF r.crash \/ r.default.passwd # NULL THEN "undefined"
                 ELSE IF r.hosts = <<>> THEN "exited" ELSE next
    BY <1>2, LoadParsed
  <2>2. Good(Fresh, r, DefaultsOf(files, loads), Files[f].sections, Len(Files[f].sections), FALSE)
    BY <1>2, LoadParsed
  <2> HIDE DEF r
  <2>3. NamesStay(Fresh.heap, r.heap)
    BY <2>1, <2>2 DEF Good, Filed
  <2> QED
    BY <2>1, <2>3, FreshFields
<1> QED
  BY <1>1, <1>2

\* The session that was found, after a load.
LEMMA LoadFound ==
  ASSUME Inv, History, AtRest, FoundKept,
         NEW f \in DOMAIN Files, NEW first, NEW next, Loads(f, first, next), Leads(next)
  PROVE  FoundKept'
<1> SUFFICES ASSUME Clean', pc' \in {"checked", "session"}
             PROVE  LastNamed(Left(foundAt)', Shown(found)')
  BY KeptNext
<1>1. pc' \in {next, "exited", "undefined"} /\ foundAt' = foundAt /\ found' = found /\ svr' = svr
      /\ loads' = loads + 1 /\ files' = Append(files, f)
  BY LoadEnds DEF Loads, Load
<1>2. pc = "checked" /\ pc' # "undefined"
  BY <1>1 DEF Leads
<1>3. /\ \A n \in 1 .. loads : files'[n] = files[n]
      /\ loads \in Nat /\ Clean
  BY <1>1, LoadFiles
<1>4. foundAt \in Nat /\ foundAt > 0 /\ \A n \in 1 .. foundAt : n \in 1 .. loads
  BY <1>2, <1>3 DEF History
<1>5. Left(foundAt)' = Left(foundAt)
  <2> DEFINE fs == files'
             n == foundAt
  <2>1. n \in Nat /\ n > 0 /\ \A m \in 1 .. n : fs[m] = files[m]
    BY <1>3, <1>4
  <2> HIDE DEF fs, n
  <2>2. LeftOf(fs, svr, n) = LeftOf(files, svr, n)
    BY <2>1, LeftSame
  <2> QED
    BY <1>1, <2>2, LeftIs DEF fs, n
<1>6. ShownIn(heap', found) = ShownIn(heap, found)
  <2> DEFINE old == heap
             now == heap'
  <2>1. NamesStay(old, now) /\ Len(old) \in Nat
    BY <1>2, LoadNames, Lengths DEF Inv
  <2>2. IsSession(found, Len(old))
    BY <1>2 DEF Inv, TypeOK, WalkOK
  <2> HIDE DEF old, now
  <2>3. ShownIn(now, found) = ShownIn(old, found)
    BY <2>1, <2>2, ShownStays
  <2> QED
    BY <2>3 DEF old, now
<1>7. Shown(found)' = ShownIn(heap', found) /\ Shown(found) = ShownIn(heap, found)
  BY <1>1 DEF Shown
<1>8. LastNamed(Left(foundAt), Shown(found))
  BY <1>2, <1>3 DEF FoundKept
<1> QED
  BY <1>5, <1>6, <1>7, <1>8

\* The same, after any load.
LEMMA LoadGiven ==
  ASSUME Inv, History, AtRest, FirstCounts,
         NEW f \in DOMAIN Files, NEW first, NEW next, Loads(f, first, next), Leads(next),
         ~first => vtun' = vtun
  PROVE  FirstCounts'
<1> SUFFICES ASSUME pc' \in Running, ~Loaded(1)'.flawed, NEW o \in DOMAIN Fallback
             PROVE  vtun'[o] = IF cmd'[o] # None THEN cmd'[o]
                      ELSE FirstSaid(SaidIn(Loaded(1)'.sections, KindsOf(o)), o, Fallback[o])
  BY DEF FirstCounts
<1>1. loads' = loads + 1 /\ files' = Append(files, f) /\ cmd' = cmd /\ first \in BOOLEAN
      /\ (first <=> pc = "start") /\ pc' # "undefined"
  BY DEF Loads, Load, Running
<1>2. /\ \A n \in 1 .. loads : files'[n] = files[n]
      /\ files'[loads + 1] = f /\ loads \in Nat
  BY <1>1, LoadFiles
<1>3. CASE first
  <2>1. loads = 0
    BY <1>1, <1>3 DEF History
  <2>2. Loaded(1)' = Files[f]
    BY <1>2, <2>1 DEF Loaded
  <2>3. Loads(f, TRUE, next)
    BY <1>1, <1>3
  <2>4. vtun'[o] = IF cmd[o] # None THEN cmd[o]
                   ELSE FirstSaid(SaidIn(Files[f].sections, KindsOf(o)), o, Fallback[o])
    BY <1>1, <2>2, <2>3, LoadOptions
  <2> QED
    BY <1>1, <2>2, <2>4
<1>4. CASE ~first
  <2>1. 1 \in 1 .. loads
    BY <1>1, <1>2, <1>4 DEF History
  <2>2. Loaded(1)' = Loaded(1)
    BY <1>2, <2>1 DEF Loaded
  <2>3. pc \in Running
    BY <1>1, <1>4 DEF Leads, Running
  <2>4. vtun[o] = IF cmd[o] # None THEN cmd[o]
                  ELSE FirstSaid(SaidIn(Loaded(1).sections, KindsOf(o)), o, Fallback[o])
    BY <2>2, <2>3 DEF FirstCounts
  <2> QED
    BY <1>1, <1>4, <2>2, <2>4
<1> QED
  BY <1>1, <1>3, <1>4

\* A load keeps it all.
LEMMA LoadMeant ==
  ASSUME Meant, Inv', NEW f \in DOMAIN Files, NEW first, NEW next, Loads(f, first, next),
         Leads(next), walk = 0, ~first => vtun' = vtun
  PROVE  Meant'
<1>1. Inv /\ History /\ AtRest /\ FoundKept /\ FirstCounts /\ HeapOK /\ Sourced
  BY DEF Meant
<1>2. History'
  BY <1>1, LoadHistory
<1>3. AtRest'
  BY <1>1, LoadRest
<1>4. Listed'
  BY <1>1, LoadListed DEF Listed
<1>5. Walked'
  <2> SUFFICES ASSUME pc' = "find" PROVE Walked'
    BY DEF Walked
  <2>1. walk' = 0
    BY DEF Loads
  <2>2. found' = NoHost
    BY <2>1 DEF Inv, WalkOK
  <2> QED
    BY <2>1, <2>2 DEF Walked
<1>6. FoundKept'
  BY <1>1, LoadFound
<1>7. FirstCounts'
  BY <1>1, LoadGiven
<1>8. HeapOK'
  BY <1>1, LoadHeap
<1>9. Sourced'
  BY <1>1, LoadSourced
<1> QED
  BY <1>2, <1>3, <1>4, <1>5, <1>6, <1>7, <1>8, <1>9 DEF Meant

\* Accept, AuthServer, find_host() and Connection leave what was read alone.
Idle ==
  /\ UNCHANGED <<svr, cmd, vtun, syslog, default, scan, heap, sound, loads, files>>
  /\ pc \in {"listen", "auth", "find", "checked"}

\* So they leave default_host, the scanner and the general options.
LEMMA IdleMeant ==
  ASSUME Meant, Idle
  PROVE  AtRest' /\ FirstCounts'
<1>1. UNCHANGED <<svr, cmd, vtun, syslog, default, scan, heap, sound, loads, files>>
      /\ pc \in Running /\ pc # "undefined"
  BY DEF Idle, Running
<1>2. (Clean' <=> Clean) /\ Defaults(loads)' = Defaults(loads) /\ Options(loads)' = Options(loads)
  BY <1>1, SameHistory
<1>3. AtRest'
  BY <1>1, <1>2 DEF Meant, AtRest, Field
<1>4. FirstCounts'
  BY <1>1 DEF Meant, FirstCounts, Loaded
<1> QED
  BY <1>3, <1>4

\* Accept, AuthServer and Connection.
LEMMA QuietMeant ==
  ASSUME Meant, Accept \/ AuthServer \/ Connection
  PROVE  Meant'
<1>1. Idle /\ UNCHANGED <<hosts, found, walk, foundAt>> /\ pc \in {"listen", "auth", "checked"}
      /\ pc' = CASE pc = "listen" -> "auth" [] pc = "auth" -> "find" [] OTHER -> "session"
  BY DEF Accept, AuthServer, Connection, config, Idle
<1>2. Inv'
  BY QuietKeeps DEF Meant
<1>3. AtRest' /\ FirstCounts'
  BY <1>1, IdleMeant
<1>4. UNCHANGED <<svr, cmd, vtun, syslog, default, scan, heap, sound, loads, files>>
  BY <1>1 DEF Idle
<1>5. /\ Clean' <=> Clean
      /\ Left(loads)' = Left(loads)
      /\ DeviceShared' <=> DeviceShared
      /\ \A n : DefaultNamed(n)' <=> DefaultNamed(n)
  BY <1>4, SameHistory
<1>6. History'
  BY <1>1, <1>4 DEF Meant, History
<1>7. Listed'
  BY <1>1, <1>4, <1>5 DEF Meant, Listed
<1>8. Walked'
  <2> SUFFICES ASSUME pc' = "find" PROVE Walked'
    BY DEF Walked
  <2>1. pc = "auth"
    BY <1>1
  <2>2. found = NoHost /\ walk = 0
    BY <2>1 DEF Meant, Inv, WalkOK
  <2>3. 1 .. 0 = {}
    OBVIOUS
  <2> QED
    BY <1>1, <2>2, <2>3 DEF Walked
<1>9. FoundKept'
  <2> SUFFICES ASSUME pc' \in {"checked", "session"}, Clean' PROVE FoundKept'
    BY KeptNext
  <2>1. pc = "checked" /\ Clean
    BY <1>1, <1>5
  <2>2. Left(foundAt)' = Left(foundAt)
    BY <1>1, <1>4, LeftIs
  <2>3. Shown(found)' = Shown(found)
    BY <1>1, <1>4 DEF Shown
  <2>4. LastNamed(Left(foundAt), Shown(found))
    BY <2>1 DEF Meant, FoundKept
  <2> QED
    BY <2>2, <2>3, <2>4, KeptNext
<1>10. HeapOK'
  <2> SUFFICES ASSUME Clean', ~DeviceShared', pc' # "undefined" PROVE HeapOK'
    BY DEF HeapOK
  <2> DEFINE any == \E m \in 1 .. loads : DefaultNamed(m)
             later == \E n \in foundAt + 1 .. loads : DefaultNamed(n)
  <2>1. (any' <=> any) /\ (later' <=> later)
    BY <1>1, <1>4, <1>5
  <2>2. /\ sound
        /\ default.dev # 0 <=> any
        /\ default.dev # 0 => heap[default.dev].live
        /\ \A i \in 1 .. Len(hosts) : hosts[i].dev # 0 => heap[hosts[i].dev].live
        /\ foundAt > 0 /\ found # NoHost /\ found.dev # 0 => heap[found.dev].live \/ later
    BY <1>1, <1>5 DEF Meant, HeapOK
  <2> HIDE DEF any, later
  <2>3. /\ sound'
        /\ default'.dev # 0 <=> any'
        /\ default'.dev # 0 => heap'[default'.dev].live
        /\ \A i \in 1 .. Len(hosts') : hosts'[i].dev # 0 => heap'[hosts'[i].dev].live
        /\ foundAt' > 0 /\ found' # NoHost /\ found'.dev # 0 => heap'[found'.dev].live \/ later'
    BY <1>1, <1>4, <2>1, <2>2
  <2> QED
    BY <2>3 DEF HeapOK, any, later
<1>11. Sourced'
  BY <1>1, <1>4, <1>5 DEF Meant, Sourced
<1> QED
  BY <1>2, <1>3, <1>6, <1>7, <1>8, <1>9, <1>10, <1>11 DEF Meant

\* One element of find_host()'s walk.
LEMMA WalkMeant ==
  ASSUME Meant, FindHost
  PROVE  Meant'
<1>1. Idle /\ UNCHANGED <<pc, hosts, foundAt>> /\ pc = "find" /\ walk' = walk + 1 /\ walk < Len(hosts)
      /\ found' = IF hosts[walk + 1].name = Host THEN hosts[walk + 1] ELSE found
  BY DEF FindHost, config, Idle
<1>2. Inv'
  BY WalkKeeps DEF Meant
<1>3. AtRest' /\ FirstCounts'
  BY <1>1, IdleMeant
<1>4. UNCHANGED <<svr, cmd, vtun, syslog, default, scan, heap, sound, loads, files>>
  BY <1>1 DEF Idle
<1>5. /\ Clean' <=> Clean
      /\ Left(loads)' = Left(loads)
      /\ DeviceShared' <=> DeviceShared
      /\ \A n : DefaultNamed(n)' <=> DefaultNamed(n)
  BY <1>4, SameHistory
<1>6. History'
  BY <1>1, <1>4 DEF Meant, History
<1>7. Listed'
  BY <1>1, <1>4, <1>5 DEF Meant, Listed
<1>8. Walked'
  <2>1. walk \in Nat /\ Len(hosts) \in Nat
    BY Lengths DEF Meant, Inv, TypeOK
  <2>2. walk + 1 \in 1 .. walk + 1 /\ \A j \in 1 .. walk + 1 : j \in 1 .. walk \/ j = walk + 1
    BY <2>1
  <2>3. CASE hosts[walk + 1].name = Host
    <3>1. found' = hosts[walk + 1] /\ DOMAIN hosts[walk + 1] = HostFields
      BY <1>1, <2>1, <2>3 DEF Meant, Inv, TypeOK, AreHosts, IsSession
    <3>2. DOMAIN NoHost = {"name"} /\ "dev" \in HostFields
      BY DEF NoHost, HostFields, BuiltIn
    <3>3. found' # NoHost
      BY <3>1, <3>2
    <3>4. walk + 1 + 1 .. walk + 1 = {}
      BY <2>1
    <3>5. \E i \in 1 .. walk + 1 : found' = hosts[i] /\ \A j \in i + 1 .. walk + 1 : hosts[j].name # Host
      BY <2>2, <3>1, <3>4
    <3> QED
      BY <1>1, <3>3, <3>5 DEF Walked
  <2>4. CASE hosts[walk + 1].name # Host
    <3>1. found' = found
      BY <1>1, <2>4
    <3>2. CASE found = NoHost
      <4>1. \A j \in 1 .. walk : hosts[j].name # Host
        BY <1>1, <3>2 DEF Meant, Walked
      <4>2. \A j \in 1 .. walk + 1 : hosts[j].name # Host
        BY <2>2, <2>4, <4>1
      <4> QED
        BY <1>1, <3>1, <3>2, <4>2 DEF Walked
    <3>3. CASE found # NoHost
      <4>1. PICK i \in 1 .. walk : found = hosts[i] /\ \A j \in i + 1 .. walk : hosts[j].name # Host
        BY <1>1, <3>3 DEF Meant, Walked
      <4>2. i \in 1 .. walk + 1 /\ \A j \in i + 1 .. walk + 1 : j \in i + 1 .. walk \/ j = walk + 1
        BY <2>1
      <4>3. \A j \in i + 1 .. walk + 1 : hosts[j].name # Host
        BY <2>4, <4>1, <4>2
      <4> QED
        BY <1>1, <3>1, <3>3, <4>1, <4>2, <4>3 DEF Walked
    <3> QED
      BY <3>2, <3>3
  <2> QED
    BY <2>3, <2>4
<1>9. FoundKept'
  BY <1>1, KeptNext
<1>10. HeapOK'
  <2> SUFFICES ASSUME Clean', ~DeviceShared', pc' # "undefined" PROVE HeapOK'
    BY DEF HeapOK
  <2> DEFINE any == \E m \in 1 .. loads : DefaultNamed(m)
  <2>1. any' <=> any
    BY <1>4, <1>5
  <2>2. /\ sound
        /\ default.dev # 0 <=> any
        /\ default.dev # 0 => heap[default.dev].live
        /\ \A i \in 1 .. Len(hosts) : hosts[i].dev # 0 => heap[hosts[i].dev].live
    BY <1>1, <1>5 DEF Meant, HeapOK
  <2>3. ~(foundAt' > 0)
    BY <1>1 DEF Meant, History
  <2> HIDE DEF any
  <2>4. /\ sound'
        /\ default'.dev # 0 <=> any'
        /\ default'.dev # 0 => heap'[default'.dev].live
        /\ \A i \in 1 .. Len(hosts') : hosts'[i].dev # 0 => heap'[hosts'[i].dev].live
    BY <1>1, <1>4, <2>1, <2>2
  <2> QED
    BY <2>3, <2>4 DEF HeapOK, any
<1>11. Sourced'
  BY <1>1, <1>4, <1>5 DEF Meant, Sourced
<1> QED
  BY <1>2, <1>3, <1>6, <1>7, <1>8, <1>9, <1>10, <1>11 DEF Meant

\* The last session of a name.
LEMMA LastOfName ==
  ASSUME NEW all, IsSeq(all), NEW i \in 1 .. Len(all), all[i].name = Host,
         \A j \in i + 1 .. Len(all) : all[j].name # Host
  PROVE  Max({k \in DOMAIN all : all[k].name = Host}) = i
<1> DEFINE N == {k \in DOMAIN all : all[k].name = Host}
<1>1. Len(all) \in Nat /\ DOMAIN all = 1 .. Len(all)
  BY AppendSeq
<1>2. N \in SUBSET (1 .. Len(all)) /\ i \in N
  BY <1>1
<1>3. Max(N) \in N /\ \A k \in N : k <= Max(N)
  <2> HIDE DEF N
  <2>1. N # {}
    BY <1>2
  <2> QED
    BY <1>1, <1>2, <2>1, MaxMin
<1> DEFINE m == Max(N)
<1>4. m \in 1 .. Len(all) /\ all[m].name = Host /\ i <= m
  BY <1>2, <1>3
<1> HIDE DEF m
<1>5. m \notin i + 1 .. Len(all)
  BY <1>4
<1>6. m = i
  BY <1>1, <1>4, <1>5
<1> QED
  BY <1>6 DEF m

\* The list is empty now, and the session found.
LEMMA FoundMeant ==
  ASSUME Meant, HostFound
  PROVE  Meant'
<1>1. Idle /\ pc = "find" /\ walk = Len(hosts) /\ hosts' = <<>> /\ walk' = 0 /\ foundAt' = loads
      /\ found' = found
      /\ pc' = IF found = NoHost THEN "exited" ELSE IF svr THEN "checked" ELSE "session"
  BY DEF HostFound, config, Idle
<1>2. Inv'
  BY FoundKeeps DEF Meant
<1>3. AtRest' /\ FirstCounts'
  BY <1>1, IdleMeant
<1>4. UNCHANGED <<svr, cmd, vtun, syslog, default, scan, heap, sound, loads, files>>
  BY <1>1 DEF Idle
<1>5. /\ Clean' <=> Clean
      /\ Left(loads)' = Left(loads)
      /\ DeviceShared' <=> DeviceShared
      /\ \A n : DefaultNamed(n)' <=> DefaultNamed(n)
  BY <1>4, SameHistory
<1>6. History'
  BY <1>1, <1>4 DEF Meant, History
<1>7. Listed' /\ Walked'
  BY <1>1 DEF Listed, Walked
<1>8. found # NoHost =>
        \E i \in 1 .. Len(hosts) : found = hosts[i] /\ \A j \in i + 1 .. Len(hosts) : hosts[j].name # Host
  BY <1>1 DEF Meant, Walked
<1>9. Len(hosts) \in Nat /\ Len(<<>>) = 0
  BY Lengths, EmptyList DEF Meant, Inv
<1>10. FoundKept'
  <2> SUFFICES ASSUME pc' \in {"checked", "session"}, Clean' PROVE FoundKept'
    BY KeptNext
  <2>1. found # NoHost /\ Clean
    BY <1>1, <1>5
  <2>2. PICK i \in 1 .. Len(hosts) :
          found = hosts[i] /\ \A j \in i + 1 .. Len(hosts) : hosts[j].name # Host
    BY <1>8, <2>1
  <2> DEFINE all == Left(loads)
  <2>3. Shows(heap, hosts, all)
    BY <1>1, <2>1 DEF Meant, Listed
  <2>4. Left(foundAt)' = all
    BY <1>1, <1>4, LeftIs
  <2> HIDE DEF all
  <2>5. IsSeq(all) /\ Len(all) = Len(hosts) /\ \A j \in 1 .. Len(hosts) : all[j] = ShownIn(heap, hosts[j])
    BY <2>3 DEF Shows
  <2>6. \A j \in 1 .. Len(hosts) : ShownIn(heap, hosts[j]).name = hosts[j].name
    <3>1. \A j \in 1 .. Len(hosts) : DOMAIN hosts[j] = HostFields
      BY DEF Meant, Inv, TypeOK, AreHosts, IsSession
    <3> QED
      BY <3>1, ShownField
  <2>7. \A j \in 1 .. Len(hosts) : all[j].name = hosts[j].name
    BY <2>5, <2>6
  <2>8. found.name = Host
    BY <2>1 DEF Meant, Inv, TypeOK
  <2>9. all[i].name = Host
    BY <2>2, <2>7, <2>8
  <2>10. \A j \in i + 1 .. Len(all) : all[j].name # Host
    <3>1. \A j \in i + 1 .. Len(all) : j \in 1 .. Len(hosts) /\ j \in i + 1 .. Len(hosts)
      BY <1>9, <2>5
    <3> QED
      BY <2>2, <2>7, <3>1
  <2>11. Max({k \in DOMAIN all : all[k].name = Host}) = i
    BY <2>5, <2>9, <2>10, LastOfName
  <2>12. Shown(found)' = all[i]
    BY <1>1, <1>4, <2>2, <2>5 DEF Shown
  <2>13. i \in DOMAIN all
    BY <2>5, AppendSeq
  <2>14. LastNamed(all, Shown(found)')
    BY <2>9, <2>11, <2>12, <2>13 DEF LastNamed, OfHost
  <2> QED
    BY <2>4, <2>14, KeptNext
<1>11. HeapOK'
  <2> SUFFICES ASSUME Clean', ~DeviceShared', pc' # "undefined" PROVE HeapOK'
    BY DEF HeapOK
  <2> DEFINE any == \E m \in 1 .. loads : DefaultNamed(m)
  <2>1. any' <=> any
    BY <1>4, <1>5
  <2>2. /\ sound
        /\ default.dev # 0 <=> any
        /\ default.dev # 0 => heap[default.dev].live
        /\ \A i \in 1 .. Len(hosts) : hosts[i].dev # 0 => heap[hosts[i].dev].live
    BY <1>1, <1>5 DEF Meant, HeapOK
  <2>3. found # NoHost /\ found.dev # 0 => heap[found.dev].live
    BY <1>8, <2>2
  <2>4. 1 .. Len(hosts') = {}
    BY <1>1, <1>9
  <2> HIDE DEF any
  <2>5. /\ sound'
        /\ default'.dev # 0 <=> any'
        /\ default'.dev # 0 => heap'[default'.dev].live
        /\ found' # NoHost /\ found'.dev # 0 => heap'[found'.dev].live
    BY <1>1, <1>4, <2>1, <2>2, <2>3
  <2> QED
    BY <2>4, <2>5 DEF HeapOK, any
<1>12. Sourced'
  BY <1>1, <1>4, <1>5 DEF Meant, Sourced
<1> QED
  BY <1>2, <1>3, <1>6, <1>7, <1>10, <1>11, <1>12 DEF Meant

\* main() reads the file.
LEMMA StartMeant ==
  ASSUME Meant, NEW f \in DOMAIN Files, Start(f)
  PROVE  Meant'
<1>1. PICK next \in {"listen", "auth", "find"} : Load(f, TRUE, next)
  BY DEF Start
<1>2. pc = "start" /\ UNCHANGED <<svr, cmd, found, walk, foundAt>>
  BY DEF Start
<1>3. Loads(f, TRUE, next) /\ Leads(next) /\ walk = 0
  BY <1>1, <1>2 DEF Loads, Leads, Meant, Inv, WalkOK
<1>4. Inv'
  BY StartKeeps DEF Meant
<1> QED
  BY <1>3, <1>4, LoadMeant

\* SIGHUP: another load, or the end of what is defined.
LEMMA ReloadMeant ==
  ASSUME Meant, NEW f \in DOMAIN Files, Reload(f)
  PROVE  Meant'
<1>1. pc \in {"listen", "auth", "find", "checked"} /\ UNCHANGED <<svr, cmd, found, walk, foundAt>>
  BY DEF Reload
<1>2. Inv' /\ vtun' = vtun
  BY ReloadKeeps DEF Meant
<1>3. CASE pc = "find" /\ walk > 0
  <2>1. pc' = "undefined" /\ loads' = loads /\ files' = files
    BY <1>3 DEF Reload
  <2>2. History'
    BY <1>1, <1>2, <2>1 DEF Meant, History
  <2>3. AtRest' /\ Listed' /\ Walked' /\ FoundKept' /\ FirstCounts' /\ HeapOK' /\ Sourced'
    BY <2>1 DEF AtRest, Listed, Walked, FoundKept, FirstCounts, Running, HeapOK, Sourced
  <2> QED
    BY <1>2, <2>2, <2>3 DEF Meant
<1>4. CASE ~(pc = "find" /\ walk > 0)
  <2>1. Load(f, FALSE, pc)
    BY <1>4 DEF Reload
  <2>2. walk \in Nat
    BY Lengths DEF Meant, Inv, TypeOK
  <2>3. walk = 0
    BY <1>1, <1>4, <2>2 DEF Meant, Inv, WalkOK
  <2> DEFINE next == pc
  <2>4. Loads(f, FALSE, next) /\ Leads(next)
    BY <1>1, <2>1 DEF Loads, Leads
  <2> HIDE DEF next
  <2> QED
    BY <1>2, <2>3, <2>4, LoadMeant
<1> QED
  BY <1>3, <1>4

\* A step that does nothing.
LEMMA StutterMeant ==
  ASSUME Meant, UNCHANGED vars
  PROVE  Meant'
<1>1. UNCHANGED <<pc, svr, cmd, vtun, syslog, default, hosts, scan, heap, sound, found, walk, loads, files,
                foundAt>>
  BY DEF vars
<1>2. /\ Clean' <=> Clean
      /\ Defaults(loads)' = Defaults(loads) /\ Left(loads)' = Left(loads)
      /\ Options(loads)' = Options(loads)
      /\ DeviceShared' <=> DeviceShared
      /\ \A n : DefaultNamed(n)' <=> DefaultNamed(n)
  BY <1>1, SameHistory
<1>3. Left(foundAt)' = Left(foundAt)
  BY <1>1, LeftIs
<1>4. Inv'
  BY NextInv DEF Meant
<1>5. History' /\ AtRest' /\ Listed' /\ Walked' /\ FirstCounts' /\ Sourced'
  BY <1>1, <1>2 DEF Meant, History, AtRest, Field, Listed, Walked, FirstCounts, Loaded, Sourced
<1>6. FoundKept'
  <2>1. Clean /\ pc \in {"checked", "session"} => LastNamed(Left(foundAt), Shown(found))
    BY DEF Meant, FoundKept
  <2>2. Shown(found)' = Shown(found)
    BY <1>1 DEF Shown
  <2> QED
    BY <1>1, <1>2, <1>3, <2>1, <2>2, KeptNext
<1>7. HeapOK'
  <2> DEFINE any == \E m \in 1 .. loads : DefaultNamed(m)
             later == \E n \in foundAt + 1 .. loads : DefaultNamed(n)
             OK == Clean /\ ~DeviceShared /\ pc # "undefined" =>
                     /\ sound
                     /\ default.dev # 0 <=> any
                     /\ default.dev # 0 => heap[default.dev].live
                     /\ \A i \in 1 .. Len(hosts) : hosts[i].dev # 0 => heap[hosts[i].dev].live
                     /\ foundAt > 0 /\ found # NoHost /\ found.dev # 0 => heap[found.dev].live \/ later
  <2>1. (any' <=> any) /\ (later' <=> later)
    BY <1>1, <1>2
  <2>2. OK
    BY DEF Meant, HeapOK
  <2> HIDE DEF any, later
  <2>3. OK'
    BY <1>1, <1>2, <2>1, <2>2
  <2> QED
    BY <2>3 DEF HeapOK, any, later
<1> QED
  BY <1>4, <1>5, <1>6, <1>7 DEF Meant

\* Every step keeps it.
LEMMA NextMeant ==
  ASSUME Meant, [Next]_vars
  PROVE  Meant'
<1>1. ASSUME NEW f \in DOMAIN Files, Start(f) PROVE Meant'
  BY <1>1, StartMeant
<1>2. ASSUME NEW f \in DOMAIN Files, Reload(f) PROVE Meant'
  BY <1>2, ReloadMeant
<1>3. CASE Accept \/ AuthServer \/ Connection
  BY <1>3, QuietMeant
<1>4. CASE FindHost
  BY <1>4, WalkMeant
<1>5. CASE HostFound
  BY <1>5, FoundMeant
<1>6. CASE UNCHANGED vars
  BY <1>6, StutterMeant
<1> QED
  BY <1>1, <1>2, <1>3, <1>4, <1>5, <1>6 DEF Next

\* Meaning(), for the files fs.
MeaningOf(fs, sv, n) ==
  LET sections == SectionsOf(fs, n)
  IN  Sessions(DefaultsOf(fs, n - 1), sections, Len(sections), IF sv THEN "client" ELSE "server")

\* That is what it is, before and after a step.
LEMMA MeaningIs ==
  /\ \A n : Meaning(n) = MeaningOf(files, svr, n)
  /\ Meaning(loads)' = MeaningOf(files', svr', loads')
  BY DEF Meaning, MeaningOf, OtherSide, Defaults, DefaultsOf, SaidBy, SectionsOf, Loaded

\* What is left differs from what is meant in what a reload does not clear.
LEMMA LeftMeaning ==
  ASSUME NEW fs, NEW sv, NEW n \in Nat, n > 0, CleanOf(fs, n)
  PROVE  LET p == LeftOf(fs, sv, n)
             q == MeaningOf(fs, sv, n)
             other == IF sv THEN "client" ELSE "server"
         IN  /\ IsSeq(p) /\ IsSeq(q) /\ Len(p) = Len(q)
             /\ \A i \in 1 .. Len(p) : /\ q[i] = (IF n > 1 THEN Ignoring(p[i], other) ELSE p[i])
                                       /\ q[i].name = p[i].name
<1> DEFINE ss == SectionsOf(fs, n)
           earlier == DefaultsOf(fs, n - 1)
           other == IF sv THEN "client" ELSE "server"
           a == IF n > 1 THEN NULL ELSE other
           m == Len(ss)
           p == Sessions(earlier, ss, m, a)
           q == Sessions(earlier, ss, m, other)
<1>1. LeftOf(fs, sv, n) = p /\ MeaningOf(fs, sv, n) = q
  BY DEF LeftOf, MeaningOf
<1>2. AreSections(ss)
  <2> DEFINE f == fs[n]
  <2>1. f \in DOMAIN Files /\ ~Files[f].flawed
    BY DEF CleanOf
  <2> HIDE DEF f
  <2>2. AreSections(Files[f].sections)
    BY <2>1, FileOf
  <2> QED
    BY <2>2 DEF SectionsOf, f
<1>3. IsSeq(earlier) /\ Valued(earlier)
  <2> DEFINE k == n - 1
  <2>1. k \in Nat /\ CleanOf(fs, k)
    BY DEF CleanOf
  <2> HIDE DEF k
  <2>2. IsSeq(DefaultsOf(fs, k)) /\ Valued(DefaultsOf(fs, k))
    BY <2>1, DefaultsValued
  <2> QED
    BY <2>2 DEF k
<1> HIDE DEF ss, earlier, other, a
<1>4. m \in Nat
  BY <1>2, AppendSeq DEF AreSections
<1> HIDE DEF m
<1>5. /\ IsSeq(p) /\ IsSeq(q) /\ Len(p) = Len(q)
      /\ \A i \in 1 .. Len(p) : \E j \in 1 .. m :
           p[i] = SessionOf(earlier, ss, j, a) /\ q[i] = SessionOf(earlier, ss, j, other)
  BY <1>4, SessionsPaired
<1> HIDE DEF p, q
<1>6. ASSUME NEW i \in 1 .. Len(p)
      PROVE  q[i] = (IF n > 1 THEN Ignoring(p[i], other) ELSE p[i]) /\ q[i].name = p[i].name
  <2>1. PICK j \in 1 .. m :
          p[i] = SessionOf(earlier, ss, j, a) /\ q[i] = SessionOf(earlier, ss, j, other)
    BY <1>5
  <2>2. SessionOf(earlier, ss, j, a).name = ss[j].name /\ SessionOf(earlier, ss, j, other).name = ss[j].name
    BY DEF SessionOf
  <2>3. CASE n > 1
    <3>1. SessionOf(earlier, ss, j, other) = Ignoring(SessionOf(earlier, ss, j, NULL), other)
      BY <1>2, <1>3, SessionIgnoring DEF m
    <3>2. a = NULL
      BY <2>3 DEF a
    <3> QED
      BY <2>1, <2>2, <2>3, <3>1, <3>2
  <2>4. CASE ~(n > 1)
    <3>1. a = other
      BY <2>4 DEF a
    <3> QED
      BY <2>1, <2>4, <3>1
  <2> QED
    BY <2>3, <2>4
<1> QED
  BY <1>1, <1>5, <1>6 DEF other

\* Served() makes up for that.
LEMMA ServedIs ==
  ASSUME NEW h, NEW n
  PROVE  Served(h, n) = IF n > 1 THEN Ignoring(Shown(h), OtherSide) ELSE Shown(h)
  BY DEF Served, Ignoring, Shown, ShownIn

\* The n-th file now.
LEMMA MeaningLeft ==
  ASSUME History, Clean, NEW n \in 1 .. loads
  PROVE  /\ IsSeq(Left(n)) /\ IsSeq(Meaning(n)) /\ Len(Left(n)) = Len(Meaning(n))
         /\ \A i \in 1 .. Len(Left(n)) :
              /\ Meaning(n)[i] = (IF n > 1 THEN Ignoring(Left(n)[i], OtherSide) ELSE Left(n)[i])
              /\ Meaning(n)[i].name = Left(n)[i].name
<1>1. n \in Nat /\ n > 0 /\ CleanOf(files, n)
  BY DEF History, Clean, Loaded, CleanOf
<1>2. Left(n) = LeftOf(files, svr, n) /\ Meaning(n) = MeaningOf(files, svr, n)
  BY LeftIs, MeaningIs
<1> QED
  BY <1>1, <1>2, LeftMeaning DEF OtherSide

\* The names of the sessions that a file has.
LEMMA LeftNames ==
  ASSUME History, Clean, loads > 0, NEW i \in 1 .. Len(Left(loads))
  PROVE  Left(loads)[i].name \in Names(loads)
<1> DEFINE ss == SectionsOf(files, loads)
           p == DefaultsOf(files, loads - 1)
           ignored == IF loads > 1 THEN NULL ELSE IF svr THEN "client" ELSE "server"
           all == Sessions(p, ss, Len(ss), ignored)
<1>1. Left(loads) = all
  BY LeftIs DEF LeftOf
<1>2. loads \in Nat /\ files[loads] \in DOMAIN Files /\ ~Files[files[loads]].flawed
  <2>1. loads \in Nat /\ loads \in 1 .. loads
    BY DEF History
  <2> QED
    BY <2>1 DEF History, Clean, Loaded
<1>3. AreSections(ss) /\ Len(ss) \in Nat
  <2>1. AreSections(ss)
    BY <1>2, FileOf DEF SectionsOf
  <2> QED
    BY <2>1, AppendSeq DEF AreSections
<1>4. Names(loads) = {ss[j].name : j \in DOMAIN ss}
  BY DEF Names, Loaded, SectionsOf
<1> HIDE DEF ss, p, ignored
<1>5. PICK j \in 1 .. Len(ss) : all[i] = SessionOf(p, ss, j, ignored)
  <2>1. \A k \in 1 .. Len(all) : \E j \in 1 .. Len(ss) : all[k] = SessionOf(p, ss, j, ignored)
    BY <1>3, SessionsPaired
  <2>2. i \in 1 .. Len(all)
    BY <1>1
  <2> QED
    BY <2>1, <2>2
<1>6. SessionOf(p, ss, j, ignored).name = ss[j].name
  BY DEF SessionOf
<1>7. j \in DOMAIN ss
  BY AppendSeq, <1>3 DEF AreSections
<1> QED
  BY <1>1, <1>4, <1>5, <1>6, <1>7

\* A step that ends a server, or makes it undefined, is a load; so it is the file.
LEMMA EndsOnlyBy ==
  ASSUME Meant, [Next]_vars, pc \in {"start", "listen"}, pc' \in {"exited", "undefined"}
  PROVE  (~Clean \/ (Loaded(loads).readable /\ Left(loads) = <<>>) \/ DefaultUnbearable)'
<1>1. Inv /\ History /\ AtRest
  BY DEF Meant
<1>2. ASSUME NEW f \in DOMAIN Files, Start(f)
      PROVE  (~Clean \/ (Loaded(loads).readable /\ Left(loads) = <<>>) \/ DefaultUnbearable)'
  <2>1. PICK next \in {"listen", "auth", "find"} : Load(f, TRUE, next)
    BY <1>2 DEF Start
  <2>2. Loads(f, TRUE, next) /\ next \notin {"exited", "undefined"}
    BY <1>2, <2>1 DEF Loads, Start
  <2> QED
    BY <1>1, <2>2, LoadSurvives
<1>3. ASSUME NEW f \in DOMAIN Files, Reload(f)
      PROVE  (~Clean \/ (Loaded(loads).readable /\ Left(loads) = <<>>) \/ DefaultUnbearable)'
  <2> DEFINE next == pc
  <2>1. next \in {"listen", "auth", "find", "checked"} /\ pc = "listen"
    BY <1>3 DEF Reload
  <2>2. Loads(f, FALSE, next) /\ next \notin {"exited", "undefined"}
    BY <1>3, <2>1 DEF Loads, Reload
  <2> HIDE DEF next
  <2> QED
    BY <1>1, <2>2, LoadSurvives
<1>4. ~(Accept \/ AuthServer \/ FindHost \/ HostFound \/ Connection \/ UNCHANGED vars)
  BY DEF Accept, AuthServer, FindHost, HostFound, Connection, vars
<1> QED
  BY <1>2, <1>3, <1>4 DEF Next

\* So it is what the file means.
LEMMA EndsMeant ==
  ASSUME Meant, [Next]_vars, pc \in {"start", "listen"}, pc' \in {"exited", "undefined"}
  PROVE  (~Clean \/ (Loaded(loads).readable /\ Meaning(loads) = <<>>) \/ DefaultUnbearable)'
<1>1. (~Clean \/ (Loaded(loads).readable /\ Left(loads) = <<>>) \/ DefaultUnbearable)'
  BY EndsOnlyBy
<1> SUFFICES ASSUME Clean', Left(loads)' = <<>> PROVE Meaning(loads)' = <<>>
  BY <1>1
<1>2. History'
  BY NextMeant DEF Meant
<1> DEFINE fs == files'
           n == loads'
           p == LeftOf(fs, svr', n)
           q == MeaningOf(fs, svr', n)
<1>3. Left(loads)' = p /\ Meaning(loads)' = q
  BY LeftIs, MeaningIs
<1>4. n \in Nat /\ n > 0 /\ CleanOf(fs, n)
  BY <1>2 DEF History, Clean, Loaded, CleanOf
<1> HIDE DEF fs, n
<1>5. IsSeq(q) /\ Len(p) = Len(q)
  BY <1>4, LeftMeaning
<1>6. p = <<>>
  BY <1>3
<1> HIDE DEF p, q
<1>7. Len(q) = 0
  BY <1>5, <1>6, EmptyList
<1>8. q = <<>>
  BY <1>5, <1>7, ConcatNone
<1> QED
  BY <1>3, <1>8

----------------------------------------------------------------------------
\* The theorems hold for every set of files, of any length and with any
\* mistakes, for every scanner's stack that holds what a command of up needs and
\* any number of reloads.  Where a theorem says what a file means, it is for files
\* without a mistake, with any sections and options in any order.

\* Inv is an invariant of the program.
THEOREM ConfigInvariance == Spec => []Inv
<1>1. Inv /\ [Next]_vars => Inv'
  BY NextInv
<1> QED
  BY InitInv, <1>1, PTL DEF Spec

\* As long as no default section names a device, K_DEVICE frees no name twice
\* and none that a session in the list, or the one find_host() found, has.
THEOREM DevicesOwned == Spec => []OwnDevices
<1>1. Inv => OwnDevices
  BY DEF Inv
<1> QED
  BY ConfigInvariance, <1>1, PTL

\* EndOfSection() keeps a session without a password out of the list, and
\* find_host() returns one of the name it looks for.
THEOREM OnlyWithPassword == Spec => []PasswordNeeded
<1>1. Inv => PasswordNeeded
  <2> SUFFICES ASSUME Inv PROVE PasswordNeeded
    OBVIOUS
  <2>1. \A i \in DOMAIN hosts : hosts[i].passwd # NULL
    BY Lengths DEF Inv, TypeOK, AreHosts
  <2> QED
    BY <2>1 DEF Inv, TypeOK, WalkOK, PasswordNeeded
<1> QED
  BY ConfigInvariance, <1>1, PTL

\* PUSH_STATE and POP_STATE of the scanner stay within its stack.
THEOREM ScannerStaysSound == Spec => []ScannerSound
<1>1. Inv => ScannerSound
  BY DEF Inv, TypeOK, ScanOK, ScannerSound
<1> QED
  BY ConfigInvariance, <1>1, PTL

\* No file overrides the command line, in whichever section and load.
THEOREM CommandLineWins == Spec => []CommandLineFirst
<1>1. Inv => CommandLineFirst
  BY DEF Inv
<1> QED
  BY ConfigInvariance, <1>1, PTL

\* A reload on SIGHUP changes none of the general options that are set once: not
\* port, timeout or persist, whatever the file says by then.  It does change
\* syslog; OptionsGiven says how.
THEOREM OptionsKept == Spec => OptionsFixed
<1>1. Inv /\ [Next]_vars => [pc # "start" => vtun' = vtun]_vars
  BY NextInv
<1> QED
  BY ConfigInvariance, <1>1, PTL DEF Spec, OptionsFixed

\* The list, the session that was found, default_host, the heap, the scanner's
\* buffer and the general options of both kinds are at every moment what the files
\* that were read so far, taken one after the other, make of them.
THEOREM MeantInvariance == Spec => []Meant
<1>1. Meant /\ [Next]_vars => Meant'
  BY NextMeant
<1> QED
  BY InitMeant, <1>1, PTL DEF Spec

\* read_config() makes just the sessions of the file, with the options as they
\* are written, however long the file and however often SIGHUP came before; of
\* the nat_hack of the other side, which a reload does not clear, it says nothing.
THEOREM HostsWritten == Spec => []HostsAsWritten
<1>1. Meant => HostsAsWritten
  <2> SUFFICES ASSUME Meant, Clean, pc \in {"listen", "auth"}
               PROVE  [i \in DOMAIN hosts |-> Served(hosts[i], loads)] = Meaning(loads)
    BY DEF HostsAsWritten
  <2> DEFINE was == Left(loads)
             all == Meaning(loads)
  <2>1. Shows(heap, hosts, was)
    BY DEF Meant, Listed
  <2>2. History /\ loads \in 1 .. loads
    BY DEF Meant, History
  <2>3. /\ IsSeq(was) /\ IsSeq(all) /\ Len(was) = Len(all)
        /\ \A i \in 1 .. Len(was) :
             all[i] = (IF loads > 1 THEN Ignoring(was[i], OtherSide) ELSE was[i])
    BY <2>2, MeaningLeft
  <2> HIDE DEF was, all
  <2>4. DOMAIN hosts = 1 .. Len(hosts)
    BY Lengths DEF Meant, Inv
  <2>5. Len(all) = Len(hosts) /\ \A i \in 1 .. Len(hosts) : Shown(hosts[i]) = was[i]
    BY <2>1, <2>3 DEF Shows, Shown
  <2>6. \A i \in 1 .. Len(hosts) : Served(hosts[i], loads) = all[i]
    BY <2>3, <2>5, ServedIs
  <2>7. all = [i \in 1 .. Len(all) |-> all[i]]
    BY <2>3 DEF IsSeq
  <2>8. [i \in DOMAIN hosts |-> Served(hosts[i], loads)] = all
    BY <2>4, <2>5, <2>6, <2>7
  <2> QED
    BY <2>8 DEF all
<1> QED
  BY MeantInvariance, <1>1, PTL

\* A reload serves no session that is not in the file; after a mistake, none
\* that was taken out before it, although flex's buffer outlives yyparse().
THEOREM Withdrawn == Spec => []WithdrawnStayOut
<1>1. Meant => WithdrawnStayOut
  <2> SUFFICES ASSUME Meant, pc \in {"listen", "auth"}, NEW i \in DOMAIN hosts
               PROVE  IF Clean THEN hosts[i].name \in Names(loads)
                      ELSE \E n \in 1 .. loads : /\ \E m \in 1 .. n : Loaded(m).flawed
                                                 /\ hosts[i].name \in Words(n)
    BY DEF WithdrawnStayOut
  <2>1. i \in 1 .. Len(hosts) /\ pc # "undefined" /\ pc # "start"
    BY Lengths DEF Meant, Inv
  <2>2. CASE Clean
    <3> DEFINE all == Left(loads)
    <3>1. Shows(heap, hosts, all)
      BY <2>2 DEF Meant, Listed
    <3>2. History /\ loads > 0
      BY <2>1 DEF Meant, History
    <3>3. i \in 1 .. Len(all) /\ all[i] = ShownIn(heap, hosts[i])
      BY <2>1, <3>1 DEF Shows
    <3>4. all[i].name \in Names(loads)
      BY <2>2, <3>2, <3>3, LeftNames
    <3> HIDE DEF all
    <3>5. DOMAIN hosts[i] = HostFields
      BY <2>1 DEF Meant, Inv, TypeOK, AreHosts, IsSession
    <3>6. ShownIn(heap, hosts[i]).name = hosts[i].name
      BY <3>5, ShownField
    <3> QED
      BY <2>2, <3>3, <3>4, <3>6
  <2>3. CASE ~Clean
    <3>1. hosts[i].name \in Source(files, loads)
      BY <2>1, <2>3 DEF Meant, Sourced
    <3>2. PICK n \in 1 .. loads : FlawedBy(files, n) /\ hosts[i].name \in WordsOf(files, n)
      BY <3>1 DEF Source
    <3>3. WordsOf(files, n) = Words(n)
      BY DEF WordsOf, Words, Loaded
    <3>4. \E m \in 1 .. n : Loaded(m).flawed
      BY <3>2 DEF FlawedBy, Loaded
    <3> QED
      BY <2>3, <3>2, <3>3, <3>4
  <2> QED
    BY <2>2, <2>3
<1> QED
  BY MeantInvariance, <1>1, PTL

\* find_host() returns the last session of the name as the file has it, and no
\* reload between that and connection()'s session changes it; nat_hack as above.
THEOREM FoundWritten == Spec => []FoundAsWritten
<1>1. Meant => FoundAsWritten
  <2> SUFFICES ASSUME Meant, Clean, pc \in {"checked", "session"} PROVE FoundAsWritten
    BY DEF FoundAsWritten
  <2> DEFINE was == Left(foundAt)
             all == Meaning(foundAt)
             m == Max(OfHost(was))
  <2>1. History /\ foundAt \in 1 .. loads
    BY DEF Meant, History
  <2>2. /\ IsSeq(was) /\ IsSeq(all) /\ Len(was) = Len(all)
        /\ \A i \in 1 .. Len(was) :
             /\ all[i] = (IF foundAt > 1 THEN Ignoring(was[i], OtherSide) ELSE was[i])
             /\ all[i].name = was[i].name
    BY <2>1, MeaningLeft
  <2>3. OfHost(was) # {} /\ Shown(found) = was[m]
    BY DEF Meant, FoundKept, LastNamed
  <2>4. FoundAsWritten <=> Served(found, foundAt) = all[Max(OfHost(all))]
    BY DEF FoundAsWritten, OfHost
  <2> HIDE DEF was, all
  <2>5. DOMAIN was = 1 .. Len(was) /\ DOMAIN all = 1 .. Len(was) /\ Len(was) \in Nat
    BY <2>2, AppendSeq
  <2>6. OfHost(was) \in SUBSET (1 .. Len(was)) /\ OfHost(all) = OfHost(was)
    BY <2>2, <2>5 DEF OfHost
  <2>7. m \in 1 .. Len(was)
    <3> DEFINE N == OfHost(was)
    <3> HIDE DEF N
    <3>1. N \in SUBSET (1 .. Len(was)) /\ N # {} /\ m = Max(N)
      BY <2>3, <2>6 DEF N
    <3> HIDE DEF m
    <3>2. Max(N) \in N
      BY <2>5, <3>1, MaxMin
    <3> QED
      BY <3>1, <3>2
  <2> HIDE DEF m
  <2>8. Served(found, foundAt) = all[m]
    BY <2>2, <2>3, <2>7, ServedIs
  <2>9. Max(OfHost(all)) = m
    BY <2>6 DEF m
  <2> QED
    BY <2>4, <2>8, <2>9
<1> QED
  BY MeantInvariance, <1>1, PTL

\* Of the options that are set once: the command line, then what comes first in
\* the file of main()'s load, then the default; persist also from the sections of
\* sessions.  Of syslog: what comes last in all the files so far, so that a
\* reload changes it.
THEOREM OptionsGiven == Spec => []OptionsAsGiven
<1>1. Meant => OptionsAsGiven
  <2> SUFFICES ASSUME Meant PROVE OptionsAsGiven
    OBVIOUS
  <2>1. FirstCounts
    BY DEF Meant
  <2>2. pc \in Running /\ Clean => syslog = LastSaid(Options(loads), "syslog", LOG_DAEMON)
    BY DEF Meant, AtRest, Running
  <2> QED
    BY <2>1, <2>2 DEF FirstCounts, OptionsAsGiven, KindsOf
<1> QED
  BY MeantInvariance, <1>1, PTL

\* Without the sections that DeviceShared describes no device name is freed
\* twice, and none that a session has; so these are all the ways to it.
THEOREM HeapStaysSound == Spec => []HeapSound
<1>1. Meant => HeapSound
  <2> SUFFICES ASSUME Meant, Clean, ~DeviceShared, pc # "undefined" PROVE HeapSound
    BY DEF HeapSound
  <2>1. DOMAIN hosts = 1 .. Len(hosts)
    BY Lengths DEF Meant, Inv
  <2>2. /\ sound
        /\ \A i \in 1 .. Len(hosts) : hosts[i].dev # 0 => heap[hosts[i].dev].live
        /\ foundAt > 0 /\ found # NoHost /\ found.dev # 0 =>
             heap[found.dev].live \/ \E n \in foundAt + 1 .. loads : DefaultNamed(n)
    BY DEF Meant, HeapOK
  <2> QED
    BY <2>1, <2>2 DEF HeapSound
<1> QED
  BY MeantInvariance, <1>1, PTL

\* A reload ends a listening server for these reasons only.
THEOREM ListenerGoesOn == Spec => ListenerSurvives
<1>1. Meant /\ [Next]_vars =>
        [svr /\ pc \in {"start", "listen"} /\ pc' \in {"exited", "undefined"} =>
           (~Clean \/ (Loaded(loads).readable /\ Meaning(loads) = <<>>) \/ DefaultUnbearable)']_vars
  BY EndsMeant
<1> QED
  BY MeantInvariance, <1>1, PTL DEF Spec, ListenerSurvives
=============================================================================
