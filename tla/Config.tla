------------------------------- MODULE Config -------------------------------
(***************************************************************************)
(* The configuration: main()'s start, read_config() with the scanner of    *)
(* cfg_file.l and the grammar of cfg_file.y, SIGHUP's reload, find_host(). *)
(*                                                                         *)
(* A file is a sequence of lexemes.  Of the options there is one of each   *)
(* kind the grammar treats differently: of the general ones port and       *)
(* timeout, which are set once, and syslog, which like ppp, ifconfig,      *)
(* route, firewall, ip and bindaddr is set whenever it is read.  The       *)
(* scanner's start condition, its stack and flex's buffer outlive          *)
(* yyparse(), and so does default_host.                                    *)
(***************************************************************************)
EXTENDS Integers, Sequences, SequencesExt

CONSTANTS
  Files,      \* what the configuration file may contain, by name
  StackSize,  \* of the scanner's stack[], 16 in the source
  MaxLoads,   \* bound on how often the file is read
  Host,       \* the session that is looked for
  CmdLine     \* the options of the command line to consider

\* A lexeme; k is the token it makes as a parameter.
Word(v) == [k |-> "WORD", v |-> v]
Num(v) == [k |-> "NUM", v |-> v]
Str(v) == [k |-> "STRING", v |-> v]
Mark(v) == [k |-> v, v |-> v]

GeneralOptions == {"port", "timeout", "syslog"}
Numbers == {"timeout", "persist", "nat_hack"}
HostOptions == Numbers \cup {"passwd", "device", "up"}
Commands == {"ifconfig", "program"}
Keywords == {"options", "default"} \cup GeneralOptions \cup HostOptions \cup Commands

OptionsOf(section) == IF section = "options" THEN GeneralOptions ELSE HostOptions

IsKeyword(w) == w.k \in {"WORD", "STRING"} /\ w.v \in Keywords

\* As the name of a session; numbers are not told apart.
NameOf(w) == IF w.k = "NUM" THEN "digits" ELSE w.v

NULL == "NULL"
None == -1        \* not set by the command line or the file
Shell == "shell"  \* a program without a path

\* main()'s defaults: of the options that are set once, of syslog, of a host.
Fallback == [port |-> 5000, timeout |-> 30, persist |-> 0]
LOG_DAEMON == 24
BuiltIn == [passwd |-> NULL, dev |-> 0, up |-> <<>>,
            timeout |-> 30, persist |-> 0, nat_hack |-> "no"]

\* How the writer of a file puts down what is meant: a sequence of sections,
\* each with a name and a sequence of pairs of an option and its value.
Param(option, v) ==
  IF option \in {"passwd", "device"} THEN Word(v) ELSE Num(v)

Command(c) ==
  <<Word(IF c = Shell THEN "program" ELSE "ifconfig"), Str(c), Mark(";")>>

Written(p) ==
  IF p[1] = "up"
  THEN <<Word("up"), Mark("{")>> \o FlattenSeq([i \in DOMAIN p[2] |-> Command(p[2][i])])
       \o <<Mark("}"), Mark(";")>>
  ELSE <<Word(p[1]), Param(p[1], p[2]), Mark(";")>>

Section(s) ==
  <<Word(s.name), Mark("{")>> \o FlattenSeq([i \in DOMAIN s.options |-> Written(s.options[i])])
  \o <<Mark("}")>>

Text(sections) == FlattenSeq([i \in DOMAIN sections |-> Section(sections[i])])

\* What can be written so.
Kind(name) == IF name \in {"options", "default"} THEN name ELSE "host"

IsList(q) == Len(q) \in Nat /\ q = [i \in 1 .. Len(q) |-> q[i]]

IsOption(kind, p) ==
  /\ p = <<p[1], p[2]>> /\ p[1] \in OptionsOf(kind)
  /\ p[1] \in DOMAIN Fallback => p[2] \in Nat
  /\ p[1] \in {"passwd", "device", "nat_hack"} => p[2] # NULL
  /\ p[1] = "up" => IsList(p[2])

IsSection(s) ==
  /\ s.name \in {"options", "default"} \/ s.name \notin Keywords
  /\ IsList(s.options) /\ s.options # <<>>
  /\ \A i \in DOMAIN s.options : IsOption(Kind(s.name), s.options[i])

\* sections is what the writer meant, text what is in the file: just that, if
\* the writer made no mistake, and anything if flawed.
ASSUME ConfigAssumption ==
  /\ StackSize \in Nat /\ StackSize >= 4 /\ MaxLoads \in Nat
  /\ \A f \in DOMAIN Files :
       LET file == Files[f]
       IN  /\ DOMAIN file = {"sections", "text", "flawed", "readable"}
           /\ IsList(file.text)
           /\ ~file.flawed => /\ IsList(file.sections)
                              /\ \A i \in DOMAIN file.sections : IsSection(file.sections[i])
                              /\ file.text = Text(file.sections)
                              /\ ~file.readable => file.sections = <<>>
  /\ CmdLine \subseteq [DOMAIN Fallback -> Int]

VARIABLES
  pc,
  svr,      \* started with -s
  cmd,      \* the command line
  vtun,     \* the general options that are set once
  syslog,   \* vtun.syslog
  default,  \* default_host
  hosts,    \* host_list
  scan,     \* the scanner: start condition, stack, and what it has not read
  heap,     \* the device names: heap[i] is one strdup()
  sound,    \* nothing was freed twice
  found,    \* what find_host() found
  walk,     \* the elements of host_list that find_host() has dealt with
  loads,
  files,    \* history: the files that were loaded
  foundAt   \* history: their number when find_host() returned

vars == <<pc, svr, cmd, vtun, syslog, default, hosts, scan, heap, sound, found, walk,
          loads, files, foundAt>>

NoHost == [name |-> NULL]

Init ==
  /\ pc = "start" /\ svr \in BOOLEAN
  /\ cmd \in CmdLine /\ vtun = cmd /\ syslog = LOG_DAEMON
  /\ default = BuiltIn /\ hosts = <<>>
  /\ scan = [start |-> "INITIAL", stack |-> <<>>, rest |-> <<>>]
  /\ heap = <<>> /\ sound = TRUE
  /\ found = NoHost /\ walk = 0
  /\ loads = 0 /\ files = <<>> /\ foundAt = 0

----------------------------------------------------------------------------
\* The scanner.  s is the state of a load: see Load.

Full(s) == Len(s.stack) = StackSize

Push(s, start) == [s EXCEPT !.stack = Append(@, s.start), !.start = start]
Pop(s) == [s EXCEPT !.stack = Front(@), !.start = Last(s.stack)]

\* The token that the parser gets; ';' makes none.  Only as a parameter a string
\* is one: elsewhere the quotes are garbage, and the word in them is a word.
Token(s, w) ==
  CASE w.k = "{" -> IF Full(s) THEN "K_ERROR" ELSE "{"
    [] w.k = "}" -> IF s.stack = <<>> THEN "K_ERROR" ELSE "}"
    [] w.k = ";" -> "none"
    [] s.start = "INITIAL" /\ w.k \in {"WORD", "NUM", "STRING"} ->
         IF IsKeyword(w) THEN w.v ELSE "K_HOST"
    [] s.start = "OPTION" /\ IsKeyword(w) -> IF Full(s) THEN "K_ERROR" ELSE w.v
    [] s.start = "PARAM" /\ w.k \in {"WORD", "NUM", "STRING"} -> w.k
    [] OTHER -> "K_ERROR"

\* Faulty: the state before a section does not come back.
Scanned_nopop(s, w) ==
  CASE w.k = "{" /\ ~Full(s) -> Push(s, "OPTION")
    [] w.k = ";" /\ s.start = "PARAM" -> Pop(s)
    [] IsKeyword(w) /\ s.start = "OPTION" /\ ~Full(s) -> Push(s, "PARAM")
    [] OTHER -> s

Scanned(s, w) ==
  CASE w.k = "{" /\ ~Full(s) -> Push(s, "OPTION")
    [] w.k = "}" /\ s.stack # <<>> -> Pop(s)
    [] w.k = ";" /\ s.start = "PARAM" -> Pop(s)
    [] IsKeyword(w) /\ s.start = "OPTION" /\ ~Full(s) -> Push(s, "PARAM")
    [] OTHER -> s

----------------------------------------------------------------------------
\* The parser: what the grammar does at the token t of the lexeme w.

\* parse_host is default_host itself, or a new host.
ParseHost(s) == IF s.section = "default" THEN s.default ELSE s.host
Put(s, option, v) ==
  IF s.section = "default" THEN [s EXCEPT !.default[option] = v]
                           ELSE [s EXCEPT !.host[option] = v]

\* A new host is a copy of default_host, without the password.  The commands
\* are copied, strdup(NULL) included; the name of the device is shared.
K_HOST(s, name) ==
  [s EXCEPT !.at = "open", !.section = "host",
            !.host = [o \in DOMAIN s.default \cup {"name"} |->
                        CASE o = "name" -> name
                          [] o = "passwd" -> NULL
                          [] OTHER -> s.default[o]],
            !.crash = s.crash \/ Contains(s.default.up, Shell)]

\* Faulty: an incomplete host takes its device name with it.
EndOfSection_frees(s) ==
  LET complete == s.section = "host" /\ s.host.passwd # NULL
  IN  [s EXCEPT !.at = "top", !.section = "none",
                !.hosts = IF complete THEN Append(@, s.host) ELSE @,
                !.heap = IF s.section = "host" /\ ~complete
                         THEN [i \in DOMAIN @ |->
                                 [@[i] EXCEPT !.live = @ /\ i # s.host.dev]]
                         ELSE @]

\* "Ignored incomplete session definition".
EndOfSection(s) ==
  LET complete == s.section = "host" /\ s.host.passwd # NULL
  IN  [s EXCEPT !.at = "top", !.section = "none",
                !.hosts = IF complete THEN Append(@, s.host) ELSE @]

\* Faulty: the new name is assigned first, and then freed.
K_DEVICE_swapped(s, name) ==
  [Put(s, "dev", Len(s.heap) + 1) EXCEPT
     !.heap = Append(@, [name |-> name, live |-> FALSE])]

\* free(parse_host->dev) and strdup().
K_DEVICE(s, name) ==
  LET old == ParseHost(s).dev
      freed == [i \in DOMAIN s.heap |-> [s.heap[i] EXCEPT !.live = @ /\ i # old]]
  IN  [Put(s, "dev", Len(s.heap) + 1) EXCEPT
         !.heap = Append(freed, [name |-> name, live |-> TRUE]),
         !.sound = @ /\ (old # 0 => s.heap[old].live)]

\* Faulty: the file overrides the command line.
SetGeneral_override(s, option, v) ==
  IF option = "syslog" THEN [s EXCEPT !.syslog = v] ELSE [s EXCEPT !.vtun[option] = v]

\* "Don't override command line options", which has none for syslog.
SetGeneral(s, option, v) ==
  IF option = "syslog" THEN [s EXCEPT !.syslog = v]
  ELSE [s EXCEPT !.vtun[option] = IF @ = None THEN v ELSE @]

\* An option with its parameter.  persist is a general option, too.
SetOption(s, v) ==
  LET next == [s EXCEPT !.at = "body"]
  IN  CASE s.section = "options" -> SetGeneral(next, s.option, v)
        [] s.option = "device" -> K_DEVICE(next, v)
        [] s.option = "persist" -> SetGeneral(Put(next, "persist", v), "persist", v)
        [] OTHER -> Put(next, s.option, v)

\* at: where the parser is.  first: a section has at least one option.
Parsed(s, t, w) ==
  CASE s.at = "top" /\ t \in {"options", "default"} ->
         [s EXCEPT !.at = "open", !.section = t]
    [] s.at = "top" /\ t = "K_HOST" -> K_HOST(s, NameOf(w))
    [] s.at = "open" /\ t = "{" -> [s EXCEPT !.at = "first"]
    [] s.at \in {"first", "body"} /\ t = "up" /\ s.section # "options" ->
         [Put(s, "up", <<>>) EXCEPT !.at = "up"]
    [] s.at \in {"first", "body"} /\ t \in OptionsOf(s.section) \ {"up"} ->
         [s EXCEPT !.at = "param", !.option = t]
    [] s.at = "param" /\ t = (IF s.option \in {"passwd", "device"} THEN "WORD" ELSE "NUM") ->
         SetOption(s, w.v)
    [] s.at = "body" /\ t = "}" -> EndOfSection(s)
    [] s.at = "up" /\ t = "{" -> [s EXCEPT !.at = "cmds"]
    [] s.at = "cmds" /\ t \in Commands -> [s EXCEPT !.at = t]
    [] s.at \in Commands /\ t = "STRING" ->
         [Put(s, "up", Append(ParseHost(s).up, IF s.at = "program" THEN Shell ELSE w.v))
            EXCEPT !.at = "cmds"]
    [] s.at = "cmds" /\ t = "}" -> [s EXCEPT !.at = "body"]
    [] OTHER -> [s EXCEPT !.at = "error"]

\* After an error yyparse() reads no more: the rest stays in flex's buffer.
Read(s, w) ==
  IF s.at = "error" \/ s.crash THEN [s EXCEPT !.rest = Append(@, w)]
  ELSE IF Token(s, w) = "none" THEN Scanned(s, w)
  ELSE Parsed(Scanned(s, w), Token(s, w), w)

ParseFrom(s, text) ==
  LET after[i \in 0 .. Len(text)] == IF i = 0 THEN s ELSE Read(after[i - 1], text[i])
  IN  after[Len(text)]

Fresh ==
  [start |-> scan.start, stack |-> scan.stack, rest |-> <<>>, at |-> "top",
   section |-> "none", option |-> NULL, host |-> NoHost, hosts |-> <<>>,
   default |-> default, vtun |-> vtun, syslog |-> syslog, heap |-> heap, sound |-> sound,
   crash |-> FALSE]

\* Faulty: the old list is not freed.
yyparse_appends(text) == ParseFrom([Fresh EXCEPT !.hosts = hosts], text)

yyparse(text) == ParseFrom(Fresh, text)

----------------------------------------------------------------------------
\* The programs.

\* Faulty: the flags stay.
clear_nat_hack_flags_none(list) == list

\* clear_nat_hack_flags(): main() calls it, SIGHUP's handler does not.
clear_nat_hack_flags(list) ==
  [i \in DOMAIN list |->
     [list[i] EXCEPT !.nat_hack =
        IF @ = (IF svr THEN "client" ELSE "server") THEN "no" ELSE @]]

FillDefaults(v) == [o \in DOMAIN v |-> IF v[o] = None THEN Fallback[o] ELSE v[o]]

\* read_config() and reread_config(): free the list, parse the file, free what
\* default_host points to, which is not on the heap itself, and exit if there
\* is no host.  A file that cannot be opened is no reason to exit.
Load(f, first, next) ==
  /\ loads < MaxLoads /\ loads' = loads + 1
  /\ files' = Append(files, f)
  /\ IF ~Files[f].readable
     THEN /\ hosts' = <<>>
          /\ pc' = next
          /\ vtun' = IF first THEN FillDefaults(vtun) ELSE vtun
          /\ UNCHANGED <<default, scan, heap, sound, syslog>>
     ELSE LET s == yyparse(scan.rest \o Files[f].text)
          IN  /\ hosts' = IF first THEN clear_nat_hack_flags(s.hosts) ELSE s.hosts
              /\ default' = [s.default EXCEPT !.up = <<>>]
              /\ scan' = [start |-> s.start, stack |-> s.stack, rest |-> s.rest]
              /\ vtun' = IF first THEN FillDefaults(s.vtun) ELSE s.vtun
              /\ syslog' = s.syslog /\ heap' = s.heap /\ sound' = s.sound
              /\ pc' = IF s.crash \/ s.default.passwd # NULL THEN "undefined"
                       ELSE IF s.hosts = <<>> THEN "exited" ELSE next

\* main(), up to listener(), connection() under inetd, or find_host().
Start(f) ==
  /\ pc = "start"
  /\ \E next \in IF svr THEN {"listen", "auth"} ELSE {"find"} : Load(f, TRUE, next)
  /\ UNCHANGED <<svr, cmd, found, walk, foundAt>>

\* SIGHUP to a server, in listener() or while it authenticates a client.  In
\* the middle of find_host() the list holds elements that are free already.
Reload(f) ==
  /\ svr /\ pc \in {"listen", "auth", "find", "checked"}
  /\ IF pc = "find" /\ walk > 0
     THEN /\ pc' = "undefined"
          /\ UNCHANGED <<vtun, syslog, default, hosts, scan, heap, sound, loads, files>>
     ELSE Load(f, FALSE, pc)
  /\ UNCHANGED <<svr, cmd, found, walk, foundAt>>

\* listener() forks for a connection, and connection() gets the name of a host.
config == <<svr, cmd, vtun, syslog, default, scan, heap, sound, loads, files>>

Accept == pc = "listen" /\ pc' = "auth" /\ UNCHANGED <<config, hosts, found, walk, foundAt>>
AuthServer == pc = "auth" /\ pc' = "find" /\ UNCHANGED <<config, hosts, found, walk, foundAt>>

\* Faulty: the first that matches is the one.
FindHost_first ==
  /\ pc = "find" /\ walk < Len(hosts)
  /\ walk' = walk + 1
  /\ found' = IF hosts[walk + 1].name = Host /\ found = NoHost THEN hosts[walk + 1] ELSE found
  /\ UNCHANGED <<config, pc, hosts, foundAt>>

\* find_host(): llist_free() frees one host after the other, but not those
\* that match, of which the last is returned.
FindHost ==
  /\ pc = "find" /\ walk < Len(hosts)
  /\ walk' = walk + 1
  /\ found' = IF hosts[walk + 1].name = Host THEN hosts[walk + 1] ELSE found
  /\ UNCHANGED <<config, pc, hosts, foundAt>>

\* The list is empty now.
HostFound ==
  /\ pc = "find" /\ walk = Len(hosts)
  /\ hosts' = <<>> /\ walk' = 0 /\ foundAt' = loads
  /\ pc' = IF found = NoHost THEN "exited" ELSE IF svr THEN "checked" ELSE "session"
  /\ UNCHANGED <<config, found>>

\* connection() ignores SIGHUP from here on.
Connection ==
  /\ pc = "checked"
  /\ pc' = "session"
  /\ UNCHANGED <<config, hosts, found, walk, foundAt>>

Next ==
  \/ \E f \in DOMAIN Files : Start(f) \/ Reload(f)
  \/ Accept \/ AuthServer \/ FindHost \/ HostFound \/ Connection

Spec == Init /\ [][Next]_vars

----------------------------------------------------------------------------
Running == {"listen", "auth", "find", "checked", "session"}

Loaded(n) == Files[files[n]]

\* The pairs in the first k sections, if they are of these kinds, in their order.
Said(sections, k, kinds) ==
  FlattenSeq([i \in 1 .. k |->
    IF Kind(sections[i].name) \in kinds THEN sections[i].options ELSE <<>>])
SaidIn(sections, kinds) == Said(sections, Len(sections), kinds)

Places(pairs, option) == {i \in DOMAIN pairs : pairs[i][1] = option}

LastSaid(pairs, option, otherwise) ==
  LET at == Places(pairs, option) IN IF at = {} THEN otherwise ELSE pairs[Max(at)][2]
FirstSaid(pairs, option, otherwise) ==
  LET at == Places(pairs, option) IN IF at = {} THEN otherwise ELSE pairs[Min(at)][2]

\* The session of section i: its own options, then those of the default sections
\* before it, and for want of these what the default sections of earlier files
\* said.  Only the commands of those are forgotten.
SessionOf(earlier, sections, i, ignored) ==
  LET own == sections[i].options
      here == Said(sections, i - 1, {"default"}) \o own
      ever == earlier \o here
      hack == LastSaid(ever, "nat_hack", BuiltIn.nat_hack)
  IN  [o \in DOMAIN BuiltIn \cup {"name"} |->
         CASE o = "name" -> sections[i].name
           [] o = "passwd" -> LastSaid(own, "passwd", NULL)
           [] o = "up" -> LastSaid(here, "up", <<>>)
           [] o = "dev" -> LastSaid(ever, "device", NULL)
           [] o = "nat_hack" -> IF hack = ignored THEN "no" ELSE hack
           [] OTHER -> LastSaid(ever, o, BuiltIn[o])]

\* The first k sections, as far as they are sessions with a password.
Sessions(earlier, sections, k, ignored) ==
  FlattenSeq([i \in 1 .. k |->
    IF Kind(sections[i].name) = "host" /\ Places(sections[i].options, "passwd") # {}
    THEN <<SessionOf(earlier, sections, i, ignored)>> ELSE <<>>])

\* What the default sections of the first n files said, and their options sections.
Defaults(n) == FlattenSeq([m \in 1 .. n |-> SaidIn(Loaded(m).sections, {"default"})])
Options(n) == FlattenSeq([m \in 1 .. n |-> SaidIn(Loaded(m).sections, {"options"})])

\* vtund.conf(5), nat_hack: the setting of the other side is ignored.
OtherSide == IF svr THEN "client" ELSE "server"

\* The sessions of the n-th file.
Meaning(n) ==
  LET sections == Loaded(n).sections
  IN  Sessions(Defaults(n - 1), sections, Len(sections), OtherSide)

ShownIn(hp, h) == [h EXCEPT !.dev = IF @ = 0 THEN NULL ELSE hp[@].name]
Shown(h) == ShownIn(heap, h)

\* A host of the n-th load, to be compared with what is written: only main()
\* ignores the other side's nat_hack, so that after a reload the comparison
\* does.  What the host has itself then is OtherSideIgnored.
Served(h, n) ==
  LET shown == Shown(h)
  IN  IF n > 1 /\ shown.nat_hack = OtherSide THEN [shown EXCEPT !.nat_hack = "no"] ELSE shown

\* No file with a mistake was read.  After one the scanner is in the middle of
\* a section, and what it has not read comes before the next file.
Clean == \A n \in 1 .. loads : ~Loaded(n).flawed

\* vtund(8), SIGHUP: "Causes vtund to reread the config file."  The server
\* then has the sessions of the file and no others, with every option as it is
\* written, up to defaults that earlier files left.  Of nat_hack after a reload
\* it says only whether it is this side's: see OtherSideIgnored.
HostsAsWritten ==
  Clean /\ pc \in {"listen", "auth"} =>
    [i \in DOMAIN hosts |-> Served(hosts[i], loads)] = Meaning(loads)

\* A session that was taken out of the file is not served after a reload.  Once
\* a file has a mistake, flex's buffer may hold what it and the files after it
\* contain, and a later load begins with that; but what was taken out before
\* the first mistake does not come back.
Names(n) == {Loaded(n).sections[i].name : i \in DOMAIN Loaded(n).sections}
Words(n) == {NameOf(Loaded(n).text[i]) : i \in DOMAIN Loaded(n).text}
WithdrawnStayOut ==
  pc \in {"listen", "auth"} =>
    \A i \in DOMAIN hosts :
      IF Clean THEN hosts[i].name \in Names(loads)
      ELSE \E n \in 1 .. loads : /\ \E m \in 1 .. n : Loaded(m).flawed
                                 /\ hosts[i].name \in Words(n)

\* A client gets the session of that name that comes last in the file, although
\* find_host() takes the list apart and a reload may follow.
FoundAsWritten ==
  Clean /\ pc \in {"checked", "session"} =>
    LET all == Meaning(foundAt)
    IN  Served(found, foundAt) = all[Max({i \in DOMAIN all : all[i].name = Host})]

\* vtund.conf(5), nat_hack: on the other side the setting is ignored.  No session
\* is run with it, on whichever side and after whichever loads.  Violated:
\* reread_config() does not call clear_nat_hack_flags().
OtherSideIgnored == pc = "session" => found.nat_hack # OtherSide

\* Of the options that are set once the command line comes before the file, and
\* the file that the program started with before all others; what comes first in
\* it counts, and of persist, which is set from every session and default section
\* but is an error in an options section, what any of these says first.  Of
\* syslog, as of ppp, ifconfig, route, firewall, ip and bindaddr, what comes last
\* in all files so far counts: a reload changes it, but does not take it back.
OptionsAsGiven ==
  /\ pc \in Running /\ ~Loaded(1).flawed =>
       \A o \in DOMAIN Fallback :
         LET kinds == IF o = "persist" THEN {"default", "host"} ELSE {"options"}
         IN  vtun[o] = IF cmd[o] # None THEN cmd[o]
                       ELSE FirstSaid(SaidIn(Loaded(1).sections, kinds), o, Fallback[o])
  /\ pc \in Running /\ Clean => syslog = LastSaid(Options(loads), "syslog", LOG_DAEMON)

\* Device names are shared between default_host and the sessions, so one is
\* freed that is in use; but only if, after a default section that names one, a
\* session has its own or is followed by another such default section, or if
\* SIGHUP makes a process read another default that has found its host already.
NamesDevice(section) == Places(section.options, "device") # {}
DefaultNames(sections, i) == Kind(sections[i].name) = "default" /\ NamesDevice(sections[i])
DefaultNamed(n) == \E j \in DOMAIN Loaded(n).sections : DefaultNames(Loaded(n).sections, j)
SharedIn(sections, before) ==
  \E i \in DOMAIN sections :
    /\ Kind(sections[i].name) = "host"
    /\ before \/ \E j \in 1 .. i - 1 : DefaultNames(sections, j)
    /\ \/ NamesDevice(sections[i])
       \/ \E j \in i + 1 .. Len(sections) : DefaultNames(sections, j)
DeviceShared ==
  \E n \in 1 .. loads : SharedIn(Loaded(n).sections, \E m \in 1 .. n - 1 : DefaultNamed(m))
HeapSound ==
  Clean /\ ~DeviceShared /\ pc # "undefined" =>
    /\ sound
    /\ \A i \in DOMAIN hosts : hosts[i].dev # 0 => heap[hosts[i].dev].live
    /\ foundAt > 0 /\ found # NoHost /\ found.dev # 0 =>
         heap[found.dev].live \/ \E n \in foundAt + 1 .. loads : DefaultNamed(n)

\* As long as no default section has named a device nothing of this can happen,
\* whatever mistakes the files have and whenever SIGHUP comes: no name is freed
\* twice, each session has one of its own, and it is there as long as the session.
OwnDevices ==
  default.dev = 0 =>
    /\ sound
    /\ \A i \in DOMAIN hosts : hosts[i].dev # 0 => heap[hosts[i].dev].live
    /\ \A i, j \in DOMAIN hosts : hosts[i].dev = hosts[j].dev /\ i # j => hosts[i].dev = 0
    /\ found # NoHost /\ found.dev # 0 => heap[found.dev].live

\* A session without a password is in no list, and find_host() returns none and
\* none of another name, also if a reload takes the list away.
PasswordNeeded ==
  /\ \A i \in DOMAIN hosts : hosts[i].passwd # NULL
  /\ pc \in {"checked", "session"} => found.name = Host /\ found.passwd # NULL

\* POP_STATE finds what PUSH_STATE has left, however many files ended in the
\* middle of a section, and both stay within the 16 places of the stack.
ScannerSound ==
  /\ Len(scan.stack) <= StackSize
  /\ scan.start = "INITIAL" <=> scan.stack = <<>>

\* "Don't override command line options", whatever the files say.
CommandLineFirst == \A o \in DOMAIN Fallback : cmd[o] # None => vtun[o] = cmd[o]

\* SIGHUP's reload changes no general option that is set once, whatever the files
\* that are read then say of it; main() has set all of them.
OptionsFixed == [][pc # "start" => vtun' = vtun]_vars

\* Default sections that the program cannot bear: a password is freed together
\* with default_host, and a command without a path cannot be copied.
DefaultUnbearable ==
  LET said == SaidIn(Loaded(loads).sections, {"default"})
  IN  \/ Places(said, "passwd") # {}
      \/ \E i \in Places(said, "up") : Contains(said[i][2], Shell)

\* Reading a file ends a server only if the file has no session, and then the
\* file was there; or if this or an earlier one has a mistake in it.
ListenerSurvives ==
  [][svr /\ pc \in {"start", "listen"} /\ pc' \in {"exited", "undefined"} =>
       (~Clean \/ (Loaded(loads).readable /\ Meaning(loads) = <<>>) \/ DefaultUnbearable)']_vars
=============================================================================
