------------------------------ MODULE MCConfig ------------------------------
(***************************************************************************)
(* Configuration files for TLC: what is meant, and as it is written.       *)
(***************************************************************************)
EXTENDS Config

S(name, options) == [name |-> name, options |-> options]

File(sections) ==
  [sections |-> sections, text |-> Text(sections), flawed |-> FALSE, readable |-> TRUE]

Flawed(sections, text) ==
  [sections |-> sections, text |-> text, flawed |-> TRUE, readable |-> TRUE]

Missing == [sections |-> <<>>, text |-> <<>>, flawed |-> FALSE, readable |-> FALSE]

General == S("options", << <<"port", 1>>, <<"syslog", 8>>, <<"timeout", 2>>, <<"port", 3>> >>)
Facility == S("options", << <<"syslog", 16>>, <<"port", 9>>, <<"syslog", 24>> >>)
Default == S("default", << <<"timeout", 7>>, <<"up", <<"a", "b">> >>, <<"persist", 1>> >>)
DefaultDev == S("default", << <<"device", "tun9">>, <<"nat_hack", "client">> >>)
DefaultPw == S("default", << <<"passwd", "x">> >>)
DefaultShell == S("default", << <<"up", << Shell >> >> >>)
Lion == S("lion", << <<"passwd", "x">>, <<"nat_hack", "client">>, <<"timeout", 8>> >>)
LionToo == S("lion", << <<"persist", 0>>, <<"passwd", "y">>, <<"nat_hack", "server">>,
                        <<"up", <<"c">> >>, <<"passwd", "z">> >>)
Cobra == S("cobra", << <<"device", "tun1">>, <<"passwd", "y">>, <<"device", "tun2">> >>)
Ghost == S("ghost", << <<"device", "tun3">>, <<"persist", 2>> >>)
Idle == S("idle", << <<"persist", 1>> >>)
Plain == S("plain", << <<"up", <<>> >>, <<"passwd", "p">> >>)

Good ==
  << File(<<General, Default, Lion, LionToo>>),
    File(<<Ghost, Lion, Default, Plain, General>>),
    File(<<DefaultDev, Ghost, Plain, Lion>>),
    File(<<Cobra, Default, Facility, Cobra, LionToo>>),
    File(<<DefaultDev, Idle, Lion>>),
    File(<<DefaultDev, Plain, DefaultDev, Lion>>),
    File(<<Lion, DefaultDev>>),
    File(<<General, Ghost>>),
    File(<<Lion, DefaultPw>>),
    File(<<DefaultShell, Lion>>),
    Missing >>

\* A word that is no option, a brace too few or too many, an empty section, an
\* option where it is not one.
Bad ==
  LET two == <<Lion, Plain>> IN
  << Flawed(two, Text(<<Lion>>) \o InsertAt(Section(Plain), 6, Word("typo"))),
    Flawed(two, InsertAt(Text(two), 3, Word("typo"))),
    Flawed(two, Front(Text(two))),
    Flawed(two, Append(Text(two), Mark("}"))),
    Flawed(two, Text(<<Lion, S("empty", <<>>), Plain>>)),
    Flawed(two, Text(<<Lion, S("options", << <<"persist", 1>> >>), Plain>>)) >>

MCFiles == Good \o Bad

MCCmdLine ==
  {[port |-> None, timeout |-> None, persist |-> None],
   [port |-> 4, timeout |-> None, persist |-> 1]}
=============================================================================
