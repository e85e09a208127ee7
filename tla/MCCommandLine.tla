------------------------- MODULE MCCommandLine -------------------------
(* Commands for TLC: the parts a command needs, with up to two options    *)
(* more, in every order, and ninja rules as CMake writes them with every  *)
(* such pair of options among the flags of an edge; and a few commands on *)
(* hosts whose configurations differ in every way that is modelled.       *)
EXTENDS CommandLine

File(dir, stem, extension) == <<dir, stem, extension>>
Source == File("", "foo", ".cpp")
Object == File("obj/", "foo", ".o")
Pch == File("", "pch", ".h")
Inc == File("", "inc", ".1")
Dep == File("obj/", "foo", ".d")
MCSources == {Source, Pch}

GccMore ==
  {<<<<"-I", "inc">>>>, <<<<"-I">>, Inc>>, <<<<"-D", "A">>>>, <<<<"-c", "overage">>>>,
   <<<<"-O2">>>>, <<<<"-isystem">>, Inc>>, <<<<"-include">>, Pch>>,
   <<<<"-MMD">>, <<"-MF">>, Dep>>, <<<<"-x">>, <<"c++">>>>,
   <<<<"-index-store-path">>, Inc>>, <<<<"-target">>, <<"arm">>>>}
GccNeeded == {<<<<"-c">>>>, <<<<"-o">>, Object>>, <<Source>>}

MsvcMore ==
  {<<<<"/I", "inc">>>>, <<<<"/I">>, Inc>>, <<<<"/D">>, <<"A">>>>, <<<<"/O2">>>>,
   <<<<"/Zi">>>>, <<<<"/Fd", "foo.pdb">>>>, <<<<"/FS">>>>, <<<<"/showIncludes">>>>,
   <<<<"/external:I">>, Inc>>, <<<<"/AI", "inc">>>>}
MsvcNeeded(output) == {<<<<"/c">>>>, output, <<Source>>}

AtMostTwo(S) == {{}} \cup {{a, b} : a, b \in S}
Ordered(blocks) == {FlattenSeq(s) : s \in SetToSeqs(blocks)}
InOrder(needed, more) ==
  UNION {Ordered(needed \cup some) : some \in AtMostTwo(more)}

(* The hosts: the settings of a file, changed by lines after them. *)
Gcc == <<"/usr/bin/", "gcc">>
CL == <<"cl.exe">>
Touch == <<"touch">>
Clang == <<"/usr/bin/", "clang">>
IniName == <<"Wuild.ini">>
Ini ==
  <<<<"coordinatorHost", "=", "build", ",", "spare">>, <<"coordinatorPort", "=", "7767">>,
    <<"listenHost", "=", "build">>, <<"listenPort", "=", "7767">>,
    <<"[", "tools", "]">>,
    <<"toolIds", "=", "gcc", ",", "cl", ",", "upd">>,
    <<"CC", ":=">> \o Gcc,
    <<"gcc", "=", "$CC">>,
    <<"gcc", "_appendRemote", "=", "--target=x", ";", "for", "the", "remote", "host">>,
    <<"gcc", "_removeRemote", "=", "-ftime-trace">>,
    <<"cl", "=">> \o CL,
    <<"cl", "_appendRemote", "=", "--target=x">>,
    <<"upd", "=">> \o Touch,
    <<"upd", "_type", "=", "update_file">>>>

Compilers == (Gcc :> <<"9.3.0">>) @@ (CL :> <<"19.0">>) @@ (Touch :> <<"8">>)
Host(args, lines) ==
  [args |-> args, environment |-> ("$HOME" :> <<"/root">>), files |-> (IniName :> Ini \o lines),
   places |-> <<<<"~/Wuild.ini">>, IniName>>, path |-> (<<"gcc">> :> Gcc),
   installed |-> Compilers]
ProxyOf(id) == <<"proxy", "-", "toolId", "=", id>>
PlainHosts == [style \in {"gcc", "msvc", "update"} |->
                 Host(<<ProxyOf([gcc |-> "gcc", msvc |-> "cl", update |-> "upd"][style])>>, <<>>)]

GccHost(lines) == Host(<<ProxyOf("gcc")>>, lines)
Other == <<<<"toolIds", "=", "cl">>>>
Alias == <<<<"gcc", "_remoteAlias", "=", "cross">>>>
Cross == <<<<"toolIds", "=", "gcc", ",", "cross">>, <<"cross", "=">> \o Clang>>
Unchecked == <<"disableVersionChecks", "=", "1">>
OtherFile(f) == [GccHost(<<>>) EXCEPT !.files = @ @@ (f :> Ini \o Other)]
MoreHosts ==
  [old |-> [GccHost(<<>>) EXCEPT !.installed = (Gcc :> <<"5.4.0">>) @@ @],
   bare |-> [GccHost(<<>>) EXCEPT !.installed = <<>>],
   other |-> GccHost(Other),
   noNames |-> GccHost(<<<<"gcc", "=">>>>),
   unknown |-> GccHost(<<<<"gcc", "=", "mycc">>>>),
   alias |-> GccHost(Alias),
   cross |-> [GccHost(Cross) EXCEPT !.installed = (Clang :> <<"10.0">>) @@ @],
   hiding |-> [GccHost(Cross \o <<<<"cross", "_remoteAlias", "=", "gcc">>>>)
                EXCEPT !.installed = (Clang :> <<"10.0">>) @@ @],
   version |-> GccHost(<<<<"gcc", "_version", "=", "5.4.0">>>>),
   unchecked |-> Host(<<ProxyOf("gcc"), <<"tools", "-">> \o Unchecked>>, <<>>),
   checked |-> Host(<<ProxyOf("gcc"), Unchecked>>, <<<<"disableVersionChecks", "=", "0">>>>),
   environment |-> [OtherFile(<<"env.ini">>) EXCEPT
                      !.environment = @ @@ ("$WUILD_CONFIG" :> <<"env.ini">>)],
   argument |-> [OtherFile(<<"my.ini">>) EXCEPT
                   !.args = Append(@, <<"config", "=", "my.ini">>)],
   dashed |-> [OtherFile(<<"my", "-", "host.ini">>) EXCEPT
                 !.args = Append(@, <<"config", "=", "my", "-", "host.ini">>)],
   notClient |-> GccHost(<<<<"[", "toolClient", "]">>, <<"coordinatorPort", "=">>>>),
   hasty |-> GccHost(<<<<"[", "toolClient", "]">>, <<"queueTimeoutMS", "=", "-", "1">>>>),
   notServer |-> GccHost(<<<<"[", "toolServer", "]">>, <<"threadCount", "=", "-", "2">>>>),
   notProxy |-> GccHost(<<<<"[", "proxy", "]">>, <<"listenPort", "=", "65536">>>>),
   apart |-> GccHost(<<<<"[", "toolClient", "]">>, <<"coordinatorHost", "=">>,
                       <<"coordinatorEnabled", "=", "off">>, <<"queueTimeoutMS", "=", "0">>>>),
   home |-> OtherFile(<<"~/Wuild.ini">>),
   nothing |-> [GccHost(<<>>) EXCEPT !.places = <<>>]]
MCHosts == PlainHosts @@ MoreHosts

NoEnv == [v \in {"$DEFINES", "$INCLUDES", "$FLAGS"} |-> <<>>]
Compiler == [gcc |-> <<"gcc">>, msvc |-> CL, update |-> Touch]
Proxied(style, lines) ==
  {[route |-> "proxy", client |-> style, server |-> style, executable |-> Compiler[style],
    args |-> a, env |-> NoEnv] : a \in lines}

\* An output joined with its option by a colon: when it comes last the parser
\* finds no file, and the command is run as it is.
JoinedLast ==
  {Append(line, <<"/Fo", ":">> \o Object) :
     line \in InOrder({<<<<"/c">>>>, <<Source>>}, MsvcMore)}

\* With every part the compilation needs, and with one of them missing.
ProxyCommands ==
  Proxied("gcc", InOrder(GccNeeded, GccMore)) \cup
  Proxied("gcc", UNION {InOrder(GccNeeded \ {n}, GccMore) : n \in GccNeeded}) \cup
  Proxied("msvc", UNION {InOrder(MsvcNeeded(o), MsvcMore) :
                           o \in {<<<<"/Fo">> \o Object>>, <<<<"/Fo", ":">>, Object>>}}) \cup
  Proxied("msvc", JoinedLast) \cup
  Proxied("update", {<<Source>>, <<>>})

Var(name) == <<"$" \o name>>
GccRule == <<Var("DEFINES"), Var("INCLUDES"), Var("FLAGS"), <<"-MMD">>, <<"-MF">>,
             Var("DEP_FILE"), <<"-o">>, Var("out"), <<"-c">>, Var("in")>>
MsvcRule == <<Var("DEFINES"), Var("INCLUDES"), Var("FLAGS"), <<"/showIncludes">>,
              <<"/Fo">>, Var("out"), <<"/Fd">>, Var("PDB"), <<"/FS">>, <<"-c">>, Var("in")>>
Edge(style, rule, defines, includes, flags) ==
  [route |-> "ninja", client |-> style, server |-> style, executable |-> Compiler[style],
   args |-> rule,
   env |-> [v \in {"$DEFINES", "$INCLUDES", "$FLAGS", "$DEP_FILE", "$PDB", "$in", "$out"} |->
              CASE v = "$DEFINES" -> defines [] v = "$INCLUDES" -> includes
                [] v = "$FLAGS" -> flags [] v = "$DEP_FILE" -> <<Dep>>
                [] v = "$PDB" -> <<File("", "foo", ".pdb")>>
                [] v = "$in" -> <<Source>> [] v = "$out" -> <<Object>>]]
NinjaCommands ==
  {Edge("gcc", GccRule, d, i, f) :
     d \in {<<>>, <<<<"-D", "A">>>>},
     i \in {<<>>, <<<<"-I", "inc">>>>, <<<<"-isystem">>, Inc>>, <<<<"-I">>, Inc>>},
     f \in InOrder({}, GccMore)} \cup
  {Edge("msvc", MsvcRule, d, i, f) :
     d \in {<<>>, <<<<"/D", "A">>>>},
     i \in {<<>>, <<<<"/I", "inc">>>>, <<<<"/I">>, Inc>>},
     f \in InOrder({}, MsvcMore)}

TimeTrace == <<"-ftime-trace">>

\* An argument the configuration removes for the remote host, first and last.
RemovedFirst == Proxied("gcc", {<<TimeTrace, <<"-c">>, Source, <<"-o">>, Object>>})
RemovedLast == Proxied("gcc", {<<<<"-c">>, Source, <<"-o">>, Object, TimeTrace>>})

\* Hosts of every configuration, with three commands.
ConfiguredCommands ==
  {[c EXCEPT !.client = from, !.server = to] :
     c \in Proxied("gcc", {<<<<"-c">>, Source, <<"-o">>, Object>>}) \cup
           {Edge("gcc", GccRule, <<>>, <<<<"-I", "inc">>>>, <<<<"-O2">>>>),
            Edge("msvc", MsvcRule, <<>>, <<>>, <<<<"/O2">>>>)},
     from \in DOMAIN MoreHosts \cup {"gcc"}, to \in DOMAIN MoreHosts \cup {"gcc"}}

MCCommands == UNION {ProxyCommands, NinjaCommands, RemovedLast, ConfiguredCommands}
=========================================================================
