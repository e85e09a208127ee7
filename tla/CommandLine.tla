--------------------------- MODULE CommandLine ---------------------------
(***************************************************************************)
(* The journey of one compilation command (InvocationTool, the command     *)
(* line parsers, ToolCommandline, LocalExecutor::SplitTask, the ninja rule *)
(* rewriting, RemoteToolClient::InvokeTool and LocalExecutor::Quant on the *)
(* server): it is split into a preprocessing and a compiling command, the  *)
(* first runs here, the second is made ready for another host, runs there  *)
(* under other file names with a tool of that host, and its output is      *)
(* written back here.                                                      *)
(*                                                                         *)
(* An argument is the sequence of its pieces: <<"-I">> and                 *)
(* <<"-I", "", "inc", "">> are the option alone and joined with a path,    *)
(* <<"-c", "overage">> is the option whose first letter is a c.  A path is *)
(* a directory, a stem and an extension.  Quoting is not modelled here.    *)
(***************************************************************************)
EXTENDS Integers, Sequences, FiniteSets, SequencesExt, ToolProvider

CONSTANTS
  Hosts,     \* the hosts, from names to what Configuration calls a host
  Commands,  \* the commands a build may run: see CommandsAssumption
  Sources    \* the files there are before the build, with no directory

Routes == {"proxy", "ninja"}

\* A command names two hosts.  Of the proxy it is arguments; of ninja, an
\* executable and a rule's arguments with the bindings of its variables.
ASSUME CommandsAssumption ==
  /\ \A c \in Commands : /\ c.route \in Routes
                         /\ {"$DEFINES", "$INCLUDES", "$FLAGS"} \subseteq DOMAIN c.env
  /\ UNION {{c.client, c.server} : c \in Commands} \subseteq DOMAIN Hosts

VARIABLES
  command,  \* the command the build runs
  client,   \* the host that builds, as it is configured
  server,   \* the other host
  phase,    \* how far it has come
  local,    \* the files of the host that builds: from paths to contents
  pp, cc,   \* the two commands it was split into
  sent,     \* the command the request carries
  answer    \* the content the server answers with, or Failure

given == <<command, client, server>>
vars == <<given, phase, local, pp, cc, sent, answer>>

\* A host that has read its configuration: its tools, none when they are not
\* valid, the tool its proxy stands for, and the parts it can play: it invokes
\* tools of other hosts, has a proxy that does, is a tool server.
Configured(host) ==
  LET data == Settings(host)
      config == ReadInvocationToolProviderConfig(data)
      proxy == ToolProxyServerConfig(data)
      invokes == Validate(config) /\ ValidateRemoteToolClient(RemoteToolClientConfig(data))
  IN  [tools |-> IF Validate(config) THEN Create(config) ELSE <<>>,
       proxyTool |-> proxy.toolId,
       invokes |-> invokes,
       proxied |-> invokes /\ ValidateToolProxyServer(proxy),
       serves |-> Validate(config) /\ ValidateRemoteToolServer(RemoteToolServerConfig(data)),
       path |-> host.path, installed |-> host.installed]

ConfiguredHosts == [h \in DOMAIN Hosts |-> Configured(Hosts[h])]

\* What the command says of its tool, and the tool it is split by.
GivenId ==
  IF command.route = "proxy"
  THEN [toolId |-> client.proxyTool, executable |-> <<>>]
  ELSE [toolId |-> <<>>, executable |-> command.executable]
TheTool == GetTool(client, GivenId)

(***************************************************************************)
(* ToolCommandline.  Positions start from one, zero is none.               *)
(***************************************************************************)
Invocation(id, args, ignored) ==
  [id |-> id, args |-> args, ignored |-> ignored, input |-> 0, output |-> 0,
   type |-> "Unknown"]
Flags(args) == Invocation(NoTool.id, args, {})

NoPath == <<"", "", "">>

Named(inv, index) == IF index = 0 THEN NoPath ELSE inv.args[index]
GetInput(inv) == Named(inv, inv.input)
GetOutput(inv) == Named(inv, inv.output)

Renamed(inv, index, path) ==
  IF index = 0 THEN inv ELSE [inv EXCEPT !.args[index] = path]
SetInput(inv, path) == Renamed(inv, inv.input, path)
SetOutput(inv, path) == Renamed(inv, inv.output, path)

\* FileInfo: what is mistaken for a path is a name without a directory.  (A
\* source whose name has no dot, for which GetFullExtension throws, is not
\* among the inputs.)
IsPath(arg) == Len(arg) = 3
GetDir(path) == IF IsPath(path) THEN path[1] ELSE ""
GetNameWE(path) == IF IsPath(path) THEN path[2] ELSE path[1]
GetFullExtension(path) == IF IsPath(path) THEN path[3] ELSE ""
GetFullname(path) == IF IsPath(path) THEN <<"", path[2], path[3]>> ELSE path

GetPreprocessedPath(source, object) ==
  <<GetDir(object), "pp_" \o GetNameWE(object), GetFullExtension(source)>>

(***************************************************************************)
(* The parsers.  Update scans the arguments and notes where the files and  *)
(* the type are; the options after it drop and replace arguments.          *)
(***************************************************************************)
Options(change, removeLocal, removeDependency, removePreprocessor) ==
  [change |-> change, removeLocal |-> removeLocal,
   removeDependency |-> removeDependency,
   removePreprocessor |-> removePreprocessor]
NoOptions == Options("Unknown", FALSE, FALSE, FALSE)
ForPreprocessing == Options("Preprocess", TRUE, FALSE, FALSE)
FilteringPreprocessing == Options("Unknown", TRUE, FALSE, FALSE)
ForCompiling == Options("Unknown", TRUE, TRUE, TRUE)

\* The scan so far: args are the arguments kept, skip tells that the next one
\* is the value of an option, good that no second input was met.
Scan == [args |-> <<>>, skip |-> FALSE, good |-> TRUE, input |-> 0,
         output |-> 0, type |-> "Unknown", typeAt |-> 0, possible |-> TRUE]

Drop(args, Alone(_), WithNext(_)) ==
  FoldLeft(LAMBDA r, arg :
             IF r.skip THEN [r EXCEPT !.skip = FALSE]
             ELSE IF WithNext(arg) THEN [r EXCEPT !.skip = TRUE]
             ELSE IF Alone(arg) THEN r
             ELSE [r EXCEPT !.args = Append(@, arg)],
           [args |-> <<>>, skip |-> FALSE], args).args

\* The options of the compilers, by their first piece.
GccOptions ==
  {"-c", "-E", "-o", "-x", "-I", "-D", "-F", "-O2", "-MMD", "-MD", "-MF",
   "-MT", "-isystem", "-include", "-index-store-path", "-target", "--target=x", "-ftime-trace"}
MsvcOptions ==
  {"/c", "-c", "/P", "/I", "/D", "/Fo", "/Fd", "/Fi", "/FS", "/AI", "/O2",
   "/Zi", "/Z7", "/showIncludes", "/external:I", "--target=x"}
GccTakesNext ==
  {<<"-MF">>, <<"-MT">>, <<"-isystem">>, <<"-target">>, <<"-index-store-path">>}

\* A second file that is no option's value: the parser gives the command up.
SecondInputKept(s) == s
SecondInput(s) == [s EXCEPT !.good = FALSE]

ScanGccArgument(s, arg, ignored) ==
  LET at == Len(s.args) + 1
      next == [s EXCEPT !.args = Append(@, arg), !.skip = FALSE]
      head == Head(arg)
  IN  IF ~s.good THEN [s EXCEPT !.args = Append(@, arg)]
      ELSE IF s.skip THEN next
      ELSE IF head \in GccOptions
      THEN [next EXCEPT
              !.type = IF head = "-c" THEN "Compile"
                       ELSE IF head = "-E" THEN "Preprocess" ELSE @,
              !.typeAt = IF head \in {"-c", "-E"} THEN at ELSE @,
              !.output = IF head = "-o" THEN at + 1 ELSE @,
              !.skip = head \in {"-o", "-x"} \/ arg \in GccTakesNext]
      ELSE IF arg \in ignored THEN next
      ELSE IF s.input = 0 THEN [next EXCEPT !.input = at]
      ELSE SecondInput(next)

\* A file option is normalised to the option with a colon and the file after
\* it; one that has its colon is taken to be without its file, which is looked
\* for in the next argument whether there was one behind the colon or not.  A
\* scan that fails leaves the arguments as they were.
FileOption(arg) == Head(arg) \in {"/Fo", "/Fd", "/Fi"}
WithColon(arg) == Len(arg) > 1 /\ arg[2] = ":"
ScanMsvcArgument(s, arg, ignored) ==
  LET at == Len(s.args) + 1
      kept == [s EXCEPT !.args = Append(@, arg), !.skip = FALSE]
      skipping == [kept EXCEPT !.skip = TRUE]
      head == Head(arg)
      colon == <<head, ":">>
      file == IF WithColon(arg) THEN skipping
              ELSE [s EXCEPT !.args = @ \o IF Tail(arg) = <<>> THEN <<colon>>
                                             ELSE <<colon, Tail(arg)>>,
                             !.skip = TRUE]
  IN  IF ~s.good THEN s
      ELSE IF head \in {"/c", "-c", "/P"}
      THEN [kept EXCEPT !.type = IF head = "/P" THEN "Preprocess" ELSE "Compile",
                        !.typeAt = at]
      ELSE IF arg \in {<<"/D">>, <<"/I">>, <<"/external:I">>} THEN skipping
      ELSE IF FileOption(arg)
      THEN [file EXCEPT !.output = IF head = "/Fd" THEN @ ELSE at + 1]
      ELSE IF head \in MsvcOptions
      THEN [kept EXCEPT !.possible = @ /\ ~(head = "/AI" /\ Len(arg) > 1)]
      ELSE IF arg \in ignored \/ s.skip THEN kept
      ELSE IF s.input = 0 THEN [kept EXCEPT !.input = at]
      ELSE [SecondInput(s) EXCEPT !.type = "Unknown"]

Update(style, inv) ==
  LET s == FoldLeft(LAMBDA r, arg : IF style = "gcc"
                                    THEN ScanGccArgument(r, arg, inv.ignored)
                                    ELSE ScanMsvcArgument(r, arg, inv.ignored),
                    Scan, inv.args)
  IN  IF s.good THEN s ELSE [s EXCEPT !.args = inv.args]

Scanned(inv, s) == [inv EXCEPT !.args = s.args, !.input = s.input,
                               !.output = s.output, !.type = s.type]

Retyped(style, s, change) ==
  CASE change = "Unknown" \/ (style = "gcc" /\ s.typeAt = 0) -> s
    [] style = "gcc"  -> [s EXCEPT !.type = change, !.args[s.typeAt] = <<"-E">>]
    [] style = "msvc" -> [s EXCEPT !.type = change, !.args[s.typeAt] = <<"/P">>,
                                   !.args[s.output - 1] = <<"/Fi", ":">>]

\* What the options ask to remove from the arguments, in this order.
WithoutLocal(style, args) ==
  IF style = "gcc"
  THEN Drop(args, LAMBDA a : FALSE, LAMBDA a : a = <<"-index-store-path">>)
  ELSE ReplaceAll(Drop(args, LAMBDA a : a \in {<<"/Gm">>, <<"/FS">>},
                             LAMBDA a : a = <<"/Fd", ":">>),
                  <<"/Zi">>, <<"/Z7">>)

WithoutDependency(style, args) ==
  IF style = "gcc"
  THEN Drop(args, LAMBDA a : a \in {<<"-MMD">>, <<"-MD">>},
                  LAMBDA a : a \in {<<"-MF">>, <<"-MT">>})
  ELSE args

WithoutPreprocessor(style, args) ==
  IF style = "gcc"
  THEN Drop(args, LAMBDA a : Head(a) \in {"-I", "-D", "-F"},
                  LAMBDA a : a \in {<<"-isystem">>, <<"-index-store-path">>})
  ELSE Drop(args, LAMBDA a : Head(a) \in {"/I", "/D", "/showIncludes", "/external:I"},
                  LAMBDA a : a \in {<<"/I">>, <<"/D">>, <<"/external:I">>})

When(asked, Without(_, _), style, args) == IF asked THEN Without(style, args) ELSE args
Removed(style, options, args) ==
  When(options.removePreprocessor, WithoutPreprocessor, style,
  When(options.removeDependency, WithoutDependency, style,
  When(options.removeLocal, WithoutLocal, style, args)))

\* The arguments are scanned again when some may have been removed.
Rescanned(style, inv, options, typed) ==
  IF options.removeLocal \/ options.removeDependency \/ options.removePreprocessor
  THEN Update(style, [inv EXCEPT !.args = Removed(style, options, typed.args)])
  ELSE typed

\* A failure clears what was found and keeps the arguments.
Cleared(inv) == [inv EXCEPT !.input = 0, !.output = 0, !.type = "Unknown"]
Outcome(inv, first, last) ==
  LET success == first.good /\ last.good /\ first.input # 0
                 /\ first.output \in 1 .. Len(first.args)
  IN  [success |-> success, possible |-> first.possible,
       inv |-> IF success THEN Scanned(inv, last) ELSE Cleared(Scanned(inv, last))]

ProcessInternal(style, inv, options, first) ==
  Outcome(inv, first, Rescanned(style, inv, options, Retyped(style, first, options.change)))

\* To update a file is a command of its own.
UpdateFile(inv, options) ==
  LET n == Len(inv.args)
  IN  [success |-> n > 0 /\ options.change = "Unknown", possible |-> TRUE,
       inv |-> [inv EXCEPT !.input = n, !.output = n]]

\* AbstractCommandLineParser::Process with the parser of the style.
Process(style, inv, options) ==
  IF style = "update" THEN UpdateFile(Cleared(inv), options)
  ELSE ProcessInternal(style, Cleared(inv), options, Update(style, Cleared(inv)))

(***************************************************************************)
(* InvocationTool.                                                         *)
(***************************************************************************)
CompleteInvocation(tool, inv) ==
  [Process(tool.style, inv, NoOptions).inv EXCEPT !.id = tool.id]

\* In a ninja rule the output is a variable, and the files are not renamed.
IsVariable(arg) == Head(arg) \in {"$in", "$out"}

NoSplit == [success |-> FALSE, pp |-> Flags(<<>>), cc |-> Flags(<<>>)]
Parts(whole, first, second) ==
  LET path == GetPreprocessedPath(GetInput(whole), GetOutput(whole))
  IN  IF whole.type # "Compile" \/ ~first.success \/ ~second.success THEN NoSplit
      ELSE IF IsVariable(GetOutput(whole))
      THEN [success |-> TRUE, pp |-> first.inv, cc |-> second.inv]
      ELSE [success |-> TRUE, pp |-> SetOutput(first.inv, path),
                              cc |-> SetInput(second.inv, path)]
PartsOf(tool, whole) == Parts(whole, Process(tool.style, whole, ForPreprocessing),
                                     Process(tool.style, whole, ForCompiling))
SplitInvocation(tool, inv) == PartsOf(tool, CompleteInvocation(tool, inv))

\* The flags of an edge are no whole command: the parser fails and only what
\* it left of the arguments is used.
FilterFlags(tool, args, options) == Process(tool.style, Flags(args), options).inv.args

\* What is sent, before the files are renamed.
RemoteArguments(tool, args) ==
  LET append == tool.config.appendRemote
      remove == tool.config.removeRemote
      longer == IF append = <<>> THEN args ELSE Append(args, append)
  IN  IF remove = <<>> THEN longer ELSE SelectSeq(longer, LAMBDA a : a # remove)

\* The positions were found before the argument was removed and are not looked
\* for again: they may be of other arguments, or past the end.
PositionsInside(tool, whole) ==
  {whole.input, whole.output} \subseteq 0 .. Len(RemoteArguments(tool, whole.args))

Stripped(inv) == SetInput(inv, GetFullname(GetInput(inv)))
ForRemote(tool, whole) ==
  LET ready == [whole EXCEPT !.args = RemoteArguments(tool, @), !.id.toolId = tool.remoteId]
  IN  IF PositionsInside(tool, whole)
      THEN SetOutput(Stripped(ready), GetFullname(GetOutput(Stripped(ready))))
      ELSE ready
PrepareRemote(tool, inv) == ForRemote(tool, CompleteInvocation(tool, inv))

(***************************************************************************)
(* The compilers.  A word is an option with its value, or a file with no   *)
(* option.  What an output is made of tells two compilations apart: the    *)
(* text and the options that matter to preprocessing it, those that matter *)
(* to the code, and the version of the compiler.                           *)
(***************************************************************************)
TakesNext ==
  GccTakesNext \cup
  {<<"-o">>, <<"-x">>, <<"-I">>, <<"-D">>, <<"-F">>, <<"-include">>, <<"/I">>,
   <<"/D">>, <<"/external:I">>, <<"/Fo">>, <<"/Fd">>, <<"/Fo", ":">>,
   <<"/Fd", ":">>, <<"/Fi", ":">>}

Words(args) ==
  FoldLeft(LAMBDA r, arg :
             IF r.option # <<>>
             THEN [option |-> <<>>,
                   words |-> Append(r.words, [head |-> Head(r.option), value |-> arg])]
             ELSE IF arg \in TakesNext THEN [r EXCEPT !.option = arg]
             ELSE [r EXCEPT !.words = Append(@,
                     IF Head(arg) \in GccOptions \cup MsvcOptions
                     THEN [head |-> Head(arg),
                           value |-> IF WithColon(arg) THEN Tail(Tail(arg)) ELSE Tail(arg)]
                     ELSE [head |-> "", value |-> arg])],
           [option |-> <<>>, words |-> <<>>], args).words

MatterToText == {"-I", "-D", "-F", "-isystem", "-include", "/I", "/D", "/external:I", "/AI"}
MatterToNothing ==
  {"", "-o", "/Fo", "/Fi", "/Fd", "-E", "/P", "/c", "-MMD", "-MD", "-MF", "-MT",
   "-index-store-path", "-ftime-trace", "/FS", "/Zi", "/Z7", "/showIncludes"}

OfHead(words, heads) == SelectSeq(words, LAMBDA w : w.head \in heads)
Values(words, heads) == {w.value : w \in ToSet(OfHead(words, heads))}
TheOption(w, heads) == w.head \in heads /\ w.value = <<>>

PreprocessedText(content, words) ==
  IF content.kind = "text" THEN content
  ELSE [kind |-> "text", of |-> content, with |-> OfHead(words, MatterToText)]

\* The files a compiler writes, none when it fails: it needs to be installed,
\* one input, one output, and the files it is told to include.
Run(version, args, files) ==
  LET words == Words(args)
      any(heads) == \E w \in ToSet(words) : TheOption(w, heads)
      inputs == Values(words, {""})
      outputs == Values(words, {"-o", "/Fo", "/Fi"})
      dependencies == IF any({"-MMD", "-MD"}) THEN Values(words, {"-MF"}) ELSE {}
      ready == /\ version # <<>>
               /\ Len(OfHead(words, {""})) = 1
               /\ Cardinality(outputs) = 1
               /\ inputs \cup Values(words, {"-include"}) \subseteq DOMAIN files
      text == PreprocessedText(files[CHOOSE f \in inputs : TRUE], words)
      code == SelectSeq(words, LAMBDA w : /\ w.head \notin MatterToText \cup MatterToNothing
                                          /\ ~TheOption(w, {"-c"}))
      made == IF any({"-E", "/P"}) THEN text
              ELSE [kind |-> IF any({"-c", "/c"}) THEN "object" ELSE "program",
                    of |-> text, with |-> code, by |-> version]
  IN  IF ~ready THEN <<>>
      ELSE [f \in outputs \cup dependencies |->
              IF f \in outputs THEN made ELSE [kind |-> "dependencies", of |-> text]]

Failed(written) == DOMAIN written = {}
Written(files, written) ==
  [f \in DOMAIN files \cup DOMAIN written |->
     IF f \in DOMAIN written THEN written[f] ELSE files[f]]

(***************************************************************************)
(* The build.                                                              *)
(***************************************************************************)
Expanded(args, env) ==
  FlattenSeq([i \in DOMAIN args |-> IF Head(args[i]) \in DOMAIN env
                                    THEN env[Head(args[i])] ELSE <<args[i]>>])

\* The command as it would run without the program.
Original == Expanded(command.args, command.env)
OriginalVersion ==
  Installed(client, IF command.route = "proxy" THEN TheTool.id.executable
                    ELSE command.executable)

NoText == [kind |-> "nothing"]
NotSent == [tool |-> <<>>, args |-> <<>>, data |-> NoText, output |-> NoPath]

Init ==
  /\ \E c \in Commands : /\ command = c
                         /\ client = ConfiguredHosts[c.client]
                         /\ server = ConfiguredHosts[c.server]
  /\ phase = "given"
  /\ local = [f \in Sources |-> [kind |-> "source", name |-> f]]
  /\ pp = Flags(<<>>) /\ cc = Flags(<<>>)
  /\ sent = NotSent
  /\ answer = NoText

EndsWith(written) ==
  /\ local' = Written(local, written)
  /\ phase' = IF Failed(written) THEN "failed" ELSE "done"

\* The proxy, or its client, ends when it is not configured: nobody answers.
ProxyEnds ==
  /\ phase = "given" /\ command.route = "proxy" /\ ~client.proxied
  /\ phase' = "failed"
  /\ UNCHANGED <<given, local, pp, cc, sent, answer>>

\* LocalExecutor::SplitTask for the proxy.
SplitTask ==
  /\ phase = "given" /\ command.route = "proxy" /\ client.proxied
  /\ LET s == IF TheTool = NoTool THEN NoSplit
              ELSE SplitInvocation(TheTool, Invocation(GivenId, command.args, {}))
     IN  /\ phase' = IF s.success THEN "split" ELSE "whole"
         /\ pp' = s.pp /\ cc' = s.cc
  /\ UNCHANGED <<given, local, sent, answer>>

\* RemoteExecutor::PreprocessCode: a rule is split by the tool of its
\* executable, with the variables an edge binds set aside, unless this host can
\* invoke nothing.  What is made for its edges is made by the tool that has the
\* remote id here.
PreprocessCode ==
  IF ~client.invokes \/ TheTool = NoTool THEN NoSplit
  ELSE SplitInvocation(TheTool, Invocation(GivenId, command.args,
                                           {<<"$DEFINES">>, <<"$INCLUDES">>, <<"$FLAGS">>}))
RuleTool == ToolById(client, TheTool.remoteId)

CheckRemotePossibleForFlags(args) ==
  RuleTool # NoTool /\ Process(RuleTool.style, Flags(args), NoOptions).possible
FilterPreprocessorFlags(args) ==
  IF RuleTool = NoTool THEN args ELSE FilterFlags(RuleTool, args, FilteringPreprocessing)
FilterCompilerFlags(args) ==
  IF RuleTool = NoTool THEN args ELSE FilterFlags(RuleTool, args, ForCompiling)

\* RewriteStateRules: the rule is split, and each edge gets an edge for each
\* part, whose variables are those of the edge without what the other part
\* needs.
RewriteStateRules ==
  /\ phase = "given" /\ command.route = "ninja"
  /\ LET env == command.env
         s == PreprocessCode
         remote == \A v \in {"$FLAGS", "$INCLUDES"} :
                     CheckRemotePossibleForFlags(env[v])
         ppPath == GetPreprocessedPath(env["$in"][1], env["$out"][1])
         ppEnv == [env EXCEPT !["$FLAGS"] = FilterPreprocessorFlags(@),
                              !["$out"] = <<ppPath>>]
         ccEnv == [env EXCEPT !["$DEFINES"] = <<>>, !["$DEP_FILE"] = <<>>,
                              !["$FLAGS"] = FilterCompilerFlags(@),
                              !["$INCLUDES"] = FilterCompilerFlags(@),
                              !["$in"] = <<ppPath>>]
     IN  /\ phase' = IF s.success /\ remote THEN "split" ELSE "whole"
         /\ pp' = Invocation(GivenId, Expanded(s.pp.args, ppEnv), {})
         /\ cc' = Invocation(GivenId, Expanded(s.cc.args, ccEnv), {})
  /\ UNCHANGED <<given, local, sent, answer>>

\* LocalExecutor::Quant completes a command that has a tool before it runs it,
\* and runs the executable of the tool; ninja runs the command as it is.
ToRun(inv) ==
  IF command.route = "proxy" /\ GetTool(client, inv.id) # NoTool
  THEN CompleteInvocation(GetTool(client, inv.id), inv) ELSE inv
RunHere(inv) ==
  Run(Installed(client, ToRun(inv).id.executable), ToRun(inv).args, local)

\* The command is run as it is.
RunWhole ==
  /\ phase = "whole"
  /\ EndsWith(RunHere(Invocation(GivenId, Original, {})))
  /\ UNCHANGED <<given, pp, cc, sent, answer>>

Preprocess ==
  /\ phase = "split"
  /\ LET written == RunHere(pp)
     IN  /\ local' = Written(local, written)
         /\ phase' = IF Failed(written) THEN "failed" ELSE "preprocessed"
  /\ UNCHANGED <<given, pp, cc, sent, answer>>

CompileHere ==
  /\ phase = "preprocessed"
  /\ EndsWith(RunHere(cc))
  /\ UNCHANGED <<given, pp, cc, sent, answer>>

\* The server is known and used when it is one, offers a tool that is required,
\* and no version of such a tool differs.  Ninja requires the tools of its rules; the
\* proxy determines the version of its tool but requires none.
Required == IF command.route = "proxy" THEN {} ELSE {TheTool.remoteId}
OurVersions ==
  DetermineToolVersions(client,
    IF command.route = "proxy" THEN {client.proxyTool} ELSE Required)
TheirVersions == DetermineToolVersions(server, {})
Offered == GetToolIds(server)
ServerIsUsed ==
  /\ server.serves
  /\ Offered # {}
  /\ Required = {} \/ Required \cap Offered # {}
  /\ CheckRemoteToolVersions(Required, OurVersions, TheirVersions)

\* RemoteExecutor::StartCommand completes the command; the proxy's is complete.
ToInvoke == IF command.route = "proxy" THEN cc ELSE CompleteInvocation(TheTool, cc)

\* Where the answer is to be written: the name before the remote preparation.
OriginalFilenameStripped(inv) == GetFullname(GetOutput(inv))
OriginalFilename(inv) == GetOutput(inv)

ReadCompressed(path) == IF path = NoPath THEN NoText ELSE local[path]

\* A position past the end is undefined: the client may crash or go on.
InvokeTool ==
  /\ phase = "preprocessed" /\ ServerIsUsed
  /\ LET inv == ToInvoke
         tool == GetTool(client, inv.id)
         input == GetInput(inv)
         ready == PrepareRemote(tool, inv)
     IN  \E crash \in IF PositionsInside(tool, CompleteInvocation(tool, inv)) THEN {FALSE} ELSE BOOLEAN :
         LET unread == crash \/ (input # NoPath /\ input \notin DOMAIN local)
         IN  /\ phase' = IF unread THEN "failed" ELSE "sent"
             /\ sent' = IF unread THEN sent
                        ELSE [tool |-> ready.id.toolId, args |-> ready.args,
                              data |-> ReadCompressed(input),
                              output |-> OriginalFilename(inv)]
  /\ UNCHANGED <<given, local, pp, cc, answer>>

\* No server offers the tool: the task waits until its time is over.
Expire ==
  /\ phase = "sent" /\ sent.tool \notin Offered
  /\ phase' = "answered"
  /\ UNCHANGED <<given, local, pp, cc, sent, answer>>

\* LocalExecutor::Quant on the server: files of its own stand for those named.
Execute ==
  /\ phase = "sent" /\ sent.tool \in Offered
  /\ LET tool == GetTool(server, [toolId |-> sent.tool, executable |-> <<>>])
         inv == CompleteInvocation(tool, Flags(sent.args))
         temporary(path) == <<"tmp/", "0_" \o GetNameWE(path), GetFullExtension(path)>>
         input == temporary(GetInput(inv))
         output == temporary(GetOutput(inv))
         args == SetOutput(SetInput(inv, input), output).args
         written == Run(Installed(server, tool.id.executable), args,
                        [f \in {input} |-> sent.data])
     IN  answer' = IF inv.input = 0 \/ inv.output = 0 \/ output \notin DOMAIN written
                   THEN NoText ELSE written[output]
  /\ phase' = "answered"
  /\ UNCHANGED <<given, local, pp, cc, sent>>

\* The answer is written under the name the command gave, and the preprocessed
\* text removed: by the proxy always, by ninja when the edge succeeds.
WriteAnswer ==
  /\ phase = "answered"
  /\ LET good == answer # NoText
         name == IF good THEN {sent.output} ELSE {}
         removed == IF good \/ command.route = "proxy" THEN {GetInput(ToInvoke)} ELSE {}
         all == Written(local, [f \in name |-> answer])
     IN  /\ local' = [f \in DOMAIN all \ removed |-> all[f]]
         /\ phase' = IF good THEN "done" ELSE "failed"
  /\ UNCHANGED <<given, pp, cc, sent, answer>>

Next ==
  \/ ProxyEnds
  \/ SplitTask
  \/ RewriteStateRules
  \/ RunWhole
  \/ Preprocess
  \/ CompileHere
  \/ InvokeTool
  \/ Expire
  \/ Execute
  \/ WriteAnswer

Spec == Init /\ [][Next]_vars

(***************************************************************************)
(* Properties.                                                             *)
(***************************************************************************)
\* What the command writes when it runs alone, with what the configuration
\* adds for the remote host if it ran there.
Expected ==
  LET append == TheTool.config.appendRemote
  IN  Run(OriginalVersion,
          IF sent = NotSent \/ append = <<>> THEN Original ELSE Append(Original, append),
          [f \in Sources |-> [kind |-> "source", name |-> f]])

\* Another tool of a host has the id of a tool for its alias.
AliasHides ==
  \E h \in {client, server} : \E i, j \in DOMAIN h.tools :
    i # j /\ h.tools[i].config.remoteAlias = h.tools[j].id.toolId

\* Both hosts look at what is installed: no version is configured, no check is
\* disabled, the tool goes by one name, and somebody asks.
VersionsLookedAt ==
  /\ command.route = "ninja"
  /\ TheTool.style # "update" /\ TheTool.remoteId = TheTool.id.toolId
  /\ TheTool.config.version = <<>>
  /\ ToolById(server, TheTool.remoteId).config.version = <<>>

AsExpected(content, expected) ==
  \/ content = expected
  \/ /\ ~VersionsLookedAt
     /\ {"by"} \subseteq DOMAIN content \cap DOMAIN expected
     /\ [content EXCEPT !.by = expected.by] = expected

\* A command that ends well, whatever way it took, has written every file it
\* would have written alone, with the same content: the option lists of the
\* parser, of the splitting, of the filters and of the remote preparation
\* agree on what belongs to which part, each renaming hits its argument, and
\* both hosts mean the same tool, in one version where they look at versions
\* (GccCommandLineParser.cpp:25-89, InvocationTool.cpp:52-153,
\* StateRewrite.cpp:136-187, LocalExecutor.cpp:140-163,
\* InvocationToolProvider.cpp:30-44, RemoteToolClient.cpp:385-414).
WritesWhatItShould ==
  phase = "done" /\ ~AliasHides =>
    \A f \in DOMAIN Expected : f \in DOMAIN local /\ AsExpected(local[f], Expected[f])

\* The server has the tool the client means.
ServerHasTheTool ==
  LET tool == ToolById(server, TheTool.remoteId)
  IN  TheTool.remoteId \in Offered /\ Installed(server, tool.id.executable) # <<>>

\* A command the proxy accepted to split fails only where it would fail alone:
\* what the parser does not understand is refused before anything runs, and
\* the other host needs no file but the preprocessed text
\* (InvocationTool.cpp:52-96, GccCommandLineParser.cpp:100-147).  A server that
\* is used without the tool fails any command sent to it.
SplitFailsOnlyAsWhole ==
  phase = "failed" /\ command.route = "proxy" /\ client.proxied
    /\ (sent = NotSent \/ ServerHasTheTool) => Failed(Expected)

\* What is sent names the preprocessed text and the output, without their
\* directories (InvocationTool.cpp:146-151).  With an argument to remove the
\* positions are those of before the removal.
SentNamesItsFiles ==
  phase = "sent" =>
    LET inv == CompleteInvocation(TheTool, Flags(sent.args))
    IN  /\ GetInput(inv) = GetFullname(GetInput(ToInvoke))
        /\ GetOutput(inv) = GetFullname(sent.output)
==========================================================================
