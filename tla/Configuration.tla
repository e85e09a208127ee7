-------------------------- MODULE Configuration --------------------------
(***************************************************************************)
(* What a host is configured with (ConfiguredApplication, AbstractConfig): *)
(* settings come from the command line and from one file, and the tools    *)
(* are read from the settings.                                             *)
(*                                                                         *)
(* A text is the sequence of its tokens: the separators "-", "=", ",",     *)
(* ";", "[", "]" and ":=" are tokens of their own, "$CC" is a use of a     *)
(* variable.  A variable used is one that the file or the environment      *)
(* defines, and white space is trimmed.  A host is a record:               *)
(*   args         the arguments it is started with, without "--wuild-"     *)
(*   environment  its environment, from "$NAME" to a text                  *)
(*   files        its configuration files, from names to lines             *)
(*   places       where it looks for a file when it is told none           *)
(*   path         the executables its PATH finds, from names to files      *)
(*   installed    the compilers it has, from files to versions             *)
(***************************************************************************)
EXTENDS Integers, Sequences, SequencesExt, TLC

(***************************************************************************)
(* AbstractConfig: settings are a function from a group and a key to a     *)
(* text.                                                                   *)
(***************************************************************************)
Before(text, token) ==
  LET at == SelectInSeq(text, LAMBDA t : t = token)
  IN  IF at = 0 THEN text ELSE SubSeq(text, 1, at - 1)
After(text, token) ==
  LET at == SelectInSeq(text, LAMBDA t : t = token)
  IN  IF at = 0 THEN <<>> ELSE SubSeq(text, at + 1, Len(text))

SetArg(data, group, arg) ==
  IF Contains(arg, "=")
  THEN (<<group, Before(arg, "=")>> :> After(arg, "=")) @@ data
  ELSE data

\* The first dash ends the group, be it in the key or in the value.
ReadCommandLine(data, args) ==
  FoldLeft(LAMBDA d, arg : IF Contains(arg, "-")
                           THEN SetArg(d, Before(arg, "-"), After(arg, "-"))
                           ELSE SetArg(d, <<>>, arg),
           data, args)

Substituted(text, variables) ==
  FlattenSeq([i \in DOMAIN text |-> IF text[i] \in DOMAIN variables
                                    THEN variables[text[i]] ELSE <<text[i]>>])

\* A comment is cut, a group begins, a variable or a setting is set.  The
\* variables of the file hide those of the environment.
ReadLine(s, line) ==
  LET text == Before(line, ";")
      full == Substituted(text, s.variables)
  IN  IF text = <<>> THEN s
      ELSE IF Head(text) = "["
      THEN [s EXCEPT !.group = SubSeq(text, 2, Len(text) - 1)]
      ELSE IF Contains(full, ":=")
      THEN [s EXCEPT !.variables =
              (("$" \o Head(Before(full, ":="))) :> After(full, ":=")) @@ @]
      ELSE [s EXCEPT !.data = SetArg(@, s.group, full)]

ReadIniFile(data, lines, environment) ==
  FoldLeft(ReadLine, [data |-> data, group |-> <<>>, variables |-> environment], lines).data

\* A setting of a group, or else the one of no group.
GetString(data, group, key) ==
  LET found == {<<group, key>>, <<<<>>, key>>} \cap DOMAIN data
  IN  IF found = {} THEN <<>>
      ELSE IF <<group, key>> \in found THEN data[group, key] ELSE data[<<>>, key]

GetStringList(data, group, key) ==
  SelectSeq(FoldLeft(LAMBDA list, t : IF t = "," THEN Append(list, <<>>)
                                      ELSE [list EXCEPT ![Len(list)] = Append(@, t)],
                     <<<<>>>>, GetString(data, group, key)),
            LAMBDA item : item # <<>>)

\* atoi, of the numbers that are written: what is none is zero.
Numbers == {0, 1, 2, 7767, 65536}
Atoi(text) ==
  LET value(t) == IF t = <<>> THEN {} ELSE {n \in Numbers : ToString(n) = Head(t)}
      found == IF text # <<>> /\ Head(text) = "-" THEN {-n : n \in value(Tail(text))}
               ELSE value(text)
  IN  IF found = {} THEN 0 ELSE CHOOSE n \in found : TRUE

GetInt(data, group, key, default) ==
  IF {<<group, key>>, <<<<>>, key>>} \cap DOMAIN data = {} THEN default
  ELSE Atoi(GetString(data, group, key))

GetBool(data, group, key, default) ==
  \/ GetString(data, group, key) \in {<<"true">>, <<"TRUE">>, <<"ON">>, <<"on">>}
  \/ GetInt(data, group, key, default) > 0

(***************************************************************************)
(* ConfiguredApplication.                                                  *)
(***************************************************************************)
\* The file the arguments name, or the environment, or the first there is.
ConfigPath(host, data) ==
  LET argument == GetString(data, <<>>, <<"config">>)
      first == SelectInSeq(host.places, LAMBDA p : p \in DOMAIN host.files)
  IN  IF argument # <<>> THEN argument
      ELSE IF "$WUILD_CONFIG" \in DOMAIN host.environment
      THEN host.environment["$WUILD_CONFIG"]
      ELSE IF first # 0 THEN host.places[first] ELSE <<>>

\* The arguments are read before the file, to find it, and again after it, for
\* they override it.  A file that is named and missing is only logged.
Settings(host) ==
  LET given == ReadCommandLine(<<>>, host.args)
      path == ConfigPath(host, given)
  IN  ReadCommandLine(IF path \in DOMAIN host.files
                      THEN ReadIniFile(given, host.files[path], host.environment)
                      ELSE given,
                      host.args)

NO_CHECK == <<"NO_CHECK">>

ReadTool(data, id) ==
  LET get(key) == GetString(data, <<"tools">>, Append(id, key))
      type == get("_type")
  IN  [id |-> id,
       appendRemote |-> get("_appendRemote"),
       removeRemote |-> get("_removeRemote"),
       remoteAlias |-> get("_remoteAlias"),
       version |-> IF GetBool(data, <<"tools">>, <<"disableVersionChecks">>, 0)
                   THEN NO_CHECK ELSE get("_version"),
       type |-> IF type \in {<<"msvc">>, <<"gcc">>, <<"clang">>, <<"update_file">>}
                THEN Head(type) ELSE "auto",
       names |-> GetStringList(data, <<"tools">>, id)]

ReadInvocationToolProviderConfig(data) ==
  LET ids == GetStringList(data, <<"tools">>, <<"toolIds">>)
  IN  [i \in DOMAIN ids |-> ReadTool(data, ids[i])]

\* InvocationToolConfig::Validate: an application with no valid tools ends, or
\* runs everything itself.
Validate(tools) == tools # <<>> /\ \A i \in DOMAIN tools : tools[i].names # <<>>

(***************************************************************************)
(* The parts a host may play.  An application whose part is not configured *)
(* ends before it starts anything; ninja runs everything itself.           *)
(***************************************************************************)
\* A time in milliseconds; zero leaves the default.
GetTime(data, group, key, default) ==
  LET ms == GetInt(data, group, key, 0) IN IF ms # 0 THEN ms ELSE default

CoordinatorClientConfig(data, group) ==
  [enabled |-> GetBool(data, group, <<"coordinatorEnabled">>, 1),
   hosts |-> GetStringList(data, group, <<"coordinatorHost">>),
   port |-> GetInt(data, group, <<"coordinatorPort">>, 0)]
ValidateCoordinatorClient(config) ==
  config.enabled => config.hosts # <<>> /\ config.port > 0

RemoteToolClientConfig(data) ==
  LET group == <<"toolClient">>
  IN  [queueTimeout |-> GetTime(data, group, <<"queueTimeoutMS">>, 10000),
       invocationAttempts |-> GetInt(data, group, <<"invocationAttempts">>, 2),
       coordinator |-> CoordinatorClientConfig(data, group)]
ValidateRemoteToolClient(config) ==
  /\ config.queueTimeout > 0
  /\ config.invocationAttempts > 0
  /\ ValidateCoordinatorClient(config.coordinator)

RemoteToolServerConfig(data) ==
  LET group == <<"toolServer">>
  IN  [listenHost |-> GetString(data, group, <<"listenHost">>),
       listenPort |-> GetInt(data, group, <<"listenPort">>, 0),
       threadCount |-> GetInt(data, group, <<"threadCount">>, 1),
       coordinator |-> CoordinatorClientConfig(data, group)]
ValidateRemoteToolServer(config) ==
  /\ config.listenHost # <<>>
  /\ config.listenPort > 0
  /\ config.threadCount > 0
  /\ ValidateCoordinatorClient(config.coordinator)

ToolProxyServerConfig(data) ==
  [listenPort |-> GetInt(data, <<"proxy">>, <<"listenPort">>, 0),
   toolId |-> GetString(data, <<"proxy">>, <<"toolId">>)]
ValidateToolProxyServer(config) ==
  config.listenPort \in 1 .. 65535 /\ config.toolId # <<>>
==========================================================================
