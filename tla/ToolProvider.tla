--------------------------- MODULE ToolProvider ---------------------------
(***************************************************************************)
(* The tools of a host (InvocationToolProvider, InvocationTool) and what   *)
(* two hosts compare of theirs (VersionChecker and CheckRemoteToolVersions *)
(* of RemoteToolClient): a tool is found by its id, which may be another's *)
(* alias, or by the file of its compiler.                                  *)
(***************************************************************************)
EXTENDS Configuration

(***************************************************************************)
(* InvocationToolProvider.                                                 *)
(***************************************************************************)
\* What the name of the executable tells, or, when it tells nothing, the id.
GuessType(executable, id) ==
  LET has(S) == \E t \in S : Contains(executable, t)
  IN  CASE has({"cl.exe"}) -> "msvc"
        [] ~has({"cl.exe"}) /\ has({"clang"}) -> "clang"
        [] ~has({"cl.exe", "clang"}) /\ has({"gcc", "g++", "mingw"}) -> "gcc"
        [] OTHER -> IF Contains(id, "ms") THEN "msvc" ELSE "auto"

WithType(tool) ==
  IF tool.type = "auto" THEN [tool EXCEPT !.type = GuessType(tool.names[1], tool.id)]
  ELSE tool

\* The tools whose type is known, as InvocationTool keeps them.
Parser == [gcc |-> "gcc", clang |-> "gcc", msvc |-> "msvc", update_file |-> "update"]
InvocationTool(tool) ==
  [config |-> tool,
   style |-> Parser[tool.type],
   id |-> [toolId |-> tool.id, executable |-> tool.names[1]],
   remoteId |-> IF tool.remoteAlias = <<>> THEN tool.id ELSE tool.remoteAlias]

Create(config) ==
  LET typed == [i \in DOMAIN config |-> WithType(config[i])]
      known == SelectSeq(typed, LAMBDA t : t.type # "auto")
  IN  [i \in DOMAIN known |-> InvocationTool(known[i])]

NoTool == InvocationTool([id |-> <<>>, appendRemote |-> <<>>, removeRemote |-> <<>>,
                          remoteAlias |-> <<>>, version |-> <<>>, type |-> "gcc",
                          names |-> <<<<>>>>])
\* A host keeps its tools in order; an index by ids has the tool added last
\* under an id or an alias.
Chosen(host, index) == IF index = 0 THEN NoTool ELSE host.tools[index]
ToolById(host, id) ==
  Chosen(host, SelectLastInSeq(host.tools, LAMBDA t :
                 t.id.toolId = id \/ (t.config.remoteAlias = id /\ id # <<>>)))

\* FileInfo::LocatePath.
LocatePath(host, executable) ==
  IF executable \in DOMAIN host.path THEN host.path[executable] ELSE executable

ToolByExecutable(host, executable) ==
  Chosen(host, SelectLastInSeq(host.tools, LAMBDA t :
                 Contains(t.config.names, LocatePath(host, executable))))

GetTool(host, id) ==
  IF id.toolId = <<>> THEN ToolByExecutable(host, id.executable)
  ELSE ToolById(host, id.toolId)

GetToolIds(host) == {t.id.toolId : t \in ToSet(host.tools)}

(***************************************************************************)
(* Versions.                                                               *)
(***************************************************************************)
\* A compiler that is not there, or not asked, says nothing.
Installed(host, executable) ==
  LET file == LocatePath(host, executable)
  IN  IF file \in DOMAIN host.installed THEN host.installed[file] ELSE <<>>
GetToolVersion(host, tool) ==
  IF tool.style = "update" THEN <<>> ELSE Installed(host, tool.id.executable)

\* Of the tools asked for, or of all, the version configured or found.
DetermineToolVersions(host, ids) ==
  LET last(id) == host.tools[SelectLastInSeq(host.tools, LAMBDA t : t.id.toolId = id)]
  IN  [id \in {i \in GetToolIds(host) : ids = {} \/ i \in ids} |->
         IF last(id).config.version # <<>> THEN last(id).config.version
         ELSE GetToolVersion(host, last(id))]

\* A tool that is not required, or not here under that id, is not compared.
CheckRemoteToolVersions(required, ours, theirs) ==
  \A id \in required \cap DOMAIN ours \cap DOMAIN theirs :
    ours[id] = theirs[id] \/ NO_CHECK \in {ours[id], theirs[id]}
===========================================================================
