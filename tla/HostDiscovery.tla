---------------------------- MODULE HostDiscovery ----------------------------
(***************************************************************************)
(* HostCatalog of src/application/hosts.rs, which the "host" commands, the *)
(* import and the TUI's list of hosts use: the walk through ~/.ssh/config  *)
(* and the files it includes (discover_hosts, one step per line), and the  *)
(* bounded runs of ssh (run_bounded) that answer "host show", "host test"  *)
(* and the import preview.                                                 *)
(*                                                                         *)
(* A file is the sequence of its Host and Include lines.  An Include is    *)
(* the paths it expands to; glob patterns expand to files that exist.      *)
(***************************************************************************)
EXTENDS Naturals, Sequences, FiniteSets

CONSTANTS
    Files,       \* the files there are, by canonical path
    Aliases,     \* what Host lines name
    Root,        \* ~/.ssh/config
    Target,      \* from paths, symbolic links among them, to files or Missing
    Missing,
    Unreadable,  \* content of a file that cannot be read
    Configs,     \* the contents to be walked, functions from Files
    MaxFiles,    \* MAX_CONFIG_FILES
    MaxDepth     \* MAX_INCLUDE_DEPTH

Paths == DOMAIN Target

ASSUME HostAssumption ==
    /\ IsFiniteSet(Files) /\ Missing \notin Files
    /\ Root \in Files /\ Files \subseteq Paths
    /\ \A f \in Files : Target[f] = f
    /\ \A p \in Paths : Target[p] \in Files \cup {Missing}
    /\ MaxFiles \in Nat \ {0} /\ MaxDepth \in Nat

VARIABLES
    content,  \* what the files hold
    aliases,  \* HostCatalog.aliases
    result,   \* of the last operation
    stack,    \* the files that visit is in, innermost last
    visited,  \* ConfigWalker.visited
    found,    \* ConfigWalker.aliases
    warnings, \* ConfigWalker.warnings: the paths
    query,    \* where run_bounded is
    child,    \* ssh: none, running, or how it ended
    helper,   \* a process it started that holds its stdout or stderr
    timedOut  \* ProcessOutput.timed_out

walkVars == <<stack, visited, found, warnings>>
queryVars == <<query, child, helper, timedOut>>
vars == <<content, aliases, result, walkVars, queryVars>>

Idle == stack = <<>> /\ query = "none"

-----------------------------------------------------------------------------
\* The walk

Host(alias) == [keyword |-> "host", value |-> alias]

Include(paths) == [keyword |-> "include", value |-> paths]

Lines == [keyword : {"host"}, value : Aliases] \cup [keyword : {"include"}, value : Seq(Paths)]

ASSUME ConfigsAssumption == \A c \in Configs : c \in [Files -> {Unreadable} \cup Seq(Lines)]

Top == stack[Len(stack)]

Below == SubSeq(stack, 1, Len(stack) - 1)

\* TraversalLimit unwinds every visit; the catalog keeps its aliases.
Abort(limit) ==
    /\ stack' = <<>>
    /\ result' = limit
    /\ visited' = {} /\ found' = {} /\ warnings' = {}

Warn(frames, path) ==
    /\ stack' = frames
    /\ warnings' = warnings \cup {path}
    /\ UNCHANGED <<visited, found, result>>

Pass(frames) == stack' = frames /\ UNCHANGED <<visited, found, warnings, result>>

\* The file is read as a whole.
Enter(frames, file, depth) ==
    /\ visited' = visited \cup {file}
    /\ IF content[file] = Unreadable
       THEN /\ stack' = frames
            /\ warnings' = warnings \cup {file}
            /\ UNCHANGED <<found, result>>
       ELSE /\ stack' = Append(frames, [lines |-> content[file], depth |-> depth])
            /\ UNCHANGED <<found, warnings, result>>

VisitQuietly(frames, path, depth) ==  \* faulty: what lies too deep is left out
    LET file == Target[path]
    IN  IF depth > MaxDepth \/ file \in visited THEN Pass(frames)
        ELSE IF file = Missing THEN Warn(frames, path)
        ELSE IF Cardinality(visited) >= MaxFiles THEN Abort("file-count")
        ELSE Enter(frames, file, depth)

VisitCountingFirst(frames, path, depth) ==  \* faulty: a file counts each time
    LET file == Target[path]
    IN  IF depth > MaxDepth THEN Abort("include-depth")
        ELSE IF file = Missing THEN Warn(frames, path)
        ELSE IF Cardinality(visited) >= MaxFiles THEN Abort("file-count")
        ELSE IF file \in visited THEN Pass(frames)
        ELSE Enter(frames, file, depth)

\* visit, up to the loop over the lines, by canonical path; frames are the
\* visits it returns to.
Visit(frames, path, depth) ==
    LET file == Target[path]
    IN  IF depth > MaxDepth THEN Abort("include-depth")
        ELSE IF file = Missing THEN Warn(frames, path)
        ELSE IF file \in visited THEN Pass(frames)
        ELSE IF Cardinality(visited) >= MaxFiles THEN Abort("file-count")
        ELSE Enter(frames, file, depth)

\* refresh and discover_hosts
Refresh ==
    /\ Idle
    /\ result' = "none"
    /\ stack' = <<[lines |-> <<Include(<<Root>>)>>, depth |-> 0]>>
    /\ visited' = {} /\ found' = {} /\ warnings' = {}
    /\ UNCHANGED <<content, aliases, queryVars>>

Line == Head(Top.lines)

\* The visits below, with the rest of the innermost file's lines.
Rest(lines) == Append(Below, [Top EXCEPT !.lines = lines])

\* A Host line: patterns and negated names are not in the content.
ReadHost ==
    /\ stack # <<>> /\ Top.lines # <<>>
    /\ Line.keyword = "host"
    /\ found' = found \cup {Line.value}
    /\ stack' = Rest(Tail(Top.lines))
    /\ UNCHANGED <<content, aliases, result, visited, warnings, queryVars>>

\* An Include line, one path after the other.  The outermost frame stands for
\* the call of visit with the configuration's path, at depth 0.
ReadInclude ==
    /\ stack # <<>> /\ Top.lines # <<>>
    /\ Line.keyword = "include"
    /\ IF Line.value = <<>>
       THEN /\ stack' = Rest(Tail(Top.lines))
            /\ UNCHANGED <<visited, found, warnings, result>>
       ELSE Visit(Rest(<<Include(Tail(Line.value))>> \o Tail(Top.lines)),
                  Head(Line.value),
                  IF Len(stack) = 1 THEN 0 ELSE Top.depth + 1)
    /\ UNCHANGED <<content, aliases, queryVars>>

FinishFile ==
    /\ Len(stack) > 1 /\ Top.lines = <<>>
    /\ stack' = Below
    /\ UNCHANGED <<content, aliases, result, visited, found, warnings, queryVars>>

\* The catalog takes the aliases over only when the walk has succeeded.
FinishWalk ==
    /\ Len(stack) = 1 /\ Top.lines = <<>>
    /\ stack' = <<>>
    /\ aliases' = found
    /\ result' = "ok"
    /\ UNCHANGED <<content, visited, found, warnings, queryVars>>

-----------------------------------------------------------------------------
\* run_bounded

\* effective, import_preview and test_connection; ssh may not be there.
StartQuery ==
    /\ Idle
    /\ timedOut' = FALSE
    /\ helper' = "none"
    /\ \/ query' = "wait" /\ child' = "running" /\ result' = "none"
       \/ UNCHANGED <<query, child>> /\ result' = "spawn"
    /\ UNCHANGED <<content, aliases, walkVars>>

\* ProxyCommand, Match exec or a connection's master; it holds the pipes, in
\* the process group of ssh or in one of its own.
StartHelper ==
    /\ child = "running" /\ helper = "none"
    /\ helper' \in {"group", "own"}
    /\ UNCHANGED <<content, aliases, result, walkVars, query, child, timedOut>>

HelperEnds ==
    /\ helper # "none"
    /\ helper' = "none"
    /\ UNCHANGED <<content, aliases, result, walkVars, query, child, timedOut>>

ChildEnds ==
    /\ child = "running"
    /\ child' \in {"success", "failure"}
    /\ UNCHANGED <<content, aliases, result, walkVars, query, helper, timedOut>>

SeeEnd ==
    /\ query = "wait"
    /\ child # "running"
    /\ query' = "join"
    /\ UNCHANGED <<content, aliases, result, walkVars, child, helper, timedOut>>

ExpireAlone ==  \* faulty: ssh is killed, its group is not
    /\ query = "wait"
    /\ timedOut' = TRUE
    /\ child' = IF child = "running" THEN "killed" ELSE child
    /\ query' = "join"
    /\ UNCHANGED <<content, aliases, result, walkVars, helper>>

\* The deadline: SIGKILL to the group, then wait.
Expire ==
    /\ query = "wait"
    /\ timedOut' = TRUE
    /\ child' = IF child = "running" THEN "killed" ELSE child
    /\ helper' = IF helper = "group" THEN "none" ELSE helper
    /\ query' = "join"
    /\ UNCHANGED <<content, aliases, result, walkVars>>

\* What the callers make of it: effective and import_preview may find that ssh
\* printed no configuration.
Outcomes ==
    IF timedOut THEN {"timeout"}
    ELSE IF child = "success" THEN {"ok", "invalid"}
    ELSE {"failed"}

\* The reading threads end when nobody holds the pipes any more.
FinishQuery ==
    /\ query = "join"
    /\ helper = "none"
    /\ query' = "none"
    /\ child' = "none"
    /\ result' \in Outcomes
    /\ UNCHANGED <<content, aliases, walkVars, helper, timedOut>>

-----------------------------------------------------------------------------

Init ==
    /\ content \in Configs
    /\ aliases = {} /\ result = "none"
    /\ stack = <<>> /\ visited = {} /\ found = {} /\ warnings = {}
    /\ query = "none" /\ child = "none" /\ helper = "none" /\ timedOut = FALSE

Walk == ReadHost \/ ReadInclude \/ FinishFile \/ FinishWalk

Query == SeeEnd \/ Expire \/ FinishQuery

Next ==
    \/ Refresh \/ Walk
    \/ StartQuery \/ Query
    \/ StartHelper \/ HelperEnds \/ ChildEnds

Spec == Init /\ [][Next]_vars

\* The calling thread runs; ssh and its helpers may run for ever.
FairSpec == Spec /\ WF_vars(Walk) /\ WF_vars(Query)

-----------------------------------------------------------------------------
\* What ssh itself would read: the files that Include reaches from the
\* configuration, whatever the order and the depth.

\* What Include lines lead to, and what Host lines name.
Named(lines) ==
    {g \in Files \cup {Missing} :
        \E m \in DOMAIN lines :
            /\ lines[m].keyword = "include"
            /\ \E n \in DOMAIN lines[m].value : Target[lines[m].value[n]] = g}

HostsOf(lines) ==
    {a \in Aliases : \E m \in DOMAIN lines : lines[m] = Host(a)}

LinesOf(file) == IF content[file] = Unreadable THEN <<>> ELSE content[file]

Includes(file) == Named(LinesOf(file)) \ {Missing}

HostsIn(file) == HostsOf(LinesOf(file))

\* The configuration, and with a file those it includes.
Closed(S) == Root \in S /\ \A f \in S : Includes(f) \subseteq S

Reached == {f \in Files : \A S \in SUBSET Files : Closed(S) => f \in S}

-----------------------------------------------------------------------------
\* Properties

\* A walk that succeeds has found every alias of every file that is reached,
\* through cycles, links and files that are missing or unreadable: none is left
\* out quietly because another path led there first or too deep.
DiscoversReached ==
    result = "ok" /\ stack = <<>> /\ visited # {} =>
        aliases = UNION {HostsIn(f) : f \in Reached}

\* A configuration is refused for its size only if it is that large: it has
\* more files than MAX_CONFIG_FILES, or enough for a chain of MAX_INCLUDE_DEPTH
\* Includes; cycles and links do not count.
RefusedOnlyIfLarge ==
    /\ result = "file-count" => Cardinality(Reached) > MaxFiles
    /\ result = "include-depth" => Cardinality(Reached) > MaxDepth

\* A query ends, by itself or by its deadline, unless a helper holds the pipes
\* that was not there to be killed: it has left the group of ssh, or ssh ended
\* before it and before the deadline.
QueryEnds ==
    query = "wait" ~> \/ query = "none"
                      \/ query = "join" /\ helper = "own"
                      \/ query = "join" /\ helper = "group" /\ ~timedOut
=============================================================================
