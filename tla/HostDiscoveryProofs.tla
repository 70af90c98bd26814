------------------------- MODULE HostDiscoveryProofs -------------------------
(***************************************************************************)
(* The walk of HostDiscovery is complete and refuses only what is large,   *)
(* for any files, links, contents and limits.  No step of the walk loses a *)
(* file or an alias: it is either recorded or in the lines still ahead.    *)
(***************************************************************************)
EXTENDS HostDiscovery, FiniteSetTheorems, SequenceTheorems, TLAPS

Frames == [lines : Seq(Lines), depth : Nat]

\* What is still to be read.
AheadFiles(frames) ==
    {g \in Files \cup {Missing} : \E k \in DOMAIN frames : g \in Named(frames[k].lines)}

AheadHosts(frames) ==
    {a \in Aliases : \E k \in DOMAIN frames : a \in HostsOf(frames[k].lines)}

ReachedHosts == UNION {HostsIn(f) : f \in Reached}

WalkTypes ==
    /\ content \in Configs
    /\ stack \in Seq(Frames)
    /\ visited \subseteq Files
    /\ found \subseteq Aliases

\* The walk goes where Include leads, and nowhere else.
StaysInReached ==
    /\ visited \subseteq Reached
    /\ AheadFiles(stack) \subseteq Reached \cup {Missing}
    /\ found \cup AheadHosts(stack) \subseteq ReachedHosts

\* What a visited file includes and names has been seen or is still ahead.
NothingLost ==
    stack # <<>> =>
        /\ Root \in visited \cup AheadFiles(stack)
        /\ \A f \in visited :
              /\ Includes(f) \subseteq visited \cup AheadFiles(stack)
              /\ HostsIn(f) \subseteq found \cup AheadHosts(stack)

\* Every file that the walk is in counts as visited.
DepthIsVisited ==
    \A k \in 2 .. Len(stack) : stack[k].depth < Cardinality(visited)

\* What the catalog took over from the last walk that succeeded.
Walked == stack = <<>> /\ visited # {} => aliases = ReachedHosts

IInv ==
    /\ WalkTypes /\ StaysInReached /\ NothingLost /\ DepthIsVisited /\ Walked
    /\ RefusedOnlyIfLarge

-----------------------------------------------------------------------------
\* Lines

\* A Host line names its alias and includes nothing.
LEMMA HostLine ==
    ASSUME NEW lines \in Seq(Lines), lines # <<>>, Head(lines).keyword = "host"
    PROVE  /\ Tail(lines) \in Seq(Lines) /\ Head(lines).value \in Aliases
           /\ Named(lines) = Named(Tail(lines))
           /\ HostsOf(lines) = {Head(lines).value} \cup HostsOf(Tail(lines))
<1>1. /\ Tail(lines) \in Seq(Lines) /\ 1 \in DOMAIN lines
      /\ lines[1] = Head(lines) /\ Head(lines) \in Lines
      /\ \A m \in DOMAIN lines : m # 1 => m - 1 \in DOMAIN Tail(lines)
      /\ \A m \in DOMAIN Tail(lines) :
            m + 1 \in DOMAIN lines /\ m + 1 # 1 /\ Tail(lines)[m] = lines[m + 1]
      /\ \A m \in DOMAIN lines : (m - 1) + 1 = m
  OBVIOUS
<1>2. /\ Head(lines) = Host(Head(lines).value)
      /\ Head(lines).value \in Aliases
  BY <1>1 DEF Lines, Host
<1>3. /\ Head(lines).keyword # "include"
      /\ \A a : Head(lines) = Host(a) <=> a = Head(lines).value
  BY <1>2 DEF Host
<1>4. Named(lines) = Named(Tail(lines))
  BY <1>1, <1>3 DEF Named
<1>5. HostsOf(lines) = {Head(lines).value} \cup HostsOf(Tail(lines))
  BY <1>1, <1>2, <1>3 DEF HostsOf
<1> QED
  BY <1>1, <1>2, <1>4, <1>5

\* An Include line of no path includes nothing and names nothing.
LEMMA EmptyInclude ==
    ASSUME NEW lines \in Seq(Lines), lines # <<>>,
           Head(lines).keyword = "include", Head(lines).value = <<>>
    PROVE  /\ Tail(lines) \in Seq(Lines)
           /\ Named(lines) = Named(Tail(lines))
           /\ HostsOf(lines) = HostsOf(Tail(lines))
<1>1. /\ Tail(lines) \in Seq(Lines) /\ 1 \in DOMAIN lines
      /\ lines[1] = Head(lines)
      /\ \A m \in DOMAIN lines : m # 1 => m - 1 \in DOMAIN Tail(lines)
      /\ \A m \in DOMAIN Tail(lines) :
            m + 1 \in DOMAIN lines /\ m + 1 # 1 /\ Tail(lines)[m] = lines[m + 1]
      /\ \A m \in DOMAIN lines : (m - 1) + 1 = m
  OBVIOUS
<1>2. \A n : n \notin DOMAIN Head(lines).value
  OBVIOUS
<1>3. \A a : Head(lines) # Host(a)
  BY DEF Host
<1> QED
  BY <1>1, <1>2, <1>3 DEF Named, HostsOf

\* Taking the first path off an Include line takes what it leads to off what
\* is included, and leaves the aliases alone.
LEMMA IncludeLine ==
    ASSUME NEW lines \in Seq(Lines), lines # <<>>,
           Head(lines).keyword = "include", Head(lines).value # <<>>
    PROVE  LET paths == Head(lines).value
               rest == <<Include(Tail(paths))>> \o Tail(lines)
           IN  /\ rest \in Seq(Lines) /\ Head(paths) \in Paths
               /\ Named(lines) = {Target[Head(paths)]} \cup Named(rest)
               /\ HostsOf(lines) = HostsOf(rest)
<1> DEFINE paths == Head(lines).value
           left == Include(Tail(paths))
           rest == <<left>> \o Tail(lines)
<1>1. Head(lines) \in Lines /\ 1 \in DOMAIN lines /\ lines[1] = Head(lines)
  OBVIOUS
<1>2. paths \in Seq(Paths) /\ paths # <<>>
  BY <1>1 DEF Lines
<1>3. Tail(paths) \in Seq(Paths) /\ Head(paths) \in Paths /\ Head(paths) = paths[1]
  BY <1>2
<1>4. left \in Lines
  BY <1>3 DEF Include, Lines
<1>5. /\ rest \in Seq(Lines)
      /\ DOMAIN rest = DOMAIN lines /\ rest[1] = left
      /\ \A m \in DOMAIN lines : m # 1 => rest[m] = lines[m]
  <2> HIDE DEF left
  <2>1. <<left>> \in Seq(Lines) /\ Tail(lines) \in Seq(Lines)
    BY <1>4
  <2>2. /\ rest \in Seq(Lines) /\ Len(rest) = 1 + Len(Tail(lines))
        /\ \A m \in 1 .. 1 + Len(Tail(lines)) :
              rest[m] = IF m <= 1 THEN <<left>>[m] ELSE Tail(lines)[m - 1]
    BY <2>1, ConcatProperties, Len(<<left>>) = 1
  <2>3. Len(Tail(lines)) = Len(lines) - 1 /\ Len(lines) \in Nat
    OBVIOUS
  <2>4. /\ DOMAIN rest = 1 .. Len(lines) /\ DOMAIN lines = 1 .. Len(lines)
    BY <2>2, <2>3
  <2>5. \A m \in DOMAIN lines : m # 1 => rest[m] = lines[m]
    BY <2>2, <2>3, <2>4
  <2> QED
    BY <1>1, <2>2, <2>3, <2>4, <2>5
<1>6. /\ left.keyword = "include" /\ left.value = Tail(paths)
      /\ \A a : left # Host(a) /\ Head(lines) # Host(a)
  BY DEF Include, Host
<1>7. /\ 1 \in DOMAIN paths
      /\ \A n \in DOMAIN paths : n # 1 =>
            n - 1 \in DOMAIN Tail(paths) /\ Tail(paths)[n - 1] = paths[n]
      /\ \A n \in DOMAIN Tail(paths) :
            n + 1 \in DOMAIN paths /\ Tail(paths)[n] = paths[n + 1]
  BY <1>2
<1>8. Target[Head(paths)] \in Files \cup {Missing}
  BY <1>3, HostAssumption
<1> HIDE DEF paths, left, rest
<1>9. ASSUME NEW g \in Named(lines), g # Target[Head(paths)]
      PROVE  g \in Named(rest)
  <2>1. PICK m \in DOMAIN lines :
           /\ lines[m].keyword = "include"
           /\ \E n \in DOMAIN lines[m].value : Target[lines[m].value[n]] = g
    BY DEF Named
  <2>2. CASE m = 1
    <3>1. PICK n \in DOMAIN paths : Target[paths[n]] = g
      BY <1>1, <2>1, <2>2 DEF paths
    <3>2. n # 1
      BY <1>3, <1>9, <3>1
    <3>3. n - 1 \in DOMAIN left.value /\ Target[left.value[n - 1]] = g
      BY <1>6, <1>7, <3>1, <3>2
    <3> QED
      BY <1>1, <1>5, <1>6, <3>3 DEF Named
  <2>3. CASE m # 1
    BY <1>5, <2>1, <2>3 DEF Named
  <2> QED
    BY <2>2, <2>3
<1>10. ASSUME NEW g \in Named(rest)
       PROVE  g \in Named(lines)
  <2>1. PICK m \in DOMAIN rest :
           /\ rest[m].keyword = "include"
           /\ \E n \in DOMAIN rest[m].value : Target[rest[m].value[n]] = g
    BY DEF Named
  <2>2. CASE m = 1
    <3>1. PICK n \in DOMAIN Tail(paths) : Target[Tail(paths)[n]] = g
      BY <1>5, <1>6, <2>1, <2>2
    <3>2. n + 1 \in DOMAIN paths /\ Target[paths[n + 1]] = g
      BY <1>7, <3>1
    <3> QED
      BY <1>1, <3>2 DEF Named, paths
  <2>3. CASE m # 1
    BY <1>5, <2>1, <2>3 DEF Named
  <2> QED
    BY <2>2, <2>3
<1>11. Target[Head(paths)] \in Named(lines)
  BY <1>1, <1>3, <1>7, <1>8 DEF Named, paths
<1>12. HostsOf(lines) = HostsOf(rest)
  BY <1>1, <1>5, <1>6 DEF HostsOf
<1> QED
  BY <1>3, <1>5, <1>9, <1>10, <1>11, <1>12 DEF paths, left, rest

\* What a sequence without lines includes and names.
LEMMA NoLines == Named(<<>>) = {} /\ HostsOf(<<>>) = {}
BY DEF Named, HostsOf

\* The lines of a file are lines.
LEMMA LinesType ==
    ASSUME content \in Configs, NEW f \in Files
    PROVE  LinesOf(f) \in Seq(Lines)
<1>1. content[f] \in {Unreadable} \cup Seq(Lines)
  BY ConfigsAssumption
<1> QED
  BY <1>1 DEF LinesOf

-----------------------------------------------------------------------------
\* Frames

\* A frame more has its lines ahead, too.
LEMMA AheadOfMore ==
    ASSUME NEW frames \in Seq(Frames), NEW frame \in Frames
    PROVE  LET more == Append(frames, frame)
           IN  /\ more \in Seq(Frames) /\ Len(more) = Len(frames) + 1
               /\ \A k \in 1 .. Len(frames) : more[k] = frames[k]
               /\ more[Len(frames) + 1] = frame
               /\ AheadFiles(more) = AheadFiles(frames) \cup Named(frame.lines)
               /\ AheadHosts(more) = AheadHosts(frames) \cup HostsOf(frame.lines)
<1> DEFINE more == Append(frames, frame)
<1>1. /\ more \in Seq(Frames) /\ Len(more) = Len(frames) + 1
      /\ \A k \in 1 .. Len(frames) : more[k] = frames[k]
      /\ more[Len(frames) + 1] = frame
      /\ DOMAIN frames = 1 .. Len(frames)
      /\ DOMAIN more = 1 .. Len(frames) \cup {Len(frames) + 1}
  BY AppendProperties
<1>2. /\ Named(frame.lines) \subseteq Files \cup {Missing}
      /\ HostsOf(frame.lines) \subseteq Aliases
  BY DEF Named, HostsOf
<1> HIDE DEF more
<1>3. AheadFiles(more) = AheadFiles(frames) \cup Named(frame.lines)
  BY <1>1, <1>2 DEF AheadFiles
<1>4. AheadHosts(more) = AheadHosts(frames) \cup HostsOf(frame.lines)
  BY <1>1, <1>2 DEF AheadHosts
<1> QED
  BY <1>1, <1>3, <1>4 DEF more

\* The stack is its innermost frame and those below.
LEMMA StackParts ==
    ASSUME stack \in Seq(Frames), stack # <<>>
    PROVE  /\ Below \in Seq(Frames) /\ Len(Below) = Len(stack) - 1
           /\ \A k \in 1 .. Len(stack) - 1 : Below[k] = stack[k]
           /\ Top \in Frames /\ stack = Append(Below, Top)
           /\ AheadFiles(stack) = AheadFiles(Below) \cup Named(Top.lines)
           /\ AheadHosts(stack) = AheadHosts(Below) \cup HostsOf(Top.lines)
<1>1. /\ Len(stack) \in Nat \ {0} /\ 1 \in 1 .. Len(stack) + 1
      /\ Len(stack) - 1 \in 1 - 1 .. Len(stack) /\ (Len(stack) - 1) - 1 + 1 = Len(stack) - 1
  OBVIOUS
<1>2. /\ Below \in Seq(Frames) /\ Len(Below) = Len(stack) - 1
      /\ \A k \in 1 .. Len(stack) - 1 : Below[k] = stack[k]
  <2> DEFINE below == SubSeq(stack, 1, Len(stack) - 1)
  <2>1. /\ below \in Seq(Frames)
        /\ Len(below) = IF 1 <= Len(stack) - 1 THEN (Len(stack) - 1) - 1 + 1 ELSE 0
        /\ \A k \in 1 .. (Len(stack) - 1) - 1 + 1 : below[k] = stack[1 + k - 1]
    BY <1>1, SubSeqProperties
  <2> HIDE DEF below
  <2>2. \A k \in 1 .. Len(stack) - 1 : 1 + k - 1 = k
    BY <1>1
  <2> QED
    BY <1>1, <2>1, <2>2 DEF Below, below
<1>3. Top \in Frames
  BY <1>1 DEF Top
<1>4. stack = Append(Below, Top)
  <2>1. /\ Append(Below, Top) \in Seq(Frames)
        /\ Len(Append(Below, Top)) = Len(Below) + 1
        /\ \A k \in 1 .. Len(Below) : Append(Below, Top)[k] = Below[k]
        /\ Append(Below, Top)[Len(Below) + 1] = Top
    BY <1>2, <1>3, AppendProperties
  <2>2. Len(Below) + 1 = Len(stack)
    BY <1>1, <1>2
  <2>3. \A k \in 1 .. Len(stack) : Append(Below, Top)[k] = stack[k]
    BY <1>1, <1>2, <2>1, <2>2 DEF Top
  <2> QED
    BY <2>1, <2>2, <2>3, SeqEqual
<1> QED
  BY <1>2, <1>3, <1>4, AheadOfMore

\* The same with other lines in the innermost frame.
LEMMA RestParts ==
    ASSUME stack \in Seq(Frames), stack # <<>>, NEW lines \in Seq(Lines)
    PROVE  /\ Rest(lines) \in Seq(Frames) /\ Len(Rest(lines)) = Len(stack)
           /\ \A k \in 1 .. Len(stack) : Rest(lines)[k].depth = stack[k].depth
           /\ AheadFiles(Rest(lines)) = AheadFiles(Below) \cup Named(lines)
           /\ AheadHosts(Rest(lines)) = AheadHosts(Below) \cup HostsOf(lines)
<1> DEFINE frame == [Top EXCEPT !.lines = lines]
<1>1. Top \in Frames
  BY StackParts
<1>2. frame \in Frames /\ frame.depth = Top.depth /\ frame.lines = lines
  BY <1>1 DEF Frames
<1>3. Len(stack) \in Nat \ {0}
  OBVIOUS
<1> HIDE DEF frame
<1>4. /\ Append(Below, frame) \in Seq(Frames)
      /\ Len(Append(Below, frame)) = Len(stack)
      /\ \A k \in 1 .. Len(stack) - 1 : Append(Below, frame)[k] = stack[k]
      /\ Append(Below, frame)[Len(stack)] = frame
      /\ AheadFiles(Append(Below, frame)) = AheadFiles(Below) \cup Named(lines)
      /\ AheadHosts(Append(Below, frame)) = AheadHosts(Below) \cup HostsOf(lines)
  BY <1>2, <1>3, StackParts, AheadOfMore
<1>5. \A k \in 1 .. Len(stack) : Append(Below, frame)[k].depth = stack[k].depth
  BY <1>2, <1>3, <1>4 DEF Top
<1> QED
  BY <1>4, <1>5 DEF Rest, frame

-----------------------------------------------------------------------------
\* What is reached

\* The configuration is reached, and what a reached file includes.
LEMMA ReachedClosed == Closed(Reached) /\ Reached \subseteq Files
<1>1. \A f \in Files : Includes(f) \subseteq Files
  BY DEF Includes, Named
<1> QED
  BY <1>1, HostAssumption DEF Closed, Reached

\* Nothing else is reached.
LEMMA ReachedLeast ==
    ASSUME NEW S \in SUBSET Files, Closed(S)
    PROVE  Reached \subseteq S
BY DEF Reached

\* What is reached depends on the content of the files alone.
LEMMA ReachedStays ==
    ASSUME content' = content
    PROVE  /\ Reached' = Reached /\ ReachedHosts' = ReachedHosts
           /\ \A f : Includes(f)' = Includes(f) /\ HostsIn(f)' = HostsIn(f)
BY DEF Reached, ReachedHosts, Closed, Includes, HostsIn, LinesOf

\* The number of visited files is a number, at most that of the reached ones;
\* one more, if there is a reached file that is not visited.
LEMMA VisitedCount ==
    ASSUME visited \subseteq Reached
    PROVE  /\ Cardinality(visited) \in Nat /\ Cardinality(Reached) \in Nat
           /\ Cardinality(visited) <= Cardinality(Reached)
           /\ \A f \in Reached \ visited :
                 /\ Cardinality(visited \cup {f}) = Cardinality(visited) + 1
                 /\ Cardinality(visited) < Cardinality(Reached)
<1>1. IsFiniteSet(Reached) /\ IsFiniteSet(visited)
  BY ReachedClosed, HostAssumption, FS_Subset
<1>2. /\ Cardinality(visited) \in Nat /\ Cardinality(Reached) \in Nat
      /\ Cardinality(visited) <= Cardinality(Reached)
  BY <1>1, FS_Subset, FS_CardinalityType
<1>3. ASSUME NEW f \in Reached \ visited
      PROVE  /\ Cardinality(visited \cup {f}) = Cardinality(visited) + 1
             /\ Cardinality(visited) < Cardinality(Reached)
  <2>1. Cardinality(visited \cup {f}) = Cardinality(visited) + 1
    BY <1>1, FS_AddElement
  <2>2. Cardinality(visited \cup {f}) <= Cardinality(Reached)
    BY <1>1, FS_Subset
  <2> QED
    BY <1>2, <2>1, <2>2
<1> QED
  BY <1>2, <1>3

-----------------------------------------------------------------------------
\* The steps

\* What one line or path takes off the lines ahead it may lose: a file that is
\* missing or visited, an alias that is found.
LEMMA StepForward ==
    ASSUME IInv, stack # <<>>, NEW frames \in Seq(Frames), frames # <<>>,
           Len(frames) = Len(stack),
           \A k \in 1 .. Len(stack) : frames[k].depth = stack[k].depth,
           AheadFiles(frames) \subseteq AheadFiles(stack),
           AheadHosts(frames) \subseteq AheadHosts(stack),
           AheadFiles(stack) \subseteq AheadFiles(frames) \cup {Missing} \cup visited,
           stack' = frames, content' = content, visited' = visited,
           UNCHANGED <<aliases, result>>,
           found' = found \cup (AheadHosts(stack) \ AheadHosts(frames))
    PROVE  IInv'
<1> USE ReachedStays
<1>1. AheadHosts(stack) \subseteq Aliases
  BY DEF AheadHosts
<1>2. WalkTypes'
  BY <1>1 DEF IInv, WalkTypes
<1>3. StaysInReached'
  BY DEF IInv, StaysInReached, AheadFiles, AheadHosts
<1>4. NothingLost'
  <2>1. Root # Missing /\ \A f : Missing \notin Includes(f)
    BY HostAssumption DEF Includes
  <2> QED
    BY <2>1 DEF IInv, NothingLost
<1>5. DepthIsVisited'
  BY DEF IInv, DepthIsVisited
<1>6. Walked' /\ RefusedOnlyIfLarge'
  BY DEF IInv, Walked, RefusedOnlyIfLarge
<1> QED
  BY <1>2, <1>3, <1>4, <1>5, <1>6 DEF IInv

\* A walk that starts has everything ahead.
LEMMA RefreshInv == IInv /\ Refresh => IInv'
<1> SUFFICES ASSUME IInv, Refresh PROVE IInv'
  OBVIOUS
<1> DEFINE lines == <<Include(<<Root>>)>>
           frame == [lines |-> lines, depth |-> 0]
<1> USE ReachedStays DEF Refresh
<1>1. Root \in Paths /\ Target[Root] = Root /\ Root \in Files /\ Root # Missing
  BY HostAssumption
<1>2. Include(<<Root>>) \in Lines /\ lines \in Seq(Lines) /\ frame \in Frames
  BY <1>1 DEF Include, Lines, Frames
<1>3. /\ lines[1].keyword = "include" /\ lines[1].value = <<Root>>
      /\ DOMAIN lines = {1} /\ DOMAIN <<Root>> = {1}
      /\ \A a : lines[1] # Host(a)
  BY DEF Include, Host
<1>4. Named(lines) = {Root} /\ HostsOf(lines) = {}
  <2> HIDE DEF lines
  <2> QED
    BY <1>1, <1>3 DEF Named, HostsOf
<1> HIDE DEF lines
<1>5. stack' = <<frame>> /\ DOMAIN <<frame>> = {1} /\ Len(<<frame>>) = 1
  BY DEF lines
<1>6. AheadFiles(stack') = {Root} /\ AheadHosts(stack') = {}
  BY <1>1, <1>4, <1>5 DEF AheadFiles, AheadHosts
<1>7. WalkTypes'
  BY <1>2, <1>5 DEF IInv, WalkTypes
<1>8. StaysInReached'
  BY <1>6, ReachedClosed DEF StaysInReached, Closed, AheadFiles, AheadHosts
<1>9. NothingLost'
  BY <1>6 DEF NothingLost, AheadFiles
<1>10. DepthIsVisited'
  BY <1>5 DEF DepthIsVisited
<1>11. Walked' /\ RefusedOnlyIfLarge'
  BY DEF Walked, RefusedOnlyIfLarge
<1> QED
  BY <1>7, <1>8, <1>9, <1>10, <1>11 DEF IInv

\* A Host line moves its alias from what is ahead to what is found.
LEMMA ReadHostInv == IInv /\ ReadHost => IInv'
<1> SUFFICES ASSUME IInv, ReadHost PROVE IInv'
  OBVIOUS
<1>1. stack \in Seq(Frames) /\ stack # <<>> /\ Top \in Frames
  BY StackParts DEF IInv, WalkTypes, ReadHost
<1>2. Top.lines \in Seq(Lines) /\ Top.lines # <<>> /\ Line.keyword = "host"
  BY <1>1 DEF ReadHost, Frames
<1> DEFINE lines == Tail(Top.lines)
           frames == Rest(lines)
<1>3. /\ lines \in Seq(Lines)
      /\ Named(Top.lines) = Named(lines)
      /\ HostsOf(Top.lines) = {Line.value} \cup HostsOf(lines)
  BY <1>2, HostLine DEF Line
<1> HIDE DEF lines
<1>4. /\ frames \in Seq(Frames) /\ Len(frames) = Len(stack)
      /\ \A k \in 1 .. Len(stack) : frames[k].depth = stack[k].depth
      /\ AheadFiles(frames) = AheadFiles(Below) \cup Named(lines)
      /\ AheadHosts(frames) = AheadHosts(Below) \cup HostsOf(lines)
  BY <1>1, <1>3, RestParts
<1>5. /\ AheadFiles(stack) = AheadFiles(frames)
      /\ AheadHosts(stack) = AheadHosts(frames) \cup {Line.value}
  BY <1>1, <1>3, <1>4, StackParts
<1>6. /\ stack' = frames /\ found' = found \cup {Line.value}
      /\ UNCHANGED <<content, aliases, result, visited>>
  BY DEF ReadHost, lines
<1> HIDE DEF frames
<1>7. frames # <<>>
  BY <1>1, <1>4
<1> USE ReachedStays
<1>8. WalkTypes'
  <2>1. Line.value \in Aliases
    BY <1>2, HostLine DEF Line
  <2> QED
    BY <1>4, <1>6, <2>1 DEF IInv, WalkTypes
<1>9. StaysInReached'
  BY <1>5, <1>6 DEF IInv, StaysInReached, AheadFiles, AheadHosts
<1>10. NothingLost'
  BY <1>1, <1>5, <1>6 DEF IInv, NothingLost
<1>11. DepthIsVisited'
  BY <1>4, <1>6 DEF IInv, DepthIsVisited
<1>12. Walked' /\ RefusedOnlyIfLarge'
  BY <1>6, <1>7 DEF IInv, Walked, RefusedOnlyIfLarge
<1> QED
  BY <1>8, <1>9, <1>10, <1>11, <1>12 DEF IInv

\* A path of an Include is visited or passed by, or ends the walk.
LEMMA VisitInv ==
    ASSUME IInv, stack # <<>>,
           NEW frames \in Seq(Frames), frames # <<>>, Len(frames) = Len(stack),
           \A k \in 1 .. Len(stack) : frames[k].depth = stack[k].depth,
           NEW path \in Paths, NEW depth \in Nat,
           depth > 0 => depth <= Cardinality(visited),
           AheadFiles(stack) = AheadFiles(frames) \cup {Target[path]},
           AheadHosts(stack) = AheadHosts(frames),
           Visit(frames, path, depth), UNCHANGED <<content, aliases>>
    PROVE  IInv'
<1> DEFINE file == Target[path]
<1> USE ReachedStays
<1>1. /\ file \in Files \cup {Missing} /\ MaxDepth \in Nat /\ MaxFiles \in Nat
      /\ Missing \notin Files
  BY HostAssumption
<1>2. visited \subseteq Reached /\ file \in Reached \cup {Missing}
  BY DEF IInv, StaysInReached
<1>3. /\ Cardinality(visited) \in Nat /\ Cardinality(Reached) \in Nat
      /\ Cardinality(visited) <= Cardinality(Reached)
      /\ \A f \in Reached \ visited :
            /\ Cardinality(visited \cup {f}) = Cardinality(visited) + 1
            /\ Cardinality(visited) < Cardinality(Reached)
  BY <1>2, VisitedCount
<1>4. ASSUME NEW limit, Abort(limit), limit \notin {"file-count", "include-depth"}
                \/ (limit = "file-count" /\ Cardinality(Reached) > MaxFiles)
                \/ (limit = "include-depth" /\ Cardinality(Reached) > MaxDepth)
      PROVE  IInv'
  <2> USE <1>4 DEF Abort
  <2>1. WalkTypes'
    BY DEF IInv, WalkTypes
  <2>2. StaysInReached' /\ NothingLost' /\ DepthIsVisited' /\ Walked'
    BY DEF StaysInReached, NothingLost, DepthIsVisited, Walked, AheadFiles, AheadHosts
  <2>3. RefusedOnlyIfLarge'
    BY DEF RefusedOnlyIfLarge
  <2> QED
    BY <2>1, <2>2, <2>3 DEF IInv
<1>5. CASE depth > MaxDepth
  <2>1. Abort("include-depth")
    BY <1>5 DEF Visit
  <2>2. Cardinality(Reached) > MaxDepth
    BY <1>1, <1>3, <1>5
  <2> QED
    BY <1>4, <2>1, <2>2
<1>6. CASE ~(depth > MaxDepth) /\ file = Missing
  <2>1. Warn(frames, path)
    BY <1>6 DEF Visit
  <2> QED
    BY <1>6, <2>1, StepForward DEF Warn
<1>7. CASE ~(depth > MaxDepth) /\ file # Missing /\ file \in visited
  <2>1. Pass(frames)
    BY <1>7 DEF Visit
  <2> QED
    BY <1>7, <2>1, StepForward DEF Pass
<1>8. CASE /\ ~(depth > MaxDepth) /\ file # Missing /\ file \notin visited
           /\ Cardinality(visited) >= MaxFiles
  <2>1. Abort("file-count")
    BY <1>8 DEF Visit
  <2>2. file \in Reached \ visited
    BY <1>2, <1>8
  <2>3. Cardinality(visited) < Cardinality(Reached)
    BY <1>3, <2>2
  <2>4. Cardinality(Reached) > MaxFiles
    BY <1>1, <1>3, <1>8, <2>3
  <2> QED
    BY <1>4, <2>1, <2>4
<1>9. CASE /\ ~(depth > MaxDepth) /\ file # Missing /\ file \notin visited
           /\ ~(Cardinality(visited) >= MaxFiles)
  <2>1. Enter(frames, file, depth)
    BY <1>9 DEF Visit
  <2>2. file \in Files /\ file \in Reached /\ LinesOf(file) \in Seq(Lines)
    BY <1>1, <1>2, <1>9, LinesType DEF IInv, WalkTypes
  <2>3. /\ visited' = visited \cup {file} /\ UNCHANGED <<found, result>>
        /\ Cardinality(visited') = Cardinality(visited) + 1
    BY <1>3, <1>9, <2>1, <2>2 DEF Enter
  <2>4. depth < Cardinality(visited')
    BY <1>3, <2>3
  <2>5. /\ stack' \in Seq(Frames) /\ stack' # <<>>
        /\ AheadFiles(stack') = AheadFiles(frames) \cup Named(LinesOf(file))
        /\ AheadHosts(stack') = AheadHosts(frames) \cup HostsOf(LinesOf(file))
        /\ \A k \in 2 .. Len(stack') :
              \/ k \in 2 .. Len(stack) /\ stack'[k].depth = stack[k].depth
              \/ stack'[k].depth = depth
    <3>1. CASE content[file] = Unreadable
      <4>1. stack' = frames /\ LinesOf(file) = <<>>
        BY <2>1, <3>1 DEF Enter, LinesOf
      <4> QED
        BY <4>1, NoLines
    <3>2. CASE content[file] # Unreadable
      <4> DEFINE frame == [lines |-> LinesOf(file), depth |-> depth]
      <4>1. frame \in Frames
        BY <2>2 DEF Frames
      <4>2. stack' = Append(frames, frame)
        BY <2>1, <3>2 DEF Enter, LinesOf
      <4>3. frame.lines = LinesOf(file) /\ frame.depth = depth
        OBVIOUS
      <4> HIDE DEF frame
      <4>4. /\ stack' \in Seq(Frames) /\ Len(stack') = Len(frames) + 1
            /\ \A k \in 1 .. Len(frames) : stack'[k] = frames[k]
            /\ stack'[Len(frames) + 1] = frame
            /\ AheadFiles(stack') = AheadFiles(frames) \cup Named(frame.lines)
            /\ AheadHosts(stack') = AheadHosts(frames) \cup HostsOf(frame.lines)
        BY <4>1, <4>2, AheadOfMore
      <4>5. Len(frames) \in Nat /\ stack' # <<>>
        BY <4>4
      <4> QED
        BY <4>3, <4>4, <4>5
    <3> QED
      BY <3>1, <3>2
  <2>6. /\ Includes(file) = Named(LinesOf(file)) \ {Missing}
        /\ HostsIn(file) = HostsOf(LinesOf(file))
    BY DEF Includes, HostsIn
  <2>7. WalkTypes'
    BY <2>2, <2>3, <2>5 DEF IInv, WalkTypes
  <2>8. StaysInReached'
    <3>1. Includes(file) \subseteq Reached /\ HostsIn(file) \subseteq ReachedHosts
      BY <2>2, ReachedClosed DEF Closed, ReachedHosts
    <3>2. /\ AheadFiles(stack') \subseteq Reached \cup {Missing}
          /\ found' \cup AheadHosts(stack') \subseteq ReachedHosts
      BY <2>3, <2>5, <2>6, <3>1 DEF IInv, StaysInReached
    <3> QED
      BY <2>2, <2>3, <3>2 DEF IInv, StaysInReached, AheadFiles, AheadHosts
  <2>9. NothingLost'
    <3>1. Root \in visited' \cup AheadFiles(stack')
      BY <2>3, <2>5 DEF IInv, NothingLost
    <3>2. ASSUME NEW f \in visited'
          PROVE  /\ Includes(f) \subseteq visited' \cup AheadFiles(stack')
                 /\ HostsIn(f) \subseteq found' \cup AheadHosts(stack')
      BY <2>3, <2>5, <2>6 DEF IInv, NothingLost
    <3> QED
      BY <3>1, <3>2 DEF NothingLost, AheadFiles, AheadHosts
  <2>10. DepthIsVisited'
    <3>1. \A k \in 2 .. Len(stack) : stack[k].depth \in Nat
      <4>1. stack \in Seq(Frames)
        BY DEF IInv, WalkTypes
      <4>2. \A k \in 2 .. Len(stack) : stack[k] \in Frames
        BY <4>1
      <4> QED
        BY <4>2 DEF Frames
    <3> QED
      BY <1>3, <2>3, <2>4, <2>5, <3>1 DEF IInv, DepthIsVisited
  <2>11. Walked' /\ RefusedOnlyIfLarge'
    BY <2>3, <2>5 DEF IInv, Walked, RefusedOnlyIfLarge
  <2> QED
    BY <2>7, <2>8, <2>9, <2>10, <2>11 DEF IInv
<1> QED
  BY <1>5, <1>6, <1>7, <1>8, <1>9

\* An Include line loses no path.
LEMMA ReadIncludeInv == IInv /\ ReadInclude => IInv'
<1> SUFFICES ASSUME IInv, ReadInclude PROVE IInv'
  OBVIOUS
<1>1. stack \in Seq(Frames) /\ stack # <<>> /\ Top \in Frames
  BY StackParts DEF IInv, WalkTypes, ReadInclude
<1>2. Top.lines \in Seq(Lines) /\ Top.lines # <<>> /\ Line.keyword = "include"
  BY <1>1 DEF ReadInclude, Frames
<1>3. CASE Line.value = <<>>
  <2> DEFINE lines == Tail(Top.lines)
             frames == Rest(lines)
  <2>1. /\ lines \in Seq(Lines)
        /\ Named(Top.lines) = Named(lines) /\ HostsOf(Top.lines) = HostsOf(lines)
    BY <1>2, <1>3, EmptyInclude DEF Line
  <2>2. stack' = frames /\ UNCHANGED <<content, aliases, visited, found, result>>
    BY <1>3 DEF ReadInclude
  <2> HIDE DEF lines
  <2>3. /\ frames \in Seq(Frames) /\ Len(frames) = Len(stack)
        /\ \A k \in 1 .. Len(stack) : frames[k].depth = stack[k].depth
        /\ AheadFiles(frames) = AheadFiles(stack) /\ AheadHosts(frames) = AheadHosts(stack)
    BY <1>1, <2>1, RestParts, StackParts
  <2> HIDE DEF frames
  <2>4. frames # <<>>
    BY <1>1, <2>3
  <2> QED
    BY <1>1, <2>2, <2>3, <2>4, StepForward
<1>4. CASE Line.value # <<>>
  <2> DEFINE path == Head(Line.value)
             lines == <<Include(Tail(Line.value))>> \o Tail(Top.lines)
             frames == Rest(lines)
             depth == IF Len(stack) = 1 THEN 0 ELSE Top.depth + 1
  <2>1. /\ lines \in Seq(Lines) /\ path \in Paths
        /\ Named(Top.lines) = {Target[path]} \cup Named(lines)
        /\ HostsOf(Top.lines) = HostsOf(lines)
    BY <1>2, <1>4, IncludeLine DEF Line
  <2>2. Visit(frames, path, depth) /\ UNCHANGED <<content, aliases>>
    BY <1>4 DEF ReadInclude
  <2>3. depth \in Nat /\ (depth > 0 => depth <= Cardinality(visited))
    <3>1. visited \subseteq Reached /\ Cardinality(visited) \in Nat
      BY VisitedCount DEF IInv, StaysInReached
    <3>2. Len(stack) \in Nat \ {0} /\ Top.depth \in Nat
      BY <1>1 DEF Frames
    <3>3. Len(stack) # 1 => Top.depth < Cardinality(visited)
      <4>1. \A n \in Nat \ {0} : n # 1 => n \in 2 .. n
        OBVIOUS
      <4> QED
        BY <3>2, <4>1 DEF IInv, DepthIsVisited, Top
    <3> QED
      BY <3>1, <3>2, <3>3
  <2> HIDE DEF lines, path, depth
  <2>4. /\ frames \in Seq(Frames) /\ Len(frames) = Len(stack)
        /\ \A k \in 1 .. Len(stack) : frames[k].depth = stack[k].depth
        /\ AheadFiles(stack) = AheadFiles(frames) \cup {Target[path]}
        /\ AheadHosts(stack) = AheadHosts(frames)
    BY <1>1, <2>1, RestParts, StackParts
  <2> HIDE DEF frames
  <2>5. frames # <<>>
    BY <1>1, <2>4
  <2> QED
    BY <1>1, <2>1, <2>2, <2>3, <2>4, <2>5, VisitInv
<1> QED
  BY <1>3, <1>4

\* A file that has been read to its end has nothing ahead.
LEMMA FinishFileInv == IInv /\ FinishFile => IInv'
<1> SUFFICES ASSUME IInv, FinishFile PROVE IInv'
  OBVIOUS
<1>1. /\ stack \in Seq(Frames) /\ Len(stack) \in Nat /\ Len(stack) > 1
      /\ stack # <<>> /\ Top.lines = <<>>
  BY DEF IInv, WalkTypes, FinishFile
<1>2. /\ Below \in Seq(Frames) /\ Len(Below) = Len(stack) - 1
      /\ \A k \in 1 .. Len(stack) - 1 : Below[k] = stack[k]
      /\ AheadFiles(stack) = AheadFiles(Below)
      /\ AheadHosts(stack) = AheadHosts(Below)
  BY <1>1, StackParts, NoLines
<1>3. /\ stack' = Below
      /\ UNCHANGED <<content, aliases, result, visited, found>>
  BY DEF FinishFile
<1> USE ReachedStays
<1>4. WalkTypes'
  BY <1>2, <1>3 DEF IInv, WalkTypes
<1>5. StaysInReached'
  BY <1>2, <1>3 DEF IInv, StaysInReached, AheadFiles, AheadHosts
<1>6. NothingLost'
  BY <1>1, <1>2, <1>3 DEF IInv, NothingLost
<1>7. DepthIsVisited'
  BY <1>1, <1>2, <1>3 DEF IInv, DepthIsVisited
<1>8. Walked' /\ RefusedOnlyIfLarge'
  <2>1. Below # <<>>
    BY <1>1, <1>2
  <2> QED
    BY <1>3, <2>1 DEF IInv, Walked, RefusedOnlyIfLarge
<1> QED
  BY <1>4, <1>5, <1>6, <1>7, <1>8 DEF IInv

\* When nothing is ahead, what has been visited is what is reached.
LEMMA FinishWalkInv == IInv /\ FinishWalk => IInv'
<1> SUFFICES ASSUME IInv, FinishWalk PROVE IInv'
  OBVIOUS
<1>1. stack \in Seq(Frames) /\ Len(stack) = 1 /\ stack # <<>> /\ Top.lines = <<>>
  BY DEF IInv, WalkTypes, FinishWalk
<1>2. AheadFiles(stack) = {} /\ AheadHosts(stack) = {}
  <2>1. Len(Below) = 0 /\ Below \in Seq(Frames)
    BY <1>1, StackParts
  <2>2. AheadFiles(Below) = {} /\ AheadHosts(Below) = {}
    BY <2>1 DEF AheadFiles, AheadHosts
  <2> QED
    BY <1>1, <2>2, StackParts, NoLines
<1>3. /\ stack' = <<>> /\ aliases' = found /\ result' = "ok"
      /\ UNCHANGED <<content, visited, found>>
  BY DEF FinishWalk
<1>4. visited = Reached
  <2>1. visited \in SUBSET Files /\ Closed(visited)
    BY <1>1, <1>2 DEF IInv, WalkTypes, NothingLost, Closed
  <2> QED
    BY <2>1, ReachedLeast DEF IInv, StaysInReached
<1>5. found = ReachedHosts
  <2>1. \A f \in Reached : HostsIn(f) \subseteq found
    BY <1>1, <1>2, <1>4 DEF IInv, NothingLost
  <2> QED
    BY <2>1 DEF IInv, StaysInReached, ReachedHosts
<1> USE ReachedStays
<1>6. WalkTypes'
  BY <1>3 DEF IInv, WalkTypes
<1>7. StaysInReached' /\ NothingLost'
  BY <1>3 DEF IInv, StaysInReached, NothingLost, AheadFiles, AheadHosts
<1>8. DepthIsVisited'
  BY <1>3 DEF DepthIsVisited
<1>9. Walked' /\ RefusedOnlyIfLarge'
  BY <1>3, <1>5 DEF Walked, RefusedOnlyIfLarge
<1> QED
  BY <1>6, <1>7, <1>8, <1>9 DEF IInv

\* Runs of ssh leave the walk and the catalog alone, and refuse nothing.
LEMMA QueryInv ==
    ASSUME IInv, UNCHANGED <<content, aliases, walkVars>>,
           result' = result \/ result' \notin {"file-count", "include-depth"}
    PROVE  IInv'
BY ReachedStays
   DEF IInv, walkVars, WalkTypes, StaysInReached, NothingLost, DepthIsVisited, Walked,
       RefusedOnlyIfLarge, AheadFiles, AheadHosts

-----------------------------------------------------------------------------
\* The theorems

\* Every step preserves the invariant.
LEMMA StepIInv == IInv /\ [Next]_vars => IInv'
<1> SUFFICES ASSUME IInv, [Next]_vars PROVE IInv'
  OBVIOUS
<1>1. CASE Refresh
  BY <1>1, RefreshInv
<1>2. CASE ReadHost
  BY <1>2, ReadHostInv
<1>3. CASE ReadInclude
  BY <1>3, ReadIncludeInv
<1>4. CASE FinishFile
  BY <1>4, FinishFileInv
<1>5. CASE FinishWalk
  BY <1>5, FinishWalkInv
<1>6. CASE StartQuery
  BY <1>6, QueryInv DEF StartQuery
<1>7. CASE StartHelper
  BY <1>7, QueryInv DEF StartHelper
<1>8. CASE HelperEnds
  BY <1>8, QueryInv DEF HelperEnds
<1>9. CASE ChildEnds
  BY <1>9, QueryInv DEF ChildEnds
<1>10. CASE SeeEnd
  BY <1>10, QueryInv DEF SeeEnd
<1>11. CASE Expire
  BY <1>11, QueryInv DEF Expire
<1>12. CASE FinishQuery
  BY <1>12, QueryInv DEF FinishQuery, Outcomes
<1>13. CASE UNCHANGED vars
  BY <1>13, QueryInv DEF vars
<1> QED
  BY <1>1, <1>2, <1>3, <1>4, <1>5, <1>6, <1>7, <1>8, <1>9, <1>10, <1>11, <1>12, <1>13
     DEF Next, Walk, Query

\* A catalog that has not looked yet satisfies the invariant.
LEMMA InitIInv == Init => IInv
BY EmptySeq
   DEF Init, IInv, WalkTypes, StaysInReached, NothingLost, DepthIsVisited, Walked,
       RefusedOnlyIfLarge, AheadFiles, AheadHosts

\* While the walk goes on, every file and alias that is reached is recorded or
\* ahead, and nothing else is.
THEOREM WalkCorrect == Spec => []IInv
BY InitIInv, StepIInv, PTL DEF Spec

\* A refresh that succeeds has found every alias of every file that Include
\* reaches, whatever the cycles, links and unreadable files (HostCatalog::refresh).
THEOREM DiscoveryCorrect == Spec => []DiscoversReached
<1>1. IInv => DiscoversReached
  BY DEF IInv, Walked, DiscoversReached, ReachedHosts
<1> QED
  BY <1>1, WalkCorrect, PTL

\* MAX_CONFIG_FILES and MAX_INCLUDE_DEPTH refuse no configuration that has fewer
\* files than they say (ConfigWalker::visit).
THEOREM RefusalCorrect == Spec => []RefusedOnlyIfLarge
<1>1. IInv => RefusedOnlyIfLarge
  BY DEF IInv
<1> QED
  BY <1>1, WalkCorrect, PTL
=============================================================================
