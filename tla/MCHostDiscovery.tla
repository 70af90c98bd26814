--------------------------- MODULE MCHostDiscovery ---------------------------
(* Small instances of HostDiscovery for TLC: four files, a link and a path    *)
(* that leads nowhere, included in every way, with limits they can exceed.    *)
EXTENDS HostDiscovery

CONSTANTS f1, f2, f3, f4, link, gone

MCTarget ==
    [p \in {f1, f2, f3, f4, link, gone} |->
        IF p = link THEN f2 ELSE IF p = gone THEN Missing ELSE p]

AllPaths == {f1, f2, f3, f4, link, gone}

\* Two Includes with the alias between them, one, or none.
RootContents ==
    {<<Include(<<p>>), Host(f1), Include(<<q>>)>> : p, q \in AllPaths}

FileContents(f) ==
    {<<Host(f)>>, Unreadable} \cup {<<Include(<<p>>), Host(f)>> : p \in AllPaths}

MCConfigs ==
    {[f \in Files |-> CASE f = f1 -> a [] f = f2 -> b [] f = f3 -> c [] OTHER -> d] :
        a \in RootContents, b \in FileContents(f2), c \in FileContents(f3),
        d \in {<<Host(f4)>>, <<Include(<<f1, f3>>), Host(f4)>>}}
=============================================================================
