------------------------------- MODULE RuleSet -------------------------------
(***************************************************************************)
(* Which rules the daemon lets stand together: validate_rule_set in        *)
(* src/domain/validation.rs, over the rules as src/domain/rule.rs builds   *)
(* them, and the requests of src/daemon/manager.rs that change the set.    *)
(*                                                                         *)
(* What a bind address stands for once ssh binds it is a set of sockets,   *)
(* one per port and interface address (Sockets).  The validator never      *)
(* computes it; it compares classes of addresses.  The properties relate   *)
(* the two.                                                                *)
(***************************************************************************)
EXTENDS Naturals, Sequences

CONSTANTS
    Names,     \* RuleName
    Ports,     \* Port
    V4, V6,    \* addresses of the interfaces, by family
    Loopback,  \* those for which is_loopback() holds
    MaxRules   \* bound on the length of the configuration

ASSUME AddressAssumption ==
    /\ V4 \cap V6 = {}
    /\ Loopback \subseteq V4 \cup V6
    /\ V4 \cap Loopback # {}
    /\ V6 \cap Loopback # {}
    /\ {"*", "localhost", "0.0.0.0", "::"} \cap (V4 \cup V6) = {}

VARIABLE rules  \* State.rules, in the order of the configuration file

-----------------------------------------------------------------------------

BindAddress == {"*", "localhost", "0.0.0.0", "::"} \cup V4 \cup V6

Kinds == {"local", "remote", "dynamic"}

Rule == [name : Names, kind : Kinds, address : BindAddress, port : Ports]

ListensEvenRemotely(r) == TRUE  \* faulty

\* Rule::local_listener: the daemon's host listens for local and dynamic rules,
\* the server for remote ones.
HasLocalListener(r) == r.kind \in {"local", "dynamic"}

CoversButLoopback(a, b) ==  \* faulty
    \/ a = "*"
    \/ a = "0.0.0.0" /\ b \in V4 \cup {"localhost"}
    \/ a = "::" /\ b \in V6 \cup {"localhost"}
    \/ a \in V4 \cup V6 \cup {"localhost"} /\ a = b

\* The arms of bind_addresses_overlap, each read from left to right.
Covers(a, b) ==
    \/ a = "*"
    \/ a = "0.0.0.0" /\ b \in V4 \cup {"localhost"}
    \/ a = "::" /\ b \in V6 \cup {"localhost"}
    \/ a = "localhost" /\ b \in Loopback \cup {"localhost"}
    \/ a \in V4 \cup V6 /\ a = b

Overlap(a, b) == Covers(a, b) \/ Covers(b, a)

SameListener(r, s) ==
    /\ HasLocalListener(r)
    /\ HasLocalListener(s)
    /\ r.port = s.port
    /\ Overlap(r.address, s.address)

\* validate_rule_set: each rule is held against those before it.
Valid(ruleSet) ==
    \A n \in DOMAIN ruleSet : \A m \in 1 .. n - 1 :
        /\ ruleSet[m].name # ruleSet[n].name
        /\ ~SameListener(ruleSet[n], ruleSet[m])

-----------------------------------------------------------------------------
\* The requests, as far as they change the set.  Which rule may be edited or
\* removed when is DaemonManager's matter.

\* open, when there is no file yet.
Init == rules = <<>>

\* ForwardAdd of a new rule and ForwardImport of several.
Append1(r) ==
    /\ Len(rules) < MaxRules
    /\ Valid(Append(rules, r))
    /\ rules' = Append(rules, r)

Import(r, s) ==
    /\ Len(rules) + 2 <= MaxRules
    /\ Valid(rules \o <<r, s>>)
    /\ rules' = rules \o <<r, s>>

\* ForwardAdd of a rule there is already, and ForwardEditActive: in its place.
Replace(n, r) ==
    /\ Valid([rules EXCEPT ![n] = r])
    /\ rules' = [rules EXCEPT ![n] = r]

Remove(n) ==
    rules' = SubSeq(rules, 1, n - 1) \o SubSeq(rules, n + 1, Len(rules))

Next ==
    \/ \E r \in Rule : Append1(r)
    \/ \E r, s \in Rule : Import(r, s)
    \/ \E n \in DOMAIN rules, r \in Rule : Replace(n, r)
    \/ \E n \in DOMAIN rules : Remove(n)

Spec == Init /\ [][Next]_rules

-----------------------------------------------------------------------------
\* What ssh binds, external to this repository: "localhost" resolves to the
\* loopback addresses, and the IPv6 wildcard is bound for IPv6 alone.  For a
\* remote rule it is the server that listens.

Addresses(a) ==
    CASE a = "*"         -> V4 \cup V6
      [] a = "0.0.0.0"   -> V4
      [] a = "::"        -> V6
      [] a = "localhost" -> Loopback
      [] OTHER           -> {a}

Sockets(r) ==
    IF r.kind = "remote" THEN {} ELSE Addresses(r.address) \X {r.port}

Wildcards == {"0.0.0.0", "::"}

-----------------------------------------------------------------------------
\* Properties.

\* The configuration is a list of rules (ServerState.rules in manager.rs).
TypeOK == rules \in Seq(Rule)

\* Rules the daemon has accepted never compete for a socket, whatever requests
\* led to the set, with one exception that validate_rule_set lets through: two
\* rules on the same wildcard address of one family and on the same port.
ClashesAreWildcardPairs ==
    \A m, n \in DOMAIN rules :
        m # n /\ Sockets(rules[m]) \cap Sockets(rules[n]) # {}
            => /\ rules[m].address = rules[n].address
               /\ rules[m].address \in Wildcards

\* The converse for ForwardAdd: a rule that shares neither a name nor a socket
\* with the accepted ones is never refused as a duplicate.
OnlyClashesAreRefused ==
    \A r \in Rule :
        \/ Valid(Append(rules, r))
        \/ \E n \in DOMAIN rules :
              rules[n].name = r.name \/ Sockets(rules[n]) \cap Sockets(r) # {}

\* docs/product-spec.md: conflicting local listeners are rejected before launch.
ListenersAreDisjoint ==
    \A m, n \in DOMAIN rules :
        m # n => Sockets(rules[m]) \cap Sockets(rules[n]) = {}
=============================================================================
