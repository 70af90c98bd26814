---------------------------- MODULE MCRuleEditor -----------------------------
(* A small instance of RuleEditor for TLC: an ssh configuration whose forwards *)
(* meet each other and the rules that are added meanwhile.                     *)
EXTENDS RuleEditor

CONSTANTS n1, p1, lo4, lo6, far

Line(kind, address, dest) ==
    [kind |-> kind, address |-> address, port |-> p1, dest |-> dest,
     dport |-> IF dest = None THEN None ELSE p1, socket |-> FALSE]

\* A name the import would choose may be taken already.
MCNames == {n1, <<"local", p1, 0>>}

MCAdds == {Forward("local", "::", p1, far, p1), Forward("remote", "*", p1, far, p1)}

\* A listener on all addresses, given or by GatewayPorts, and one on the
\* loopback; two for the server; lines that are no candidates.
MCOutputs ==
    {[gatewayPorts |-> TRUE,
      lines |-> <<Line("local", None, far), Line("dynamic", "0.0.0.0", None)>>],
     [gatewayPorts |-> FALSE,
      lines |-> <<Line("local", None, far), Line("local", "0.0.0.0", Lo)>>],
     [gatewayPorts |-> FALSE,
      lines |-> <<Line("remote", "::", None), Line("local", None, None),
                  [Line("local", None, far) EXCEPT !.port = None],
                  [Line("remote", None, far) EXCEPT !.socket = TRUE],
                  Line("remote", lo4, far), Line("remote", lo4, far), Line("local", lo4, Lo)>>]}
=============================================================================
