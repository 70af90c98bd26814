----------------------------- MODULE RuleEditor ------------------------------
(***************************************************************************)
(* How clients prepare the rules they send: the form and the import panel  *)
(* of src/tui/mod.rs, "forward add" and "forward import" of                *)
(* src/cli/mod.rs, and the preview, selection and naming of                *)
(* src/application/import.rs they share.                                   *)
(*                                                                         *)
(* Every client works on a copy of the rules that other clients may have   *)
(* outdated.  The daemon decides with RuleSet's requests, and with what    *)
(* DaemonManager says of active rules, here the set of them.               *)
(***************************************************************************)
EXTENDS RuleSet, FiniteSets

CONSTANTS
    Ids,        \* Uuid: numbers, in the order they are drawn
    Hosts,      \* aliases of ~/.ssh/config
    Lo,         \* LOOPBACK, 127.0.0.1
    Dests,      \* destination hosts
    Outputs,    \* what ssh -G may print of forwards, see Directive
    Adds,       \* the forwardings "forward add" is called with
    None,       \* an empty field, no dialog
    MaxChanges, \* bound on the changes of the configuration
    MaxOpen,    \* bound on the dialogs and imports open at once
    MaxActive   \* bound on the active rules

ASSUME EditorAssumption ==
    /\ Ids \subseteq Nat
    /\ Lo \in V4 \cap Loopback \cap Dests
    /\ None \notin Names /\ None \notin Ports /\ None \notin Ids /\ None \notin Dests

VARIABLES
    active,   \* State.running: the rules with an attempt
    changes,  \* number of changes so far
    view,     \* App.rules
    dialog,   \* App.form or App.import
    plan      \* what "forward import" has read, while it runs

editorVars == <<rules, active, changes, view, dialog, plan>>

Open == Len(SelectSeq(<<dialog, plan>>, LAMBDA x : x # None))

-----------------------------------------------------------------------------
\* Rules

\* Rule::local, remote and dynamic; with_bind_address.
Forward(kind, address, port, dest, dport) ==
    [kind |-> kind, address |-> address, port |-> port,
     dest |-> IF kind = "dynamic" THEN None ELSE dest,
     dport |-> IF kind = "dynamic" THEN None ELSE dport]

Forwards == {Forward(kind, address, port, dest, dport) :
    kind \in Kinds, address \in BindAddress, port \in Ports,
    dest \in Dests, dport \in Ports}

ASSUME AddsAssumption == Adds \subseteq Forwards

NewRule(id, name, host, f) ==
    [id |-> id, name |-> name, host |-> host, kind |-> f.kind, address |-> f.address,
     port |-> f.port, dest |-> f.dest, dport |-> f.dport]

ForwardOf(r) == Forward(r.kind, r.address, r.port, r.dest, r.dport)

IdsOf(rs) == {rs[n].id : n \in DOMAIN rs}

NamesOf(rs) == {rs[n].name : n \in DOMAIN rs}

At(rs, i) == CHOOSE n \in DOMAIN rs : rs[n].id = i

-----------------------------------------------------------------------------
\* src/application/import.rs: the preview

\* A forwarding line.  Its listener is a port alone (address None) or an
\* address and a port; None is a port that is no port, Socket a path.
Directive ==
    [kind : Kinds, address : BindAddress \cup {None}, port : Ports \cup {None},
     dest : Dests \cup {None}, dport : Ports \cup {None}, socket : BOOLEAN]

ASSUME OutputsAssumption ==
    \A o \in Outputs : o.gatewayPorts \in BOOLEAN /\ o.lines \in Seq(Directive)

DefaultBind(kind, gatewayPorts) ==
    IF gatewayPorts /\ kind # "remote" THEN "*" ELSE "localhost"

NoForward(why) == Forward(why, None, None, None, None)

\* parse_forward: a forwarding, or why there is none.
Parse(d, gatewayPorts) ==
    IF d.socket THEN NoForward("unsupported")
    ELSE IF d.port = None THEN NoForward("invalid")
    ELSE IF d.kind = "remote" /\ d.dest = None THEN NoForward("unsupported")
    ELSE IF (d.kind = "dynamic") # (d.dest = None) THEN NoForward("invalid")
    ELSE IF d.dest # None /\ d.dport = None THEN NoForward("invalid")
    ELSE Forward(d.kind,
                 IF d.address = None THEN DefaultBind(d.kind, gatewayPorts) ELSE d.address,
                 d.port, d.dest, d.dport)

\* forwards_conflict and forwarding_conflicts_rule: remote listeners meet on
\* one server, the others on this host.
SameEnd(f, g) == f.port = g.port /\ Overlap(f.address, g.address)

ForwardsConflict(f, g) == (f.kind = "remote") = (g.kind = "remote") /\ SameEnd(f, g)

ConflictsRule(host, f, r) == ForwardsConflict(f, r) /\ (f.kind = "remote" => r.host = host)

ClassesAlone(fs, host, existing) ==  \* faulty: candidates are not compared
    [n \in DOMAIN fs |->
        IF fs[n].kind \notin Kinds THEN fs[n].kind
        ELSE IF \E m \in DOMAIN existing : ConflictsRule(host, fs[n], existing[m])
             THEN "conflict"
        ELSE "supported"]

\* classify the n-th line; accepted are the supported ones before it.
Classify(fs, n, accepted, host, existing) ==
    IF fs[n].kind \notin Kinds THEN fs[n].kind
    ELSE IF \E m \in 1 .. n - 1 : fs[m] = fs[n] THEN "duplicate"
    ELSE IF \E m \in DOMAIN existing :
               existing[m].host = host /\ ForwardOf(existing[m]) = fs[n]
         THEN "duplicate"
    ELSE IF \E m \in accepted : ForwardsConflict(fs[n], fs[m]) THEN "conflict"
    ELSE IF \E m \in DOMAIN existing : ConflictsRule(host, fs[n], existing[m])
         THEN "conflict"
    ELSE "supported"

\* The loop of preview_effective_forwards, in the order of the lines.
Classes(fs, host, existing) ==
    LET accepted[n \in 0 .. Len(fs)] ==
          IF n = 0 THEN {}
          ELSE IF Classify(fs, n, accepted[n - 1], host, existing) = "supported"
          THEN accepted[n - 1] \cup {n}
          ELSE accepted[n - 1]
    IN  [n \in DOMAIN fs |-> Classify(fs, n, accepted[n - 1], host, existing)]

Preview(host, output, existing) ==
    LET fs == [n \in DOMAIN output.lines |-> Parse(output.lines[n], output.gatewayPorts)]
    IN  [host |-> host, existing |-> existing, forwards |-> fs,
         class |-> Classes(fs, host, existing)]

Supported(p) == {n \in DOMAIN p.class : p.class[n] = "supported"}

-----------------------------------------------------------------------------
\* src/application/import.rs: from a selection to rules

\* import-<kind>-<port>, then with a suffix that counts from the candidate's
\* number.
ImportName(f, suffix) == <<f.kind, f.port, suffix>>

ImportRuleName(f, candidate, names) ==
    IF ImportName(f, 0) \notin names THEN ImportName(f, 0)
    ELSE ImportName(f, CHOOSE k \in candidate .. candidate + Cardinality(names) :
                           /\ ImportName(f, k) \notin names
                           /\ \A j \in candidate .. k - 1 : ImportName(f, j) \in names)

\* App.rules without the states.
ViewRules == [n \in DOMAIN view |-> view[n].rule]

\* Uuid::new_v4: never one that anybody holds.
FreshId(k) ==
    LET held == IdsOf(rules) \cup IdsOf(ViewRules)
                    \cup (IF dialog = None THEN {} ELSE {dialog.id})
    IN  CHOOSE i \in Ids \ held : Cardinality({j \in Ids \ held : j < i}) = k - 1

\* selected_rules: in the order of the candidates, each with a name that none
\* of the existing rules and none before it has.
SelectedRules(p, selected, existing) ==
    LET built[n \in 0 .. Len(p.forwards)] ==
          IF n = 0 THEN <<>>
          ELSE IF n \notin selected THEN built[n - 1]
          ELSE Append(built[n - 1],
                      NewRule(FreshId(Len(built[n - 1]) + 1),
                              ImportRuleName(p.forwards[n], n,
                                  NamesOf(existing) \cup NamesOf(built[n - 1])),
                              p.host, p.forwards[n]))
    IN  built[Len(p.forwards)]

-----------------------------------------------------------------------------
\* The daemon.  A request is answered with an error also when it has been
\* applied and only its durability is uncertain.

Changing == changes < MaxChanges /\ changes' = changes + 1

\* ForwardAdd of a new rule, or of a stopped one in its place.
ForwardAdd(r) ==
    /\ Changing
    /\ IF r.id \in IdsOf(rules)
       THEN r.id \notin active /\ Replace(At(rules, r.id), r)
       ELSE Append1(r)
    /\ UNCHANGED active

\* Bound: one or two rules at a time, as in RuleSet.
ForwardImport(new) ==
    /\ Changing
    /\ Len(new) \in 1 .. 2
    /\ IF Len(new) = 1 THEN Append1(new[1]) ELSE Import(new[1], new[2])
    /\ UNCHANGED active

ForwardRemove(i) ==
    /\ Changing
    /\ i \in IdsOf(rules) \ active
    /\ Remove(At(rules, i))
    /\ UNCHANGED active

EditUnchecked(expected, r) ==  \* faulty: only the rule's number is compared
    /\ Changing
    /\ r.id \in active
    /\ Replace(At(rules, r.id), r)
    /\ active' \in {active, active \ {r.id}}

\* edit_active, from its comparison to the restart, which may fail.
ForwardEditActive(expected, r) ==
    /\ Changing
    /\ r.id \in active
    /\ rules[At(rules, r.id)] = expected
    /\ Replace(At(rules, r.id), r)
    /\ active' \in {active, active \ {r.id}}

Refused == UNCHANGED <<rules, active, changes>>

-----------------------------------------------------------------------------
\* The form

\* load_rules
Loaded(rs, running) ==
    [n \in DOMAIN rs |-> [rule |-> rs[n], active |-> rs[n].id \in running]]

\* Form::new, from the list of hosts.
NewForm(host) ==
    /\ dialog = None /\ Open < MaxOpen
    /\ dialog' = [type |-> "form", id |-> FreshId(1), original |-> None, host |-> host,
                  name |-> None, kind |-> "local", remote |-> None, local |-> None]
    /\ UNCHANGED <<rules, active, changes, view, plan>>

FormOf(r, isActive) ==
    [type |-> "form", id |-> r.id, host |-> r.host, name |-> r.name, kind |-> r.kind,
     original |-> IF isActive THEN r ELSE None,
     remote |-> IF r.kind = "remote" THEN r.port ELSE r.dport,
     local |-> IF r.kind = "remote" THEN r.dport ELSE r.port]

\* Form::edit of the highlighted rule, and Form::duplicate, whose name is left
\* to the user here.
EditForm(n) ==
    /\ dialog = None /\ Open < MaxOpen
    /\ dialog' = FormOf(view[n].rule, view[n].active)
    /\ UNCHANGED <<rules, active, changes, view, plan>>

DuplicateForm(n) ==
    /\ dialog = None /\ Open < MaxOpen
    /\ dialog' = [FormOf(view[n].rule, FALSE) EXCEPT !.id = FreshId(1), !.name = None]
    /\ UNCHANGED <<rules, active, changes, view, plan>>

InForm == dialog # None /\ dialog.type = "form"

Filled(f, name, kind, remote, local) ==
    [f EXCEPT !.name = name, !.kind = kind, !.remote = remote, !.local = local]

\* What the keys can make of a form: text, the remote port, which the local one
\* follows, the local port or its suggestion, F2.  Nobody sees it before Enter.
Typed(f) ==
    {Filled(f, name, kind, remote, local) :
        name \in Names \cup {f.name}, kind \in Kinds,
        remote \in Ports \cup {f.remote}, local \in Ports \cup {f.local}}

\* Esc.
Cancel ==
    /\ dialog # None /\ dialog.type \in {"form", "import"}
    /\ dialog' = None
    /\ UNCHANGED <<rules, active, changes, view, plan>>

\* The constructors of Rule refuse an empty name and a port that is not one.
Complete(f) == f.name # None /\ f.local # None /\ (f.kind = "dynamic" \/ f.remote # None)

\* Form::payload.  The form shows neither addresses nor hosts: a rule that was
\* active when the form was opened keeps its own, any other gets LOOPBACK.  (A
\* port in use keeps the form open, with another one suggested.)
Payload(f) ==
    LET kept == f.original # None /\ f.original.kind = f.kind
    IN  NewRule(f.id, f.name, f.host,
            Forward(f.kind,
                    IF kept THEN f.original.address ELSE Lo,
                    IF f.kind = "remote" THEN f.remote ELSE f.local,
                    IF kept THEN f.original.dest ELSE Lo,
                    IF f.kind = "remote" THEN f.local ELSE f.remote))

\* Enter on a form of an active rule: one request, then the rules are loaded.
SubmitEdit ==
    /\ InForm /\ dialog.original # None
    /\ \E f \in Typed(dialog) :
          Complete(f) /\ (ForwardEditActive(f.original, Payload(f)) \/ Refused)
    /\ view' \in {view, Loaded(rules', active')}
    /\ dialog' = None
    /\ UNCHANGED plan

\* Enter on any other form: the rule is saved, then started.
SubmitAdd ==
    /\ InForm /\ dialog.original = None
    /\ \E f \in Typed(dialog) : Complete(f) /\ ForwardAdd(Payload(f))
    /\ dialog' \in {dialog, [dialog EXCEPT !.type = "saved"]}
    /\ UNCHANGED <<view, plan>>

\* If it cannot be started the form stays open and may be submitted again.
StartSaved ==
    /\ dialog # None /\ dialog.type = "saved"
    /\ \/ /\ dialog.id \in IdsOf(rules)
          /\ Cardinality(active) < MaxActive
          /\ active' = active \cup {dialog.id}
          /\ dialog' = None
          /\ view' = Loaded(rules, active')
       \/ /\ dialog' = [dialog EXCEPT !.type = "form"]
          /\ UNCHANGED <<active, view>>
    /\ UNCHANGED <<rules, changes, plan>>

\* run_loop on a notice, whatever dialog is open.
Refresh ==
    /\ dialog # None => dialog.type # "saved"
    /\ view' = Loaded(rules, active)
    /\ UNCHANGED <<rules, active, changes, dialog, plan>>

-----------------------------------------------------------------------------
\* The import panel

InPanel == dialog # None /\ dialog.type = "import"

\* open_import: the preview is made of the rules the TUI shows.
OpenImport(host, output) ==
    /\ dialog = None /\ Open < MaxOpen
    /\ dialog' = [type |-> "import", id |-> None, selected |-> {}, confirming |-> FALSE,
                  preview |-> Preview(host, output, ViewRules)]
    /\ UNCHANGED <<rules, active, changes, view, plan>>

\* handle_import_key
ToggleCandidate(n) ==
    /\ InPanel /\ ~dialog.confirming
    /\ n \in Supported(dialog.preview)
    /\ dialog' = [dialog EXCEPT !.selected =
                     IF n \in @ THEN @ \ {n} ELSE @ \cup {n}]
    /\ UNCHANGED <<rules, active, changes, view, plan>>

ConfirmImport ==
    /\ InPanel
    /\ dialog.selected # {}
    /\ dialog' = [dialog EXCEPT !.confirming = ~@]
    /\ UNCHANGED <<rules, active, changes, view, plan>>

\* save_import: the names are chosen against the rules shown now, while the
\* preview is as old as the panel.
SaveImport ==
    /\ InPanel /\ dialog.confirming
    /\ \/ /\ ForwardImport(SelectedRules(dialog.preview, dialog.selected, ViewRules))
          /\ \/ dialog' = None /\ view' = Loaded(rules', active)
             \/ dialog' = [dialog EXCEPT !.confirming = FALSE] /\ UNCHANGED view
       \/ /\ dialog' = [dialog EXCEPT !.confirming = FALSE]
          /\ Refused
          /\ UNCHANGED view
    /\ UNCHANGED plan

-----------------------------------------------------------------------------
\* The command line

\* execute_import up to the preview: ForwardList, Status and ssh -G.
CliPreview(host, output) ==
    /\ plan = None /\ Open < MaxOpen
    /\ plan' = Preview(host, output, rules)
    /\ UNCHANGED <<rules, active, changes, view, dialog>>

\* --select: SettingsGet and ForwardImport.  A selection that is not supported,
\* and none, end the command.
CliImport(selected) ==
    /\ plan # None
    /\ plan' = None
    /\ \/ /\ selected # {} /\ selected \subseteq Supported(plan)
          /\ ForwardImport(SelectedRules(plan, selected, plan.existing))
       \/ Refused
    /\ UNCHANGED <<view, dialog>>

CliAdd ==
    /\ \E name \in Names, host \in Hosts, f \in Adds :
          ForwardAdd(NewRule(FreshId(1), name, host, f))
    /\ UNCHANGED <<view, dialog, plan>>

CliRemove(i) == ForwardRemove(i) /\ UNCHANGED <<view, dialog, plan>>

\* Starts and stops, also those of the daemon.
StartOrStop(i) ==
    /\ i \in IdsOf(rules)
    /\ i \in active \/ Cardinality(active) < MaxActive
    /\ active' = IF i \in active THEN active \ {i} ELSE active \cup {i}
    /\ UNCHANGED <<rules, changes, view, dialog, plan>>

\* The form of a second TUI: a stopped rule gets another address and port.
OtherReplaces(i) ==
    /\ i \in IdsOf(rules)
    /\ LET r == rules[At(rules, i)]
       IN  \E f \in Adds : ForwardAdd(NewRule(i, r.name, r.host, f))
    /\ UNCHANGED <<view, dialog, plan>>

-----------------------------------------------------------------------------

\* No rule yet, or one from an earlier session.
EditorInit ==
    /\ \/ Init
       \/ \E f \in Adds, name \in Names, host \in Hosts :
             rules = <<NewRule(CHOOSE i \in Ids : \A j \in Ids : i <= j, name, host, f)>>
    /\ active = {} /\ changes = 0
    /\ view = <<>> /\ dialog = None /\ plan = None

Form ==
    \/ \E host \in Hosts : NewForm(host)
    \/ \E n \in DOMAIN view : EditForm(n) \/ DuplicateForm(n)
    \/ Cancel \/ SubmitEdit \/ SubmitAdd \/ StartSaved \/ Refresh

Panel ==
    \/ \E host \in Hosts, output \in Outputs : OpenImport(host, output)
    \/ InPanel /\ \E n \in DOMAIN dialog.preview.forwards : ToggleCandidate(n)
    \/ ConfirmImport \/ SaveImport

Cli ==
    \/ \E host \in Hosts, output \in Outputs : CliPreview(host, output)
    \/ plan # None /\ \E selected \in SUBSET DOMAIN plan.forwards : CliImport(selected)
    \/ CliAdd
    \/ \E i \in Ids : CliRemove(i) \/ StartOrStop(i) \/ OtherReplaces(i)

EditorNext == Form \/ Panel \/ Cli

EditorSpec == EditorInit /\ [][EditorNext]_editorVars

-----------------------------------------------------------------------------
\* Properties

\* What selected_rules makes of a preview that is not outdated.
Promise(p, selected, existing) ==
    selected # {} /\ selected \subseteq Supported(p) /\ p.existing = rules /\ existing = rules
        => LET new == SelectedRules(p, selected, existing)
               all == rules \o new
           IN  /\ Valid(all)
               /\ \A n \in Len(rules) + 1 .. Len(all) : \A m \in 1 .. n - 1 :
                     ~ConflictsRule(p.host, ForwardOf(all[n]), all[m])

\* A preview keeps what it promises: as long as the rules are the ones it was
\* made of, any selection of its supported candidates is accepted by the
\* daemon's validation, as one import, under the names chosen for it, and adds
\* no listener, here or on the server, that meets another one.
ImportKeepsPromise ==
    /\ InPanel => Promise(dialog.preview, dialog.selected, ViewRules)
    /\ plan # None => \A selected \in SUBSET DOMAIN plan.forwards :
                          Promise(plan, selected, plan.existing)

\* The form shows neither host nor addresses.  When it edits an active rule it
\* changes them only with the rule's kind, even if another client gave the rule
\* new ones while the form was open.
HiddenFieldsSurvive ==
    [][InForm /\ dialog.original # None /\ dialog' = None =>
          \A n \in DOMAIN rules :
             /\ rules'[n].host = rules[n].host
             /\ rules'[n].kind = rules[n].kind =>
                   /\ rules'[n].address = rules[n].address
                   /\ rules'[n].dest = rules[n].dest]_editorVars
=============================================================================
