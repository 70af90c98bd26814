----------------------------- MODULE TuiSession ------------------------------
(***************************************************************************)
(* The terminal interface as a client of the daemon (src/tui/mod.rs): what *)
(* App shows, the keys that change rules and settings, and the requests    *)
(* each of them makes one after the other while another client of the      *)
(* daemon (src/cli/mod.rs) works on the same rules.                        *)
(*                                                                         *)
(* The daemon is reduced to the answers its requests give and the events   *)
(* it publishes; DaemonManager has the whole of it.  The forms and the      *)
(* import panel are in RuleEditor; the pages are left out.                 *)
(***************************************************************************)
EXTENDS EventHub, SequencesExt

CONSTANTS
    Ids,       \* rule identifiers
    Startable, \* bound on the rules that are started; the others stay stopped
    Settings,  \* values of the settings
    Default,   \* Settings::default()
    None       \* no rule, no dialog

ASSUME NoneAssumption == None \notin Ids /\ Default \in Settings

ASSUME IdsAssumption == IsFiniteSet(Ids)

VARIABLES
    rules,     \* State.rules: the rules' identifiers, in the file's order
    state,     \* what Status says of each rule
    settings,  \* State.settings
    unsaid,    \* changes whose event is still to be published
    view,      \* App.rules
    selected,  \* App.selected_rule, from 1
    selectedId,\* App.selected_id
    shown,     \* App.settings
    pc,        \* the request the main loop is in
    listed,    \* the answer to ForwardList, until Status is answered
    target,    \* the rule the requests are about
    confirm    \* App.confirm_delete

daemonVars == <<rules, state, settings, unsaid>>
rowVars == <<view, selected, selectedId>>
appVars == <<rowVars, shown, pc, listed, target, confirm>>
vars == <<daemonVars, appVars, hubVars>>

-----------------------------------------------------------------------------
\* The daemon's side of the requests

\* The rule in its place, or at the end.
ForwardAdd(i) ==
    /\ rules' = IF Contains(rules, i) THEN rules ELSE Append(rules, i)
    /\ Publish
    /\ UNCHANGED <<state, settings, unsaid, notices>>

RemoveAccepted(i) == Contains(rules, i) /\ state[i] = "stopped"

ForwardRemove(i) ==
    /\ rules' = RemoveAt(rules, CHOOSE n \in DOMAIN rules : rules[n] = i)
    /\ Publish
    /\ UNCHANGED <<state, settings, unsaid, notices>>

\* Status: stopped is a rule without an entry in State.running.
States == {"stopped", "starting", "active", "reconnecting", "failed"}

\* A change whose event follows when the lock is released,
Told(i, s) ==
    /\ state' = [state EXCEPT ![i] = s]
    /\ unsaid' = unsaid + 1
    /\ UNCHANGED <<rules, settings, hubVars>>

\* and one of which no client is told.
Untold(i, s) ==
    /\ state' = [state EXCEPT ![i] = s]
    /\ missed' = TRUE
    /\ UNCHANGED <<rules, settings, unsaid, sequence, stream, queued, notices>>

\* The Starting marker.  It has no event; the end of the attempt may have one.
Begin(i) ==
    /\ state' = [state EXCEPT ![i] = "starting"]
    /\ UNCHANGED <<rules, settings, unsaid, hubVars>>

StartAccepted(i) == Contains(rules, i) /\ state[i] \in {"stopped", "failed"}

\* start_inner drops a Failed entry before it looks at the port.
StartFindsPortBusy(i) == StartAccepted(i) /\ state[i] = "failed" /\ Untold(i, "stopped")

ForwardStart(i) == StartAccepted(i) /\ (Begin(i) \/ StartFindsPortBusy(i))

AttemptAccepted(i) == state[i] = "starting" /\ Told(i, "active")

\* A failure that is retried has an event.  One that is not has none, whoever
\* asked for the start; after the restart of an edit the rule is stopped.
AttemptFails(i) ==
    /\ state[i] = "starting"
    /\ Told(i, "reconnecting") \/ Untold(i, "failed") \/ Untold(i, "stopped")

StopAccepted(i) == Contains(rules, i)

\* The event follows when the attempt has ended.
ForwardStop(i) ==
    IF state[i] = "stopped" THEN UNCHANGED <<daemonVars, hubVars>> ELSE Told(i, "stopped")

\* The attempt could not be ended: the rule reads stopped and nobody is told.
ForwardStopFails(i) == state[i] = "active" /\ Untold(i, "stopped")

SettingsUpdate(s) ==
    /\ settings' = s
    /\ Publish
    /\ UNCHANGED <<rules, state, unsaid, notices>>

\* No new request of a client and no change of the daemon's own once there
\* were that many events; what is under way goes on.
MayAct == sequence + unsaid < MaxEvents

\* What start_attempt returned, to a client, the supervisor or an edit.
AttemptEnds(i) ==
    /\ AttemptAccepted(i) \/ AttemptFails(i)
    /\ UNCHANGED appVars

\* maintain: the attempt has ended by itself.  An edit that cannot end it leaves
\* the rule failed too, with the same event.
AttemptExits(i) ==
    /\ MayAct
    /\ state[i] = "active"
    /\ Told(i, "reconnecting") \/ Told(i, "failed")
    /\ UNCHANGED appVars

\* maintain: a due retry begins, or is dropped since its port is taken or a stop
\* or an edit came in between.  (For that moment the rule has no entry; here the
\* two are one step, and what follows it is the same.)
RetryIsDue(i) ==
    /\ MayAct
    /\ state[i] = "reconnecting"
    /\ Begin(i) \/ Untold(i, "stopped")
    /\ UNCHANGED appVars

\* start, stop and maintain publish when they have released the lock.
Announce ==
    /\ unsaid > 0
    /\ unsaid' = unsaid - 1
    /\ Publish
    /\ UNCHANGED <<rules, state, settings, notices, appVars>>

-----------------------------------------------------------------------------
\* App

Shown(v) == {v[n].id : n \in DOMAIN v}

ClampSelection(v) ==  \* faulty: the row number is kept, not the rule
    LET at == IF selected > Len(v) THEN (IF v = <<>> THEN 1 ELSE Len(v)) ELSE selected
    IN  /\ view' = v
        /\ selected' = at
        /\ selectedId' = IF v = <<>> THEN None ELSE v[at].id

\* The highlighted rule stays highlighted; if it is gone, the row does.
ReplaceRules(v) ==
    LET at == IF selectedId \in Shown(v) THEN CHOOSE n \in DOMAIN v : v[n].id = selectedId
              ELSE IF selected <= Len(v) THEN selected
              ELSE IF v = <<>> THEN 1 ELSE Len(v)
    IN  /\ view' = v
        /\ selected' = at
        /\ selectedId' = IF v = <<>> THEN None ELSE v[at].id

\* What the main loop does after a request that succeeded, or failed.
AfterOk ==
    [list |-> "status", status |-> "settings", settings |-> "idle",
     delete_stop |-> "delete_remove", delete_remove |-> "list",
     check_list |-> "check_status", check_status |-> "idle",
     toggle_start |-> "list", await_start |-> "list", toggle_stop |-> "list",
     save |-> "idle"]

AfterError ==
    [list |-> "settings", status |-> "settings", settings |-> "idle",
     delete_stop |-> "list", delete_remove |-> "check_list",
     check_list |-> "idle", check_status |-> "idle",
     toggle_start |-> "idle", await_start |-> "idle", toggle_stop |-> "idle",
     save |-> "idle"]

Go(outcome) ==
    /\ pc' = IF outcome = "ok" THEN AfterOk[pc] ELSE AfterError[pc]
    /\ target' = IF pc' \in {"idle", "list"} THEN None ELSE target

-----------------------------------------------------------------------------
\* The requests, one step of the daemon each, or CallFails.

LoadList ==
    /\ pc \in {"list", "check_list"}
    /\ listed' = rules
    /\ missed' = (missed /\ pc # "list")
    /\ Go("ok")
    /\ UNCHANGED <<daemonVars, rowVars, shown, confirm, sequence, stream, queued, notices>>

\* apply_runtime_status wants a state for every rule that was listed.
LoadStatus ==
    /\ pc \in {"status", "check_status"}
    /\ IF ToSet(listed) \subseteq ToSet(rules)
       THEN /\ ReplaceRules([n \in DOMAIN listed |->
                                [id |-> listed[n], state |-> state[listed[n]]]])
            /\ Go("ok")
       ELSE /\ Go("error")
            /\ UNCHANGED rowVars
    /\ listed' = <<>>
    /\ UNCHANGED <<daemonVars, shown, confirm, hubVars>>

LoadSettingsDraining ==  \* faulty: notices of the refresh's duration are dropped
    /\ pc = "settings"
    /\ shown' = settings
    /\ notices' = 0
    /\ Go("ok")
    /\ UNCHANGED <<daemonVars, rowVars, listed, confirm, sequence, stream, queued, missed>>

LoadSettings ==
    /\ pc = "settings"
    /\ shown' = settings
    /\ Go("ok")
    /\ UNCHANGED <<daemonVars, rowVars, listed, confirm, hubVars>>

\* An applied stop may be answered too late, by CallFails' error.
StopRule ==
    /\ pc \in {"delete_stop", "toggle_stop"}
    /\ StopAccepted(target)
    /\ \/ ForwardStop(target) /\ (Go("ok") \/ Go("error"))
       \/ ForwardStopFails(target) /\ Go("error")
    /\ UNCHANGED <<rowVars, shown, listed, confirm>>

\* A save may be applied and reported as uncertain.
RemoveRule ==
    /\ pc = "delete_remove"
    /\ IF RemoveAccepted(target)
       THEN ForwardRemove(target) /\ (Go("ok") \/ Go("error"))
       ELSE Go("error") /\ UNCHANGED <<daemonVars, hubVars>>
    /\ UNCHANGED <<rowVars, shown, listed, confirm>>

\* The start of a rule that has an entry already changes nothing and succeeds.
StartRule ==
    /\ pc = "toggle_start"
    /\ \/ /\ StartAccepted(target)
          /\ Begin(target)
          /\ pc' = "await_start"
          /\ UNCHANGED target
       \/ StartFindsPortBusy(target) /\ Go("error")
       \/ /\ Contains(rules, target) /\ ~StartAccepted(target)
          /\ Go("ok")
          /\ UNCHANGED <<daemonVars, hubVars>>
    /\ UNCHANGED <<rowVars, shown, listed, confirm>>

\* The start succeeds if its attempt was accepted, or discarded because of a
\* stop, and is an error if it failed; by then the rule may be in any state
\* again.  After an error the TUI shows a message and reads nothing.
AwaitStart ==
    /\ pc = "await_start"
    /\ state[target] # "starting"
    /\ Go("ok") \/ Go("error")
    /\ UNCHANGED <<daemonVars, rowVars, shown, listed, confirm, hubVars>>

\* save_settings; on an error the old settings are shown again, although an
\* uncertain save has been applied.
SaveSettings(s) ==
    /\ pc = "save"
    /\ SettingsUpdate(s)
    /\ shown' \in {shown, s}
    /\ Go("ok")
    /\ UNCHANGED <<rowVars, listed, confirm>>

\* The daemon refuses without changing anything, does not answer, or not in
\* time: an error, whatever the request.
CallFails ==
    /\ pc # "idle"
    /\ Go("error")
    /\ missed' = (missed \/ pc \in {"list", "status", "settings"})
    /\ UNCHANGED <<daemonVars, rowVars, shown, listed, confirm, sequence, stream, queued, notices>>

-----------------------------------------------------------------------------
\* handle_key and handle_mouse, while no request is under way

Idle == pc = "idle" /\ stream # "unstarted"

Selected == view[selected]

\* Arrow keys, the wheel and a click; not while a dialog is open.
Select(n) ==
    /\ Idle
    /\ confirm = None
    /\ n \in DOMAIN view /\ n # selected
    /\ selected' = n
    /\ selectedId' = view[n].id
    /\ UNCHANGED <<daemonVars, view, shown, pc, listed, target, confirm, hubVars>>

AskToDelete ==
    /\ Idle
    /\ confirm = None
    /\ view # <<>>
    /\ confirm' = [id |-> Selected.id, stopFirst |-> Selected.state # "stopped"]
    /\ UNCHANGED <<daemonVars, rowVars, shown, pc, listed, target, hubVars>>

\* y or n.
AnswerDelete ==
    /\ Idle
    /\ confirm # None
    /\ confirm' = None
    /\ \/ UNCHANGED <<pc, target>>
       \/ /\ MayAct
          /\ target' = confirm.id
          /\ pc' = IF confirm.stopFirst THEN "delete_stop" ELSE "delete_remove"
    /\ UNCHANGED <<daemonVars, rowVars, shown, listed, hubVars>>

\* Space.
Toggle ==
    /\ Idle /\ MayAct
    /\ confirm = None
    /\ view # <<>>
    /\ Selected.id \in Startable
    /\ target' = Selected.id
    /\ pc' = IF Selected.state = "stopped" THEN "toggle_start" ELSE "toggle_stop"
    /\ UNCHANGED <<daemonVars, rowVars, shown, listed, confirm,
                   hubVars>>

ChangeSettings ==
    /\ Idle /\ MayAct
    /\ confirm = None
    /\ pc' = "save"
    /\ UNCHANGED <<daemonVars, rowVars, shown, listed, target, confirm, hubVars>>

TakeNoticeLater ==  \* faulty: dialogs are not refreshed
    /\ Idle
    /\ confirm = None
    /\ notices > 0
    /\ notices' = notices - 1
    /\ pc' = "list"
    /\ UNCHANGED <<daemonVars, rowVars, shown, listed, target, confirm, sequence, stream, queued, missed>>

\* run_loop looks for a notice before it waits for a key, and refreshes.
TakeNotice ==
    /\ Idle
    /\ notices > 0
    /\ notices' = notices - 1
    /\ pc' = "list"
    /\ UNCHANGED <<daemonVars, rowVars, shown, listed, target, confirm, sequence, stream, queued, missed>>

-----------------------------------------------------------------------------
\* Another client: forward add, remove, start and stop, settings, and the
\* form of a second TUI, which writes back a rule whatever became of it.  The
\* edit of an active rule is a stop, an addition in its place and a start.

OtherAdds(i) ==
    /\ ~Contains(rules, i) \/ state[i] = "stopped"
    /\ ForwardAdd(i)

OtherRemoves(i) == RemoveAccepted(i) /\ ForwardRemove(i)

OtherStarts(i) == i \in Startable /\ ForwardStart(i)

OtherStops(i) == StopAccepted(i) /\ (ForwardStop(i) \/ ForwardStopFails(i))

\* update_settings reads the settings, changes some and writes all of them.
OtherSettings(s) == s # settings /\ SettingsUpdate(s)

OtherClient ==
    /\ MayAct
    /\ \/ \E i \in Ids :
             OtherAdds(i) \/ OtherRemoves(i) \/ OtherStarts(i) \/ OtherStops(i)
       \/ \E s \in Settings : OtherSettings(s)
    /\ UNCHANGED appVars

-----------------------------------------------------------------------------

\* run() loads rules and settings before the main loop starts.
Init ==
    /\ rules = SetToSeq(Ids)
    /\ state \in {s \in [Ids -> States] : \A i \in Ids \ Startable : s[i] = "stopped"}
    /\ settings \in Settings
    /\ unsaid = 0
    /\ view = <<>> /\ selected = 1 /\ selectedId = None
    /\ shown = Default
    /\ pc = "list" /\ listed = <<>> /\ target = None
    /\ confirm = None
    /\ sequence = 0 /\ stream = "unstarted" /\ queued = 0 /\ notices = 0
    /\ missed = TRUE

Request ==
    \/ LoadList \/ LoadStatus \/ LoadSettings \/ StopRule \/ RemoveRule
    \/ StartRule \/ AwaitStart
    \/ \E s \in Settings \ {shown} : SaveSettings(s)
    \/ CallFails

User ==
    \/ \E n \in 1 .. Len(view) : Select(n)
    \/ AskToDelete \/ AnswerDelete
    \/ Toggle \/ ChangeSettings

Stream ==
    \/ pc = "idle" /\ SpawnSubscription
    \/ Subscribe \/ ReadEvent \/ CloseDropped

StreamStep == Stream /\ UNCHANGED <<daemonVars, appVars>>

StreamEnds == (ReadTimesOut \/ StreamBreaks) /\ UNCHANGED <<daemonVars, appVars>>

Next ==
    \/ Request \/ User \/ TakeNotice \/ StreamStep \/ StreamEnds
    \/ OtherClient \/ Announce
    \/ \E i \in Ids : AttemptEnds(i) \/ AttemptExits(i) \/ RetryIsDue(i)

Spec == Init /\ [][Next]_vars

\* Requests are answered and threads run.  The main loop looks at the channel
\* between any two keys, so that keys cannot keep it from a notice.
Fairness ==
    /\ WF_vars(Request)
    /\ WF_vars(StreamStep)
    /\ WF_vars(Announce)
    /\ SF_vars(TakeNotice)

FairSpec == Spec /\ Fairness

-----------------------------------------------------------------------------
\* Properties

\* The view shows the rules, their states and the settings.  A rule that is
\* starting is shown as such or as it was before: its marker has no event.
Current ==
    /\ shown = settings
    /\ DOMAIN view = DOMAIN rules
    /\ \A n \in DOMAIN view :
          /\ view[n].id = rules[n]
          /\ state[rules[n]] \in {view[n].state, "starting"}

\* While its subscription lives, a TUI at rest that does not show the daemon's
\* state is about to be told: no change slips between the two requests of a
\* refresh, between a notice taken and the refresh it causes, or between a
\* change and its event, published after the lock is released.  The exceptions
\* are what happened before the hub knew the subscriber, a refresh that got no
\* answer, and what the daemon tells nobody: a start or a retry that fails for
\* good, a Failed rule that is not started since its port is taken, a retry
\* dropped for the same reason, a failed restart of an edit, a failed stop.
StaleViewHasNotice ==
    pc = "idle" /\ stream = "live" /\ ~missed /\ ~Current
        => notices + queued + unsaid > 0

\* The highlighted rule stays highlighted through every refresh that still
\* lists it, whatever other clients add, remove or reorder: the next key means
\* the rule the user was looking at.
SelectionFollowsRule ==
    [][view' # view /\ selectedId \in Shown(view')
          => view'[selected'].id = selectedId]_vars

\* A TUI whose subscription lives on, and which has missed nothing, comes to
\* show what the daemon has, again and again.
ViewCatchesUp ==
    <>[](stream = "live" /\ ~missed) => []<>Current

\* docs/architecture.md: a subscriber is removed when its queue fills or its
\* socket disconnects.
SubscriptionLasts ==
    [][stream = "live" /\ stream' # "live" => stream' \in {"dropped", "lost"}]_vars
=============================================================================
