-------------------------- MODULE TuiSessionProofs ---------------------------
(***************************************************************************)
(* Theorems about TuiSession, for any rules, settings and capacity of the  *)
(* queue, however many events there are: a stale view is about to be       *)
(* refreshed, and a refresh keeps the highlighted rule.                    *)
(***************************************************************************)
EXTENDS TuiSession, FiniteSetTheorems, SequenceTheorems, TLAPS

Types ==
    /\ notices \in Nat /\ queued \in Nat /\ unsaid \in Nat
    /\ rules \in Seq(Ids)
    /\ state \in [Ids -> States]
    /\ pc \in DOMAIN AfterOk \cup {"idle"}

\* Nothing is on its way to the TUI, and nothing has passed it by.
NothingToTell ==
    /\ stream \in {"unstarted", "asked", "live"}
    /\ ~missed
    /\ notices = 0 /\ queued = 0 /\ unsaid = 0

RowsCurrent ==
    /\ DOMAIN view = DOMAIN rules
    /\ \A n \in DOMAIN view :
          /\ view[n].id = rules[n]
          /\ state[rules[n]] \in {view[n].state, "starting"}

\* How much of the view is the daemon's tells how far a refresh is: nothing
\* need be when it begins, everything is outside of one.
ViewInv ==
    NothingToTell =>
        /\ pc \in {"status", "check_status"} => listed = rules
        /\ pc \notin {"list", "status"} => RowsCurrent
        /\ pc \notin {"list", "status", "settings"} => shown = settings

IInv == Types /\ ViewInv

-----------------------------------------------------------------------------

\* The next request is one that App makes.
LEMMA GoIsTyped ==
    ASSUME NEW outcome, pc \in DOMAIN AfterOk, Go(outcome)
    PROVE  pc' \in DOMAIN AfterOk \cup {"idle"}
BY DEF Go, AfterOk, AfterError

\* A rule is removed.
LEMMA RulesAreTyped ==
    ASSUME rules \in Seq(Ids), NEW i, RemoveAccepted(i), ForwardRemove(i)
    PROVE  rules' \in Seq(Ids)
  <1>1. ASSUME NEW n \in 1 .. Len(rules) PROVE RemoveAt(rules, n) \in Seq(Ids)
    <2>. n \in Int /\ Len(rules) \in Int /\ \A k \in 1 .. Len(rules) : rules[k] \in Ids
      OBVIOUS
    <2>1. SubSeq(rules, 1, n - 1) \in Seq(Ids)
      <3>1. 1 \in Int /\ n - 1 \in Int /\ \A k \in 1 .. n - 1 : rules[k] \in Ids
        OBVIOUS
      <3> QED
        BY <3>1, SubSeqProperties, ZenonT(30)
    <2>2. SubSeq(rules, n + 1, Len(rules)) \in Seq(Ids)
      <3>1. n + 1 \in Int /\ \A k \in n + 1 .. Len(rules) : rules[k] \in Ids
        OBVIOUS
      <3> QED
        BY <3>1, SubSeqProperties, ZenonT(30)
    <2> QED
      BY <2>1, <2>2, ConcatProperties DEF RemoveAt
  <1> QED
    BY <1>1 DEF RemoveAccepted, Contains, ForwardRemove

\* An event is on its way to the subscriber, or has passed it by.
LEMMA PublishTells ==
    ASSUME queued \in Nat, Publish
    PROVE  /\ queued' \in Nat
           /\ stream' \notin {"unstarted", "asked", "live"} \/ missed' \/ queued' > 0
BY DEF Publish

\* What a request or the supervisor may do to the state of a rule.
Changes(i) ==
    \/ \E s \in States : Told(i, s) \/ Untold(i, s)
    \/ Begin(i)
    \/ UNCHANGED <<daemonVars, hubVars>>

LEMMA DaemonChanges ==
    ASSUME NEW i,
           \/ ForwardStart(i) \/ StartFindsPortBusy(i)
           \/ AttemptAccepted(i) \/ AttemptFails(i)
           \/ ForwardStop(i) \/ ForwardStopFails(i)
           \/ AttemptExits(i) \/ RetryIsDue(i)
    PROVE  Changes(i)
BY DEF ForwardStart, StartFindsPortBusy, AttemptAccepted, AttemptFails, ForwardStop,
       ForwardStopFails, AttemptExits, RetryIsDue, Changes, States

LEMMA ChangesTyped ==
    ASSUME IInv, NEW i, Changes(i), pc' \in DOMAIN AfterOk \cup {"idle"}
    PROVE  Types'
  <1>1. CASE \E s \in States : Told(i, s) \/ Untold(i, s)
    BY <1>1 DEF Told, Untold, IInv, Types, hubVars
  <1>2. CASE Begin(i)
    BY <1>2 DEF Begin, States, IInv, Types, hubVars
  <1>3. CASE UNCHANGED <<daemonVars, hubVars>>
    BY <1>3 DEF IInv, Types, daemonVars, hubVars
  <1> QED
    BY <1>1, <1>2, <1>3 DEF Changes

LEMMA EventTells ==
    ASSUME IInv,
           Publish /\ UNCHANGED notices /\ unsaid' \in Nat
    PROVE  ~NothingToTell' /\ queued' \in Nat
BY PublishTells DEF IInv, Types, NothingToTell

-----------------------------------------------------------------------------

LEMMA InitIInv == Init => IInv
  <1>1. SetToSeq(Ids) \in Seq(Ids)
    <2>1. /\ Cardinality(Ids) \in Nat
          /\ ExistsBijection(1 .. Cardinality(Ids), Ids)
      BY IdsAssumption, FS_CardinalityType
    <2>2. \E f \in [1 .. Cardinality(Ids) -> Ids] : IsInjective(f)
      BY <2>1 DEF ExistsBijection, Bijection, Injection
    <2>3. SetToSeq(Ids) \in [1 .. Cardinality(Ids) -> Ids]
      BY <2>2 DEF SetToSeq
    <2> QED
      BY <2>1, <2>3
  <1> QED
    BY <1>1 DEF Init, IInv, Types, ViewInv, NothingToTell, AfterOk

LEMMA NextTypes == IInv /\ [Next]_vars => Types'
  <1> SUFFICES ASSUME IInv, [Next]_vars PROVE Types'
    OBVIOUS
  <1> USE DEF IInv, Types
  <1>1. CASE LoadList
    BY <1>1, GoIsTyped DEF LoadList, AfterOk, daemonVars
  <1>2. CASE LoadStatus
    BY <1>2, GoIsTyped DEF LoadStatus, AfterOk, daemonVars, hubVars
  <1>3. CASE LoadSettings
    BY <1>3, GoIsTyped DEF LoadSettings, AfterOk, daemonVars, hubVars
  <1>4. CASE StopRule
    <2>1. pc' \in DOMAIN AfterOk \cup {"idle"}
      BY <1>4, GoIsTyped DEF StopRule, AfterOk
    <2> QED
      BY <1>4, <2>1, DaemonChanges, ChangesTyped DEF StopRule
  <1>5. CASE RemoveRule
    <2>1. pc' \in DOMAIN AfterOk \cup {"idle"}
      BY <1>5, GoIsTyped DEF RemoveRule, AfterOk
    <2>2. CASE RemoveAccepted(target) /\ ForwardRemove(target)
      <3>1. rules' \in Seq(Ids)
        BY <2>2, RulesAreTyped
      <3> QED
        BY <2>1, <2>2, <3>1, PublishTells DEF ForwardRemove
    <2>3. CASE UNCHANGED <<daemonVars, hubVars>>
      BY <2>1, <2>3 DEF daemonVars, hubVars
    <2> QED
      BY <1>5, <2>2, <2>3 DEF RemoveRule
  <1>6. CASE StartRule
    <2>1. pc' \in DOMAIN AfterOk \cup {"idle"}
      BY <1>6, GoIsTyped DEF StartRule, AfterOk
    <2>2. Changes(target)
      BY <1>6, DaemonChanges DEF StartRule, Changes
    <2> QED
      BY <2>1, <2>2, ChangesTyped
  <1>7. ASSUME NEW s \in Settings, SaveSettings(s) PROVE Types'
    <2>1. pc' \in DOMAIN AfterOk \cup {"idle"}
      BY <1>7, GoIsTyped DEF SaveSettings, AfterOk
    <2> QED
      BY <1>7, <2>1, PublishTells DEF SaveSettings, SettingsUpdate
  <1>8. CASE CallFails
    BY <1>8, GoIsTyped DEF CallFails, daemonVars
  <1>9. CASE AwaitStart
    BY <1>9, GoIsTyped DEF AwaitStart, AfterOk, daemonVars, hubVars
  <1>10. CASE User
    BY <1>10 DEF User, Select, AskToDelete, AnswerDelete, Toggle, ChangeSettings,
                 AfterOk, daemonVars, hubVars
  <1>11. CASE TakeNotice
    BY <1>11 DEF TakeNotice, AfterOk, daemonVars
  <1>12. CASE StreamStep
    BY <1>12 DEF StreamStep, Stream, SpawnSubscription, Subscribe, ReadEvent, CloseDropped,
                 daemonVars, appVars
  <1>13. CASE StreamEnds
    BY <1>13 DEF StreamEnds, ReadTimesOut, StreamBreaks, daemonVars, appVars
  <1>14. CASE OtherClient
    <2>1. UNCHANGED pc
      BY <1>14 DEF OtherClient, appVars
    <2>2. ASSUME NEW i \in Ids, OtherAdds(i) \/ OtherRemoves(i) PROVE Types'
      <3>1. CASE OtherAdds(i)
        BY <2>1, <3>1, PublishTells DEF OtherAdds, ForwardAdd
      <3>2. CASE OtherRemoves(i)
        <4>1. rules' \in Seq(Ids)
          BY <3>2, RulesAreTyped DEF OtherRemoves
        <4> QED
          BY <2>1, <3>2, <4>1, PublishTells DEF OtherRemoves, ForwardRemove
      <3> QED
        BY <2>2, <3>1, <3>2
    <2>3. ASSUME NEW i \in Ids, OtherStarts(i) \/ OtherStops(i) PROVE Types'
      BY <2>1, <2>3, DaemonChanges, ChangesTyped DEF OtherStarts, OtherStops
    <2>4. ASSUME NEW s \in Settings, OtherSettings(s) PROVE Types'
      BY <2>1, <2>4, PublishTells DEF OtherSettings, SettingsUpdate
    <2> QED
      BY <1>14, <2>2, <2>3, <2>4 DEF OtherClient
  <1>15. CASE Announce
    BY <1>15, PublishTells DEF Announce, appVars
  <1>16. ASSUME NEW i \in Ids, AttemptEnds(i) \/ AttemptExits(i) \/ RetryIsDue(i)
         PROVE  Types'
    <2>1. Changes(i)
      BY <1>16, DaemonChanges DEF AttemptEnds
    <2>2. UNCHANGED pc
      BY <1>16 DEF AttemptEnds, AttemptExits, RetryIsDue, appVars
    <2> QED
      BY <2>1, <2>2, ChangesTyped
  <1>17. CASE UNCHANGED vars
    BY <1>17 DEF vars, daemonVars, appVars, hubVars
  <1> QED
    BY <1>1, <1>2, <1>3, <1>4, <1>5, <1>6, <1>7, <1>8, <1>9, <1>10, <1>11, <1>12, <1>13,
       <1>14, <1>15, <1>16, <1>17 DEF Next, Request

\* A step that leaves the view alone, changes of the daemon no more than that a
\* rule is starting, and ends no refresh.
LEMMA ViewKept ==
    ASSUME IInv,
           UNCHANGED <<rules, settings, rowVars, shown>>,
           UNCHANGED state \/ \E i : state' = [state EXCEPT ![i] = "starting"],
           NothingToTell' => NothingToTell,
           \/ UNCHANGED <<pc, listed>>
           \/ pc' = "list"
           \/ /\ pc \notin {"list", "status", "settings"}
              /\ pc' \notin {"status", "check_status"}
    PROVE  ViewInv'
  <1>1. \A n \in DOMAIN rules : state'[rules[n]] \in {state[rules[n]], "starting"}
    BY DEF IInv, Types
  <1>2. RowsCurrent => RowsCurrent'
    BY <1>1 DEF RowsCurrent, rowVars
  <1> QED
    BY <1>2 DEF IInv, Types, ViewInv

\* A change of a rule's state tells, unless it is the beginning of a start.
LEMMA ChangesTell ==
    ASSUME IInv, NEW i, Changes(i),
           UNCHANGED <<rowVars, shown>>,
           \/ UNCHANGED <<pc, listed>>
           \/ pc' = "list"
           \/ /\ pc \notin {"list", "status", "settings"}
              /\ pc' \notin {"status", "check_status"}
    PROVE  ViewInv'
  <1>1. CASE \E s \in States : Told(i, s) \/ Untold(i, s)
    <2>1. ~NothingToTell'
      BY <1>1 DEF Told, Untold, NothingToTell, IInv, Types, hubVars
    <2> QED
      BY <2>1 DEF ViewInv
  <1>2. CASE Begin(i)
    <2>1. state' = [state EXCEPT ![i] = "starting"] /\ UNCHANGED <<rules, settings>>
      BY <1>2 DEF Begin
    <2>2. NothingToTell' => NothingToTell
      BY <1>2 DEF Begin, NothingToTell, hubVars
    <2> QED
      BY <2>1, <2>2, ViewKept
  <1>3. CASE UNCHANGED <<daemonVars, hubVars>>
    BY <1>3, ViewKept DEF NothingToTell, daemonVars, hubVars
  <1> QED
    BY <1>1, <1>2, <1>3 DEF Changes

LEMMA NextViewInv == IInv /\ [Next]_vars => ViewInv'
  <1> SUFFICES ASSUME IInv, [Next]_vars PROVE ViewInv'
    OBVIOUS
  <1> USE DEF IInv
  <1>1. CASE LoadList
    <2>1. CASE pc = "list"
      BY <1>1, <2>1 DEF LoadList, Go, AfterOk, ViewInv, daemonVars
    <2>2. CASE pc = "check_list"
      BY <1>1, <2>2
         DEF LoadList, Go, AfterOk, ViewInv, NothingToTell, RowsCurrent, daemonVars, rowVars
    <2> QED
      BY <1>1, <2>1, <2>2 DEF LoadList
  <1>2. CASE LoadStatus
    <2> SUFFICES ASSUME NothingToTell, listed = rules PROVE ViewInv'
      BY <1>2 DEF LoadStatus, ViewInv, NothingToTell, daemonVars, hubVars
    <2>1. Go("ok")
          /\ ReplaceRules([n \in DOMAIN listed |->
                             [id |-> listed[n], state |-> state[listed[n]]]])
      BY <1>2 DEF LoadStatus
    <2>2. view' = [n \in DOMAIN rules |-> [id |-> rules[n], state |-> state[rules[n]]]]
      BY <2>1 DEF ReplaceRules
    <2>3. RowsCurrent'
      BY <1>2, <2>2 DEF LoadStatus, RowsCurrent, daemonVars
    <2>4. \/ pc = "status" /\ pc' = "settings"
          \/ pc = "check_status" /\ pc' = "idle"
      BY <1>2, <2>1 DEF LoadStatus, Go, AfterOk
    <2>5. pc = "check_status" => shown' = settings'
      BY <1>2 DEF LoadStatus, ViewInv, daemonVars
    <2> QED
      BY <2>3, <2>4, <2>5 DEF ViewInv
  <1>3. CASE LoadSettings
    BY <1>3 DEF LoadSettings, Go, AfterOk, ViewInv, NothingToTell, RowsCurrent,
                daemonVars, rowVars, hubVars
  <1>4. CASE StopRule
    <2>1. /\ UNCHANGED <<rowVars, shown>>
          /\ pc \in {"delete_stop", "toggle_stop"}
          /\ pc' \in {"delete_remove", "list", "idle"}
      BY <1>4 DEF StopRule, Go, AfterOk, AfterError
    <2>2. Changes(target)
      BY <1>4, DaemonChanges DEF StopRule
    <2> QED
      BY <2>1, <2>2, ChangesTell
  <1>5. CASE RemoveRule
    <2>1. /\ UNCHANGED <<rowVars, shown>>
          /\ pc = "delete_remove"
          /\ pc' \in {"list", "check_list"}
      BY <1>5 DEF RemoveRule, Go, AfterOk, AfterError
    <2>2. CASE ForwardRemove(target)
      BY <2>2, EventTells DEF ForwardRemove, Types, ViewInv
    <2>3. CASE UNCHANGED <<daemonVars, hubVars>>
      BY <2>1, <2>3, ViewKept DEF NothingToTell, daemonVars, hubVars
    <2> QED
      BY <1>5, <2>2, <2>3 DEF RemoveRule
  <1>6. CASE StartRule
    <2>1. /\ UNCHANGED <<rowVars, shown>>
          /\ pc = "toggle_start"
          /\ pc' \in {"list", "idle", "await_start"}
      BY <1>6 DEF StartRule, Go, AfterOk, AfterError
    <2>2. Changes(target)
      BY <1>6, DaemonChanges DEF StartRule, Changes
    <2> QED
      BY <2>1, <2>2, ChangesTell
  <1>7. ASSUME NEW s \in Settings, SaveSettings(s) PROVE ViewInv'
    BY <1>7, EventTells DEF SaveSettings, SettingsUpdate, Types, ViewInv
  <1>8. CASE CallFails
    <2>1. CASE pc \in {"list", "status", "settings"}
      BY <1>8, <2>1 DEF CallFails, NothingToTell, ViewInv
    <2>2. CASE pc \notin {"list", "status", "settings"}
      <3>1. pc' \in {"list", "idle", "check_list"}
        BY <1>8, <2>2 DEF CallFails, Go, AfterOk, AfterError, Types
      <3> QED
        BY <1>8, <2>2, <3>1, ViewKept DEF CallFails, NothingToTell, daemonVars
    <2> QED
      BY <2>1, <2>2
  <1>9. CASE AwaitStart
    <2>1. pc = "await_start" /\ pc' \in {"list", "idle"}
      BY <1>9 DEF AwaitStart, Go, AfterOk, AfterError
    <2> QED
      BY <1>9, <2>1, ViewKept DEF AwaitStart, NothingToTell, daemonVars, hubVars
  <1>10. CASE User
    BY <1>10 DEF User, Select, AskToDelete, AnswerDelete, Toggle, ChangeSettings, Idle,
                 ViewInv, NothingToTell, RowsCurrent, daemonVars, rowVars, hubVars
  <1>11. CASE TakeNotice
    BY <1>11 DEF TakeNotice, ViewInv
  <1>12. CASE StreamStep
    <2>1. UNCHANGED <<daemonVars, rowVars, shown, pc, listed>>
      BY <1>12 DEF StreamStep, appVars
    <2>2. NothingToTell' => NothingToTell
      BY <1>12, <2>1 DEF StreamStep, Stream, SpawnSubscription, Subscribe, ReadEvent,
                         CloseDropped, NothingToTell, Types, daemonVars
    <2> QED
      BY <2>1, <2>2, ViewKept DEF daemonVars
  <1>13. CASE StreamEnds
    BY <1>13 DEF StreamEnds, ReadTimesOut, StreamBreaks, NothingToTell, ViewInv
  <1>14. CASE OtherClient
    <2>1. UNCHANGED appVars
      BY <1>14 DEF OtherClient
    <2>2. ASSUME NEW i \in Ids, OtherAdds(i) \/ OtherRemoves(i) PROVE ViewInv'
      BY <2>2, EventTells DEF OtherAdds, OtherRemoves, ForwardAdd, ForwardRemove, Types, ViewInv
    <2>3. ASSUME NEW i \in Ids, OtherStarts(i) \/ OtherStops(i) PROVE ViewInv'
      <3>1. Changes(i)
        BY <2>3, DaemonChanges DEF OtherStarts, OtherStops
      <3> QED
        BY <2>1, <3>1, ChangesTell DEF appVars
    <2>4. ASSUME NEW s \in Settings, OtherSettings(s) PROVE ViewInv'
      BY <2>4, EventTells DEF OtherSettings, SettingsUpdate, Types, ViewInv
    <2> QED
      BY <1>14, <2>2, <2>3, <2>4 DEF OtherClient
  <1>15. CASE Announce
    BY <1>15, EventTells DEF Announce, Types, ViewInv
  <1>16. ASSUME NEW i \in Ids, AttemptEnds(i) \/ AttemptExits(i) \/ RetryIsDue(i)
         PROVE  ViewInv'
    <2>1. Changes(i)
      BY <1>16, DaemonChanges DEF AttemptEnds
    <2>2. UNCHANGED appVars
      BY <1>16 DEF AttemptEnds, AttemptExits, RetryIsDue
    <2> QED
      BY <2>1, <2>2, ChangesTell DEF appVars
  <1>17. CASE UNCHANGED vars
    BY <1>17, ViewKept DEF vars, NothingToTell, appVars, daemonVars, hubVars
  <1> QED
    BY <1>1, <1>2, <1>3, <1>4, <1>5, <1>6, <1>7, <1>8, <1>9, <1>10, <1>11, <1>12, <1>13,
       <1>14, <1>15, <1>16, <1>17 DEF Next, Request

-----------------------------------------------------------------------------

\* The invariant: between two refreshes the view is the daemon's unless the TUI
\* is about to be told, and during one the part that has been read is.
THEOREM TuiInvariant == Spec => []IInv
  <1>1. IInv /\ [Next]_vars => IInv'
    BY NextTypes, NextViewInv DEF IInv
  <1> QED
    BY InitIInv, <1>1, PTL DEF Spec

\* A TUI at rest that does not show the daemon's state has a notice coming, as
\* long as its subscription lives and it has missed nothing.
THEOREM TuiStaleViewHasNotice == Spec => []StaleViewHasNotice
  <1>1. IInv => StaleViewHasNotice
    <2> SUFFICES ASSUME IInv, pc = "idle", stream = "live", ~missed,
                        ~(notices + queued + unsaid > 0)
                 PROVE  Current
      BY DEF StaleViewHasNotice
    <2>1. NothingToTell
      BY DEF IInv, Types, NothingToTell
    <2> QED
      BY <2>1 DEF IInv, ViewInv, RowsCurrent, Current
  <1> QED
    BY TuiInvariant, <1>1, PTL

\* A refresh moves the highlight with its rule.
LEMMA ReplaceFollows ==
    ASSUME NEW v, ReplaceRules(v), selectedId \in Shown(v)
    PROVE  view'[selected'].id = selectedId
  <1>1. \E n \in DOMAIN v : v[n].id = selectedId
    BY DEF Shown
  <1>2. selected' = CHOOSE n \in DOMAIN v : v[n].id = selectedId
    BY DEF ReplaceRules
  <1>3. v[selected'].id = selectedId
    BY <1>1, <1>2
  <1> QED
    BY <1>3 DEF ReplaceRules

\* The view changes only where the rules are loaded.
LEMMA OnlyLoadStatusShows == [Next]_vars /\ view' # view => LoadStatus
  <1> SUFFICES ASSUME [Next]_vars, ~LoadStatus PROVE view' = view
    OBVIOUS
  <1>1. CASE Request
    BY <1>1 DEF Request, LoadList, LoadSettings, StopRule, RemoveRule, StartRule,
                AwaitStart, SaveSettings, CallFails, rowVars
  <1>2. CASE User \/ TakeNotice
    BY <1>2 DEF User, Select, AskToDelete, AnswerDelete, Toggle, ChangeSettings,
                TakeNotice, rowVars
  <1>3. CASE \/ StreamStep \/ StreamEnds \/ OtherClient \/ Announce
             \/ \E i \in Ids : AttemptEnds(i) \/ AttemptExits(i) \/ RetryIsDue(i)
    BY <1>3 DEF StreamStep, StreamEnds, OtherClient, Announce, AttemptEnds, AttemptExits,
                RetryIsDue, appVars, rowVars
  <1>4. CASE UNCHANGED vars
    BY <1>4 DEF vars, appVars, rowVars
  <1> QED
    BY <1>1, <1>2, <1>3, <1>4 DEF Next

\* Through every refresh that still lists it, the highlighted rule stays
\* highlighted.
THEOREM TuiSelectionFollowsRule == Spec => SelectionFollowsRule
  <1>1. ASSUME [Next]_vars, view' # view, selectedId \in Shown(view')
        PROVE  view'[selected'].id = selectedId
    <2>1. PICK v : v = [n \in DOMAIN listed |-> [id |-> listed[n], state |-> state[listed[n]]]]
      OBVIOUS
    <2>2. ReplaceRules(v)
      BY <1>1, <2>1, OnlyLoadStatusShows DEF LoadStatus, rowVars
    <2>3. view' = v
      BY <2>2 DEF ReplaceRules
    <2> QED
      BY <1>1, <2>2, <2>3, ReplaceFollows
  <1>2. [Next]_vars =>
           [view' # view /\ selectedId \in Shown(view')
              => view'[selected'].id = selectedId]_vars
    BY <1>1
  <1> QED
    BY <1>2, PTL DEF Spec, SelectionFollowsRule

=============================================================================
