--------------------------------- MODULE Picker ---------------------------------
(***************************************************************************)
(* One dialog of the picker (rofi.py): the frames Rofi shows, the row that *)
(* is highlighted, and what the callbacks of Enter, Tab, Alt+R and of the  *)
(* correction timer do.  Rofi runs a callback for every key; each builds   *)
(* its rows from the catalog and the launch records as they are by then,   *)
(* not from the rows the user sees.  All that the dialog remembers from    *)
(* one callback to the next is the state Rofi hands back (ROFI_DATA).      *)
(*                                                                         *)
(* Other pickers, the catalog's refreshes and the windows move on at any   *)
(* time.  Opening and focusing are one step here; Launch.tla takes them    *)
(* apart.  Accepted actions are counted in the history of Usage.tla.       *)
(***************************************************************************)
EXTENDS Usage, SequencesExt

CONSTANTS
    Instances,      \* launches, numbered by their ordinals
    TargetOf,       \* [Instances -> the target that may have this launch]
    Foreign,        \* the tokens of other dialogs
    Hosts,          \* the machines
    HostOf,         \* [Targets -> the host it is on]
    MeshOrder,      \* [Hosts -> its place in the Host Mesh when the dialog is opened]
    StoredAs,       \* [Targets -> the place its storage key has among all keys]
    MaxChanges,     \* bound: changes of the catalog, the clock and other dialogs' uses
    NoTarget, NoInstance, NoToken

(* The current hosts are counted from one.                                 *)
HostOrders ==
    {order \in [Hosts -> 0..Cardinality(Hosts)] :
        \A g, h \in Hosts :
            /\ order[h] <= Cardinality({host \in Hosts : order[host] # 0})
            /\ g # h => order[g] # order[h] \/ order[g] = 0}

NoHosts == [h \in Hosts |-> 0]

ASSUME PickerAssumption ==
    /\ IsFiniteSet(Targets) /\ IsFiniteSet(Instances)
    /\ Foreign \subseteq Tokens /\ NoToken \notin Tokens
    /\ NoTarget \notin Targets
    /\ Instances \subseteq Nat /\ NoInstance \in Int \ Instances
    /\ TargetOf \in [Instances -> Targets]
    /\ HostOf \in [Targets -> Hosts] /\ IsFiniteSet(Hosts)
    /\ MeshOrder \in HostOrders
    /\ StoredAs \in [Targets -> Nat]
    /\ \A s, t \in Targets : s # t => StoredAs[s] # StoredAs[t]
    /\ MaxChanges \in Nat

VARIABLES
    launch,         \* [Instances -> the launch record, or Absent]
    listed,         \* the targets the catalog lists and that can be launched
    hostOrder,      \* [Hosts -> the host's place among the catalog's current hosts],
                    \* 0 if it is not one: unknown, or removed from the Mesh
    changes,        \* how many there have been: see MaxChanges
    dialog          \* what Rofi shows and hands back to the next callback

inventory == <<listed, hostOrder>>
desk == <<launch, inventory, changes>>
vars == <<usage, desk, dialog>>

-----------------------------------------------------------------------------
(* Rows (build_rows).  A row is known by its key: its target, and its      *)
(* instance if it stands for a window.  Diagnostics have no key.           *)

NoKey == [target |-> NoTarget, inst |-> NoInstance]
TargetKey(t) == [target |-> t, inst |-> NoInstance]
WindowKey(i) == [target |-> TargetOf[i], inst |-> i]

Row(key, text) == [key |-> key, text |-> text]
Diagnostic == Row(NoKey, "diagnostic")

Keys == {NoKey} \cup [target : Targets, inst : Instances \cup {NoInstance}]

Absent == [req |-> NoToken, state |-> "absent"]
Active == {"pending", "live"}

Running(t) == {i \in Instances : TargetOf[i] = t /\ launch[i].state \in Active}

RunningOn(h) == {t \in Targets : HostOf[t] = h /\ Running(t) # {}}

(* A launch is pending until its window is live, and again when it is in   *)
(* doubt: what the registry calls reserved, dispatching, opening and       *)
(* uncertain.                                                              *)
(* A target has a row for every window it has, or one to open the first;   *)
(* what a row says changes with the state of its launch.                   *)
RowSet ==
    {Row(TargetKey(t), "target") : t \in {t \in listed : Running(t) = {}}}
        \cup {Row(WindowKey(i), launch[i].state) :
                 i \in {i \in Instances : launch[i].state \in Active}}

(* Targets come from the current hosts only.                               *)
Offered == {t \in Targets : hostOrder[HostOf[t]] # 0}

RowTargets == {row.key.target : row \in RowSet}

(* The uses of the week if any target shown has one, otherwise the last    *)
(* use.                                                                    *)
MetricOf(shown, rank) ==
    IF \E t \in shown : rank[t].count > 0
    THEN [t \in Targets |-> rank[t].count]
    ELSE [t \in Targets |-> rank[t].lastUsed]

(* Mutant: the uses as they are by now.                                    *)
MetricNow(rank) == MetricOf(RowTargets, Statistics)

Metric(rank) == MetricOf(RowTargets, rank)

(* host_order: the current hosts as this callback's snapshot has them,     *)
(* which is the order they answered in, or that of the Mesh once a refresh *)
(* is complete; then the others, as the registry's directory lists the     *)
(* first of their targets that has a window.                               *)
HostBefore(g, h) ==
    \/ hostOrder[g] # 0 /\ (hostOrder[h] = 0 \/ hostOrder[g] < hostOrder[h])
    \/ /\ hostOrder[g] = 0 /\ hostOrder[h] = 0
       /\ \E s \in RunningOn(g) : \A t \in RunningOn(h) : StoredAs[s] < StoredAs[t]

(* build_rows goes host by host, and through the targets of a host in      *)
(* their fixed order.                                                      *)
TargetBefore(s, t) ==
    IF HostOf[s] = HostOf[t] THEN s < t ELSE HostBefore(HostOf[s], HostOf[t])

(* order_rows, a stable sort of the rows as they were built, the windows   *)
(* of a target by ordinal.                                                 *)
Precedes(a, b, metric) ==
    IF a.key.target = b.key.target THEN a.key.inst < b.key.inst
    ELSE \/ metric[a.key.target] > metric[b.key.target]
         \/ /\ metric[a.key.target] = metric[b.key.target]
            /\ TargetBefore(a.key.target, b.key.target)

Sorted(set, metric) ==
    [n \in 1..Cardinality(set) |->
        CHOOSE row \in set :
            Cardinality({above \in set : Precedes(above, row, metric)}) = n - 1]

Rows(rank) ==
    LET set == RowSet
        metric == Metric(rank)
    IN  IF set = {} THEN <<Diagnostic>> ELSE Sorted(set, metric)

(* The keys of the rows that can be selected. *)
KeysOf(rows) == {rows[n].key : n \in DOMAIN rows} \ {NoKey}

Index(rows, key) ==
    IF key = NoKey THEN 0 ELSE SelectInSeq(rows, LAMBDA row : row.key = key)

FirstKey(rows) ==
    LET n == SelectInSeq(rows, LAMBDA row : row.key # NoKey)
    IN  IF n = 0 THEN NoKey ELSE rows[n].key

(* The rows up to the selected one, and which rows they are whatever they  *)
(* say: what prefixRevision and positionRevision are digests of.           *)
Through(rows, n) == SubSeq(rows, 1, n)
Places(rows) == [n \in DOMAIN rows |-> rows[n].key]

-----------------------------------------------------------------------------
(* The dialog: pc is "closed", "idle" while a frame is shown, "act",       *)
(* "count" and "redraw" in the callback of Enter, and "done".              *)
(*   rows, at   the frame that is shown, and the selected row in it        *)
(*   key        selectedKey, the row the picker means to be highlighted    *)
(*   cursor     the row Rofi highlights, 0 if that cannot be told          *)
(*   restore    restoreSelection: a correction is under way                *)
(*   moved      the user is on another row than the one that was meant     *)
(*   overtaken  history: the correction ended although what the rows say   *)
(*              had changed again                                          *)
(*   action, token    what Enter does, and the request it makes            *)
(*   rank       the ranking captured with the first frame                  *)
(*   order      history: the host order the frame was drawn with           *)
(*   pressed, moment, again   the row of Enter, when it was accepted, and  *)
(*              whether the callback is a repeated one                     *)

Closed == [pc |-> "closed", rows |-> << >>, at |-> 0, key |-> NoKey, cursor |-> 0,
           restore |-> FALSE, moved |-> FALSE, overtaken |-> FALSE,
           action |-> "open", token |-> NoToken,
           rank |-> [t \in Targets |-> [count |-> 0, lastUsed |-> 0]],
           order |-> NoHosts,
           pressed |-> NoKey, moment |-> 0, again |-> FALSE]

Becomes(d) == dialog' = d

(* Mutant: a correction is never restarted.                                *)
CorrectsOnce(d, rows, at) ==
    /\ rows # d.rows /\ at # 0
    /\ Through(rows, at) # Through(d.rows, d.at)
    /\ ~d.restore

(* Rofi looks a new selection up in the list of the frame before, as the   *)
(* filter left it.  If the rows through the selected one have changed, or  *)
(* any have and it is another row that is selected by now, the selection   *)
(* is set in a second frame, after a short timer, when Rofi has the new    *)
(* list.  Once under way, only a change of positions restarts it.          *)
Corrects(d, rows, at) ==
    /\ rows # d.rows /\ at # 0
    /\ d.moved \/ rows[at].key # d.key \/ Through(rows, at) # Through(d.rows, d.at)
    /\ d.restore => Places(Through(rows, at)) # Places(Through(d.rows, d.at))

(* The end of a callback, and _render: a selected row that is gone is      *)
(* replaced by its target's, or else by the first one.                     *)
Fallback(rows, key) ==
    IF key \in KeysOf(rows) \cup {NoKey} THEN key
    ELSE IF TargetKey(key.target) \in KeysOf(rows) THEN TargetKey(key.target)
    ELSE FirstKey(rows)

(* new-selection is sent unless a correction is needed; Rofi then finds    *)
(* the row where the list it looks in is the same through that row.        *)
Drawn(d, select) ==
    LET rows == Rows(d.rank)
        key == Fallback(rows, d.key)
        at == Index(rows, key)
        same == rows = d.rows \/ Through(rows, at) = Through(d.rows, d.at)
        restore == Corrects(d, rows, at)
    IN  [d EXCEPT !.pc = "idle", !.rows = rows, !.key = key, !.at = at,
                  !.restore = restore, !.moved = FALSE, !.order = hostOrder,
                  !.overtaken = /\ d.restore /\ ~restore /\ ~same
                                /\ Places(Through(rows, at)) = Places(Through(d.rows, d.at)),
                  !.cursor = IF select /\ ~restore /\ same THEN at ELSE 0,
                  !.pressed = NoKey, !.moment = 0]

(* The row the user is on when a key is pressed, after any navigation: the *)
(* callback takes it for the selected one, unless the list is empty.       *)
UserIsOn(key) ==
    key \in IF KeysOf(dialog.rows) = {} THEN {dialog.key} ELSE KeysOf(dialog.rows)

Idle == dialog.pc = "idle"

(* What a key that is pressed on a row makes of the state.                 *)
On(key) == [dialog EXCEPT !.key = key, !.moved = (key # dialog.key)]

(* A request token nobody else has (uuid4); the model has only so many.    *)
Unissued == {tok \in Tokens \ Foreign : issuedAt[tok] = 0}
NextToken == CHOOSE tok \in Unissued : TRUE

-----------------------------------------------------------------------------
(* The first frame (launcher.main, run_rofi with ROFI_RETV 0): whatever    *)
(* row was remembered as the last one used is preferred.  The ranking is   *)
(* frozen here (frozen_statistics), and Rofi starts on the selected row.   *)
Preferred(rows, key) ==
    IF key \in KeysOf(rows) THEN key
    ELSE IF TargetKey(key.target) \in KeysOf(rows) THEN TargetKey(key.target)
    ELSE FirstKey(rows)

Open ==
    /\ dialog.pc = "closed"
    /\ Unissued # {}
    /\ \E last \in Keys :
        LET rows == Rows(Statistics)
            key == Preferred(rows, last)
        IN  /\ Arm(NextToken)
            /\ Becomes([Closed EXCEPT
                    !.pc = "idle", !.rows = rows, !.key = key,
                    !.at = Index(rows, key), !.cursor = Index(rows, key),
                    !.token = NextToken, !.rank = Statistics, !.order = hostOrder])
    /\ UNCHANGED desk

(* Tab changes what Enter does, and arms a new token.                      *)
Tab ==
    /\ Idle
    /\ Unissued # {}
    /\ Arm(NextToken)
    /\ \E key \in Keys :
        /\ UserIsOn(key)
        /\ Becomes(Drawn([On(key) EXCEPT !.token = NextToken,
                !.action = IF @ = "open" THEN "additional" ELSE "open"], TRUE))
    /\ UNCHANGED desk

(* Alt+R waits for a refresh, and draws what it gave; the token stays.     *)
(* (So does Enter on an empty list: custom input only draws it again.)     *)
Refresh ==
    /\ Idle
    /\ \E key \in Keys :
        /\ UserIsOn(key)
        /\ Becomes(Drawn(On(key), TRUE))
    /\ UNCHANGED <<usage, desk>>

(* The timer (kb-custom-19): it ends a correction, keeping the selected    *)
(* row whatever Rofi is on, or looks for the first rows of an empty list.  *)
Timer ==
    /\ Idle
    /\ dialog.restore \/ KeysOf(dialog.rows) = {}
    /\ Becomes(Drawn(dialog, dialog.restore))
    /\ UNCHANGED <<usage, desk>>

Escape ==
    /\ Idle
    /\ Becomes([Closed EXCEPT !.pc = "done"])
    /\ UNCHANGED <<usage, desk>>

-----------------------------------------------------------------------------
(* Enter.                                                                  *)

Additional == dialog.action = "additional"

(* Mutant: a window that is gone stands for its target.                    *)
MatchedOrTarget(key) ==
    {key, TargetKey(key.target)} \cap {row.key : row \in RowSet}

(* The row of that key among the rows there are by now, if any.            *)
Matched(key) == {key} \cap {row.key : row \in RowSet}

(* The row the user chose is looked up; if it is gone the inventory is     *)
(* refreshed and drawn, and nothing is done.                               *)
EnterOn(key, d) ==
    \/ \E row \in Matched(key) :
            Becomes([d EXCEPT !.pc = "act", !.key = key, !.pressed = row])
    \/ /\ Matched(key) = {}
       /\ Becomes(IF d.again THEN dialog ELSE [d EXCEPT !.pc = "redraw", !.key = key])

Enter ==
    /\ Idle
    /\ \E key \in Keys :
        /\ key \in KeysOf(dialog.rows)
        /\ EnterOn(key, [On(key) EXCEPT !.cursor = 0, !.overtaken = FALSE])
    /\ UNCHANGED <<usage, desk>>

(* Enter is repeated with the state and the row of an accepted callback.   *)
EnterAgain ==
    /\ dialog.pc = "done"
    /\ dialog.pressed # NoKey
    /\ EnterOn(dialog.pressed, [dialog EXCEPT !.again = TRUE])
    /\ UNCHANGED <<usage, desk>>

(* The callback draws nothing more; what it was called with may be repeated.*)
Ends(pc, moment) ==
    Becomes([Closed EXCEPT !.pc = pc, !.key = dialog.key, !.action = dialog.action,
                           !.token = dialog.token, !.pressed = dialog.pressed,
                           !.moment = moment])

Accepted == Ends("count", clock)

(* Refused with a notice: the frame is drawn again, with the same token.   *)
Rejected ==
    IF dialog.again THEN Ends("done", 0)
    ELSE Becomes([dialog EXCEPT !.pc = "redraw", !.pressed = NoKey])

Turns(i, state) == launch' = [launch EXCEPT ![i].state = state]

(* _focus: the window is focused, or found not to be what it was.          *)
Focus(i) ==
    \/ Accepted /\ UNCHANGED launch
    \/ Rejected /\ (Turns(i, "pending") \/ UNCHANGED launch)

Acts(row) ==
    /\ dialog.pc = "act"
    /\ row = dialog.pressed
    /\ UNCHANGED <<usage, inventory, changes>>

(* Open on the row of a window focuses it, if it is live.                  *)
FocusRow ==
    /\ ~Additional
    /\ dialog.pressed.inst # NoInstance
    /\ Acts(dialog.pressed)
    /\ launch[dialog.pressed.inst].state = "live"
    /\ Focus(dialog.pressed.inst)

Opens == dialog.pc = "act" /\ (Additional \/ dialog.pressed.inst = NoInstance)

(* The launch that this token has already made for the target.             *)
MadeBy(tok, t) == {i \in Instances : launch[i].req = tok /\ TargetOf[i] = t}

(* open_target finds the launch its token has made, or the only one there  *)
(* is: a live one is focused, one that is starting is left to it.          *)
Found ==
    LET t == dialog.pressed.target
    IN  IF MadeBy(dialog.token, t) # {} THEN MadeBy(dialog.token, t)
        ELSE IF Additional THEN {} ELSE Running(t)

OpenFound ==
    /\ Opens
    /\ Acts(dialog.pressed)
    /\ \E i \in Instances :
        /\ Found = {i}
        /\ \/ launch[i].state = "live" /\ Focus(i)
           \/ launch[i].state = "pending" /\ Accepted /\ UNCHANGED launch

(* It makes a new one: it starts, or fails before anything runs, or runs   *)
(* although its terminal cannot be observed or recorded.                   *)
OpenNew ==
    /\ Opens
    /\ Acts(dialog.pressed)
    /\ Found = {}
    /\ \E i \in Instances, state \in {"pending", "retired"} :
        /\ TargetOf[i] = dialog.pressed.target
        /\ launch[i] = Absent
        /\ launch' = [launch EXCEPT ![i] = [req |-> dialog.token, state |-> state]]
        /\ Rejected \/ (state = "pending" /\ Accepted)

(* Any error, and every refusal: several windows, an uncertain one, a      *)
(* request whose window has closed or failed, a row that is not live.      *)
Refused ==
    /\ Acts(dialog.pressed)
    /\ Rejected
    /\ UNCHANGED launch

(* The accepted action is counted, once, if nothing fails; the dialog ends.*)
Count ==
    /\ dialog.pc = "count"
    /\ \/ Record(dialog.pressed.target, dialog.token, dialog.moment)
       \/ UNCHANGED usage
    /\ Ends("done", 0)
    /\ UNCHANGED desk

Redraw ==
    /\ dialog.pc = "redraw"
    /\ Becomes(Drawn(dialog, TRUE))
    /\ UNCHANGED <<usage, desk>>

-----------------------------------------------------------------------------
(* What goes on around the dialog.                                         *)

(* Another picker opens a window. *)
OtherOpens ==
    /\ \E i \in Instances :
        /\ TargetOf[i] \in listed
        /\ launch[i] = Absent
        /\ launch' = [launch EXCEPT ![i] = [req |-> NoToken, state |-> "pending"]]
    /\ UNCHANGED <<usage, inventory, changes, dialog>>

(* A launch comes up, is found in doubt, is found again, or ends.          *)
Evolves ==
    /\ \E i \in Instances, state \in {"live", "pending", "retired"} :
        /\ launch[i].state \in Active \ {state}
        /\ Turns(i, state)
    /\ UNCHANGED <<usage, inventory, changes, dialog>>

(* A refresh has written the catalog; another dialog, open since before    *)
(* this one, counts an action; time passes, or the clock is set back.      *)
Changes ==
    /\ changes < MaxChanges
    /\ changes' = changes + 1
    /\ UNCHANGED <<launch, dialog>>

CatalogChanges ==
    /\ Changes
    /\ hostOrder' \in HostOrders
    /\ listed' \in SUBSET Offered'
    /\ UNCHANGED usage

OtherCounts ==
    /\ Changes
    /\ \E tok \in Foreign, t \in Targets : Record(t, tok, clock)
    /\ UNCHANGED inventory

ClockChanges ==
    /\ Changes
    /\ Tick \/ SetBack
    /\ UNCHANGED inventory

-----------------------------------------------------------------------------

Init ==
    /\ UsageInit
    /\ issuedAt = [tok \in Tokens |-> IF tok \in Foreign THEN clock ELSE 0]
    /\ launch = [i \in Instances |-> Absent]
    /\ hostOrder \in {MeshOrder, NoHosts}
    /\ listed = Offered
    /\ changes = 0
    /\ dialog = Closed

Next ==
    \/ Open \/ Tab \/ Refresh \/ Timer \/ Escape
    \/ Enter \/ EnterAgain \/ FocusRow \/ OpenFound \/ OpenNew \/ Refused
    \/ Count \/ Redraw
    \/ OtherOpens \/ Evolves \/ CatalogChanges \/ OtherCounts \/ ClockChanges

Spec == Init /\ [][Next]_vars

-----------------------------------------------------------------------------
(* Properties                                                              *)

Frames == Seq([key : Keys,
               text : {"diagnostic", "target"} \cup Active])

Dialogs ==
    [pc : {"closed", "idle", "act", "count", "redraw", "done"},
     rows : Frames, at : Nat, key : Keys, cursor : Nat,
     restore : BOOLEAN, moved : BOOLEAN, overtaken : BOOLEAN,
     action : {"open", "additional"}, token : Tokens \cup {NoToken},
     rank : [Targets -> [count : Nat, lastUsed : Nat]], order : [Hosts -> Nat],
     pressed : Keys, moment : Nat, again : BOOLEAN]

(* Every variable holds a value of its kind.                               *)
TypeOK ==
    /\ UsageTypeOK
    /\ launch \in [Instances -> [req : Tokens \cup {NoToken},
                                 state : Active \cup {"absent", "retired"}]]
    /\ hostOrder \in HostOrders
    /\ listed \in SUBSET Offered
    /\ changes \in 0..MaxChanges
    /\ dialog \in Dialogs

(* Enter opens nothing but what the row it was pressed on offers, however  *)
(* the rows change before its callback runs: a window only for the target  *)
(* of that row; on the row of a window only in the New window mode, a      *)
(* window that is gone being no reason to open another ("neither case      *)
(* silently launches a replacement"); on a target's row only when its      *)
(* token has not opened one, and no window of it runs.                     *)
EnterOpensItsRow ==
    [][\A i \in Instances :
          launch[i] = Absent /\ launch'[i].req # NoToken =>
              /\ TargetOf[i] = dialog.key.target
              /\ MadeBy(launch'[i].req, TargetOf[i]) = {}
              /\ dialog.action = "open" =>
                     dialog.key.inst = NoInstance /\ Running(dialog.key.target) = {}]_vars

(* Enter acts on the row Rofi highlights, so that has to be the one the    *)
(* picker means: while no correction is under way, and until the user      *)
(* moves, it is, whatever rows came, went or changed their text between    *)
(* two frames; unless texts changed again during a correction, which is    *)
(* not restarted for them (_render).                                       *)
HighlightIsMeant ==
    Idle /\ ~dialog.restore /\ ~dialog.overtaken /\ dialog.key # NoKey =>
        dialog.cursor # 0 /\ dialog.rows[dialog.cursor].key = dialog.key

Above(rows, a, b) ==
    \E m, n \in DOMAIN rows : m < n /\ rows[m].key.target = a /\ rows[n].key.target = b

TargetsOf(rows) == {key.target : key \in KeysOf(rows)}

TiedIn(d, a, b) ==
    LET uses == MetricOf(TargetsOf(d.rows), d.rank)
    IN  uses[a] = uses[b]

(* "The launcher freezes ranking for the dialog, so concurrent uses and    *)
(* events aging out cannot move rows while you navigate" (usage.md): of    *)
(* two frames with the same targets, neither turns the order of two        *)
(* targets round; unless they were tied in the uses captured with the      *)
(* first frame, are on different hosts, and a refresh has put those hosts  *)
(* in other places by the second frame, or both have been removed, so that *)
(* which of their windows are open decides.                                *)
RankingIsFrozen ==
    [][dialog'.rows # dialog.rows /\ TargetsOf(dialog'.rows) = TargetsOf(dialog.rows) =>
          \A a, b \in Targets :
              a # b /\ Above(dialog.rows, a, b) /\ Above(dialog'.rows, b, a) =>
                  /\ TiedIn(dialog, a, b)
                  /\ HostOf[a] # HostOf[b]
                  /\ \/ \E h \in {HostOf[a], HostOf[b]} : dialog.order[h] # dialog'.order[h]
                     \/ \A h \in {HostOf[a], HostOf[b]} : dialog.order[h] = 0]_vars
=============================================================================
