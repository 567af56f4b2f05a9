----------------------------- MODULE PickerProofs -----------------------------
(***************************************************************************)
(* Proofs about Usage and Picker, for any number of environments, launches *)
(* and tokens, any week, and any clock.                                    *)
(***************************************************************************)
EXTENDS Picker, FiniteSetTheorems, FunctionTheorems, WellFoundedInduction, TLAPS

(* What the history is known to hold: an event is of a token that has been *)
(* counted, made after it was armed and no later than the newest record; a *)
(* counted token has its receipt, unless it was armed a week before the    *)
(* newest record, which is when a receipt may have been dropped.           *)
EventsInv ==
    \A t \in Targets : \A e \in history[t].events :
        /\ e.id \in counted
        /\ issuedAt[e.id] <= e.at
        /\ e.at <= newest

Receipted(tok) == \E t \in Targets : \E e \in history[t].events : e.id = tok

CountedInv ==
    \A tok \in counted :
        /\ issuedAt[tok] # 0
        /\ Receipted(tok) \/ issuedAt[tok] <= newest - Week

UsageInv == UsageTypeOK /\ EventsInv /\ CountedInv

-----------------------------------------------------------------------------

LEMMA UsageInitInv == UsageInit => UsageInv
BY UsageAssumption
   DEF UsageInit, UsageInv, UsageTypeOK, EventsInv, CountedInv, Unused, Moments

(* What a record leaves in the history. *)
LEMMA RecordedEvents ==
    ASSUME UsageTypeOK, NEW target \in Targets, NEW tok \in Tokens, NEW moment \in Moments,
           Record(target, tok, moment), NEW t \in Targets
    PROVE  /\ history'[t].events \subseteq history[t].events \cup {[id |-> tok, at |-> moment]}
           /\ Kept(t, moment) \subseteq history'[t].events
           /\ [id |-> tok, at |-> moment] \in history'[target].events
BY DEF Record, Recorded, Kept

LEMMA RecordType ==
    ASSUME UsageTypeOK, NEW target \in Targets, NEW tok \in Tokens, NEW moment \in Moments,
           Record(target, tok, moment)
    PROVE  UsageTypeOK'
<1>1. \A t \in Targets : Kept(t, moment) \in SUBSET [id : Tokens, at : Moments]
    BY DEF Kept, UsageTypeOK
<1>2. [id |-> tok, at |-> moment] \in [id : Tokens, at : Moments]
    OBVIOUS
<1>3. moment \in 0..MaxClock
    BY UsageAssumption DEF Moments
<1>4. \A t \in Targets : history[t].lastUsed \in 0..MaxClock
    BY DEF UsageTypeOK
<1>5. history' \in [Targets -> [lastUsed : 0..MaxClock,
                                events : SUBSET [id : Tokens, at : Moments]]]
    BY <1>1, <1>2, <1>3, <1>4 DEF Record, Recorded, Later
<1>6. newest' \in 0..MaxClock
    BY <1>3 DEF Record, Later, UsageTypeOK
<1>7. QED
    BY <1>5, <1>6 DEF Record, UsageTypeOK

LEMMA RecordInv ==
    ASSUME UsageInv, NEW target \in Targets, NEW tok \in Tokens, NEW moment \in Moments,
           Record(target, tok, moment)
    PROVE  UsageInv'
<1> USE DEF UsageInv
<1>1. UsageTypeOK'
    BY RecordType
<1>2. newest \in Int /\ moment \in Int /\ Week \in Nat \ {0}
    BY UsageAssumption DEF UsageTypeOK, Moments
<1>3. newest <= newest' /\ moment <= newest' /\ newest' \in Int
    BY <1>2 DEF Record, Later
<1>4. /\ issuedAt' = issuedAt /\ counted' = counted \cup {tok}
      /\ issuedAt[tok] # 0 /\ issuedAt[tok] <= moment
    BY DEF Record, Countable
<1>5. EventsInv'
  <2>1. SUFFICES ASSUME NEW t \in Targets, NEW e \in history'[t].events
                 PROVE  e.id \in counted' /\ issuedAt'[e.id] <= e.at /\ e.at <= newest'
    BY DEF EventsInv
  <2>2. CASE e \in history[t].events
    <3>1. e.at \in Int
        BY <2>2 DEF UsageTypeOK, Moments
    <3>2. e.id \in counted /\ issuedAt[e.id] <= e.at /\ e.at <= newest
        BY <2>2 DEF EventsInv
    <3>3. QED
        BY <1>2, <1>3, <1>4, <3>1, <3>2
  <2>3. CASE e = [id |-> tok, at |-> moment]
    BY <1>4, <1>3, <2>3
  <2>4. history'[t].events \subseteq history[t].events \cup {[id |-> tok, at |-> moment]}
    BY RecordedEvents
  <2>5. QED
    BY <2>2, <2>3, <2>4
<1>6. CountedInv'
  <2>1. SUFFICES ASSUME NEW k \in counted'
                 PROVE  /\ issuedAt'[k] # 0
                        /\ Receipted(k)' \/ issuedAt'[k] <= newest' - Week
    BY DEF CountedInv
  <2>2. CASE k = tok
    <3>1. [id |-> tok, at |-> moment] \in history'[target].events
        BY RecordedEvents
    <3>2. QED
        BY <1>4, <2>2, <3>1 DEF Receipted
  <2>3. CASE k \in counted
    <3>0. issuedAt[k] \in Int
        BY <2>3 DEF UsageTypeOK
    <3>1. CASE issuedAt[k] <= newest - Week
        BY <1>2, <1>3, <1>4, <2>3, <3>0, <3>1 DEF CountedInv
    <3>2. ASSUME NEW t \in Targets, NEW e \in history[t].events, e.id = k
          PROVE  Receipted(k)' \/ issuedAt[k] <= newest' - Week
      <4>1. e.at \in Int /\ issuedAt[k] <= e.at
        BY <3>2 DEF UsageTypeOK, Moments, EventsInv
      <4>2. CASE e \in Kept(t, moment)
        BY <3>2, <4>2, RecordedEvents DEF Receipted
      <4>3. CASE e \notin Kept(t, moment)
        <5>1. e.at <= moment - Week
            BY <1>2, <4>1, <4>3 DEF Kept
        <5>2. QED
            BY <1>2, <1>3, <3>0, <4>1, <5>1
      <4>4. QED
        BY <4>2, <4>3
    <3>3. QED
        BY <1>4, <2>3, <3>1, <3>2 DEF CountedInv, Receipted
  <2>4. QED
    BY <1>4, <2>2, <2>3
<1>7. QED
    BY <1>1, <1>5, <1>6

LEMMA ArmInv ==
    ASSUME UsageInv, NEW tok \in Tokens, Arm(tok)
    PROVE  UsageInv'
<1> USE DEF UsageInv
<1>1. UsageTypeOK'
    BY UsageAssumption DEF Arm, UsageTypeOK, Moments
<1>2. tok \notin counted
    BY DEF Arm, CountedInv
<1>3. \A k \in counted : issuedAt'[k] = issuedAt[k]
    BY <1>2 DEF Arm, UsageTypeOK
<1>4. EventsInv'
    BY <1>3 DEF Arm, EventsInv
<1>5. CountedInv'
    BY <1>3 DEF Arm, CountedInv, Receipted
<1>6. QED
    BY <1>1, <1>4, <1>5

LEMMA UsageNextInv == UsageInv /\ [UsageNext]_usage => UsageInv'
<1> SUFFICES ASSUME UsageInv, [UsageNext]_usage PROVE UsageInv'
    OBVIOUS
<1>1. CASE Tick \/ SetBack
  <2>1. clock' \in Moments
    BY <1>1, UsageAssumption DEF Tick, SetBack, UsageInv, UsageTypeOK, Moments
  <2>2. QED
    BY <1>1, <2>1 DEF Tick, SetBack, UsageInv, UsageTypeOK, EventsInv, CountedInv, Receipted
<1>2. CASE \E tok \in Tokens : Arm(tok)
    BY <1>2, ArmInv
<1>3. CASE \E t \in Targets, tok \in Tokens, moment \in Moments : Record(t, tok, moment)
    BY <1>3, RecordInv
<1>4. CASE UNCHANGED usage
    BY <1>4 DEF usage, UsageInv, UsageTypeOK, EventsInv, CountedInv, Receipted
<1>5. QED
    BY <1>1, <1>2, <1>3, <1>4 DEF UsageNext

(* A record of a token that has been counted goes by an earlier time than  *)
(* one made before it.                                                     *)
LEMMA RecordOnce ==
    ASSUME UsageInv, NEW target \in Targets, NEW tok \in Tokens, NEW moment \in Moments,
           Record(target, tok, moment), tok \in counted
    PROVE  moment < newest
<1> USE DEF UsageInv
<1>1. issuedAt[tok] \in Int /\ moment \in Int /\ newest \in Int /\ Week \in Nat
    BY UsageAssumption DEF UsageTypeOK, Moments
<1>2. moment - Week < issuedAt[tok]
    BY DEF Record, Countable
<1>3. ASSUME NEW t \in Targets, NEW e \in history[t].events, e.id = tok
      PROVE  FALSE
  <2>1. e \notin Kept(t, moment)
    BY <1>3 DEF Record, Receipt
  <2>2. e.at \in Int /\ issuedAt[tok] <= e.at
    BY <1>3 DEF UsageTypeOK, Moments, EventsInv
  <2>3. e.at <= moment - Week
    BY <1>1, <2>1, <2>2 DEF Kept
  <2>4. QED
    BY <1>1, <1>2, <2>2, <2>3
<1>4. issuedAt[tok] <= newest - Week
    BY <1>3 DEF CountedInv, Receipted
<1>5. QED
    BY <1>1, <1>2, <1>4

LEMMA UsageStepOnce ==
    ASSUME UsageInv, [UsageNext]_usage,
           NEW t \in Targets, NEW e \in history'[t].events \ history[t].events,
           e.id \in counted
    PROVE  e.at < newest
<1>1. history' # history
    OBVIOUS
<1>2. PICK target \in Targets, tok \in Tokens, moment \in Moments :
            Record(target, tok, moment)
    BY <1>1 DEF UsageNext, usage, Tick, SetBack, Arm
<1>3. history'[t].events \subseteq history[t].events \cup {[id |-> tok, at |-> moment]}
    BY <1>2, RecordedEvents DEF UsageInv
<1>0. e = [id |-> tok, at |-> moment]
    BY <1>3
<1>4. QED
    BY <1>0, <1>2, RecordOnce

(* The history by itself: CountedOnce, whoever records what and when.      *)
THEOREM HistoryCountsOnce == UsageSpec => CountedOnce
<1>1. UsageSpec => []UsageInv
    BY UsageInitInv, UsageNextInv, PTL DEF UsageSpec
<1>2. UsageInv /\ [UsageNext]_usage =>
        [\A t \in Targets : \A e \in history'[t].events \ history[t].events :
            e.id \in counted => e.at < newest]_usage
    BY UsageStepOnce
<1>3. QED
    BY <1>1, <1>2, PTL DEF UsageSpec, CountedOnce

-----------------------------------------------------------------------------
(* The dialog.  Its rows and cursor are left open: what Enter does depends *)
(* on the row it was pressed on, its token, and where its callback is.     *)

Fields == {"pc", "rows", "at", "key", "cursor", "restore", "moved", "overtaken", "action",
           "token", "rank", "order", "pressed", "moment", "again"}

DialogInv ==
    /\ DOMAIN dialog = Fields
    /\ dialog.pressed \in Keys
    /\ dialog.pc \in {"idle", "redraw"} \/ dialog.pressed # NoKey => dialog.token \in Tokens
    /\ dialog.pc \in {"act", "count"} => dialog.pressed # NoKey
    /\ dialog.pc = "act" => dialog.key = dialog.pressed
    /\ dialog.pc = "count" => dialog.moment \in Moments

LaunchInv ==
    launch \in [Instances -> [req : Tokens \cup {NoToken},
                              state : Active \cup {"absent", "retired"}]]

(* The catalog lists targets of its current hosts, and has no two hosts in *)
(* one place.                                                              *)
CatalogInv == hostOrder \in HostOrders /\ listed \in SUBSET Offered

PickerInv == UsageInv /\ CatalogInv /\ LaunchInv /\ DialogInv

LEMMA ListedTargets == CatalogInv => listed \subseteq Targets
BY DEF CatalogInv, Offered

LEMMA KeyParts == \A key \in Keys : key # NoKey => key.target \in Targets
BY DEF Keys

LEMMA TokenFresh == Unissued # {} => NextToken \in Tokens
BY DEF Unissued, NextToken

LEMMA DrawnFields ==
    ASSUME NEW d, NEW select, DOMAIN d = Fields
    PROVE  /\ DOMAIN Drawn(d, select) = Fields
           /\ Drawn(d, select).pc = "idle"
           /\ Drawn(d, select).token = d.token
           /\ Drawn(d, select).action = d.action
           /\ Drawn(d, select).pressed = NoKey
BY DEF Drawn, Fields

(* A frame that is drawn for a dialog with a token. *)
LEMMA DrawnInv ==
    ASSUME NEW d, NEW select, DOMAIN d = Fields, d.token \in Tokens,
           Becomes(Drawn(d, select))
    PROVE  DialogInv'
BY DrawnFields DEF Becomes, DialogInv, Keys

LEMMA PickerInitInv == Init => PickerInv
<1> SUFFICES ASSUME Init PROVE PickerInv
    OBVIOUS
<1>1. UsageInv
    BY UsageInitInv DEF Init
<1>2. LaunchInv
    BY DEF Init, LaunchInv, Absent
<1>3. DialogInv
    BY DEF Init, DialogInv, Closed, Fields, Keys
<1>4. NoHosts \in HostOrders
  <2>1. /\ Cardinality(Hosts) \in Nat
        /\ Cardinality({host \in Hosts : NoHosts[host] # 0}) \in Nat
    BY PickerAssumption, FS_Subset, FS_CardinalityType
  <2>2. QED
    BY <2>1 DEF NoHosts, HostOrders
<1>5. CatalogInv
    BY <1>4, PickerAssumption DEF Init, CatalogInv
<1>6. QED
    BY <1>1, <1>2, <1>3, <1>5 DEF PickerInv

-----------------------------------------------------------------------------
(* Every step of a dialog is a step of the history, or leaves it alone.    *)
LEMMA UsageSteps == PickerInv /\ [Next]_vars => [UsageNext]_usage
<1> SUFFICES ASSUME PickerInv, Next PROVE UsageNext \/ UNCHANGED usage
    BY DEF vars, usage
<1>1. CASE Open \/ Tab
  <2>1. Unissued # {} /\ Arm(NextToken)
    BY <1>1 DEF Open, Tab
  <2>2. QED
    BY <2>1, TokenFresh DEF UsageNext
<1>2. CASE Refresh \/ Timer \/ Escape \/ Enter \/ EnterAgain \/ Redraw \/ OtherOpens \/ Evolves
            \/ CatalogChanges
    BY <1>2 DEF Refresh, Timer, Escape, Enter, EnterAgain, Redraw, OtherOpens, Evolves,
                CatalogChanges
<1>3. CASE FocusRow \/ OpenFound \/ OpenNew \/ Refused
    BY <1>3 DEF FocusRow, OpenFound, OpenNew, Refused, Acts
<1>4. CASE Count
  <2>1. /\ dialog.pressed.target \in Targets /\ dialog.token \in Tokens
        /\ dialog.moment \in Moments
    BY <1>4, KeyParts DEF Count, PickerInv, DialogInv
  <2>2. QED
    BY <1>4, <2>1 DEF Count, UsageNext
<1>5. CASE OtherCounts
  <2>1. Foreign \subseteq Tokens /\ clock \in Moments
    BY PickerAssumption DEF PickerInv, UsageInv, UsageTypeOK
  <2>2. QED
    BY <1>5, <2>1 DEF OtherCounts, UsageNext
<1>6. CASE ClockChanges
    BY <1>6 DEF ClockChanges, UsageNext
<1>7. QED
    BY <1>1, <1>2, <1>3, <1>4, <1>5, <1>6 DEF Next

LEMMA FocusSteps ==
    ASSUME PickerInv, NEW i \in Instances, launch[i].state = "live", Focus(i),
           dialog.pc = "act"
    PROVE  LaunchInv' /\ (Accepted \/ Rejected)
BY DEF Focus, Turns, PickerInv, LaunchInv, Active

LEMMA EndsInv ==
    ASSUME PickerInv, dialog.pressed # NoKey, NEW pc \in {"count", "done"}, NEW moment,
           pc = "count" => moment \in Moments, Ends(pc, moment)
    PROVE  DialogInv'
BY DEF Ends, Becomes, Closed, PickerInv, DialogInv, Fields

LEMMA ActedInv ==
    ASSUME PickerInv, dialog.pc = "act", Accepted \/ Rejected
    PROVE  DialogInv'
<1>1. CASE Accepted
  <2>1. clock \in Moments
    BY DEF PickerInv, UsageInv, UsageTypeOK
  <2>2. QED
    BY <1>1, <2>1, EndsInv DEF Accepted, PickerInv, DialogInv
<1>2. CASE Rejected /\ dialog.again
    BY <1>2, EndsInv DEF Rejected, PickerInv, DialogInv
<1>3. CASE Rejected /\ ~dialog.again
  <2>1. dialog' = [dialog EXCEPT !.pc = "redraw", !.pressed = NoKey]
    BY <1>3 DEF Rejected, Becomes
  <2>2. QED
    BY <2>1 DEF PickerInv, DialogInv, Fields, Keys
<1>4. QED
    BY <1>1, <1>2, <1>3

LEMMA EnterInv ==
    ASSUME NEW key \in Keys \ {NoKey}, NEW d, DOMAIN d = Fields, d.token \in Tokens,
           d.pressed \in Keys,
           d.again => DialogInv, EnterOn(key, d)
    PROVE  DialogInv'
<1>1. CASE \E row \in Matched(key) :
            Becomes([d EXCEPT !.pc = "act", !.key = key, !.pressed = row])
  <2>1. Matched(key) \subseteq {key}
    BY DEF Matched
  <2>2. key # NoKey /\ dialog' = [d EXCEPT !.pc = "act", !.key = key, !.pressed = key]
    BY <1>1, <2>1 DEF Becomes
  <2>3. QED
    BY <2>2 DEF DialogInv, Fields
<1>2. CASE d.again /\ Becomes(dialog)
    BY <1>2 DEF Becomes, DialogInv, Moments
<1>3. CASE Becomes([d EXCEPT !.pc = "redraw", !.key = key])
    BY <1>3 DEF Becomes, DialogInv, Fields
<1>4. QED
    BY <1>1, <1>2, <1>3 DEF EnterOn

LEMMA PickerNextInv == PickerInv /\ [Next]_vars => PickerInv'
<1> SUFFICES ASSUME PickerInv, [Next]_vars PROVE PickerInv'
    OBVIOUS
<1>1. UsageInv'
    BY UsageSteps, UsageNextInv DEF PickerInv
<1>2. LaunchInv' /\ DialogInv'
  <2>1. CASE Open
    <3>1. Unissued # {} /\ UNCHANGED launch
        BY <2>1 DEF Open, desk, inventory
    <3>2. PICK rows, key : dialog' = [Closed EXCEPT
                    !.pc = "idle", !.rows = rows, !.key = key,
                    !.at = Index(rows, key), !.cursor = Index(rows, key),
                    !.token = NextToken, !.rank = Statistics, !.order = hostOrder]
        BY <2>1 DEF Open, Becomes
    <3>3. DialogInv'
        BY <3>1, <3>2, TokenFresh DEF Closed, DialogInv, Fields, Keys
    <3>4. QED
        BY <3>1, <3>3 DEF PickerInv, LaunchInv
  <2>2. CASE Tab
    <3>1. PICK key : Becomes(Drawn([On(key) EXCEPT !.token = NextToken,
                !.action = IF @ = "open" THEN "additional" ELSE "open"], TRUE))
        BY <2>2 DEF Tab
    <3>2. NextToken \in Tokens
        BY <2>2, TokenFresh DEF Tab
    <3> DEFINE d == [On(key) EXCEPT !.token = NextToken,
                !.action = IF @ = "open" THEN "additional" ELSE "open"]
    <3>3. DOMAIN d = Fields /\ d.token \in Tokens
        BY <3>2 DEF PickerInv, DialogInv, Fields, On
    <3>4. DialogInv'
      <4> HIDE DEF d
      <4>1. Becomes(Drawn(d, TRUE))
        BY <3>1 DEF d
      <4>2. QED
        BY <3>3, <4>1, DrawnInv
    <3>5. UNCHANGED launch
        BY <2>2 DEF Tab, desk, inventory
    <3>6. QED
        BY <3>4, <3>5 DEF PickerInv, LaunchInv
  <2>3. CASE Refresh
    <3>1. PICK key : Becomes(Drawn(On(key), TRUE))
        BY <2>3 DEF Refresh
    <3> DEFINE d == On(key)
    <3>2. DOMAIN d = Fields /\ d.token \in Tokens
        BY <2>3 DEF PickerInv, DialogInv, Fields, Refresh, Idle, On
    <3>3. DialogInv'
      <4> HIDE DEF d
      <4>1. Becomes(Drawn(d, TRUE))
        BY <3>1 DEF d
      <4>2. QED
        BY <3>2, <4>1, DrawnInv
    <3>4. UNCHANGED launch
        BY <2>3 DEF Refresh, desk
    <3>5. QED
        BY <3>3, <3>4 DEF PickerInv, LaunchInv
  <2>4. CASE Timer
    <3>1. DOMAIN dialog = Fields /\ dialog.token \in Tokens
        BY <2>4 DEF PickerInv, DialogInv, Timer, Idle
    <3>2. DialogInv'
        BY <2>4, <3>1, DrawnInv DEF Timer
    <3>3. QED
        BY <2>4, <3>2 DEF Timer, desk, PickerInv, LaunchInv
  <2>5. CASE Escape
    <3>1. DialogInv'
        BY <2>5 DEF Escape, Becomes, Closed, DialogInv, Fields, Keys
    <3>2. QED
        BY <2>5, <3>1 DEF Escape, desk, PickerInv, LaunchInv
  <2>6. CASE Enter
    <3>1. PICK key \in Keys : key \in KeysOf(dialog.rows) /\ EnterOn(key, [On(key) EXCEPT !.cursor = 0, !.overtaken = FALSE])
        BY <2>6 DEF Enter
    <3> DEFINE d == [On(key) EXCEPT !.cursor = 0, !.overtaken = FALSE]
    <3>2. DOMAIN d = Fields /\ d.token \in Tokens /\ d.pressed \in Keys
        BY <2>6 DEF Enter, Idle, On, PickerInv, DialogInv, Fields
    <3>0. key # NoKey
        BY <3>1 DEF KeysOf
    <3>3. DialogInv'
      <4> HIDE DEF d
      <4>1. EnterOn(key, d)
        BY <3>1 DEF d
      <4>2. QED
        BY <3>0, <3>2, <4>1, EnterInv DEF PickerInv
    <3>4. QED
        BY <2>6, <3>3 DEF Enter, desk, PickerInv, LaunchInv
  <2>7. CASE EnterAgain
    <3> DEFINE d == [dialog EXCEPT !.again = TRUE]
    <3>1. dialog.pressed \in Keys \ {NoKey} /\ EnterOn(dialog.pressed, d)
        BY <2>7 DEF EnterAgain, PickerInv, DialogInv
    <3>2. DOMAIN d = Fields /\ d.token \in Tokens /\ d.pressed \in Keys
        BY <2>7 DEF EnterAgain, PickerInv, DialogInv, Fields
    <3>3. DialogInv'
      <4> HIDE DEF d
      <4>1. QED
        BY <3>1, <3>2, EnterInv DEF PickerInv
    <3>4. QED
        BY <2>7, <3>3 DEF EnterAgain, desk, PickerInv, LaunchInv
  <2>8. CASE FocusRow
    <3>1. dialog.pc = "act" /\ dialog.pressed.inst # NoInstance
            /\ launch[dialog.pressed.inst].state = "live" /\ Focus(dialog.pressed.inst)
        BY <2>8 DEF FocusRow, Acts
    <3>2. dialog.pressed.inst \in Instances
        BY <3>1 DEF PickerInv, DialogInv, Keys, NoKey
    <3>3. LaunchInv' /\ (Accepted \/ Rejected)
        BY <3>1, <3>2, FocusSteps
    <3>4. QED
        BY <3>1, <3>3, ActedInv
  <2>9. CASE OpenFound
    <3>1. dialog.pc = "act"
        BY <2>9 DEF OpenFound, Acts
    <3>2. PICK i \in Instances :
            \/ launch[i].state = "live" /\ Focus(i)
            \/ Accepted /\ UNCHANGED launch
        BY <2>9 DEF OpenFound
    <3>3. LaunchInv' /\ (Accepted \/ Rejected)
        BY <3>1, <3>2, FocusSteps DEF PickerInv, LaunchInv
    <3>4. QED
        BY <3>1, <3>3, ActedInv
  <2>10. CASE OpenNew
    <3>1. dialog.pc = "act"
        BY <2>10 DEF OpenNew, Acts
    <3>2. PICK i \in Instances, state \in {"pending", "retired"} :
            /\ launch' = [launch EXCEPT ![i] = [req |-> dialog.token, state |-> state]]
            /\ Rejected \/ Accepted
        BY <2>10 DEF OpenNew
    <3>3. dialog.token \in Tokens
        BY <3>1 DEF PickerInv, DialogInv
    <3>4. LaunchInv'
        BY <3>2, <3>3 DEF PickerInv, LaunchInv, Active
    <3>5. QED
        BY <3>1, <3>2, <3>4, ActedInv
  <2>11. CASE Refused
    <3>1. dialog.pc = "act" /\ Rejected /\ UNCHANGED launch
        BY <2>11 DEF Refused, Acts
    <3>2. QED
        BY <3>1, ActedInv DEF PickerInv, LaunchInv
  <2>12. CASE Count
    <3>1. dialog.pressed # NoKey /\ Ends("done", 0) /\ UNCHANGED launch
        BY <2>12 DEF Count, desk, PickerInv, DialogInv
    <3>2. DialogInv'
        BY <3>1, EndsInv
    <3>3. QED
        BY <3>1, <3>2 DEF PickerInv, LaunchInv
  <2>13. CASE Redraw
    <3>1. DOMAIN dialog = Fields /\ dialog.token \in Tokens
        BY <2>13 DEF Redraw, PickerInv, DialogInv
    <3>2. DialogInv'
        BY <2>13, <3>1, DrawnInv DEF Redraw
    <3>3. QED
        BY <2>13, <3>2 DEF Redraw, desk, PickerInv, LaunchInv
  <2>14. CASE OtherOpens
    <3>1. LaunchInv'
        BY <2>14 DEF OtherOpens, PickerInv, LaunchInv, Active
    <3>2. QED
        BY <2>14, <3>1 DEF OtherOpens, PickerInv, DialogInv
  <2>15. CASE Evolves
    <3>1. LaunchInv'
        BY <2>15 DEF Evolves, Turns, PickerInv, LaunchInv, Active
    <3>2. QED
        BY <2>15, <3>1 DEF Evolves, PickerInv, DialogInv
  <2>16. CASE CatalogChanges \/ OtherCounts \/ ClockChanges \/ UNCHANGED vars
    BY <2>16 DEF CatalogChanges, OtherCounts, ClockChanges, Changes, vars, desk, inventory,
                 PickerInv, LaunchInv, DialogInv
  <2>17. QED
    BY <2>1, <2>2, <2>3, <2>4, <2>5, <2>6, <2>7, <2>8, <2>9, <2>10, <2>11, <2>12, <2>13,
       <2>14, <2>15, <2>16 DEF Next
<1>3. CatalogInv'
  <2>1. CASE CatalogChanges
    BY <2>1 DEF CatalogChanges, CatalogInv
  <2>2. CASE UNCHANGED inventory
    BY <2>2 DEF inventory, PickerInv, CatalogInv, Offered
  <2>3. CatalogChanges \/ UNCHANGED inventory
    BY DEF Next, Open, Tab, Refresh, Timer, Escape, Enter, EnterAgain, FocusRow,
           OpenFound, OpenNew, Refused, Acts, Count, Redraw, OtherOpens, Evolves,
           OtherCounts, ClockChanges, Changes, vars, desk
  <2>4. QED
    BY <2>1, <2>2, <2>3
<1>4. QED
    BY <1>1, <1>2, <1>3 DEF PickerInv

(* A dialog keeps to its invariant, whatever goes on around it.            *)
THEOREM Invariant == Spec => []PickerInv
BY PickerInitInv, PickerNextInv, PTL DEF Spec

(* The dialog uses the history as UsageSpec says.                          *)
LEMMA ImplementsUsage == Spec => UsageSpec
<1>1. Init => UsageInit
    BY DEF Init
<1>2. QED
    BY <1>1, Invariant, UsageSteps, PTL DEF Spec, UsageSpec

(* An action of a picker is counted once, however often its callback is    *)
(* repeated, unless the clock is set back.                                 *)
THEOREM CountsOnce == Spec => CountedOnce
BY ImplementsUsage, HistoryCountsOnce, PTL

(* What Enter opens is what its row offers.                                *)
LEMMA OpensItsRow ==
    ASSUME PickerInv, [Next]_vars, NEW i \in Instances,
           launch[i] = Absent, launch'[i].req # NoToken
    PROVE  /\ TargetOf[i] = dialog.key.target
           /\ MadeBy(launch'[i].req, TargetOf[i]) = {}
           /\ dialog.action = "open" =>
                  dialog.key.inst = NoInstance /\ Running(dialog.key.target) = {}
<1>1. launch'[i] # launch[i] /\ launch[i].state = "absent"
    BY DEF Absent
<1>2. ASSUME NEW j \in Instances, NEW state, launch[j].state \in Active, Turns(j, state)
      PROVE  FALSE
    BY <1>1, <1>2 DEF Turns, Active, PickerInv, LaunchInv, Absent
<1>3. OpenNew
  <2>1. CASE Open \/ Tab \/ Refresh \/ Timer \/ Escape \/ Enter \/ EnterAgain \/ Refused
             \/ Count \/ Redraw \/ CatalogChanges \/ OtherCounts \/ ClockChanges
             \/ UNCHANGED vars
    BY <1>1, <2>1 DEF Open, Tab, Refresh, Timer, Escape, Enter, EnterAgain, Refused, Count,
            Redraw, CatalogChanges, OtherCounts, ClockChanges, Changes, vars, desk, inventory
  <2>2. CASE FocusRow
    <3>1. dialog.pressed.inst \in Instances
        BY <2>2 DEF FocusRow, Acts, PickerInv, DialogInv, Keys, NoKey
    <3>2. QED
        BY <1>1, <1>2, <2>2, <3>1 DEF FocusRow, Focus, Active
  <2>3. CASE OpenFound
    BY <1>1, <1>2, <2>3 DEF OpenFound, Focus, Active
  <2>4. CASE OtherOpens
    BY <1>1, <2>4 DEF OtherOpens, PickerInv, LaunchInv
  <2>5. CASE Evolves
    BY <1>2, <2>5 DEF Evolves
  <2>6. QED
    BY <2>1, <2>2, <2>3, <2>4, <2>5 DEF Next
<1>4. /\ Opens /\ Found = {} /\ dialog.pc = "act" /\ dialog.key = dialog.pressed
    BY <1>3 DEF OpenNew, Acts, PickerInv, DialogInv
<1>5. TargetOf[i] = dialog.pressed.target /\ launch'[i].req = dialog.token
    BY <1>1, <1>3 DEF OpenNew, PickerInv, LaunchInv
<1>6. MadeBy(dialog.token, dialog.pressed.target) = {}
        /\ (~Additional => Running(dialog.pressed.target) = {})
    BY <1>4 DEF Found
<1>7. dialog.action = "open" => ~Additional
    BY DEF Additional
<1>8. QED
    BY <1>4, <1>5, <1>6, <1>7 DEF Opens

(* Enter opens nothing but what its row offers.                            *)
THEOREM OpensWhatWasMeant == Spec => EnterOpensItsRow
<1>1. PickerInv /\ [Next]_vars =>
        [\A i \in Instances :
            launch[i] = Absent /\ launch'[i].req # NoToken =>
                /\ TargetOf[i] = dialog.key.target
                /\ MadeBy(launch'[i].req, TargetOf[i]) = {}
                /\ dialog.action = "open" =>
                       dialog.key.inst = NoInstance /\ Running(dialog.key.target) = {}]_vars
    BY OpensItsRow
<1>2. QED
    BY <1>1, Invariant, PTL DEF Spec, EnterOpensItsRow

-----------------------------------------------------------------------------
(* The highlight.  Of the rows it matters only that they are a sequence.   *)

LEMMA LeastOfNats ==
    ASSUME NEW S \in SUBSET Nat, S # {}
    PROVE  \E x \in S : \A y \in S : x <= y
<1>1. \E x \in S : \A y \in S : ~(<<y, x>> \in OpToRel(<, Nat))
    BY NatLessThanWellFounded, WFMin, Zenon
<1>2. \A x, y \in S : y < x => <<y, x>> \in OpToRel(<, Nat)
    BY DEF OpToRel
<1>3. PICK x \in S : \A y \in S : ~(<<y, x>> \in OpToRel(<, Nat))
    BY <1>1
<1>4. \A y \in S : ~(y < x)
    BY <1>2, <1>3, Zenon
<1>5. \A y \in S : x <= y
    BY <1>4
<1>6. QED
    BY <1>5

LEMMA MinOfNats ==
    ASSUME NEW S \in SUBSET Nat, S # {}
    PROVE  Min(S) \in S
BY LeastOfNats DEF Min

(* A key of the frame is found where it is. *)
LEMMA IndexOf ==
    ASSUME NEW rows, Len(rows) \in Nat, DOMAIN rows = 1..Len(rows),
           NEW key \in KeysOf(rows)
    PROVE  Index(rows, key) \in DOMAIN rows /\ rows[Index(rows, key)].key = key
<1> DEFINE I == {n \in 1..Len(rows) : rows[n].key = key}
<1>1. key # NoKey /\ I # {} /\ I \in SUBSET Nat
    BY DEF KeysOf
<1>2. Min(I) \in I
    BY <1>1, MinOfNats
<1>3. Index(rows, key) = Min(I)
    BY <1>1 DEF Index, SelectInSeq
<1>4. QED
    BY <1>2, <1>3

LEMMA FirstKeyIsOne ==
    ASSUME NEW rows, Len(rows) \in Nat, DOMAIN rows = 1..Len(rows)
    PROVE  FirstKey(rows) \in KeysOf(rows) \cup {NoKey}
<1> DEFINE I == {n \in 1..Len(rows) : rows[n].key # NoKey}
<1>1. CASE I = {}
    BY <1>1 DEF FirstKey, SelectInSeq
<1>2. CASE I # {}
  <2>1. I \in SUBSET Nat
    OBVIOUS
  <2>2. Min(I) \in I
    BY <1>2, <2>1, MinOfNats
  <2>3. FirstKey(rows) = rows[Min(I)].key
    BY <1>2, <2>2 DEF FirstKey, SelectInSeq
  <2>4. QED
    BY <2>2, <2>3 DEF KeysOf
<1>3. QED
    BY <1>1, <1>2

LEMMA RowSetFinite == CatalogInv => IsFiniteSet(RowSet)
<1> SUFFICES ASSUME CatalogInv PROVE IsFiniteSet(RowSet)
    OBVIOUS
<1>0. listed \subseteq Targets
    BY ListedTargets
<1> DEFINE TargetRows == {Row(TargetKey(t), "target") : t \in Targets}
           WindowRows == {Row(WindowKey(i), launch[i].state) : i \in Instances}
<1>1. IsFiniteSet(TargetRows)
  <2> DEFINE f == [t \in Targets |-> Row(TargetKey(t), "target")]
  <2>1. f \in Surjection(Targets, TargetRows)
    BY DEF Surjection
  <2>2. QED
    BY <2>1, FS_Surjection, PickerAssumption DEF ExistsSurjection
<1>2. IsFiniteSet(WindowRows)
  <2> DEFINE f == [i \in Instances |-> Row(WindowKey(i), launch[i].state)]
  <2>1. f \in Surjection(Instances, WindowRows)
    BY DEF Surjection
  <2>2. QED
    BY <2>1, FS_Surjection, PickerAssumption DEF ExistsSurjection
<1>3. RowSet \subseteq TargetRows \cup WindowRows
    BY <1>0 DEF RowSet
<1>4. QED
    BY <1>1, <1>2, <1>3, FS_Union, FS_Subset

LEMMA RowsAreASequence ==
    ASSUME CatalogInv, NEW rank
    PROVE  Len(Rows(rank)) \in Nat /\ DOMAIN Rows(rank) = 1..Len(Rows(rank))
<1>1. Cardinality(RowSet) \in Nat
    BY RowSetFinite, FS_CardinalityType
<1>2. CASE RowSet = {}
    BY <1>2 DEF Rows
<1>3. CASE RowSet # {}
  <2>1. Rows(rank) = Sorted(RowSet, Metric(rank))
    BY <1>3 DEF Rows
  <2>2. DOMAIN Rows(rank) = 1..Cardinality(RowSet)
    BY <2>1 DEF Sorted
  <2>3. QED
    BY <1>1, <2>1, <2>2 DEF Sorted
<1>4. QED
    BY <1>2, <1>3

LEMMA KeyIsPlaced ==
    ASSUME CatalogInv, NEW rank, NEW key \in KeysOf(Rows(rank))
    PROVE  /\ Index(Rows(rank), key) # 0
           /\ Rows(rank)[Index(Rows(rank), key)].key = key
<1>1. /\ Index(Rows(rank), key) \in DOMAIN Rows(rank)
      /\ Rows(rank)[Index(Rows(rank), key)].key = key
    BY RowsAreASequence, IndexOf
<1>2. QED
    BY <1>1, RowsAreASequence

LEMMA FallbackIsShown ==
    ASSUME CatalogInv, NEW rank, NEW key
    PROVE  /\ Fallback(Rows(rank), key) \in KeysOf(Rows(rank)) \cup {NoKey}
           /\ key = NoKey => Fallback(Rows(rank), key) = NoKey
BY RowsAreASequence, FirstKeyIsOne DEF Fallback

(* What a frame has to satisfy: HighlightIsMeant, and that on an empty list*)
(* no row is meant, so that the timer that looks for first rows has none   *)
(* to lose.                                                                *)
FrameInv ==
    dialog.pc = "idle" =>
        /\ dialog.restore \in BOOLEAN
        /\ dialog.key # NoKey => KeysOf(dialog.rows) # {}
        /\ ~dialog.restore /\ ~dialog.overtaken /\ dialog.key # NoKey =>
               dialog.cursor # 0 /\ dialog.rows[dialog.cursor].key = dialog.key

LEMMA DrawnFrame ==
    ASSUME CatalogInv, NEW d, NEW select \in BOOLEAN, DOMAIN d = Fields,
           select \/ d.key = NoKey, Becomes(Drawn(d, select))
    PROVE  FrameInv'
<1> DEFINE rows == Rows(d.rank)
           key == Fallback(rows, d.key)
           at == Index(rows, key)
           same == rows = d.rows \/ Through(rows, at) = Through(d.rows, d.at)
           restore == Corrects(d, rows, at)
           overtaken == /\ d.restore /\ ~restore /\ ~same
                        /\ Places(Through(rows, at)) = Places(Through(d.rows, d.at))
<1>1. /\ dialog'.rows = rows /\ dialog'.key = key /\ dialog'.restore = restore
      /\ dialog'.overtaken = overtaken
      /\ dialog'.cursor = IF select /\ ~restore /\ same THEN at ELSE 0
    BY DEF Becomes, Drawn, Fields
<1>2. key \in KeysOf(rows) \cup {NoKey} /\ (d.key = NoKey => key = NoKey)
    BY FallbackIsShown
<1>3. key # NoKey => at # 0 /\ rows[at].key = key
    BY <1>2, KeyIsPlaced
<1>4. ASSUME ~restore, ~overtaken, key # NoKey
      PROVE  select /\ same
  <2>1. select
    BY <1>2, <1>4
  <2>2. same
    BY <1>3, <1>4 DEF Corrects
  <2>3. QED
    BY <2>1, <2>2
<1>5. restore \in BOOLEAN
    BY DEF Corrects
<1> HIDE DEF rows, key, at, same, restore, overtaken
<1>6. QED
    BY <1>1, <1>2, <1>3, <1>4, <1>5 DEF FrameInv

LEMMA OpenFrame ==
    ASSUME PickerInv, Open
    PROVE  FrameInv'
<1>1. PICK last \in Keys :
            dialog' = [Closed EXCEPT
                !.pc = "idle", !.rows = Rows(Statistics), !.key = Preferred(Rows(Statistics), last),
                !.at = Index(Rows(Statistics), Preferred(Rows(Statistics), last)),
                !.cursor = Index(Rows(Statistics), Preferred(Rows(Statistics), last)),
                !.token = NextToken, !.rank = Statistics, !.order = hostOrder]
    BY DEF Open, Becomes
<1> DEFINE rows == Rows(Statistics)
           key == Preferred(rows, last)
<1>2. key \in KeysOf(rows) \cup {NoKey}
    BY RowsAreASequence, FirstKeyIsOne DEF Preferred, PickerInv
<1>3. key # NoKey => Index(rows, key) # 0 /\ rows[Index(rows, key)].key = key
    BY <1>2, KeyIsPlaced DEF PickerInv
<1>4. /\ dialog'.rows = rows /\ dialog'.key = key /\ dialog'.cursor = Index(rows, key)
      /\ dialog'.restore = FALSE
    BY <1>1 DEF Closed
<1> HIDE DEF rows, key
<1>5. QED
    BY <1>2, <1>3, <1>4 DEF FrameInv

LEMMA FrameNextInv == PickerInv /\ FrameInv /\ [Next]_vars => FrameInv'
<1> SUFFICES ASSUME PickerInv, FrameInv, [Next]_vars PROVE FrameInv'
    OBVIOUS
<1>1. CatalogInv /\ DOMAIN dialog = Fields
    BY DEF PickerInv, DialogInv
<1>2. CASE Open
    BY <1>2, OpenFrame
<1>3. CASE Tab
  <2>1. PICK key : Becomes(Drawn([On(key) EXCEPT !.token = NextToken,
                !.action = IF @ = "open" THEN "additional" ELSE "open"], TRUE))
    BY <1>3 DEF Tab
  <2> DEFINE d == [On(key) EXCEPT !.token = NextToken,
                !.action = IF @ = "open" THEN "additional" ELSE "open"]
  <2>2. DOMAIN d = Fields
    BY <1>1 DEF On
  <2> HIDE DEF d
  <2>3. Becomes(Drawn(d, TRUE))
    BY <2>1 DEF d
  <2>4. QED
    BY <1>1, <2>2, <2>3, DrawnFrame
<1>4. CASE Refresh
  <2>1. PICK key : Becomes(Drawn(On(key), TRUE))
    BY <1>4 DEF Refresh
  <2> DEFINE d == On(key)
  <2>2. DOMAIN d = Fields
    BY <1>1 DEF On
  <2> HIDE DEF d
  <2>3. Becomes(Drawn(d, TRUE))
    BY <2>1 DEF d
  <2>4. QED
    BY <1>1, <2>2, <2>3, DrawnFrame
<1>5. CASE Timer
  <2>1. dialog.restore \/ dialog.key = NoKey
    BY <1>5 DEF Timer, Idle, FrameInv
  <2>2. CASE dialog.restore
    <3>1. Becomes(Drawn(dialog, dialog.restore)) /\ dialog.restore \in BOOLEAN
        BY <1>5 DEF Timer, Idle, FrameInv
    <3>2. QED
        BY <1>1, <2>2, <3>1, DrawnFrame
  <2>3. CASE dialog.key = NoKey
    <3>1. Becomes(Drawn(dialog, dialog.restore)) /\ dialog.restore \in BOOLEAN
        BY <1>5 DEF Timer, Idle, FrameInv
    <3>2. QED
        BY <1>1, <2>3, <3>1, DrawnFrame
  <2>4. QED
    BY <2>1, <2>2, <2>3
<1>6. CASE Redraw
    BY <1>1, <1>6, DrawnFrame DEF Redraw
<1>7. CASE Escape
    BY <1>7 DEF Escape, Becomes, Closed, FrameInv
<1>8. CASE Enter \/ EnterAgain
  <2>1. ASSUME NEW key, NEW d, DOMAIN d = Fields, EnterOn(key, d)
        PROVE  dialog'.pc \in {"act", "redraw"} \/ dialog' = dialog
    BY <2>1 DEF EnterOn, Becomes, Fields
  <2>2. dialog'.pc \in {"act", "redraw"} \/ dialog' = dialog
    <3>1. CASE Enter
        <4>1. PICK key : EnterOn(key, [On(key) EXCEPT !.cursor = 0, !.overtaken = FALSE])
            BY <3>1 DEF Enter
        <4> DEFINE d == [On(key) EXCEPT !.cursor = 0, !.overtaken = FALSE]
        <4>2. DOMAIN d = Fields
            BY <1>1 DEF On
        <4> HIDE DEF d
        <4>3. EnterOn(key, d)
            BY <4>1 DEF d
        <4>4. QED
            BY <2>1, <4>2, <4>3
    <3>2. CASE EnterAgain
        <4> DEFINE d == [dialog EXCEPT !.again = TRUE]
        <4>1. EnterOn(dialog.pressed, d)
            BY <3>2 DEF EnterAgain
        <4>2. DOMAIN d = Fields
            BY <1>1
        <4> HIDE DEF d
        <4>3. QED
            BY <2>1, <4>1, <4>2
    <3>3. QED
        BY <1>8, <3>1, <3>2
  <2>3. QED
    BY <2>2 DEF FrameInv
<1>9. CASE FocusRow \/ OpenFound \/ OpenNew \/ Refused
  <2>1. Accepted \/ Rejected
    BY <1>9 DEF FocusRow, OpenFound, OpenNew, Refused, Focus
  <2>2. dialog'.pc \in {"count", "done", "redraw"}
    <3>1. ASSUME NEW pc, NEW moment, Ends(pc, moment) PROVE dialog'.pc = pc
        BY <3>1 DEF Ends, Becomes, Closed
    <3>2. QED
        BY <1>1, <2>1, <3>1 DEF Accepted, Rejected, Becomes, Fields
  <2>3. QED
    BY <2>2 DEF FrameInv
<1>10. CASE Count
    BY <1>10 DEF Count, Ends, Becomes, Closed, FrameInv
<1>11. CASE OtherOpens \/ Evolves \/ CatalogChanges \/ OtherCounts \/ ClockChanges
             \/ UNCHANGED vars
    BY <1>11 DEF OtherOpens, Evolves, CatalogChanges, OtherCounts, ClockChanges, Changes,
                 vars, FrameInv
<1>12. QED
    BY <1>2, <1>3, <1>4, <1>5, <1>6, <1>7, <1>8, <1>9, <1>10, <1>11 DEF Next

(* While no correction is under way, Rofi highlights the row that is meant.*)
THEOREM Highlighted == Spec => []HighlightIsMeant
<1>1. Init => FrameInv
    BY DEF Init, Closed, FrameInv
<1>2. FrameInv => HighlightIsMeant
    BY DEF FrameInv, HighlightIsMeant, Idle
<1>3. QED
    BY <1>1, <1>2, Invariant, FrameNextInv, PTL DEF Spec

-----------------------------------------------------------------------------
(* The order of the rows.  Sorting by the number of rows that come before  *)
(* is well defined because that number differs from row to row: it is an   *)
(* injection of the rows into as many places, and so takes every place.    *)

(* The targets that build_rows has a place for.                            *)
Placed == {t \in Targets : hostOrder[HostOf[t]] # 0 \/ Running(t) # {}}

LEMMA HostOrderType == CatalogInv => hostOrder \in [Hosts -> Nat]
BY FS_CardinalityType, PickerAssumption DEF CatalogInv, HostOrders

(* Of the targets with a window on a host, one is stored before the others.*)
LEMMA FirstStored ==
    ASSUME NEW h \in Hosts, RunningOn(h) # {}
    PROVE  \E s \in RunningOn(h) : \A t \in RunningOn(h) : StoredAs[s] <= StoredAs[t]
<1> DEFINE S == {StoredAs[t] : t \in RunningOn(h)}
<1>1. S # {} /\ S \in SUBSET Nat
    BY PickerAssumption DEF RunningOn
<1>2. \E x \in S : \A y \in S : x <= y
    BY <1>1, LeastOfNats
<1>3. QED
    BY <1>2

(* The hosts of rows are in some order.                                    *)
LEMMA HostsOrdered ==
    ASSUME CatalogInv
    PROVE  /\ \A g, h \in Hosts : ~(HostBefore(g, h) /\ HostBefore(h, g))
           /\ \A g, h, k \in Hosts :
                HostBefore(g, h) /\ HostBefore(h, k) => HostBefore(g, k)
           /\ \A g, h \in Hosts :
                /\ g # h
                /\ hostOrder[g] # 0 \/ RunningOn(g) # {}
                /\ hostOrder[h] # 0 \/ RunningOn(h) # {}
                => HostBefore(g, h) \/ HostBefore(h, g)
<1>1. \A h \in Hosts : hostOrder[h] \in Nat
    BY HostOrderType
<1>2. \A h \in Hosts : \A t \in RunningOn(h) : t \in Targets /\ HostOf[t] = h
    BY DEF RunningOn
<1>3. \A t \in Targets : StoredAs[t] \in Nat
    BY PickerAssumption
<1>4. ASSUME NEW g \in Hosts, NEW h \in Hosts, HostBefore(g, h), HostBefore(h, g)
      PROVE  FALSE
  <2>1. hostOrder[g] = 0 /\ hostOrder[h] = 0
    BY <1>1, <1>4 DEF HostBefore
  <2>2. PICK s \in RunningOn(g) : \A t \in RunningOn(h) : StoredAs[s] < StoredAs[t]
    BY <1>4, <2>1 DEF HostBefore
  <2>3. PICK t \in RunningOn(h) : \A u \in RunningOn(g) : StoredAs[t] < StoredAs[u]
    BY <1>4, <2>1 DEF HostBefore
  <2>4. StoredAs[s] < StoredAs[t] /\ StoredAs[t] < StoredAs[s]
    BY <2>2, <2>3
  <2>5. StoredAs[s] \in Nat /\ StoredAs[t] \in Nat
    BY <1>2, <1>3
  <2>6. QED
    BY <2>4, <2>5
<1>5. ASSUME NEW g \in Hosts, NEW h \in Hosts, NEW k \in Hosts,
             HostBefore(g, h), HostBefore(h, k)
      PROVE  HostBefore(g, k)
  <2>1. CASE hostOrder[g] # 0
    BY <1>1, <1>5, <2>1 DEF HostBefore
  <2>2. CASE hostOrder[g] = 0
    <3>1. hostOrder[h] = 0 /\ hostOrder[k] = 0
        BY <1>5, <2>2 DEF HostBefore
    <3>2. PICK s \in RunningOn(g) : \A t \in RunningOn(h) : StoredAs[s] < StoredAs[t]
        BY <1>5, <2>2, <3>1 DEF HostBefore
    <3>3. PICK t \in RunningOn(h) : \A u \in RunningOn(k) : StoredAs[t] < StoredAs[u]
        BY <1>5, <3>1 DEF HostBefore
    <3>4. ASSUME NEW u \in RunningOn(k) PROVE StoredAs[s] < StoredAs[u]
      <4>1. StoredAs[s] < StoredAs[t] /\ StoredAs[t] < StoredAs[u]
        BY <3>2, <3>3
      <4>2. StoredAs[s] \in Nat /\ StoredAs[t] \in Nat /\ StoredAs[u] \in Nat
        BY <1>2, <1>3
      <4>3. QED
        BY <4>1, <4>2
    <3>5. QED
        BY <2>2, <3>1, <3>4 DEF HostBefore
  <2>3. QED
    BY <2>1, <2>2
<1>6. ASSUME NEW g \in Hosts, NEW h \in Hosts, g # h,
             hostOrder[g] # 0 \/ RunningOn(g) # {}, hostOrder[h] # 0 \/ RunningOn(h) # {}
      PROVE  HostBefore(g, h) \/ HostBefore(h, g)
  <2>1. CASE hostOrder[g] # 0 \/ hostOrder[h] # 0
    <3>1. hostOrder[g] # hostOrder[h]
        BY <1>6, <2>1 DEF CatalogInv, HostOrders
    <3>2. QED
        BY <1>1, <2>1, <3>1 DEF HostBefore
  <2>2. CASE hostOrder[g] = 0 /\ hostOrder[h] = 0
    <3>1. PICK s \in RunningOn(g) : \A t \in RunningOn(g) : StoredAs[s] <= StoredAs[t]
        BY <1>6, <2>2, FirstStored
    <3>2. PICK t \in RunningOn(h) : \A u \in RunningOn(h) : StoredAs[t] <= StoredAs[u]
        BY <1>6, <2>2, FirstStored
    <3>3. StoredAs[s] # StoredAs[t]
        BY <1>2, <1>6, PickerAssumption
    <3>4. CASE StoredAs[s] < StoredAs[t]
      <4>1. ASSUME NEW u \in RunningOn(h) PROVE StoredAs[s] < StoredAs[u]
        <5>1. StoredAs[t] <= StoredAs[u]
            BY <3>2
        <5>2. StoredAs[s] \in Nat /\ StoredAs[t] \in Nat /\ StoredAs[u] \in Nat
            BY <1>2, <1>3
        <5>3. QED
            BY <3>4, <5>1, <5>2
      <4>2. QED
        BY <2>2, <4>1 DEF HostBefore
    <3>5. CASE StoredAs[t] < StoredAs[s]
      <4>1. ASSUME NEW u \in RunningOn(g) PROVE StoredAs[t] < StoredAs[u]
        <5>1. StoredAs[s] <= StoredAs[u]
            BY <3>1
        <5>2. StoredAs[s] \in Nat /\ StoredAs[t] \in Nat /\ StoredAs[u] \in Nat
            BY <1>2, <1>3
        <5>3. QED
            BY <3>5, <5>1, <5>2
      <4>2. QED
        BY <2>2, <4>1 DEF HostBefore
    <3>6. StoredAs[s] \in Nat /\ StoredAs[t] \in Nat
        BY <1>2, <1>3
    <3>7. QED
        BY <3>3, <3>4, <3>5, <3>6
  <2>3. QED
    BY <2>1, <2>2
<1>7. QED
    BY <1>4, <1>5, <1>6

(* So are their targets.                                                   *)
LEMMA TargetsOrdered ==
    ASSUME CatalogInv
    PROVE  /\ \A s, t \in Targets : ~(TargetBefore(s, t) /\ TargetBefore(t, s))
           /\ \A s, t, u \in Targets :
                TargetBefore(s, t) /\ TargetBefore(t, u) => TargetBefore(s, u)
           /\ \A s, t \in Placed : s # t => TargetBefore(s, t) \/ TargetBefore(t, s)
<1>1. \A t \in Targets : t \in Nat /\ HostOf[t] \in Hosts
    BY UsageAssumption, PickerAssumption
<1>2. ASSUME NEW s \in Targets, NEW t \in Targets, TargetBefore(s, t), TargetBefore(t, s)
      PROVE  FALSE
    BY <1>1, <1>2, HostsOrdered DEF TargetBefore
<1>3. ASSUME NEW s \in Targets, NEW t \in Targets, NEW u \in Targets,
             TargetBefore(s, t), TargetBefore(t, u)
      PROVE  TargetBefore(s, u)
  <2>1. HostOf[s] = HostOf[u] =>
            HostOf[s] = HostOf[t] \/ (HostBefore(HostOf[s], HostOf[t])
                                        /\ HostBefore(HostOf[t], HostOf[s]))
    BY <1>3 DEF TargetBefore
  <2>2. HostOf[s] = HostOf[u] => HostOf[s] = HostOf[t]
    BY <1>1, <2>1, HostsOrdered
  <2>3. CASE HostOf[s] = HostOf[t] /\ HostOf[t] = HostOf[u]
    BY <1>1, <1>3, <2>3 DEF TargetBefore
  <2>4. CASE HostOf[s] # HostOf[t] /\ HostOf[t] # HostOf[u]
    <3>1. HostBefore(HostOf[s], HostOf[u])
        BY <1>1, <1>3, <2>4, HostsOrdered DEF TargetBefore
    <3>2. QED
        BY <2>2, <2>4, <3>1 DEF TargetBefore
  <2>5. QED
    BY <1>3, <2>2, <2>3, <2>4 DEF TargetBefore
<1>4. ASSUME NEW s \in Placed, NEW t \in Placed, s # t
      PROVE  TargetBefore(s, t) \/ TargetBefore(t, s)
  <2>1. /\ s \in Targets /\ (hostOrder[HostOf[s]] # 0 \/ RunningOn(HostOf[s]) # {})
        /\ t \in Targets /\ (hostOrder[HostOf[t]] # 0 \/ RunningOn(HostOf[t]) # {})
    BY DEF Placed, RunningOn
  <2>2. CASE HostOf[s] = HostOf[t]
    BY <1>1, <1>4, <2>1, <2>2 DEF TargetBefore
  <2>3. CASE HostOf[s] # HostOf[t]
    BY <1>1, <2>1, <2>3, HostsOrdered DEF TargetBefore
  <2>4. QED
    BY <2>2, <2>3
<1>5. QED
    BY <1>2, <1>3, <1>4

(* Rows that can be sorted: finitely many, and no two with one key.        *)
Sortable(set) ==
    /\ IsFiniteSet(set)
    /\ \A row \in set : row.key.target \in Targets /\ row.key.inst \in Int
    /\ \A a, b \in set : a.key = b.key => a = b
    /\ \A a, b \in set :
        a.key.target = b.key.target /\ a.key.inst = b.key.inst => a.key = b.key
    /\ \A row \in set : row.key.target \in Placed

Before(set, row, metric) == {above \in set : Precedes(above, row, metric)}

LEMMA PrecedesOrders ==
    ASSUME CatalogInv, NEW set, Sortable(set), NEW metric \in [Targets -> Int]
    PROVE  /\ \A a \in set : ~Precedes(a, a, metric)
           /\ \A a, b \in set : a # b => Precedes(a, b, metric) \/ Precedes(b, a, metric)
           /\ \A a, b, c \in set :
                Precedes(a, b, metric) /\ Precedes(b, c, metric) => Precedes(a, c, metric)
<1>1. \A a \in set : /\ a.key.target \in Targets /\ a.key.target \in Placed
                     /\ a.key.inst \in Int /\ metric[a.key.target] \in Int
    BY DEF Sortable
<1>2. \A a \in set : ~Precedes(a, a, metric)
    BY <1>1 DEF Precedes
<1>3. ASSUME NEW a \in set, NEW b \in set, a # b
      PROVE  Precedes(a, b, metric) \/ Precedes(b, a, metric)
  <2>1. CASE a.key.target = b.key.target
    <3>1. a.key.inst # b.key.inst
        BY <1>3, <2>1 DEF Sortable
    <3>2. QED
        BY <1>1, <2>1, <3>1 DEF Precedes
  <2>2. CASE a.key.target # b.key.target
    <3>1. \/ TargetBefore(a.key.target, b.key.target)
          \/ TargetBefore(b.key.target, a.key.target)
        BY <1>1, <2>2, TargetsOrdered
    <3>2. QED
        BY <1>1, <2>2, <3>1 DEF Precedes
  <2>3. QED
    BY <2>1, <2>2
<1>4. ASSUME NEW a \in set, NEW b \in set, NEW c \in set,
             Precedes(a, b, metric), Precedes(b, c, metric)
      PROVE  Precedes(a, c, metric)
  <2> DEFINE ta == a.key.target
             tb == b.key.target
             tc == c.key.target
  <2>1. /\ ta \in Targets /\ tb \in Targets /\ tc \in Targets
        /\ metric[ta] \in Int /\ metric[tb] \in Int /\ metric[tc] \in Int
        /\ a.key.inst \in Int /\ b.key.inst \in Int /\ c.key.inst \in Int
    BY <1>1
  <2>2. \/ ta = tb /\ a.key.inst < b.key.inst
        \/ ta # tb /\ metric[ta] > metric[tb]
        \/ ta # tb /\ metric[ta] = metric[tb] /\ TargetBefore(ta, tb)
    BY <1>4 DEF Precedes
  <2>3. \/ tb = tc /\ b.key.inst < c.key.inst
        \/ tb # tc /\ metric[tb] > metric[tc]
        \/ tb # tc /\ metric[tb] = metric[tc] /\ TargetBefore(tb, tc)
    BY <1>4 DEF Precedes
  <2>4. /\ TargetBefore(ta, tb) /\ TargetBefore(tb, tc) => TargetBefore(ta, tc)
        /\ TargetBefore(ta, tb) /\ TargetBefore(tb, tc) => ta # tc
    BY <2>1, TargetsOrdered
  <2>5. \/ ta = tc /\ a.key.inst < c.key.inst
        \/ ta # tc /\ metric[ta] > metric[tc]
        \/ ta # tc /\ metric[ta] = metric[tc] /\ TargetBefore(ta, tc)
    <3> HIDE DEF ta, tb, tc
    <3>1. QED
        BY <2>1, <2>2, <2>3, <2>4
  <2>6. QED
    BY <2>5 DEF Precedes
<1>5. QED
    BY <1>2, <1>3, <1>4

(* A row has fewer rows before it than one it precedes.                    *)
LEMMA FewerBefore ==
    ASSUME CatalogInv, NEW set, Sortable(set), NEW metric \in [Targets -> Int],
           NEW a \in set, NEW b \in set, Precedes(a, b, metric)
    PROVE  Cardinality(Before(set, a, metric)) < Cardinality(Before(set, b, metric))
<1> DEFINE A == Before(set, a, metric)
           B == Before(set, b, metric)
<1>1. A \subseteq B /\ a \in B /\ a \notin A
    BY PrecedesOrders DEF Before
<1>2. IsFiniteSet(B)
    BY FS_Subset DEF Before, Sortable
<1>3. IsFiniteSet(A) /\ Cardinality(A) <= Cardinality(B) /\ Cardinality(A) # Cardinality(B)
    BY <1>1, <1>2, FS_Subset
<1>4. Cardinality(A) \in Nat /\ Cardinality(B) \in Nat
    BY <1>2, <1>3, FS_CardinalityType
<1> HIDE DEF A, B
<1>5. QED
    BY <1>3, <1>4 DEF A, B

(* Every place below the number of rows is that of exactly one row.        *)
LEMMA PlacesAreTaken ==
    ASSUME CatalogInv, NEW set, Sortable(set), NEW metric \in [Targets -> Int]
    PROVE  /\ Cardinality(set) \in Nat
           /\ \A row \in set :
                Cardinality(Before(set, row, metric)) \in 0..Cardinality(set) - 1
           /\ \A place \in 0..Cardinality(set) - 1 :
                \E row \in set : Cardinality(Before(set, row, metric)) = place
<1> DEFINE N == Cardinality(set)
           place == [row \in set |-> Cardinality(Before(set, row, metric))]
<1>1. N \in Nat
    BY FS_CardinalityType DEF Sortable
<1>2. ASSUME NEW row \in set
      PROVE  place[row] \in 0..N - 1
  <2> DEFINE B == Before(set, row, metric)
  <2>1. B \subseteq set /\ row \notin B
    BY PrecedesOrders DEF Before
  <2>2. IsFiniteSet(B) /\ Cardinality(B) <= N /\ Cardinality(B) # N
    BY <2>1, FS_Subset DEF Sortable
  <2>3. Cardinality(B) \in Nat
    BY <2>2, FS_CardinalityType
  <2> HIDE DEF B
  <2>4. Cardinality(B) \in 0..N - 1
    BY <1>1, <2>2, <2>3
  <2>5. QED
    BY <2>4 DEF B
<1>3. ASSUME NEW a \in set, NEW b \in set, place[a] = place[b]
      PROVE  a = b
  <2>1. place[a] \in Int /\ place[b] \in Int
    BY <1>2
  <2>2. ASSUME NEW x \in set, NEW y \in set, Precedes(x, y, metric)
        PROVE  place[x] < place[y]
    BY <2>2, FewerBefore
  <2> HIDE DEF place
  <2>3. ~Precedes(a, b, metric) /\ ~Precedes(b, a, metric)
    BY <1>3, <2>1, <2>2
  <2>4. QED
    BY <2>3, PrecedesOrders
<1>4. place \in Injection(set, 0..N - 1)
  <2>1. place \in [set -> 0..N - 1]
    BY <1>2
  <2> HIDE DEF place, N
  <2>2. QED
    BY <1>3, <2>1, Fun_IsInj
<1>5. IsFiniteSet(0..N - 1) /\ Cardinality(0..N - 1) = N
    BY <1>1, FS_Interval
<1>6. place \in Surjection(set, 0..N - 1)
    BY <1>4, <1>5, FS_Injection
<1>7. \A n \in 0..N - 1 : \E row \in set : place[row] = n
  <2> HIDE DEF place, N
  <2>1. QED
    BY <1>6, Fun_SurjectionProperties
<1>8. QED
    BY <1>1, <1>2, <1>7

(* Sorting keeps every row, and puts a row after those that precede it.    *)
THEOREM SortedIsSorted ==
    ASSUME CatalogInv, NEW set, Sortable(set), NEW metric \in [Targets -> Int]
    PROVE  /\ Cardinality(set) \in Nat
           /\ Sorted(set, metric) \in [1..Cardinality(set) -> set]
           /\ \A row \in set :
                \E n \in 1..Cardinality(set) : Sorted(set, metric)[n] = row
           /\ \A m, n \in 1..Cardinality(set) :
                m < n => Precedes(Sorted(set, metric)[m], Sorted(set, metric)[n], metric)
<1> DEFINE N == Cardinality(set)
           s == Sorted(set, metric)
           Place(row) == Cardinality(Before(set, row, metric))
<1>1. /\ N \in Nat
      /\ \A row \in set : Place(row) \in 0..N - 1
      /\ \A place \in 0..N - 1 : \E row \in set : Place(row) = place
    BY PlacesAreTaken
<1>2. s = [n \in 1..N |-> CHOOSE row \in set : Place(row) = n - 1]
    BY DEF Sorted, Before
<1>3. \A x, y \in set : Precedes(x, y, metric) => Place(x) < Place(y)
    BY FewerBefore
<1>4. \A x, y \in set : x # y => Precedes(x, y, metric) \/ Precedes(y, x, metric)
    BY PrecedesOrders
<1> HIDE DEF s, Place, N
<1>5. ASSUME NEW n \in 1..N
      PROVE  s[n] \in set /\ Place(s[n]) = n - 1
  <2>1. n - 1 \in 0..N - 1
    BY <1>1
  <2>2. \E row \in set : Place(row) = n - 1
    BY <1>1, <2>1
  <2>3. s[n] = CHOOSE row \in set : Place(row) = n - 1
    BY <1>2
  <2>4. QED
    BY <2>2, <2>3
<1>6. ASSUME NEW x \in set, NEW y \in set, Place(x) < Place(y)
      PROVE  Precedes(x, y, metric)
    BY <1>1, <1>3, <1>4, <1>6
<1>7. ASSUME NEW x \in set, NEW y \in set, Place(x) = Place(y)
      PROVE  x = y
    BY <1>1, <1>3, <1>4, <1>7
<1>8. s \in [1..N -> set]
    BY <1>2, <1>5
<1>9. ASSUME NEW row \in set
      PROVE  \E n \in 1..N : s[n] = row
  <2>1. Place(row) + 1 \in 1..N /\ Place(row) \in Int
    BY <1>1
  <2>2. Place(s[Place(row) + 1]) = Place(row) /\ s[Place(row) + 1] \in set
    BY <1>5, <2>1
  <2>3. QED
    BY <1>7, <2>1, <2>2
<1>10. ASSUME NEW m \in 1..N, NEW n \in 1..N, m < n
       PROVE  Precedes(s[m], s[n], metric)
    BY <1>1, <1>5, <1>6, <1>10
<1>11. QED
    BY <1>1, <1>8, <1>9, <1>10 DEF s, N

-----------------------------------------------------------------------------
(* The rows of a frame.                                                    *)

FrameRows == [key : Keys, text : {"diagnostic", "target"} \cup Active]

Rankings == [Targets -> [count : Nat, lastUsed : Nat]]

LEMMA RowSetEntries ==
    ASSUME CatalogInv
    PROVE  /\ RowSet \subseteq FrameRows
           /\ \A row \in RowSet : row.key \in [target : Targets, inst : Instances \cup {NoInstance}]
<1>1. ASSUME NEW row \in RowSet
      PROVE  /\ row.key \in [target : Targets, inst : Instances \cup {NoInstance}]
             /\ row.text \in {"target"} \cup Active
             /\ row = [key |-> row.key, text |-> row.text]
  <2>1. CASE \E t \in listed : row = Row(TargetKey(t), "target")
    BY <2>1, ListedTargets DEF Row, TargetKey
  <2>2. CASE \E i \in Instances : launch[i].state \in Active
                                    /\ row = Row(WindowKey(i), launch[i].state)
    BY <2>2, PickerAssumption DEF Row, WindowKey
  <2>3. QED
    BY <2>1, <2>2 DEF RowSet
<1>2. \A row \in RowSet : row \in FrameRows
  <2>1. SUFFICES ASSUME NEW row \in RowSet PROVE row \in FrameRows
    OBVIOUS
  <2>2. row.key \in Keys
    BY <1>1 DEF Keys
  <2>3. QED
    BY <1>1, <2>2 DEF FrameRows
<1>3. QED
    BY <1>1, <1>2

(* A target has one row without a window at most, and a window one row.    *)
LEMMA RowSetSortable ==
    ASSUME CatalogInv
    PROVE  Sortable(RowSet)
<1>1. IsFiniteSet(RowSet)
    BY RowSetFinite
<1>2. ASSUME NEW row \in RowSet
      PROVE  row.key \in [target : Targets, inst : Instances \cup {NoInstance}]
    BY RowSetEntries
<1>3. ASSUME NEW row \in RowSet
      PROVE  row.key.target \in Targets /\ row.key.inst \in Int
  <2>1. row.key.target \in Targets /\ row.key.inst \in Instances \cup {NoInstance}
    BY <1>2
  <2>2. \A i \in Instances \cup {NoInstance} : i \in Int
    BY PickerAssumption
  <2>3. QED
    BY <2>1, <2>2
<1>4. ASSUME NEW a \in RowSet, NEW b \in RowSet,
             a.key.target = b.key.target, a.key.inst = b.key.inst
      PROVE  a.key = b.key
    BY <1>2, <1>4
<1>5. ASSUME NEW a \in RowSet, NEW b \in RowSet, a.key = b.key
      PROVE  a = b
  <2>1. NoInstance \notin Instances
    BY PickerAssumption
  <2>2. \/ a.key.inst = NoInstance /\ a = Row(a.key, "target")
        \/ a.key.inst \in Instances /\ a = Row(a.key, launch[a.key.inst].state)
    BY DEF RowSet, Row, TargetKey, WindowKey
  <2>3. \/ b.key.inst = NoInstance /\ b = Row(b.key, "target")
        \/ b.key.inst \in Instances /\ b = Row(b.key, launch[b.key.inst].state)
    BY DEF RowSet, Row, TargetKey, WindowKey
  <2>4. QED
    BY <1>5, <2>1, <2>2, <2>3
<1>6. ASSUME NEW row \in RowSet
      PROVE  row.key.target \in Placed
  <2>1. \/ \E t \in listed : row.key.target = t
        \/ \E i \in Instances : launch[i].state \in Active /\ row.key.target = TargetOf[i]
    BY DEF RowSet, Row, TargetKey, WindowKey
  <2>2. \A t \in listed : t \in Placed
    BY DEF CatalogInv, Offered, Placed
  <2>3. \A i \in Instances : launch[i].state \in Active => TargetOf[i] \in Placed
    BY PickerAssumption DEF Placed, Running
  <2>4. QED
    BY <2>1, <2>2, <2>3
<1>7. QED
    BY <1>1, <1>3, <1>4, <1>5, <1>6 DEF Sortable

LEMMA MetricType ==
    ASSUME NEW rank \in Rankings
    PROVE  Metric(rank) \in [Targets -> Int]
BY DEF Metric, MetricOf, Rankings

(* A frame shows every row once, each after those that precede it, or the  *)
(* diagnostic.                                                             *)
LEMMA RowsAreSorted ==
    ASSUME CatalogInv, NEW rank \in Rankings, RowSet # {}
    PROVE  /\ Cardinality(RowSet) \in Nat
           /\ Rows(rank) \in [1..Cardinality(RowSet) -> RowSet]
           /\ \A row \in RowSet :
                \E n \in 1..Cardinality(RowSet) : Rows(rank)[n] = row
           /\ \A m, n \in 1..Cardinality(RowSet) :
                m < n => Precedes(Rows(rank)[m], Rows(rank)[n], Metric(rank))
<1>1. Sortable(RowSet) /\ Metric(rank) \in [Targets -> Int]
    BY RowSetSortable, MetricType
<1>2. Rows(rank) = Sorted(RowSet, Metric(rank))
    BY DEF Rows
<1> DEFINE set == RowSet
           metric == Metric(rank)
           sorted == Rows(rank)
<1>3. Sortable(set) /\ metric \in [Targets -> Int] /\ sorted = Sorted(set, metric)
    BY <1>1, <1>2
<1> HIDE DEF set, metric, sorted
<1>4. /\ Cardinality(set) \in Nat
      /\ sorted \in [1..Cardinality(set) -> set]
      /\ \A row \in set : \E n \in 1..Cardinality(set) : sorted[n] = row
      /\ \A m, n \in 1..Cardinality(set) : m < n => Precedes(sorted[m], sorted[n], metric)
    BY <1>3, SortedIsSorted
<1>5. QED
    BY <1>4 DEF set, metric, sorted

LEMMA RowsType ==
    ASSUME CatalogInv, NEW rank \in Rankings
    PROVE  Rows(rank) \in Seq(FrameRows)
<1>1. CASE RowSet = {}
  <2>1. Diagnostic \in FrameRows
    BY DEF Diagnostic, Row, FrameRows, Keys
  <2>2. QED
    BY <1>1, <2>1 DEF Rows
<1>2. CASE RowSet # {}
  <2>1. Cardinality(RowSet) \in Nat /\ Rows(rank) \in [1..Cardinality(RowSet) -> RowSet]
    BY <1>2, RowsAreSorted
  <2>2. Rows(rank) \in [1..Cardinality(RowSet) -> FrameRows]
    BY <2>1, RowSetEntries
  <2>3. QED
    BY <2>1, <2>2
<1>3. QED
    BY <1>1, <1>2

-----------------------------------------------------------------------------
(* Type correctness.  That uses can be counted takes that the events of a  *)
(* target are finitely many: a record adds one.                            *)

EventsFinite == \A t \in Targets : IsFiniteSet(history[t].events)

LEMMA EventsFiniteStep ==
    ASSUME UsageInv, EventsFinite, [UsageNext]_usage
    PROVE  EventsFinite'
<1>1. CASE UNCHANGED history
    BY <1>1 DEF EventsFinite
<1>2. CASE history' # history
  <2>1. PICK target \in Targets, tok \in Tokens, moment \in Moments :
            Record(target, tok, moment)
    BY <1>2 DEF UsageNext, usage, Tick, SetBack, Arm
  <2>2. SUFFICES ASSUME NEW t \in Targets PROVE IsFiniteSet(history'[t].events)
    BY DEF EventsFinite
  <2>3. history'[t].events \subseteq history[t].events \cup {[id |-> tok, at |-> moment]}
    BY <2>1, RecordedEvents DEF UsageInv
  <2>4. IsFiniteSet(history[t].events \cup {[id |-> tok, at |-> moment]})
    BY FS_AddElement DEF EventsFinite
  <2>5. QED
    BY <2>3, <2>4, FS_Subset
<1>3. QED
    BY <1>1, <1>2

LEMMA StatisticsType ==
    ASSUME UsageInv, EventsFinite
    PROVE  Statistics \in Rankings
<1>1. SUFFICES ASSUME NEW t \in Targets
               PROVE  /\ Cardinality({e \in history[t].events :
                                          clock - Week < e.at /\ e.at <= clock}) \in Nat
                      /\ (IF history[t].lastUsed <= clock THEN history[t].lastUsed ELSE 0) \in Nat
    BY DEF Statistics, Rankings
<1>2. IsFiniteSet({e \in history[t].events : clock - Week < e.at /\ e.at <= clock})
    BY FS_Subset DEF EventsFinite
<1>3. history[t].lastUsed \in 0..MaxClock
    BY DEF UsageInv, UsageTypeOK
<1>4. QED
    BY <1>2, <1>3, FS_CardinalityType

LEMMA IndexType ==
    ASSUME CatalogInv, NEW rank,
           NEW key \in KeysOf(Rows(rank)) \cup {NoKey}
    PROVE  Index(Rows(rank), key) \in Nat
<1>1. CASE key = NoKey
    BY <1>1 DEF Index
<1>2. CASE key \in KeysOf(Rows(rank))
  <2>1. Index(Rows(rank), key) \in 1..Len(Rows(rank))
    BY <1>2, RowsAreASequence, IndexOf
  <2>2. QED
    BY <2>1, RowsAreASequence
<1>3. QED
    BY <1>1, <1>2

LEMMA KeysType ==
    ASSUME CatalogInv, NEW rank \in Rankings
    PROVE  KeysOf(Rows(rank)) \cup {NoKey} \subseteq Keys
<1>1. \A n \in DOMAIN Rows(rank) : Rows(rank)[n] \in FrameRows
    BY RowsType
<1>2. QED
    BY <1>1 DEF KeysOf, FrameRows, Keys

LEMMA DrawnType ==
    ASSUME CatalogInv, NEW d \in Dialogs, NEW select \in BOOLEAN
    PROVE  Drawn(d, select) \in Dialogs
<1> DEFINE rows == Rows(d.rank)
           key == Fallback(rows, d.key)
           at == Index(rows, key)
           same == rows = d.rows \/ Through(rows, at) = Through(d.rows, d.at)
           restore == Corrects(d, rows, at)
           overtaken == /\ d.restore /\ ~restore /\ ~same
                        /\ Places(Through(rows, at)) = Places(Through(d.rows, d.at))
           cursor == IF select /\ ~restore /\ same THEN at ELSE 0
<1>1. d.rank \in Rankings
    BY DEF Dialogs, Rankings
<1>2. rows \in Frames
    BY <1>1, RowsType DEF Frames, FrameRows
<1>3. key \in KeysOf(rows) \cup {NoKey}
    BY FallbackIsShown
<1>4. key \in Keys /\ at \in Nat
    BY <1>1, <1>3, KeysType, IndexType
<1>5. restore \in BOOLEAN /\ overtaken \in BOOLEAN
    BY DEF Corrects
<1>6. cursor \in Nat /\ NoKey \in Keys
    BY <1>4 DEF Keys
<1>7. Drawn(d, select) =
        [d EXCEPT !.pc = "idle", !.rows = rows, !.key = key, !.at = at, !.restore = restore,
                  !.moved = FALSE, !.order = hostOrder, !.overtaken = overtaken, !.cursor = cursor, !.pressed = NoKey, !.moment = 0]
    BY DEF Drawn
<1> HIDE DEF rows, key, at, same, restore, overtaken, cursor
<1>8. Drawn(d, select) =
        [pc |-> "idle", rows |-> rows, at |-> at, key |-> key, cursor |-> cursor,
         restore |-> restore, moved |-> FALSE, overtaken |-> overtaken,
         action |-> d.action, token |-> d.token, rank |-> d.rank, order |-> hostOrder,
         pressed |-> NoKey, moment |-> 0,
         again |-> d.again]
    BY <1>7 DEF Dialogs
<1>9. /\ d.action \in {"open", "additional"} /\ d.token \in Tokens \cup {NoToken}
      /\ d.rank \in [Targets -> [count : Nat, lastUsed : Nat]] /\ d.again \in BOOLEAN
    BY DEF Dialogs
<1>10. hostOrder \in [Hosts -> Nat]
    BY HostOrderType
<1>11. QED
    BY <1>2, <1>4, <1>5, <1>6, <1>8, <1>9, <1>10 DEF Dialogs

LEMMA ClosedType == Closed \in Dialogs
<1>1. << >> \in Frames
    BY DEF Frames
<1>2. NoKey \in Keys /\ NoHosts \in [Hosts -> Nat]
    BY DEF Keys, NoHosts
<1>3. QED
    BY <1>1, <1>2 DEF Closed, Dialogs

TypeInv == EventsFinite /\ changes \in 0..MaxChanges /\ dialog \in Dialogs

LEMMA OpenType ==
    ASSUME PickerInv, TypeInv, Open
    PROVE  dialog' \in Dialogs
<1>1. PICK last \in Keys :
            dialog' = [Closed EXCEPT
                !.pc = "idle", !.rows = Rows(Statistics), !.key = Preferred(Rows(Statistics), last),
                !.at = Index(Rows(Statistics), Preferred(Rows(Statistics), last)),
                !.cursor = Index(Rows(Statistics), Preferred(Rows(Statistics), last)),
                !.token = NextToken, !.rank = Statistics, !.order = hostOrder]
    BY DEF Open, Becomes
<1> DEFINE rows == Rows(Statistics)
           key == Preferred(rows, last)
           at == Index(rows, key)
<1>2. Statistics \in Rankings /\ CatalogInv
    BY StatisticsType DEF PickerInv, TypeInv
<1>3. rows \in Frames
    BY <1>2, RowsType DEF Frames, FrameRows
<1>4. key \in KeysOf(rows) \cup {NoKey}
    BY <1>2, RowsAreASequence, FirstKeyIsOne DEF Preferred
<1>5. key \in Keys /\ at \in Nat
    BY <1>2, <1>4, KeysType, IndexType
<1>6. NextToken \in Tokens
    BY TokenFresh DEF Open
<1>7. dialog' = [Closed EXCEPT !.pc = "idle", !.rows = rows, !.key = key, !.at = at,
                               !.cursor = at, !.token = NextToken, !.rank = Statistics,
                               !.order = hostOrder]
    BY <1>1
<1> HIDE DEF rows, key, at
<1>8. QED
    BY <1>2, <1>3, <1>5, <1>6, <1>7, ClosedType, HostOrderType DEF Dialogs, Rankings

LEMMA OnType ==
    ASSUME dialog \in Dialogs, NEW key \in Keys
    PROVE  On(key) \in Dialogs
BY DEF On, Dialogs

LEMMA EnterType ==
    ASSUME NEW key \in Keys, NEW d \in Dialogs, dialog \in Dialogs, EnterOn(key, d)
    PROVE  dialog' \in Dialogs
<1>1. Matched(key) \subseteq {key}
    BY DEF Matched
<1>2. \/ dialog' = [d EXCEPT !.pc = "act", !.key = key, !.pressed = key]
      \/ dialog' = [d EXCEPT !.pc = "redraw", !.key = key]
      \/ dialog' = dialog
    BY <1>1 DEF EnterOn, Becomes
<1>3. CASE dialog' = [d EXCEPT !.pc = "act", !.key = key, !.pressed = key]
    BY <1>3 DEF Dialogs
<1>4. CASE dialog' = [d EXCEPT !.pc = "redraw", !.key = key]
    BY <1>4 DEF Dialogs
<1>5. QED
    BY <1>2, <1>3, <1>4

LEMMA EndsType ==
    ASSUME dialog \in Dialogs, NEW pc \in {"count", "done"}, NEW moment \in Nat,
           Ends(pc, moment)
    PROVE  dialog' \in Dialogs
<1>1. dialog' = [Closed EXCEPT !.pc = pc, !.key = dialog.key, !.action = dialog.action,
                               !.token = dialog.token, !.pressed = dialog.pressed,
                               !.moment = moment]
    BY DEF Ends, Becomes
<1>2. QED
    BY <1>1, ClosedType DEF Dialogs

LEMMA ActedType ==
    ASSUME PickerInv, dialog \in Dialogs, Accepted \/ Rejected
    PROVE  dialog' \in Dialogs
<1>1. clock \in Nat
    BY DEF PickerInv, UsageInv, UsageTypeOK, Moments
<1>2. CASE \E moment \in Nat, pc \in {"count", "done"} : Ends(pc, moment)
    BY <1>2, EndsType
<1>3. CASE dialog' = [dialog EXCEPT !.pc = "redraw", !.pressed = NoKey]
    BY <1>3 DEF Dialogs, Keys
<1>4. QED
    BY <1>1, <1>2, <1>3 DEF Accepted, Rejected, Becomes

LEMMA TypeNextInv == PickerInv /\ TypeInv /\ [Next]_vars => TypeInv'
<1> SUFFICES ASSUME PickerInv, TypeInv, [Next]_vars PROVE TypeInv'
    OBVIOUS
<1>1. EventsFinite'
    BY UsageSteps, EventsFiniteStep DEF PickerInv, TypeInv
<1>2. changes' \in 0..MaxChanges
  <2>1. CASE Changes
    BY <2>1, PickerAssumption DEF Changes, TypeInv
  <2>2. CASE UNCHANGED changes
    BY <2>2 DEF TypeInv
  <2>3. Changes \/ UNCHANGED changes
    BY DEF Next, Open, Tab, Refresh, Timer, Escape, Enter, EnterAgain, FocusRow,
           OpenFound, OpenNew, Refused, Acts, Count, Redraw, OtherOpens, Evolves,
           CatalogChanges, OtherCounts, ClockChanges, vars, desk, inventory
  <2>4. QED
    BY <2>1, <2>2, <2>3
<1>3. dialog' \in Dialogs
  <2>0. dialog \in Dialogs /\ CatalogInv
    BY DEF TypeInv, PickerInv
  <2>1. CASE Open
    BY <2>1, OpenType
  <2>2. CASE Tab
    <3>1. PICK key \in Keys : Becomes(Drawn([On(key) EXCEPT !.token = NextToken,
                !.action = IF @ = "open" THEN "additional" ELSE "open"], TRUE))
        BY <2>2 DEF Tab
    <3> DEFINE d == [On(key) EXCEPT !.token = NextToken,
                !.action = IF @ = "open" THEN "additional" ELSE "open"]
    <3>2. NextToken \in Tokens
        BY <2>2, TokenFresh DEF Tab
    <3>3. d \in Dialogs
        BY <2>0, <3>2, OnType DEF Dialogs
    <3> HIDE DEF d
    <3>4. dialog' = Drawn(d, TRUE)
        BY <3>1 DEF Becomes, d
    <3>5. QED
        BY <2>0, <3>3, <3>4, DrawnType
  <2>3. CASE Refresh
    <3>1. PICK key \in Keys : Becomes(Drawn(On(key), TRUE))
        BY <2>3 DEF Refresh
    <3> DEFINE d == On(key)
    <3>2. d \in Dialogs
        BY <2>0, OnType
    <3> HIDE DEF d
    <3>3. dialog' = Drawn(d, TRUE)
        BY <3>1 DEF Becomes, d
    <3>4. QED
        BY <2>0, <3>2, <3>3, DrawnType
  <2>4. CASE Timer
    <3>1. dialog.restore \in BOOLEAN /\ dialog' = Drawn(dialog, dialog.restore)
        BY <2>0, <2>4 DEF Timer, Becomes, Dialogs
    <3>2. QED
        BY <2>0, <3>1, DrawnType
  <2>5. CASE Escape
    BY <2>5, ClosedType DEF Escape, Becomes, Dialogs
  <2>6. CASE Enter
    <3>1. PICK key \in Keys : EnterOn(key, [On(key) EXCEPT !.cursor = 0, !.overtaken = FALSE])
        BY <2>6 DEF Enter
    <3> DEFINE d == [On(key) EXCEPT !.cursor = 0, !.overtaken = FALSE]
    <3>2. d \in Dialogs
        BY <2>0, OnType DEF Dialogs
    <3> HIDE DEF d
    <3>3. EnterOn(key, d)
        BY <3>1 DEF d
    <3>4. QED
        BY <2>0, <3>2, <3>3, EnterType
  <2>7. CASE EnterAgain
    <3> DEFINE d == [dialog EXCEPT !.again = TRUE]
    <3>1. EnterOn(dialog.pressed, d)
        BY <2>7 DEF EnterAgain
    <3>2. d \in Dialogs /\ dialog.pressed \in Keys
        BY <2>0 DEF Dialogs
    <3> HIDE DEF d
    <3>3. QED
        BY <2>0, <3>1, <3>2, EnterType
  <2>8. CASE FocusRow \/ OpenFound \/ OpenNew \/ Refused
    <3>1. Accepted \/ Rejected
        BY <2>8 DEF FocusRow, OpenFound, OpenNew, Refused, Focus
    <3>2. QED
        BY <2>0, <3>1, ActedType
  <2>9. CASE Count
    BY <2>0, <2>9, EndsType DEF Count
  <2>10. CASE Redraw
    <3>1. dialog' = Drawn(dialog, TRUE)
        BY <2>10 DEF Redraw, Becomes
    <3>2. QED
        BY <2>0, <3>1, DrawnType
  <2>11. CASE OtherOpens \/ Evolves \/ CatalogChanges \/ OtherCounts \/ ClockChanges
              \/ UNCHANGED vars
    BY <2>0, <2>11 DEF OtherOpens, Evolves, CatalogChanges, OtherCounts, ClockChanges, Changes,
                       vars
  <2>12. QED
    BY <2>1, <2>2, <2>3, <2>4, <2>5, <2>6, <2>7, <2>8, <2>9, <2>10, <2>11 DEF Next
<1>4. QED
    BY <1>1, <1>2, <1>3 DEF TypeInv

LEMMA Typed == Spec => [](PickerInv /\ TypeInv)
<1>1. Init => TypeInv
  <2>1. Init => \A t \in Targets : history[t].events = {}
    BY DEF Init, UsageInit, Unused
  <2>2. Init => EventsFinite
    BY <2>1, FS_EmptySet DEF EventsFinite
  <2>3. QED
    BY <2>2, ClosedType, PickerAssumption DEF Init, TypeInv
<1>2. QED
    BY <1>1, PickerInitInv, PickerNextInv, TypeNextInv, PTL DEF Spec

(* Every variable keeps its type: what a frame shows are rows that can be  *)
(* sorted, wherever the catalog, the launches and the uses have gone.      *)
THEOREM TypeCorrect == Spec => []TypeOK
<1>1. PickerInv /\ TypeInv => TypeOK
    BY DEF PickerInv, TypeInv, UsageInv, CatalogInv, LaunchInv, TypeOK
<1>2. QED
    BY <1>1, Typed, PTL

-----------------------------------------------------------------------------
(* The ranking.  A frame has the targets in the order of the uses captured *)
(* with the first frame, and which uses those are depends on nothing but   *)
(* the targets it shows.                                                   *)

(* Whether one target comes before another, with the hosts in that order;  *)
(* if both have been removed, either may.                                  *)
Leads(a, b, order) ==
    IF HostOf[a] = HostOf[b] THEN a < b
    ELSE \/ order[HostOf[a]] # 0
              /\ (order[HostOf[b]] = 0 \/ order[HostOf[a]] < order[HostOf[b]])
         \/ order[HostOf[a]] = 0 /\ order[HostOf[b]] = 0

Outranks(a, b, metric, order) ==
    metric[a] > metric[b] \/ (metric[a] = metric[b] /\ Leads(a, b, order))

Ranked(rows, rank, order) ==
    \A a, b \in Targets :
        a # b /\ Above(rows, a, b) => Outranks(a, b, MetricOf(TargetsOf(rows), rank), order)

RankInv ==
    /\ Ranked(dialog.rows, dialog.rank, dialog.order)
    /\ dialog.pc = "closed" => dialog.rows = << >>

LEMMA NothingAbove ==
    ASSUME NEW rows, rows = << >> \/ rows = <<Diagnostic>>, NEW a \in Targets, NEW b \in Targets
    PROVE  ~Above(rows, a, b)
BY PickerAssumption DEF Above, Diagnostic, Row, NoKey

LEMMA TargetsShown ==
    ASSUME CatalogInv, NEW rank \in Rankings, RowSet # {}
    PROVE  TargetsOf(Rows(rank)) = RowTargets
<1> DEFINE N == Cardinality(RowSet)
           rows == Rows(rank)
<1>1. /\ rows \in [1..N -> RowSet]
      /\ \A row \in RowSet : \E n \in 1..N : rows[n] = row
    BY RowsAreSorted
<1>2. \A row \in RowSet : row.key.target \in Targets
    BY RowSetEntries
<1>3. \A row \in RowSet : row.key # NoKey
    BY <1>2, PickerAssumption DEF NoKey
<1> HIDE DEF rows, N
<1>4. KeysOf(rows) = {row.key : row \in RowSet}
    BY <1>1, <1>3 DEF KeysOf
<1>5. QED
    BY <1>4 DEF TargetsOf, RowTargets, rows

LEMMA RowsRanked ==
    ASSUME CatalogInv, NEW rank \in Rankings
    PROVE  Ranked(Rows(rank), rank, hostOrder)
<1>1. CASE RowSet = {}
  <2>1. Rows(rank) = <<Diagnostic>>
    BY <1>1 DEF Rows
  <2>2. QED
    BY <2>1, NothingAbove DEF Ranked
<1>2. CASE RowSet # {}
  <2> DEFINE N == Cardinality(RowSet)
             rows == Rows(rank)
             metric == Metric(rank)
  <2>1. /\ rows \in [1..N -> RowSet]
        /\ \A m, n \in 1..N : m < n => Precedes(rows[m], rows[n], metric)
    BY <1>2, RowsAreSorted
  <2>2. metric = MetricOf(TargetsOf(rows), rank)
    BY <1>2, TargetsShown DEF Metric
  <2> HIDE DEF rows, metric, N
  <2>3. ASSUME NEW a \in Targets, NEW b \in Targets, a # b, Above(rows, a, b)
        PROVE  Outranks(a, b, metric, hostOrder)
    <3>1. PICK m, n \in 1..N : m < n /\ rows[m].key.target = a /\ rows[n].key.target = b
        BY <2>1, <2>3 DEF Above
    <3>2. Precedes(rows[m], rows[n], metric)
        BY <2>1, <3>1
    <3>3. QED
        BY <2>3, <3>1, <3>2 DEF Precedes, Outranks, TargetBefore, HostBefore, Leads
  <2>4. QED
    BY <2>2, <2>3 DEF Ranked, rows
<1>3. QED
    BY <1>1, <1>2

(* What a step does to the frame and to the ranking.                       *)
LEMMA FrameSteps ==
    ASSUME PickerInv, TypeInv, RankInv, [Next]_vars
    PROVE  /\ dialog'.pc # "closed" \/ UNCHANGED dialog
           /\ \/ dialog'.rows = << >>
              \/ /\ dialog'.rows = dialog.rows /\ dialog'.rank = dialog.rank
                 /\ dialog'.order = dialog.order
              \/ /\ dialog'.rank \in Rankings /\ dialog'.rows = Rows(dialog'.rank)
                 /\ dialog'.order = hostOrder
                 /\ dialog'.rank = dialog.rank \/ dialog.rows = << >>
<1>1. DOMAIN dialog = Fields /\ dialog.rank \in Rankings /\ CatalogInv
    BY DEF PickerInv, TypeInv, DialogInv, Dialogs, Rankings
<1>2. ASSUME NEW d, NEW select, DOMAIN d = Fields, d.rank = dialog.rank,
             Becomes(Drawn(d, select))
      PROVE  /\ dialog'.pc = "idle" /\ dialog'.rank = dialog.rank
             /\ dialog'.rows = Rows(dialog'.rank) /\ dialog'.order = hostOrder
    BY <1>2 DEF Becomes, Drawn, Fields
<1>3. ASSUME NEW key, NEW d, DOMAIN d = Fields, d.rank = dialog.rank, d.rows = dialog.rows,
             d.order = dialog.order, EnterOn(key, d)
      PROVE  \/ dialog'.pc \in {"act", "redraw"} /\ dialog'.rows = dialog.rows
                /\ dialog'.rank = dialog.rank /\ dialog'.order = dialog.order
             \/ UNCHANGED dialog
    BY <1>3 DEF EnterOn, Becomes, Fields
<1>4. ASSUME NEW pc, NEW moment, Ends(pc, moment)
      PROVE  dialog'.pc = pc /\ dialog'.rows = << >>
    BY <1>4 DEF Ends, Becomes, Closed
<1>5. CASE Open
  <2>1. /\ dialog'.rows = Rows(Statistics) /\ dialog'.rank = Statistics
        /\ dialog'.pc = "idle" /\ dialog'.order = hostOrder
    BY <1>5 DEF Open, Becomes, Closed
  <2>2. Statistics \in Rankings
    BY StatisticsType DEF PickerInv, TypeInv
  <2>3. dialog.rows = << >>
    BY <1>5 DEF Open, RankInv
  <2>4. QED
    BY <2>1, <2>2, <2>3
<1>6. CASE Tab
  <2>1. PICK key : Becomes(Drawn([On(key) EXCEPT !.token = NextToken,
                !.action = IF @ = "open" THEN "additional" ELSE "open"], TRUE))
    BY <1>6 DEF Tab
  <2> DEFINE d == [On(key) EXCEPT !.token = NextToken,
                !.action = IF @ = "open" THEN "additional" ELSE "open"]
  <2>2. DOMAIN d = Fields /\ d.rank = dialog.rank
    BY <1>1 DEF Fields, On
  <2> HIDE DEF d
  <2>3. Becomes(Drawn(d, TRUE))
    BY <2>1 DEF d
  <2>4. QED
    BY <1>1, <1>2, <2>2, <2>3
<1>7. CASE Refresh
  <2>1. PICK key : Becomes(Drawn(On(key), TRUE))
    BY <1>7 DEF Refresh
  <2> DEFINE d == On(key)
  <2>2. DOMAIN d = Fields /\ d.rank = dialog.rank
    BY <1>1 DEF Fields, On
  <2> HIDE DEF d
  <2>3. Becomes(Drawn(d, TRUE))
    BY <2>1 DEF d
  <2>4. QED
    BY <1>1, <1>2, <2>2, <2>3
<1>8. CASE Timer \/ Redraw
  <2>1. PICK select : Becomes(Drawn(dialog, select))
    BY <1>8 DEF Timer, Redraw
  <2>2. QED
    BY <1>1, <1>2, <2>1
<1>9. CASE Escape
    BY <1>9 DEF Escape, Becomes, Closed
<1>10. CASE Enter
  <2>1. PICK key : EnterOn(key, [On(key) EXCEPT !.cursor = 0, !.overtaken = FALSE])
    BY <1>10 DEF Enter
  <2> DEFINE d == [On(key) EXCEPT !.cursor = 0, !.overtaken = FALSE]
  <2>2. DOMAIN d = Fields /\ d.rank = dialog.rank /\ d.rows = dialog.rows
            /\ d.order = dialog.order
    BY <1>1 DEF Fields, On
  <2> HIDE DEF d
  <2>3. EnterOn(key, d)
    BY <2>1 DEF d
  <2>4. QED
    BY <1>3, <2>2, <2>3
<1>11. CASE EnterAgain
  <2> DEFINE d == [dialog EXCEPT !.again = TRUE]
  <2>1. EnterOn(dialog.pressed, d)
    BY <1>11 DEF EnterAgain
  <2>2. DOMAIN d = Fields /\ d.rank = dialog.rank /\ d.rows = dialog.rows
            /\ d.order = dialog.order
    BY <1>1 DEF Fields, On
  <2> HIDE DEF d
  <2>3. QED
    BY <1>3, <2>1, <2>2
<1>12. CASE FocusRow \/ OpenFound \/ OpenNew \/ Refused
  <2>1. Accepted \/ Rejected
    BY <1>12 DEF FocusRow, OpenFound, OpenNew, Refused, Focus
  <2>2. CASE \E pc \in {"count", "done"} : \E moment : Ends(pc, moment)
    BY <1>4, <2>2
  <2>3. CASE dialog' = [dialog EXCEPT !.pc = "redraw", !.pressed = NoKey]
    BY <1>1, <2>3 DEF Fields
  <2>4. QED
    BY <2>1, <2>2, <2>3 DEF Accepted, Rejected, Becomes
<1>13. CASE Count
    BY <1>4, <1>13 DEF Count
<1>14. CASE OtherOpens \/ Evolves \/ CatalogChanges \/ OtherCounts \/ ClockChanges
             \/ UNCHANGED vars
    BY <1>14 DEF OtherOpens, Evolves, CatalogChanges, OtherCounts, ClockChanges, Changes, vars
<1>15. QED
    BY <1>5, <1>6, <1>7, <1>8, <1>9, <1>10, <1>11, <1>12, <1>13, <1>14 DEF Next

LEMMA RankNextInv == PickerInv /\ TypeInv /\ RankInv /\ [Next]_vars => RankInv'
<1> SUFFICES ASSUME PickerInv, TypeInv, RankInv, [Next]_vars PROVE RankInv'
    OBVIOUS
<1>1. CatalogInv
    BY DEF PickerInv
<1>2. Ranked(dialog'.rows, dialog'.rank, dialog'.order)
  <2>1. CASE dialog'.rows = << >>
    BY <2>1, NothingAbove DEF Ranked
  <2>2. CASE /\ dialog'.rows = dialog.rows /\ dialog'.rank = dialog.rank
             /\ dialog'.order = dialog.order
    BY <2>2 DEF RankInv, Ranked
  <2>3. CASE /\ dialog'.rank \in Rankings /\ dialog'.rows = Rows(dialog'.rank)
             /\ dialog'.order = hostOrder
    BY <1>1, <2>3, RowsRanked
  <2>4. QED
    BY <2>1, <2>2, <2>3, FrameSteps
<1>3. dialog'.pc = "closed" => dialog'.rows = << >>
    BY FrameSteps DEF RankInv
<1>4. QED
    BY <1>2, <1>3 DEF RankInv, Ranked, Above, Outranks, Leads, MetricOf, TargetsOf, KeysOf

(* Two frames that have targets in different orders.                       *)
LEMMA OrderChanges ==
    ASSUME PickerInv, TypeInv, RankInv, RankInv', [Next]_vars,
           TargetsOf(dialog'.rows) = TargetsOf(dialog.rows),
           NEW a \in Targets, NEW b \in Targets, a # b,
           Above(dialog.rows, a, b), Above(dialog'.rows, b, a)
    PROVE  /\ TiedIn(dialog, a, b)
           /\ HostOf[a] # HostOf[b]
           /\ \/ \E h \in {HostOf[a], HostOf[b]} : dialog.order[h] # dialog'.order[h]
              \/ \A h \in {HostOf[a], HostOf[b]} : dialog.order[h] = 0
<1>1. dialog'.rank = dialog.rank
    BY FrameSteps, NothingAbove
<1> DEFINE metric == MetricOf(TargetsOf(dialog.rows), dialog.rank)
<1>2. Outranks(a, b, metric, dialog.order)
    BY DEF RankInv, Ranked
<1>3. Ranked(dialog'.rows, dialog'.rank, dialog'.order)
    BY DEF RankInv, Ranked, Above, Outranks, Leads, MetricOf, TargetsOf, KeysOf
<1>4. Outranks(b, a, metric, dialog'.order)
    BY <1>1, <1>3 DEF Ranked
<1>5. metric \in [Targets -> Int]
    BY DEF MetricOf, TypeInv, Dialogs
<1>6. a \in Int /\ b \in Int /\ metric[a] \in Int /\ metric[b] \in Int
    BY <1>5, UsageAssumption
<1> HIDE DEF metric
<1>7. metric[a] = metric[b] /\ Leads(a, b, dialog.order) /\ Leads(b, a, dialog'.order)
    BY <1>2, <1>4, <1>6 DEF Outranks
<1>8. TiedIn(dialog, a, b)
    BY <1>7 DEF TiedIn, metric
<1>9. HostOf[a] # HostOf[b]
    BY <1>6, <1>7 DEF Leads
<1>10. \A h \in {HostOf[a], HostOf[b]} : dialog.order[h] \in Nat
    BY PickerAssumption DEF TypeInv, Dialogs
<1>11. QED
    BY <1>7, <1>8, <1>9, <1>10 DEF Leads

(* While the dialog is open no use and no clock change turns the order of  *)
(* two environments round, and a refresh only that of tied ones, by moving *)
(* their hosts.                                                            *)
THEOREM RankingStaysFrozen == Spec => RankingIsFrozen
<1>1. Init => RankInv
  <2>1. Init => dialog.rows = << >>
    BY DEF Init, Closed
  <2>2. QED
    BY <2>1, NothingAbove DEF RankInv, Ranked
<1>2. Spec => [](PickerInv /\ TypeInv /\ RankInv)
    BY <1>1, Typed, RankNextInv, PTL DEF Spec
<1>3. PickerInv /\ TypeInv /\ RankInv /\ RankInv' /\ [Next]_vars =>
        [dialog'.rows # dialog.rows /\ TargetsOf(dialog'.rows) = TargetsOf(dialog.rows) =>
            \A a, b \in Targets :
                a # b /\ Above(dialog.rows, a, b) /\ Above(dialog'.rows, b, a) =>
                    /\ TiedIn(dialog, a, b)
                    /\ HostOf[a] # HostOf[b]
                    /\ \/ \E h \in {HostOf[a], HostOf[b]} :
                                dialog.order[h] # dialog'.order[h]
                       \/ \A h \in {HostOf[a], HostOf[b]} : dialog.order[h] = 0]_vars
    BY OrderChanges
<1>4. QED
    BY <1>2, <1>3, PTL DEF Spec, RankingIsFrozen
=============================================================================
