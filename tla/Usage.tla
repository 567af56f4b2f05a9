--------------------------------- MODULE Usage ---------------------------------
(***************************************************************************)
(* The rolling week of picker uses (usage.py): which environment has been  *)
(* used how often, and when last.  The history is one file, read, changed  *)
(* and replaced as a whole under a file lock, so a record is one step; the *)
(* clock it goes by is read before the lock is asked for, and may have     *)
(* moved on, or been set back, by then.                                    *)
(***************************************************************************)
EXTENDS Integers, FiniteSets

CONSTANTS
    Targets,        \* environments, numbered in the order of provider, home, identity
    Tokens,         \* request tokens of picker actions
    Week,           \* WEEK_MS
    MaxEvents,      \* MAX_EVENTS
    MaxClock        \* bound: the latest time

ASSUME UsageAssumption ==
    /\ Targets \subseteq Nat
    /\ Week \in Nat \ {0} /\ MaxEvents \in Nat /\ MaxClock \in Nat

VARIABLES
    clock,          \* the wall clock; it may be set back
    issuedAt,       \* [Tokens -> when the token was armed], 0 if it was not
    history,        \* [Targets -> its entry in usage.json]
    counted,        \* history: tokens that have been counted
    newest          \* history: the latest time a record was made at

usage == <<clock, issuedAt, history, counted, newest>>

Moments == 1..MaxClock

(* A target without an entry is one with no event, never used.             *)
Unused == [lastUsed |-> 0, events |-> {}]

(* Mutant: the times are added up.                                         *)
Summed(a, b) == a + b

(* The later of two times. *)
Later(a, b) == IF a < b THEN b ELSE a

-----------------------------------------------------------------------------
(* UsageStore.record, with the clock read as moment.                       *)

(* Mutant: off by one at the end of the week.                              *)
CountableAWeekLater(tok, moment) ==
    issuedAt[tok] # 0 /\ moment - Week <= issuedAt[tok] /\ issuedAt[tok] <= moment

(* The token was armed in the week before, and not in the future.          *)
Countable(tok, moment) ==
    issuedAt[tok] # 0 /\ moment - Week < issuedAt[tok] /\ issuedAt[tok] <= moment

(* What is left of a target's events when those of a week ago are dropped. *)
Kept(t, moment) == {e \in history[t].events : e.at > moment - Week}

(* The receipt of an action that has been counted already.                 *)
Receipt(tok, moment) == \E t \in Targets : \E e \in Kept(t, moment) : e.id = tok

Recorded(target, tok, moment) ==
    [t \in Targets |->
        [lastUsed |-> IF t = target THEN Later(history[t].lastUsed, moment)
                      ELSE history[t].lastUsed,
         events   |-> IF t = target THEN Kept(t, moment) \cup {[id |-> tok, at |-> moment]}
                      ELSE Kept(t, moment)]]

Fits(h) == Cardinality(UNION {h[t].events : t \in Targets}) <= MaxEvents

(* Anything that goes wrong leaves the file as it was, and is not reported.*)
Record(target, tok, moment) ==
    /\ Countable(tok, moment)
    /\ ~Receipt(tok, moment)
    /\ Fits(Recorded(target, tok, moment))
    /\ history' = Recorded(target, tok, moment)
    /\ counted' = counted \cup {tok}
    /\ newest' = Later(newest, moment)
    /\ UNCHANGED <<clock, issuedAt>>

(* UsageStore.statistics at the time it is called.                         *)
Statistics ==
    [t \in Targets |->
        [count    |-> Cardinality({e \in history[t].events :
                                       clock - Week < e.at /\ e.at <= clock}),
         lastUsed |-> IF history[t].lastUsed <= clock THEN history[t].lastUsed ELSE 0]]

-----------------------------------------------------------------------------

(* A frame with a new token is made ready. *)
Arm(tok) ==
    /\ issuedAt[tok] = 0
    /\ issuedAt' = [issuedAt EXCEPT ![tok] = clock]
    /\ UNCHANGED <<clock, history, counted, newest>>

Tick ==
    /\ clock < MaxClock
    /\ clock' = clock + 1
    /\ UNCHANGED <<issuedAt, history, counted, newest>>

SetBack ==
    /\ clock' \in 1..(clock - 1)
    /\ UNCHANGED <<issuedAt, history, counted, newest>>

UsageInit ==
    /\ clock \in Moments
    /\ issuedAt \in [Tokens -> {0, clock}]
    /\ history = [t \in Targets |-> Unused]
    /\ counted = {}
    /\ newest = 0

UsageNext ==
    \/ Tick \/ SetBack
    \/ \E tok \in Tokens : Arm(tok)
    \/ \E t \in Targets, tok \in Tokens, moment \in Moments : Record(t, tok, moment)

UsageSpec == UsageInit /\ [][UsageNext]_usage

-----------------------------------------------------------------------------
(* Properties                                                              *)

UsageTypeOK ==
    /\ clock \in Moments
    /\ issuedAt \in [Tokens -> 0..MaxClock]
    /\ history \in [Targets -> [lastUsed : 0..MaxClock,
                                events : SUBSET [id : Tokens, at : Moments]]]
    /\ counted \in SUBSET Tokens
    /\ newest \in 0..MaxClock

(* "Keep receipts while their action token can still be counted.  An       *)
(* expired token is refused above, so an old replay cannot become new"     *)
(* (record): an action is counted once, however often and however late its *)
(* callback is repeated, on whatever target, and wherever the clock goes:  *)
(* a receipt that was dropped is missed only by a record that goes by an   *)
(* earlier time than one made before it.                                   *)
CountedOnce ==
    [][\A t \in Targets : \A e \in history'[t].events \ history[t].events :
          e.id \in counted => e.at < newest]_usage
=============================================================================
