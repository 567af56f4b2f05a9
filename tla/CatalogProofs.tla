------------------------------ MODULE CatalogProofs ------------------------------
(***************************************************************************)
(* Proofs about the catalog: its type; what it shows as complete; what a   *)
(* merge keeps; and for what reasons one may be refused.                   *)
(***************************************************************************)
EXTENDS Catalog, FiniteSetTheorems, TLAPS

(* An entry or an answer says of host `h` nothing that is not so: its      *)
(* targets belong to its user, are not too many, and what it calls         *)
(* complete is what the host had at some moment.                           *)
Sound(h, e) ==
    \A p \in Providers :
        /\ Cardinality(e.prov[p].targets) <= MaxTargets
        /\ \A t \in e.prov[p].targets : t.user = e.user
        /\ e.prov[p].status = "complete" =>
                \E w \in past[h] : w.user = e.user /\ Listed(w, p) = e.prov[p].targets

PastInv == \A h \in Hosts : world[h] \in past[h]

AnswersInv ==
    \A r \in Refreshers, h \in Hosts :
        refresher[r].got[h] # NoAnswer => Sound(h, refresher[r].got[h])

CatalogInv ==
    catalog # NoCatalog => \A h \in DOMAIN catalog.of : Sound(h, catalog.of[h])

(* The snapshot property is inductive once the answers on their way are    *)
(* known to be sound too.                                                  *)
Inv == TypeOK /\ PastInv /\ AnswersInv /\ CatalogInv

-----------------------------------------------------------------------------
(* What a merge makes.                                                     *)

LEMMA TargetsFinite ==
  ASSUME NEW S \in SUBSET Target
  PROVE  IsFiniteSet(S) /\ Cardinality(S) \in Nat
  BY TargetAssumption, FS_Subset, FS_CardinalityType

LEMMA EmptyFits == Cardinality({}) <= MaxTargets
  BY FS_EmptySet, CatalogAssumption

(* A union keeps what was seen and stays within the limit.                 *)
LEMMA UnionsFit ==
  ASSUME NEW old \in SUBSET Target, NEW seen \in SUBSET Target,
         Cardinality(seen) <= MaxTargets, NEW T \in Unions(old, seen)
  PROVE  /\ T \subseteq old \cup seen
         /\ Cardinality(T) <= MaxTargets
<1> DEFINE room == IF Cardinality(seen) < MaxTargets
                   THEN MaxTargets - Cardinality(seen) ELSE 0
<1>1. PICK S \in SUBSET (old \ seen) : T = seen \cup S /\ Cardinality(S) <= room
  <2>1. PICK S \in SUBSET (old \ seen) :
            /\ T = seen \cup S
            /\ \/ S = old \ seen /\ Cardinality(S) <= room
               \/ Cardinality(old \ seen) > room /\ Cardinality(S) = room
    BY DEF Unions
  <2>2. Cardinality(S) \in Nat
    <3>1. S \in SUBSET Target
      BY <2>1
    <3> QED BY <3>1, TargetsFinite
  <2>3. room \in Nat
    BY TargetsFinite, CatalogAssumption
  <2> QED BY <2>1, <2>2, <2>3
<1>2. IsFiniteSet(seen) /\ Cardinality(seen) \in Nat
  BY TargetsFinite
<1>3. IsFiniteSet(S) /\ Cardinality(S) \in Nat
  <2>1. S \in SUBSET Target
    BY <1>1
  <2> QED BY <2>1, TargetsFinite
<1>4. seen \cap S = {} /\ Cardinality(seen \cap S) = 0
  <2>1. seen \cap S = {}
    BY <1>1
  <2> QED BY <2>1, FS_EmptySet
<1>5. Cardinality(T) = Cardinality(seen) + Cardinality(S)
  <2>1. Cardinality(seen \cup S) = Cardinality(seen) + Cardinality(S) - Cardinality(seen \cap S)
    BY <1>2, <1>3, FS_Union
  <2> QED BY <2>1, <1>1, <1>2, <1>3, <1>4
<1>6. T \subseteq old \cup seen
  BY <1>1
<1>7. Cardinality(T) <= MaxTargets
  <2>1. Cardinality(S) <= MaxTargets - Cardinality(seen)
    BY <1>1, <1>2, <1>3, CatalogAssumption
  <2> QED BY <2>1, <1>5, <1>2, <1>3, CatalogAssumption
<1> QED BY <1>6, <1>7

LEMMA AnswersSound ==
  ASSUME TypeOK, PastInv, NEW h \in Hosts, NEW answer \in Answers(world[h])
  PROVE  answer \in Answer /\ Sound(h, answer)
<1>1. CASE answer = [user |-> NoUser, prov |-> [p \in Providers |-> Unknown]]
  BY <1>1, EmptyFits DEF Answer, Coverage, Unknown, Sound
<1>2. CASE answer # [user |-> NoUser, prov |-> [p \in Providers |-> Unknown]]
  <2>1. PICK f \in [Providers -> UNION {Reads(world[h], p) : p \in Providers}] :
            /\ answer = [user |-> world[h].user, prov |-> f]
            /\ \A p \in Providers : f[p] \in Reads(world[h], p)
    BY <1>2 DEF Answers
  <2>2. world[h] \in World /\ world[h] \in past[h]
    BY DEF TypeOK, PastInv
  <2>3. ASSUME NEW p \in Providers
        PROVE  /\ f[p] \in Coverage
               /\ f[p].targets \subseteq Listed(world[h], p)
               /\ Cardinality(f[p].targets) <= MaxTargets
               /\ f[p].status = "complete" => f[p].targets = Listed(world[h], p)
    <3>1. Listed(world[h], p) \subseteq Target
      BY <2>2, CatalogAssumption DEF Listed, World, Target
    <3>2. f[p] \in Reads(world[h], p)
      BY <2>1
    <3>3. /\ f[p] \in [status : Statuses(world[h], p), targets : SUBSET Listed(world[h], p)]
          /\ Cardinality(f[p].targets) <= MaxTargets
          /\ f[p].status = "complete" => f[p].targets = Listed(world[h], p)
      BY <3>2 DEF Reads
    <3>4. Statuses(world[h], p) \subseteq {"unknown", "complete", "partial", "missing"}
      BY DEF Statuses
    <3> HIDE DEF Listed, Statuses
    <3>5. f[p] \in Coverage /\ f[p].targets \subseteq Listed(world[h], p)
      BY <3>1, <3>3, <3>4 DEF Coverage
    <3> QED BY <3>3, <3>5
  <2>4. ASSUME NEW p \in Providers, NEW t \in f[p].targets
        PROVE  t.user = world[h].user
    <3>1. t \in Listed(world[h], p)
      BY <2>3, <2>4
    <3> QED BY <3>1 DEF Listed
  <2>5. answer \in Answer
    BY <2>1, <2>2, <2>3 DEF Answer, World
  <2>6. Sound(h, answer)
    BY <2>1, <2>2, <2>3, <2>4 DEF Sound, PastInv
  <2> QED BY <2>5, <2>6
<1> QED BY <1>1, <1>2

(* Of what was known of the host, only what is its present user's is used. *)
LEMMA OldSound ==
  ASSUME NEW h \in Hosts, NEW prev \in Entry, Sound(h, prev), NEW u \in Users,
         NEW p \in Providers
  PROVE  /\ OldCoverage(prev, u)[p] \in Coverage
         /\ \A t \in OldCoverage(prev, u)[p].targets : t.user = u
         /\ Cardinality(OldCoverage(prev, u)[p].targets) <= MaxTargets
<1>1. CASE prev.user \notin {NoUser, u}
  BY <1>1, EmptyFits DEF OldCoverage, Unknown, Coverage
<1>2. CASE prev.user = u
  BY <1>2 DEF OldCoverage, Entry, Sound
<1>3. CASE prev.user = NoUser
  <2>1. prev.prov[p] \in Coverage
    BY DEF Entry
  <2>2. prev.prov[p].targets = {}
    BY <1>3, <2>1, CatalogAssumption DEF Coverage, Target, Sound
  <2> QED BY <1>3, <2>1, <2>2, EmptyFits DEF OldCoverage
<1> QED BY <1>1, <1>2, <1>3

LEMMA CoverageSound ==
  ASSUME NEW old \in Coverage, NEW new \in Coverage, NEW u,
         \A t \in old.targets : t.user = u,
         \A t \in new.targets : t.user = u,
         Cardinality(old.targets) <= MaxTargets,
         Cardinality(new.targets) <= MaxTargets,
         NEW c \in MergedCoverage(old, new)
  PROVE  /\ c \in Coverage
         /\ \A t \in c.targets : t.user = u
         /\ Cardinality(c.targets) <= MaxTargets
         /\ c.status = "complete" => c = new
<1>1. CASE new.status = "complete"
  BY <1>1 DEF MergedCoverage, Coverage
<1>2. CASE new.status = "missing"
  <2>1. c = [status |-> "missing", targets |-> {}]
    BY <1>2 DEF MergedCoverage, Coverage
  <2> QED BY <2>1, EmptyFits DEF Coverage
<1>3. CASE new.status \in {"partial", "unknown"}
  <2>1. PICK T \in Unions(old.targets, new.targets) : c = [new EXCEPT !.targets = T]
    BY <1>3 DEF MergedCoverage
  <2>2. T \subseteq old.targets \cup new.targets /\ Cardinality(T) <= MaxTargets
    <3>1. old.targets \in SUBSET Target /\ new.targets \in SUBSET Target
      BY DEF Coverage
    <3> QED BY <2>1, <3>1, UnionsFit
  <2>3. c = [status |-> new.status, targets |-> T] /\ new.status # "complete"
    BY <1>3, <2>1 DEF Coverage
  <2> QED BY <2>2, <2>3 DEF Coverage
<1> QED BY <1>1, <1>2, <1>3 DEF Coverage

LEMMA MergedSound ==
  ASSUME NEW h \in Hosts, NEW prev \in Entry, Sound(h, prev), NEW local \in BOOLEAN,
         NEW answer \in Answer, Sound(h, answer), NEW e \in Merged(prev, local, answer)
  PROVE  e \in Entry /\ Sound(h, e) /\ e.local = local
<1>1. CASE answer.user = NoUser
  <2>1. e = [prev EXCEPT !.local = local, !.status = "error"]
    BY <1>1 DEF Merged
  <2>2. /\ e \in Entry /\ e.local = local
        /\ e.user = prev.user /\ e.prov = prev.prov
    BY <2>1 DEF Entry
  <2> QED BY <2>2 DEF Sound
<1>2. CASE answer.user # NoUser
  <2> DEFINE old == OldCoverage(prev, answer.user)
  <2>1. PICK f : /\ e = [local |-> local, status |-> "answered",
                         user |-> answer.user, prov |-> f]
                 /\ f \in [Providers -> UNION {MergedCoverage(old[p], answer.prov[p]) :
                                                    p \in Providers}]
                 /\ \A p \in Providers : f[p] \in MergedCoverage(old[p], answer.prov[p])
    BY <1>2 DEF Merged, Inventoried
  <2>2. answer.user \in Users /\ answer.prov \in [Providers -> Coverage]
    BY <1>2 DEF Answer
  <2>3. ASSUME NEW p \in Providers
        PROVE  /\ f[p] \in Coverage
               /\ \A t \in f[p].targets : t.user = answer.user
               /\ Cardinality(f[p].targets) <= MaxTargets
               /\ f[p].status = "complete" => f[p] = answer.prov[p]
    <3>1. /\ old[p] \in Coverage
          /\ \A t \in old[p].targets : t.user = answer.user
          /\ Cardinality(old[p].targets) <= MaxTargets
      BY <2>2, OldSound
    <3>2. /\ answer.prov[p] \in Coverage
          /\ \A t \in answer.prov[p].targets : t.user = answer.user
          /\ Cardinality(answer.prov[p].targets) <= MaxTargets
      BY <2>2 DEF Sound
    <3>3. f[p] \in MergedCoverage(old[p], answer.prov[p])
      BY <2>1
    <3> DEFINE new == answer.prov[p]
               u   == answer.user
               o   == old[p]
    <3>4. /\ o \in Coverage /\ new \in Coverage
          /\ \A t \in o.targets : t.user = u
          /\ \A t \in new.targets : t.user = u
          /\ Cardinality(o.targets) <= MaxTargets
          /\ Cardinality(new.targets) <= MaxTargets
          /\ f[p] \in MergedCoverage(o, new)
      BY <3>1, <3>2, <3>3
    <3> HIDE DEF o, new, u
    <3>5. /\ f[p] \in Coverage
          /\ \A t \in f[p].targets : t.user = u
          /\ Cardinality(f[p].targets) <= MaxTargets
          /\ f[p].status = "complete" => f[p] = new
      BY <3>4, CoverageSound
    <3> QED BY <3>5 DEF u, new
  <2>4. e \in Entry /\ e.local = local
    BY <2>1, <2>2, <2>3 DEF Entry
  <2>5. Sound(h, e)
    BY <2>1, <2>3 DEF Sound
  <2> QED BY <2>4, <2>5
<1> QED BY <1>1, <1>2

-----------------------------------------------------------------------------
(* What is written to the file.                                            *)

LEMMA BoundedPart ==
  ASSUME NEW es, NEW b \in Bounded(es)
  PROVE  DOMAIN b \subseteq DOMAIN es /\ \A k \in DOMAIN b : b[k] = es[k]
<1>1. PICK S \in SUBSET Removed(es) :
        b = [h \in (DOMAIN es \ Removed(es)) \cup S |-> es[h]]
  BY DEF Bounded
<1>2. Removed(es) \subseteq DOMAIN es
  BY DEF Removed
<1> QED BY <1>1, <1>2

LEMMA CatalogsPart ==
  ASSUME NEW es, NEW first, NEW c \in Catalogs(es, first)
  PROVE  /\ DOMAIN c.of \subseteq DOMAIN es
         /\ \A k \in DOMAIN c.of : c.of[k] = es[k]
         /\ c.first \in DOMAIN c.of
         /\ first \in DOMAIN c.of => c.first = first
<1>1. PICK b \in Bounded(es) :
        \E f \in IF first \in DOMAIN b THEN {first} ELSE DOMAIN b : c = [of |-> b, first |-> f]
  BY DEF Catalogs
<1>2. DOMAIN b \subseteq DOMAIN es /\ \A k \in DOMAIN b : b[k] = es[k]
  BY BoundedPart
<1> QED BY <1>1, <1>2

(* What the entries of a catalog are like before a merge, and so after it. *)
Good(c) ==
    /\ DOMAIN c.of \in SUBSET Hosts
    /\ \A h \in DOMAIN c.of : c.of[h] \in Entry /\ Sound(h, c.of[h])
    /\ c.first \in DOMAIN c.of

LEMMA NewSound == ASSUME NEW h PROVE New \in Entry /\ Sound(h, New)
  BY EmptyFits DEF New, Entry, Coverage, Unknown, Sound

LEMMA PublishedGood ==
  ASSUME TypeOK, CatalogInv, NEW h \in Hosts, NEW local \in BOOLEAN,
         NEW answer \in Answer, Sound(h, answer), NEW c \in Published(h, local, answer)
  PROVE  /\ Good(c)
         /\ DOMAIN c.of \subseteq DOMAIN Entries(catalog) \cup {h}
         /\ \A k \in DOMAIN c.of :
                c.of[k].local = IF k = h THEN local ELSE Entries(catalog)[k].local
         /\ LET first == FirstWith(catalog, h, local)
            IN  first \in DOMAIN c.of => c.first = first
<1> DEFINE es == Entries(catalog)
           prev == IF h \in DOMAIN es THEN es[h] ELSE New
<1>1. /\ DOMAIN es \subseteq Hosts
      /\ \A k \in DOMAIN es : es[k] \in Entry /\ Sound(k, es[k])
  BY DEF TypeOK, CatalogInv, Entries
<1>2. prev \in Entry /\ Sound(h, prev)
  BY <1>1, NewSound
<1>3. PICK e \in Merged(prev, local, answer) :
        c \in Catalogs([k \in DOMAIN es \cup {h} |-> IF k = h THEN e ELSE es[k]],
                       FirstWith(catalog, h, local))
  BY DEF Published
<1> HIDE DEF prev, es
<1>4. e \in Entry /\ Sound(h, e) /\ e.local = local
  BY <1>2, <1>3, MergedSound
<1> DEFINE new == [k \in DOMAIN es \cup {h} |-> IF k = h THEN e ELSE es[k]]
<1>5. /\ DOMAIN c.of \subseteq DOMAIN new
      /\ \A k \in DOMAIN c.of : c.of[k] = new[k]
      /\ c.first \in DOMAIN c.of
      /\ FirstWith(catalog, h, local) \in DOMAIN c.of =>
            c.first = FirstWith(catalog, h, local)
  BY <1>3, CatalogsPart
<1>6. \A k \in DOMAIN c.of :
        /\ k \in Hosts /\ c.of[k] \in Entry /\ Sound(k, c.of[k])
        /\ c.of[k].local = IF k = h THEN local ELSE es[k].local
  BY <1>1, <1>4, <1>5
<1> QED BY <1>5, <1>6 DEF Good, es

LEMMA FinishedGood ==
  ASSUME TypeOK, CatalogInv, NEW view, NEW c \in Finished(view)
  PROVE  /\ Good(c)
         /\ DOMAIN c.of \subseteq DOMAIN Entries(catalog)
         /\ \A k \in DOMAIN c.of : c.of[k].local = Entries(catalog)[k].local
         /\ view.self \in DOMAIN c.of => c.first = view.self
<1> DEFINE es == Entries(catalog)
           new == [h \in DOMAIN es |->
                    IF h \in view.hosts THEN es[h] ELSE [es[h] EXCEPT !.status = "removed"]]
<1>1. /\ DOMAIN es \subseteq Hosts
      /\ \A k \in DOMAIN es : es[k] \in Entry /\ Sound(k, es[k])
  BY DEF TypeOK, CatalogInv, Entries
<1>2. c \in Catalogs(new, view.self)
  BY DEF Finished
<1> HIDE DEF es
<1>3. ASSUME NEW k \in DOMAIN es
      PROVE  new[k] \in Entry /\ Sound(k, new[k]) /\ new[k].local = es[k].local
  <2>1. es[k] \in Entry /\ Sound(k, es[k])
    BY <1>1
  <2>2. CASE k \in view.hosts
    BY <2>1, <2>2
  <2>3. CASE k \notin view.hosts
    <3>1. new[k] = [es[k] EXCEPT !.status = "removed"]
      BY <2>3
    <3>2. /\ new[k] \in Entry /\ new[k].local = es[k].local
          /\ new[k].user = es[k].user /\ new[k].prov = es[k].prov
      BY <2>1, <3>1 DEF Entry
    <3> QED BY <2>1, <3>2 DEF Sound
  <2> QED BY <2>2, <2>3
<1>4. /\ DOMAIN c.of \subseteq DOMAIN new
      /\ \A k \in DOMAIN c.of : c.of[k] = new[k]
      /\ c.first \in DOMAIN c.of
      /\ view.self \in DOMAIN c.of => c.first = view.self
  BY <1>2, CatalogsPart
<1>5. DOMAIN new = DOMAIN es
  OBVIOUS
<1> HIDE DEF new
<1>6. \A k \in DOMAIN c.of :
        /\ k \in Hosts /\ c.of[k] \in Entry /\ Sound(k, c.of[k])
        /\ c.of[k].local = es[k].local
  BY <1>1, <1>3, <1>4, <1>5
<1> QED BY <1>4, <1>5, <1>6 DEF Good, es

-----------------------------------------------------------------------------
(* The invariant.                                                          *)

LEMMA IdleType ==
  /\ Idle \in Refresh /\ Refused \in Refresh
  /\ \A view \in Mesh : Reading(view) \in Refresh
  /\ \A h \in Hosts : Idle.got[h] = NoAnswer /\ Refused.got[h] = NoAnswer
  /\ \A h \in Hosts : h \notin Idle.done /\ h \notin Refused.done
  /\ \A view, h : h \in Hosts => Reading(view).got[h] = NoAnswer /\ h \notin Reading(view).done
<1>1. NoView \in Mesh
  BY CatalogAssumption DEF NoView, Mesh
<1> QED BY <1>1 DEF Idle, Refused, Reading, Refresh

(* A refresh that starts, ends or fails leaves nothing to be merged.       *)
LEMMA Resets ==
  ASSUME Inv, NEW r \in Refreshers, NEW s \in {Idle, Refused, Reading(mesh)},
         refresher' = [refresher EXCEPT ![r] = s], UNCHANGED outside,
         UNCHANGED catalog \/ (Good(catalog'))
  PROVE  Inv'
<1>1. s \in Refresh /\ \A h \in Hosts : s.got[h] = NoAnswer /\ h \notin s.done
  BY IdleType DEF Inv, TypeOK
<1>2. refresher' \in [Refreshers -> Refresh]
  BY <1>1 DEF Inv, TypeOK
<1>3. \A k \in Refreshers : refresher'[k] = IF k = r THEN s ELSE refresher[k]
  BY DEF Inv, TypeOK
<1>4. /\ catalog' # NoCatalog =>
            /\ DOMAIN catalog'.of \in SUBSET Hosts
            /\ \A h \in DOMAIN catalog'.of : catalog'.of[h] \in Entry
            /\ catalog'.first \in DOMAIN catalog'.of
      /\ CatalogInv'
  <2>1. CASE UNCHANGED catalog
    BY <2>1 DEF Inv, TypeOK, CatalogInv, outside, Sound
  <2>2. CASE Good(catalog')
    BY <2>2 DEF Good, CatalogInv, outside, Sound
  <2> QED BY <2>1, <2>2
<1>5. TypeOK'
  BY <1>1, <1>2, <1>3, <1>4 DEF Inv, TypeOK, outside
<1>6. AnswersInv'
  BY <1>1, <1>3 DEF Inv, AnswersInv, outside, Sound
<1>7. PastInv'
  BY DEF Inv, PastInv, outside
<1> QED BY <1>4, <1>5, <1>6, <1>7 DEF Inv

LEMMA ObserveInv ==
  ASSUME Inv, NEW r \in Refreshers, NEW h \in Hosts, Observe(r, h)
  PROVE  Inv'
<1>1. PICK answer \in Answers(world[h]) :
        refresher' = [refresher EXCEPT ![r].got[h] = answer]
  BY DEF Observe
<1>2. answer \in Answer /\ Sound(h, answer)
  BY <1>1, AnswersSound DEF Inv
<1>3. UNCHANGED <<outside, catalog>> /\ h \in refresher[r].view.hosts
  BY DEF Observe
<1>4. refresher \in [Refreshers -> Refresh]
  BY DEF Inv, TypeOK
<1>5. /\ refresher' \in [Refreshers -> Refresh]
      /\ \A k \in Refreshers :
            /\ refresher'[k].view = refresher[k].view
            /\ refresher'[k].done = refresher[k].done
            /\ \A x \in Hosts : refresher'[k].got[x] =
                    IF k = r /\ x = h THEN answer ELSE refresher[k].got[x]
  BY <1>1, <1>2, <1>4 DEF Refresh
<1>6. TypeOK'
  BY <1>3, <1>5 DEF Inv, TypeOK, outside
<1>7. AnswersInv'
  BY <1>2, <1>3, <1>5 DEF Inv, AnswersInv, outside, Sound
<1>8. PastInv' /\ CatalogInv'
  BY <1>3 DEF Inv, PastInv, CatalogInv, outside, Sound
<1> QED BY <1>6, <1>7, <1>8 DEF Inv

LEMMA PublishInv ==
  ASSUME Inv, NEW r \in Refreshers, NEW h \in Hosts, Publish(r, h)
  PROVE  Inv'
<1>1. PICK c \in Published(h, h = refresher[r].view.self, refresher[r].got[h]) :
        IF Readable(c)
        THEN /\ catalog' = c
             /\ refresher' = [refresher EXCEPT ![r].got[h] = NoAnswer, ![r].done = @ \cup {h}]
        ELSE /\ UNCHANGED catalog
             /\ refresher' = [refresher EXCEPT ![r] = Refused]
  BY DEF Publish
<1>2. refresher[r].got[h] # NoAnswer /\ UNCHANGED outside
  BY DEF Publish
<1>3. refresher[r].got[h] \in Answer /\ Sound(h, refresher[r].got[h])
  BY <1>2 DEF Inv, TypeOK, AnswersInv, Refresh
<1>4. Good(c)
  <2> DEFINE local == h = refresher[r].view.self
  <2>1. local \in BOOLEAN /\ c \in Published(h, local, refresher[r].got[h])
    BY <1>1
  <2> HIDE DEF local
  <2> QED BY <2>1, <1>3, PublishedGood DEF Inv
<1>5. CASE ~Readable(c)
  <2>1. UNCHANGED catalog /\ refresher' = [refresher EXCEPT ![r] = Refused]
    BY <1>1, <1>5
  <2> HIDE DEF Inv
  <2> QED BY <1>2, <2>1, Resets
<1>6. CASE Readable(c)
  <2>1. /\ catalog' = c
        /\ refresher' = [refresher EXCEPT ![r].got[h] = NoAnswer, ![r].done = @ \cup {h}]
    BY <1>1, <1>6
  <2>2. refresher \in [Refreshers -> Refresh] /\ h \in refresher[r].view.hosts
    BY <1>2 DEF Inv, TypeOK
  <2>3. /\ refresher' \in [Refreshers -> Refresh]
        /\ \A k \in Refreshers :
            /\ refresher'[k].view = refresher[k].view
            /\ refresher'[k].done = IF k = r THEN refresher[k].done \cup {h}
                                             ELSE refresher[k].done
            /\ \A x \in Hosts : refresher'[k].got[x] =
                    IF k = r /\ x = h THEN NoAnswer ELSE refresher[k].got[x]
    BY <2>1, <2>2 DEF Refresh
  <2>4. TypeOK'
    BY <1>2, <1>4, <2>1, <2>2, <2>3 DEF Inv, TypeOK, Good, outside
  <2>5. AnswersInv'
    <3>1. ASSUME NEW k \in Refreshers, NEW x \in Hosts, refresher'[k].got[x] # NoAnswer
          PROVE  /\ refresher'[k].got[x] = refresher[k].got[x]
                 /\ Sound(x, refresher[k].got[x])
      BY <2>3, <3>1 DEF Inv, AnswersInv
    <3> QED BY <1>2, <3>1 DEF AnswersInv, outside, Sound
  <2>6. PastInv'
    BY <1>2 DEF Inv, PastInv, outside
  <2>7. CatalogInv'
    BY <1>2, <1>4, <2>1 DEF CatalogInv, Good, outside, Sound
  <2> QED BY <2>4, <2>5, <2>6, <2>7 DEF Inv
<1> QED BY <1>5, <1>6

LEMMA ChangeHostInv ==
  ASSUME Inv, NEW h \in Hosts, ChangeHost(h)
  PROVE  Inv'
<1>1. PICK w \in World : world' = [world EXCEPT ![h] = w]
  BY DEF ChangeHost
<1>2. /\ past' = [past EXCEPT ![h] = @ \cup {world'[h]}]
      /\ UNCHANGED <<mesh, catalog, refresher>>
  BY DEF ChangeHost
<1>3. world \in [Hosts -> World] /\ past \in [Hosts -> SUBSET World]
  BY DEF Inv, TypeOK
<1>5. world' \in [Hosts -> World] /\ past' \in [Hosts -> SUBSET World]
  BY <1>1, <1>2, <1>3
<1>6. \A k \in Hosts : past[k] \subseteq past'[k]
  BY <1>2, <1>3
<1>7. TypeOK'
  BY <1>2, <1>5 DEF Inv, TypeOK
<1>8. PastInv'
  BY <1>1, <1>2, <1>3 DEF Inv, PastInv
<1>9. AnswersInv' /\ CatalogInv'
  BY <1>2, <1>6 DEF Inv, TypeOK, AnswersInv, CatalogInv, Sound
<1> QED BY <1>7, <1>8, <1>9 DEF Inv

LEMMA InitInv == Init => Inv
<1> SUFFICES ASSUME Init PROVE Inv
  OBVIOUS
<1>1. mesh \in Mesh
  BY CatalogAssumption DEF Init, Mesh
<1>3. world \in [Hosts -> World] /\ past \in [Hosts -> SUBSET World]
  BY DEF Init
<1>4. TypeOK
  BY <1>1, <1>3, IdleType DEF Init, TypeOK
<1>5. PastInv
  BY DEF Init, PastInv
<1>6. AnswersInv /\ CatalogInv
  BY IdleType DEF Init, AnswersInv, CatalogInv
<1> QED BY <1>4, <1>5, <1>6 DEF Inv

LEMMA StepInv == Inv /\ [Next]_vars => Inv'
<1> SUFFICES ASSUME Inv, [Next]_vars PROVE Inv'
  OBVIOUS
<1>0. ASSUME mesh' \in Mesh, UNCHANGED <<world, past, catalog, refresher>> PROVE Inv'
  <2>1. TypeOK'
    BY <1>0 DEF Inv, TypeOK
  <2>2. PastInv'
    BY <1>0 DEF Inv, PastInv
  <2>3. AnswersInv'
    BY <1>0 DEF Inv, AnswersInv, Sound
  <2>4. CatalogInv'
    BY <1>0 DEF Inv, CatalogInv, Sound
  <2> QED BY <2>1, <2>2, <2>3, <2>4 DEF Inv
<1>1. CASE UNCHANGED vars
  <2>1. mesh' \in Mesh /\ UNCHANGED <<world, past, catalog, refresher>>
    BY <1>1 DEF vars, outside, Inv, TypeOK
  <2> QED BY <2>1, <1>0
<1>2. ASSUME NEW r \in Refreshers, Start(r) \/ Abort(r) PROVE Inv'
  <2>1. /\ UNCHANGED <<outside, catalog>>
        /\ \E s \in {Idle, Refused, Reading(mesh)} :
                refresher' = [refresher EXCEPT ![r] = s]
    BY <1>2 DEF Start, Abort
  <2> QED BY <2>1, Resets
<1>3. ASSUME NEW r \in Refreshers, FinishFleet(r) PROVE Inv'
  <2>1. PICK c \in Finished(refresher[r].view) :
            /\ catalog' = c \/ UNCHANGED catalog
            /\ \E s \in {Idle, Refused} : refresher' = [refresher EXCEPT ![r] = s]
    BY <1>3 DEF FinishFleet
  <2>2. Good(c)
    BY <2>1, FinishedGood DEF Inv
  <2>3. UNCHANGED outside
    BY <1>3 DEF FinishFleet
  <2> QED BY <2>1, <2>2, <2>3, Resets
<1>4. ASSUME NEW r \in Refreshers, NEW h \in Hosts, Observe(r, h) PROVE Inv'
  BY <1>4, ObserveInv
<1>5. ASSUME NEW r \in Refreshers, NEW h \in Hosts, Publish(r, h) PROVE Inv'
  BY <1>5, PublishInv
<1>6. CASE ChangeMesh
  <2>1. mesh' \in Mesh
    BY <1>6, CatalogAssumption DEF ChangeMesh, Mesh
  <2>2. UNCHANGED <<world, past, catalog, refresher>>
    BY <1>6 DEF ChangeMesh
  <2> QED BY <1>0, <2>1, <2>2
<1>7. ASSUME NEW h \in Hosts, ChangeHost(h) PROVE Inv'
  BY <1>7, ChangeHostInv
<1> QED BY <1>1, <1>2, <1>3, <1>4, <1>5, <1>6, <1>7 DEF Next, Step

THEOREM Invariant == Spec => []Inv
  BY InitInv, StepInv, PTL DEF Spec

(* Every variable keeps its type, and a refresh asks and merges only hosts *)
(* of the mesh it has read.                                                *)
THEOREM TypeCorrect == Spec => []TypeOK
<1>1. Inv => TypeOK
  BY DEF Inv
<1> QED BY <1>1, Invariant, PTL

(* A list shown as complete is what the host had at one moment, however    *)
(* many refreshes merge their answers into the catalog, in any order.      *)
THEOREM CompleteLists == Spec => []CompleteIsASnapshot
<1>1. Inv => CompleteIsASnapshot
  BY DEF Inv, CatalogInv, Sound, CompleteIsASnapshot
<1> QED BY <1>1, Invariant, PTL

-----------------------------------------------------------------------------
(* What a merge keeps.                                                     *)

(* A union keeps what was known, unless it fills the list.                 *)
LEMMA UnionsKeep ==
  ASSUME NEW old \in SUBSET Target, NEW seen \in SUBSET Target,
         Cardinality(seen) <= MaxTargets, NEW T \in Unions(old, seen)
  PROVE  old \subseteq T \/ Cardinality(T) = MaxTargets
<1> DEFINE room == IF Cardinality(seen) < MaxTargets
                   THEN MaxTargets - Cardinality(seen) ELSE 0
<1>1. PICK S \in SUBSET (old \ seen) :
        /\ T = seen \cup S
        /\ S = old \ seen \/ Cardinality(S) = room
  BY DEF Unions
<1>2. CASE S = old \ seen
  BY <1>1, <1>2
<1>3. CASE Cardinality(S) = room
  <2>1. IsFiniteSet(seen) /\ Cardinality(seen) \in Nat
    BY TargetsFinite
  <2>2. S \in SUBSET Target /\ seen \cap S = {}
    BY <1>1
  <2>3. IsFiniteSet(S) /\ Cardinality(S) \in Nat /\ Cardinality(seen \cap S) = 0
    BY <2>2, TargetsFinite, FS_EmptySet
  <2>4. Cardinality(seen \cup S) = Cardinality(seen) + Cardinality(S) - Cardinality(seen \cap S)
    BY <2>1, <2>3, FS_Union
  <2>5. Cardinality(T) = Cardinality(seen) + Cardinality(S)
    BY <1>1, <2>1, <2>3, <2>4
  <2>6. MaxTargets \in Nat /\ Cardinality(S) = MaxTargets - Cardinality(seen)
    BY <1>3, <2>1, CatalogAssumption
  <2> QED BY <2>1, <2>5, <2>6
<1> QED BY <1>1, <1>2, <1>3

(* The ways in which a target may leave an entry that stays.               *)
EntryKept(then, now) ==
    \A p \in Providers :
        \/ then.prov[p].targets \subseteq now.prov[p].targets
        \/ now.prov[p].status \in {"complete", "missing"}
        \/ now.user # then.user
        \/ Cardinality(now.prov[p].targets) = MaxTargets

LEMMA CoverageKept ==
  ASSUME NEW old \in Coverage, NEW new \in Coverage, Cardinality(new.targets) <= MaxTargets,
         NEW c \in MergedCoverage(old, new)
  PROVE  \/ old.targets \subseteq c.targets
         \/ c.status \in {"complete", "missing"}
         \/ Cardinality(c.targets) = MaxTargets
<1>1. CASE new.status \in {"complete", "missing"}
  BY <1>1 DEF MergedCoverage, Coverage
<1>2. CASE new.status \in {"partial", "unknown"}
  <2>1. PICK T \in Unions(old.targets, new.targets) : c = [new EXCEPT !.targets = T]
    BY <1>2 DEF MergedCoverage
  <2>2. c.targets = T
    BY <2>1 DEF Coverage
  <2>3. old.targets \in SUBSET Target /\ new.targets \in SUBSET Target
    BY DEF Coverage
  <2> QED BY <2>1, <2>2, <2>3, UnionsKeep
<1> QED BY <1>1, <1>2 DEF Coverage

(* A merge of any answer, an error included, keeps what it has no reason   *)
(* to drop, and leaves a host that is not removed.                         *)
LEMMA MergedKeeps ==
  ASSUME NEW prev \in Entry, NEW local, NEW h, NEW answer \in Answer, Sound(h, answer),
         NEW e \in Merged(prev, local, answer)
  PROVE  EntryKept(prev, e) /\ e.status # "removed"
<1>1. CASE answer.user = NoUser
  <2>1. e = [prev EXCEPT !.local = local, !.status = "error"]
    BY <1>1 DEF Merged
  <2>2. e.status = "error" /\ e.prov = prev.prov
    BY <2>1 DEF Entry
  <2> QED BY <2>2 DEF EntryKept
<1>2. CASE answer.user # NoUser
  <2> DEFINE old == OldCoverage(prev, answer.user)
  <2>1. PICK f : /\ e = [local |-> local, status |-> "answered",
                         user |-> answer.user, prov |-> f]
                 /\ \A p \in Providers : f[p] \in MergedCoverage(old[p], answer.prov[p])
    BY <1>2 DEF Merged, Inventoried
  <2>2. ASSUME NEW p \in Providers, answer.user = prev.user
        PROVE  \/ prev.prov[p].targets \subseteq f[p].targets
               \/ f[p].status \in {"complete", "missing"}
               \/ Cardinality(f[p].targets) = MaxTargets
    <3>1. old[p] = prev.prov[p]
      BY <2>2 DEF OldCoverage
    <3>2. prev.prov[p] \in Coverage /\ answer.prov[p] \in Coverage
      BY DEF Entry, Answer
    <3>3. Cardinality(answer.prov[p].targets) <= MaxTargets
      BY DEF Sound
    <3>4. f[p] \in MergedCoverage(prev.prov[p], answer.prov[p])
      BY <2>1, <3>1
    <3> QED BY <3>2, <3>3, <3>4, CoverageKept
  <2>3. e.status = "answered" /\ e.user = answer.user /\ e.prov = f
    BY <2>1
  <2> QED BY <2>2, <2>3 DEF EntryKept
<1> QED BY <1>1, <1>2

(* Only removed hosts make room, and none does when all of them fit.       *)
LEMMA CatalogsKeep ==
  ASSUME NEW es, NEW first, NEW c \in Catalogs(es, first)
  PROVE  /\ \A k \in DOMAIN es : es[k].status # "removed" => k \in DOMAIN c.of
         /\ IsFiniteSet(DOMAIN es) /\ Cardinality(DOMAIN es) <= MaxHosts =>
                DOMAIN c.of = DOMAIN es
<1>1. PICK b \in Bounded(es) : c.of = b
  BY DEF Catalogs
<1> DEFINE gone    == Removed(es)
           current == DOMAIN es \ gone
           room    == IF Cardinality(current) < MaxHosts
                      THEN MaxHosts - Cardinality(current) ELSE 0
<1>2. PICK S \in SUBSET gone :
        /\ b = [h \in current \cup S |-> es[h]]
        /\ Cardinality(gone) <= room => S = gone
  BY DEF Bounded
<1>3. ASSUME NEW k \in DOMAIN es, es[k].status # "removed" PROVE k \in DOMAIN c.of
  BY <1>1, <1>2, <1>3 DEF Removed
<1>4. ASSUME IsFiniteSet(DOMAIN es), Cardinality(DOMAIN es) <= MaxHosts
      PROVE  DOMAIN c.of = DOMAIN es
  <2>1. gone \subseteq DOMAIN es
    BY DEF Removed
  <2>2. /\ IsFiniteSet(gone) /\ IsFiniteSet(current)
        /\ Cardinality(gone) \in Nat /\ Cardinality(current) \in Nat
        /\ Cardinality(DOMAIN es) \in Nat
    BY <1>4, <2>1, FS_Subset, FS_CardinalityType
  <2>3. gone \cup current = DOMAIN es /\ gone \cap current = {}
    BY <2>1
  <2>4. Cardinality(DOMAIN es) = Cardinality(gone) + Cardinality(current)
    <3>1. Cardinality(gone \cup current) =
            Cardinality(gone) + Cardinality(current) - Cardinality(gone \cap current)
      BY <2>2, FS_Union
    <3>2. Cardinality(gone \cap current) = 0
      BY <2>3, FS_EmptySet
    <3> QED BY <2>2, <2>3, <3>1, <3>2
  <2> HIDE DEF gone, current
  <2>5. Cardinality(gone) <= room
    BY <1>4, <2>2, <2>4, CatalogAssumption
  <2> QED BY <1>1, <1>2, <2>3, <2>5
<1> QED BY <1>3, <1>4

(* What was written was readable, and so not too long, and with no local   *)
(* host but the first.                                                     *)
ReadableInv == catalog # NoCatalog => Readable(catalog)

LEMMA ReadableStep == Inv /\ ReadableInv /\ [Next]_vars => ReadableInv'
<1> SUFFICES ASSUME Inv, ReadableInv, [Next]_vars PROVE ReadableInv'
  OBVIOUS
<1>1. UNCHANGED catalog \/ Readable(catalog')
  BY DEF Next, Step, Start, Observe, Publish, FinishFleet, Abort, ChangeMesh, ChangeHost,
         vars
<1> QED BY <1>1 DEF ReadableInv, Readable

Keeps(h) ==
    LET then == catalog.of[h]
        now  == catalog'.of[h]
    IN  \/ then.status = "removed" /\ h \notin DOMAIN catalog'.of
        \/ EntryKept(then, now)

LEMMA PublishKeeps ==
  ASSUME Inv, NEW r \in Refreshers, NEW h \in Hosts, Publish(r, h),
         catalog # NoCatalog, NEW k \in DOMAIN catalog.of
  PROVE  Keeps(k)
<1> DEFINE local == h = refresher[r].view.self
           answer == refresher[r].got[h]
           es == catalog.of
           prev == IF h \in DOMAIN es THEN es[h] ELSE New
<1>1. CASE UNCHANGED catalog
  BY <1>1 DEF Keeps, EntryKept
<1>2. CASE catalog' # catalog
  <2>1. answer \in Answer /\ Sound(h, answer)
    BY DEF Publish, Inv, TypeOK, AnswersInv, Refresh
  <2>2. /\ Entries(catalog) = es
        /\ catalog' \in Published(h, local, answer)
    BY <1>2 DEF Publish, Entries
  <2>3. prev \in Entry
    BY NewSound DEF Inv, TypeOK
  <2>4. PICK e \in Merged(prev, local, answer) :
            catalog' \in Catalogs([x \in DOMAIN es \cup {h} |-> IF x = h THEN e ELSE es[x]],
                                  FirstWith(catalog, h, local))
    BY <2>2 DEF Published
  <2> HIDE DEF local, answer, prev, es
  <2>5. EntryKept(prev, e) /\ e.status # "removed"
    BY <2>1, <2>3, <2>4, MergedKeeps
  <2> DEFINE new == [x \in DOMAIN es \cup {h} |-> IF x = h THEN e ELSE es[x]]
  <2>6. /\ \A x \in DOMAIN catalog'.of : catalog'.of[x] = new[x]
        /\ \A x \in DOMAIN new : new[x].status # "removed" => x \in DOMAIN catalog'.of
    BY <2>4, CatalogsPart, CatalogsKeep
  <2>7. CASE k = h
    <3>1. new[h] = e /\ prev = catalog.of[h]
      BY <2>7 DEF prev, es
    <3>2. catalog'.of[h] = e
      BY <2>5, <2>6, <3>1
    <3> QED BY <2>5, <2>7, <3>1, <3>2 DEF Keeps
  <2>8. CASE k # h
    <3>1. k \in DOMAIN new /\ new[k] = catalog.of[k]
      BY <2>8 DEF es
    <3> HIDE DEF new
    <3>2. CASE k \in DOMAIN catalog'.of
      BY <2>6, <3>1, <3>2 DEF Keeps, EntryKept
    <3>3. CASE k \notin DOMAIN catalog'.of
      BY <2>6, <3>1, <3>3 DEF Keeps
    <3> QED BY <3>2, <3>3
  <2> QED BY <2>7, <2>8
<1> QED BY <1>1, <1>2

LEMMA FinishKeeps ==
  ASSUME Inv, ReadableInv, NEW r \in Refreshers, FinishFleet(r),
         catalog # NoCatalog, NEW k \in DOMAIN catalog.of
  PROVE  Keeps(k)
<1> DEFINE es == catalog.of
           view == refresher[r].view
           new == [h \in DOMAIN es |->
                    IF h \in view.hosts THEN es[h] ELSE [es[h] EXCEPT !.status = "removed"]]
<1>1. CASE UNCHANGED catalog
  BY <1>1 DEF Keeps, EntryKept
<1>2. CASE catalog' # catalog
  <2>1. catalog' \in Catalogs(new, view.self)
    BY <1>2 DEF FinishFleet, Finished, Entries
  <2>2. DOMAIN new \in SUBSET Hosts /\ Cardinality(DOMAIN new) <= MaxHosts /\ k \in DOMAIN new
    BY DEF Inv, TypeOK, ReadableInv, Readable
  <2>3. new[k].prov = es[k].prov
    BY DEF Inv, TypeOK, Entry
  <2> HIDE DEF new, view, es
  <2>4. IsFiniteSet(DOMAIN new)
    BY <2>2, CatalogAssumption, FS_Subset
  <2>5. k \in DOMAIN catalog'.of /\ catalog'.of[k] = new[k]
    BY <2>1, <2>2, <2>4, CatalogsPart, CatalogsKeep
  <2> QED BY <2>3, <2>5 DEF Keeps, EntryKept, es
<1> QED BY <1>1, <1>2

(* No failure of this host or of another one, and no order of merges,      *)
(* takes a target out of the catalog; a host is dropped only when removed, *)
(* and a fleet that is finished drops none.                                *)
THEOREM KeepsTargets == Spec => PartialKeepsTargets
<1>1. Init => ReadableInv
  BY DEF Init, ReadableInv
<1>2. Spec => [](Inv /\ ReadableInv)
  BY <1>1, InitInv, StepInv, ReadableStep, PTL DEF Spec
<1>3. ASSUME Inv, ReadableInv, Next, catalog # NoCatalog, NEW h \in DOMAIN catalog.of
      PROVE  Keeps(h)
  <2>1. CASE \E r \in Refreshers : FinishFleet(r)
    BY <1>3, <2>1, FinishKeeps
  <2>2. CASE \E r \in Refreshers, x \in Hosts : Publish(r, x)
    BY <1>3, <2>2, PublishKeeps
  <2>3. CASE UNCHANGED catalog
    BY <2>3 DEF Keeps, EntryKept
  <2> QED BY <1>3, <2>1, <2>2, <2>3
          DEF Next, Step, Start, Observe, Abort, ChangeMesh, ChangeHost
<1>4. Inv /\ ReadableInv /\ [Next]_vars =>
        [catalog # NoCatalog =>
            \A h \in DOMAIN catalog.of, p \in Providers :
                LET then == catalog.of[h]
                    now  == catalog'.of[h]
                IN  \/ then.status = "removed" /\ h \notin DOMAIN catalog'.of
                    \/ then.prov[p].targets \subseteq now.prov[p].targets
                    \/ now.prov[p].status \in {"complete", "missing"}
                    \/ now.user # then.user
                    \/ Cardinality(now.prov[p].targets) = MaxTargets]_vars
  BY <1>3 DEF Keeps, EntryKept
<1> QED BY <1>2, <1>4, PTL DEF Spec, PartialKeepsTargets

-----------------------------------------------------------------------------
(* What a merge is refused for.                                            *)

(* The hosts that are current in the catalog.                              *)
Current == DOMAIN Entries(catalog) \ Removed(Entries(catalog))

(* With a host that has answered they would be too many.                   *)
Overfull(r) ==
    \E h \in Hosts :
        refresher[r].got[h] # NoAnswer /\ Cardinality(Current \cup {h}) > MaxHosts

(* This machine, as the refresh knows it, is listed behind another host,   *)
(* or another host is listed as this machine.                              *)
Misplaced(r) ==
    /\ catalog # NoCatalog
    /\ catalog.first # refresher[r].view.self
    /\ catalog.of[catalog.first].local \/ refresher[r].view.self \in DOMAIN catalog.of

RefusedForCause ==
    [][\A r \in Refreshers :
          ~At(r, "refused") /\ At(r, "refused")' => Overfull(r) \/ Misplaced(r)]_vars

LEMMA BoundedFits ==
  ASSUME NEW es, IsFiniteSet(DOMAIN es),
         Cardinality(DOMAIN es \ Removed(es)) <= MaxHosts,
         NEW b \in Bounded(es)
  PROVE  Cardinality(DOMAIN b) <= MaxHosts
<1> DEFINE gone    == Removed(es)
           current == DOMAIN es \ gone
           room    == IF Cardinality(current) < MaxHosts
                      THEN MaxHosts - Cardinality(current) ELSE 0
<1>1. PICK S \in SUBSET gone :
        /\ b = [h \in current \cup S |-> es[h]]
        /\ \/ S = gone /\ Cardinality(gone) <= room
           \/ Cardinality(S) = room
  BY DEF Bounded
<1>2. gone \subseteq DOMAIN es
  BY DEF Removed
<1>3. S \subseteq DOMAIN es /\ current \subseteq DOMAIN es
  BY <1>1, <1>2
<1>4. /\ IsFiniteSet(S) /\ Cardinality(S) \in Nat
      /\ IsFiniteSet(current) /\ Cardinality(current) \in Nat
  BY <1>3, FS_Subset, FS_CardinalityType
<1>5. current \cap S = {}
  BY <1>1
<1>6. Cardinality(current) <= MaxHosts
  OBVIOUS
<1>7. Cardinality(S) <= room
  <2>1. IsFiniteSet(gone) /\ Cardinality(gone) \in Nat
    BY <1>2, FS_Subset, FS_CardinalityType
  <2> HIDE DEF gone, current, room
  <2> QED BY <1>1, <1>4, <2>1
<1>8. DOMAIN b = current \cup S
  BY <1>1
<1> HIDE DEF current
<1>9. Cardinality(current \cup S) = Cardinality(current) + Cardinality(S)
  <2>1. Cardinality(current \cup S) =
            Cardinality(current) + Cardinality(S) - Cardinality(current \cap S)
    BY <1>4, FS_Union
  <2>2. Cardinality(current \cap S) = 0
    BY <1>5, FS_EmptySet
  <2> QED BY <1>4, <2>1, <2>2
<1> QED BY <1>4, <1>6, <1>7, <1>8, <1>9, CatalogAssumption

(* What is wrong with a catalog of sound entries that cannot be read.      *)
LEMMA Unreadable ==
  ASSUME NEW c, Good(c), ~Readable(c)
  PROVE  \/ ~(Cardinality(DOMAIN c.of) <= MaxHosts)
         \/ \E k \in DOMAIN c.of : c.of[k].local /\ k # c.first
  BY DEF Good, Sound, Readable

LEMMA PublishRefused ==
  ASSUME Inv, ReadableInv, NEW r \in Refreshers, NEW h \in Hosts,
         Publish(r, h), ~At(r, "refused"), At(r, "refused")'
  PROVE  Overfull(r) \/ Misplaced(r)
<1> DEFINE self   == refresher[r].view.self
           local  == h = self
           answer == refresher[r].got[h]
           es     == Entries(catalog)
           first  == FirstWith(catalog, h, local)
<1>1. answer # NoAnswer /\ answer \in Answer /\ Sound(h, answer)
  BY DEF Publish, Inv, TypeOK, AnswersInv, Refresh
<1>2. PICK c \in Published(h, local, answer) : ~Readable(c)
  <2>1. SUFFICES ASSUME \A c \in Published(h, local, answer) : Readable(c) PROVE FALSE
    OBVIOUS
  <2>2. refresher' = [refresher EXCEPT ![r].got[h] = NoAnswer, ![r].done = @ \cup {h}]
    BY <2>1 DEF Publish
  <2>3. refresher'[r].pc = refresher[r].pc
    BY <2>2 DEF Inv, TypeOK, Refresh
  <2> QED BY <2>3 DEF At
<1>3. /\ Good(c)
      /\ DOMAIN c.of \subseteq DOMAIN es \cup {h}
      /\ \A k \in DOMAIN c.of : c.of[k].local = IF k = h THEN local ELSE es[k].local
      /\ first \in DOMAIN c.of => c.first = first
  <2>1. local \in BOOLEAN
    OBVIOUS
  <2> HIDE DEF answer, local
  <2> QED BY <1>1, <1>2, <2>1, PublishedGood DEF Inv
<1>4. CASE ~(Cardinality(DOMAIN c.of) <= MaxHosts)
  <2>1. PICK e \in Merged(IF h \in DOMAIN es THEN es[h] ELSE New, local, answer) :
            c \in Catalogs([k \in DOMAIN es \cup {h} |-> IF k = h THEN e ELSE es[k]], first)
    BY <1>2 DEF Published
  <2> DEFINE new == [k \in DOMAIN es \cup {h} |-> IF k = h THEN e ELSE es[k]]
  <2>2. c.of \in Bounded(new)
    BY <2>1 DEF Catalogs
  <2>3. DOMAIN es \subseteq Hosts
    BY DEF Inv, TypeOK, Entries
  <2>4. DOMAIN new \subseteq Hosts /\ Current \cup {h} \subseteq Hosts
    BY <2>3 DEF Current
  <2>5. DOMAIN new \ Removed(new) \subseteq Current \cup {h}
    <3> HIDE DEF es
    <3>1. \A k \in DOMAIN new : k # h => k \in DOMAIN es /\ new[k] = es[k]
      OBVIOUS
    <3> HIDE DEF new
    <3> QED BY <3>1 DEF Current, Removed, es
  <2> HIDE DEF new
  <2>6. /\ IsFiniteSet(DOMAIN new) /\ IsFiniteSet(Current \cup {h})
        /\ Cardinality(Current \cup {h}) \in Nat
    BY <2>4, CatalogAssumption, FS_Subset, FS_CardinalityType
  <2>7. /\ Cardinality(DOMAIN new \ Removed(new)) \in Nat
        /\ Cardinality(DOMAIN new \ Removed(new)) <= Cardinality(Current \cup {h})
    BY <2>5, <2>6, FS_Subset, FS_CardinalityType
  <2>8. ~(Cardinality(DOMAIN new \ Removed(new)) <= MaxHosts)
    BY <1>4, <2>2, <2>6, BoundedFits
  <2>9. Cardinality(Current \cup {h}) > MaxHosts
    BY <2>6, <2>7, <2>8, CatalogAssumption
  <2> QED BY <1>1, <2>9 DEF Overfull
<1>5. ASSUME NEW k \in DOMAIN c.of, c.of[k].local, k # c.first PROVE Misplaced(r)
  <2>1. catalog # NoCatalog
    <3>1. SUFFICES ASSUME catalog = NoCatalog PROVE FALSE
      OBVIOUS
    <3>2. DOMAIN es = {} /\ first = h
      BY <3>1 DEF Entries, FirstWith
    <3> QED BY <1>3, <1>5, <3>2
  <2>2. es = catalog.of
    BY <2>1 DEF Entries
  <2>3. \A x \in DOMAIN es : es[x].local => x = catalog.first
    BY <2>1, <2>2 DEF ReadableInv, Readable
  <2>4. first = IF local /\ h \notin DOMAIN es THEN h ELSE catalog.first
    BY <2>1 DEF FirstWith
  <2> HIDE DEF es, first
  <2>5. CASE k = h
    <3>1. local
      BY <1>3, <1>5, <2>5
    <3>2. h \in DOMAIN es /\ catalog.first # h
      BY <1>3, <1>5, <2>4, <2>5, <3>1
    <3> QED BY <2>1, <2>2, <3>1, <3>2 DEF Misplaced
  <2>6. CASE k # h
    <3>1. k \in DOMAIN es /\ es[k].local /\ k = catalog.first
      BY <1>3, <1>5, <2>3, <2>6
    <3>2. local
      BY <1>3, <1>5, <2>4, <3>1
    <3> QED BY <2>1, <2>2, <2>6, <3>1, <3>2 DEF Misplaced
  <2> QED BY <2>5, <2>6
<1> QED BY <1>2, <1>3, <1>4, <1>5, Unreadable

LEMMA FinishRefused ==
  ASSUME Inv, ReadableInv, NEW r \in Refreshers,
         FinishFleet(r), ~At(r, "refused"), At(r, "refused")'
  PROVE  Misplaced(r)
<1> DEFINE view == refresher[r].view
           es   == Entries(catalog)
<1>1. PICK c \in Finished(view) : ~Readable(c)
  <2>1. SUFFICES ASSUME \A c \in Finished(view) : Readable(c) PROVE FALSE
    OBVIOUS
  <2>2. refresher' = [refresher EXCEPT ![r] = Idle]
    BY <2>1 DEF FinishFleet
  <2>3. refresher'[r].pc = "idle"
    BY <2>2 DEF Inv, TypeOK, Idle, Reading
  <2> QED BY <2>3 DEF At
<1>2. /\ Good(c)
      /\ DOMAIN c.of \subseteq DOMAIN es
      /\ \A k \in DOMAIN c.of : c.of[k].local = es[k].local
      /\ view.self \in DOMAIN c.of => c.first = view.self
  <2> HIDE DEF view
  <2> QED BY <1>1, FinishedGood DEF Inv
<1>3. catalog # NoCatalog /\ es = catalog.of
  BY <1>2 DEF Good, Entries
<1>4. Cardinality(DOMAIN c.of) <= MaxHosts
  <2>1. DOMAIN es \subseteq Hosts /\ Cardinality(DOMAIN es) <= MaxHosts
    BY <1>3 DEF Inv, TypeOK, ReadableInv, Readable
  <2> HIDE DEF es
  <2>2. IsFiniteSet(DOMAIN es) /\ Cardinality(DOMAIN es) \in Nat
    BY <2>1, CatalogAssumption, FS_Subset, FS_CardinalityType
  <2>3. Cardinality(DOMAIN c.of) \in Nat /\ Cardinality(DOMAIN c.of) <= Cardinality(DOMAIN es)
    BY <1>2, <2>2, FS_Subset, FS_CardinalityType
  <2> QED BY <2>1, <2>2, <2>3, CatalogAssumption
<1>5. PICK k \in DOMAIN c.of : c.of[k].local /\ k # c.first
  BY <1>1, <1>2, <1>4, Unreadable
<1>6. k = catalog.first /\ catalog.of[k].local
  BY <1>2, <1>3, <1>5 DEF ReadableInv, Readable
<1>7. k # view.self
  BY <1>2, <1>5
<1> QED BY <1>3, <1>6, <1>7 DEF Misplaced

(* _mutate refuses the merge of an answer, or the end of a fleet, only     *)
(* because the hosts now in use would be too many, or because this machine *)
(* is no longer the host it was.  No interleaving of refreshes, change of  *)
(* a host's user, number of targets or crowd of removed hosts is a cause.  *)
THEOREM RefusalsHaveACause == Spec => RefusedForCause
<1>1. Init => ReadableInv
  BY DEF Init, ReadableInv
<1>2. Spec => [](Inv /\ ReadableInv)
  BY <1>1, InitInv, StepInv, ReadableStep, PTL DEF Spec
<1>3. ASSUME Inv, ReadableInv, Next, NEW r \in Refreshers,
             ~At(r, "refused"), At(r, "refused")'
      PROVE  Overfull(r) \/ Misplaced(r)
  <2>1. ASSUME NEW s \in Refreshers, NEW x, refresher' = [refresher EXCEPT ![s] = x], s # r
        PROVE  FALSE
    <3>1. refresher'[r] = refresher[r]
      BY <1>3, <2>1 DEF Inv, TypeOK
    <3> QED BY <1>3, <3>1 DEF At
  <2>2. ASSUME NEW s \in Refreshers, Start(s) \/ Abort(s) PROVE FALSE
    <3>1. PICK v \in {Idle, Reading(mesh)} : refresher' = [refresher EXCEPT ![s] = v]
      BY <2>2 DEF Start, Abort
    <3>2. s = r
      BY <2>1, <3>1
    <3>3. refresher'[r] = v
      BY <1>3, <3>1, <3>2 DEF Inv, TypeOK
    <3>4. v.pc \in {"idle", "reading"}
      BY DEF Idle, Reading
    <3> QED BY <1>3, <3>3, <3>4 DEF At
  <2>3. ASSUME NEW s \in Refreshers, NEW h \in Hosts, Observe(s, h) PROVE FALSE
    <3>1. PICK a : refresher' = [refresher EXCEPT ![s].got[h] = a]
      BY <2>3 DEF Observe
    <3>2. refresher'[r].pc = refresher[r].pc
      BY <1>3, <3>1 DEF Inv, TypeOK, Refresh
    <3> QED BY <1>3, <3>2 DEF At
  <2>4. ASSUME NEW s \in Refreshers, NEW h \in Hosts, Publish(s, h)
        PROVE  Overfull(r) \/ Misplaced(r)
    <3>1. \/ refresher' = [refresher EXCEPT ![s].got[h] = NoAnswer, ![s].done = @ \cup {h}]
          \/ refresher' = [refresher EXCEPT ![s] = Refused]
      BY <2>4 DEF Publish
    <3>2. s = r
      <4>1. CASE refresher' = [refresher EXCEPT ![s].got[h] = NoAnswer,
                                                ![s].done = @ \cup {h}]
        <5>1. refresher'[r].pc = refresher[r].pc
          BY <1>3, <4>1 DEF Inv, TypeOK, Refresh
        <5> QED BY <1>3, <5>1 DEF At
      <4>2. CASE refresher' = [refresher EXCEPT ![s] = Refused]
        BY <2>1, <4>2
      <4> QED BY <3>1, <4>1, <4>2
    <3> QED BY <1>3, <2>4, <3>2, PublishRefused
  <2>5. ASSUME NEW s \in Refreshers, FinishFleet(s) PROVE Misplaced(r)
    <3>1. \E v \in {Idle, Refused} : refresher' = [refresher EXCEPT ![s] = v]
      BY <2>5 DEF FinishFleet
    <3>2. s = r
      BY <2>1, <3>1
    <3> QED BY <1>3, <2>5, <3>2, FinishRefused
  <2>6. CASE UNCHANGED refresher
    BY <1>3, <2>6 DEF At
  <2> QED BY <1>3, <2>2, <2>3, <2>4, <2>5, <2>6 DEF Next, Step, ChangeMesh, ChangeHost
<1>4. Inv /\ ReadableInv /\ [Next]_vars =>
        [\A r \in Refreshers :
            ~At(r, "refused") /\ At(r, "refused")' => Overfull(r) \/ Misplaced(r)]_vars
  BY <1>3
<1> QED BY <1>2, <1>4, PTL DEF Spec, RefusedForCause
=============================================================================
