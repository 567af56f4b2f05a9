-------------------------------- MODULE Catalog --------------------------------
(***************************************************************************)
(* The saved catalog of every host's targets and the refreshes that merge  *)
(* into it (cache.py, with the view of the fleet transport.read_fleet      *)
(* gives it).                                                              *)
(*                                                                         *)
(* A refresh reads the Host Mesh once, asks every host of that view at the *)
(* same time, merges each answer into the catalog as it arrives, and marks *)
(* the hosts outside its view as removed.  One merge is atomic: read,      *)
(* change, parse and replace under the catalog's lock.  A refresh is many  *)
(* merges, though, and menus, workers and the list command refresh at the  *)
(* same time, each with the mesh and the answers it got when it asked.     *)
(***************************************************************************)
EXTENDS Naturals, FiniteSets

CONSTANTS
    Hosts, Selves,      \* host identities; those this machine may have
    Providers, Users,
    Homes, DefaultHome, \* directories a provider may keep its sessions in
    Refreshers,         \* processes that may be refreshing at the same time
    NoUser, NoCatalog, NoAnswer,
    MaxHosts,           \* cache.MAX_HOSTS
    MaxTargets,         \* targets of one provider of one host
    MaxChanges,         \* bound: changes of the mesh and of the hosts
    MaxAborts           \* bound: refreshes that fail or are killed

ASSUME CatalogAssumption ==
    /\ Selves \subseteq Hosts /\ Selves # {}
    /\ NoUser \notin Users
    /\ DefaultHome \in Homes
    /\ IsFiniteSet(Hosts)
    /\ MaxHosts \in Nat /\ MaxTargets \in Nat
    /\ MaxChanges \in Nat /\ MaxAborts \in Nat

(* TargetKey; host and provider are known from where a target is kept.     *)
Target == [user : Users, home : Homes]

ASSUME TargetAssumption == IsFiniteSet(Target)

(* "missing" stands for missing and unsupported coverage, "unknown" also    *)
(* for that of a provider not reported.                                    *)
Coverage == [status  : {"unknown", "complete", "partial", "missing"},
             targets : SUBSET Target]

(* "answered" stands for complete and partial: merges treat them alike.     *)
Entry == [local  : BOOLEAN,
          status : {"answered", "error", "removed"},
          user   : Users \cup {NoUser},
          prov   : [Providers -> Coverage]]

(* What a host has: whose account answers, which providers are installed,   *)
(* and the homes its configuration declares; one that cannot be read        *)
(* declares none.                                                           *)
World  == [user : Users, installed : SUBSET Providers,
           declared : [Providers -> SUBSET Homes]]
Mesh   == [self : Selves, hosts : SUBSET Hosts]
Answer == [user : Users \cup {NoUser}, prov : [Providers -> Coverage]]
Refresh == [pc : {"idle", "reading", "refused"}, view : Mesh,
            got : [Hosts -> Answer \cup {NoAnswer}], done : SUBSET Hosts]

Unknown == [status |-> "unknown", targets |-> {}]

VARIABLES
    mesh,           \* the Host Mesh: this machine and every host of it
    world,          \* [Hosts -> the user and the provider targets it has]
    catalog,        \* the file: the entry of every host in it, and the first one
    refresher,      \* [Refreshers -> what it has read and still has to merge]
    past,           \* history: [Hosts -> what `world` was for it, ever]
    changes, aborts

outside == <<mesh, world, past, changes>>
vars == <<outside, catalog, refresher, aborts>>

Reading(view) ==
    [pc |-> "reading", view |-> view, got |-> [h \in Hosts |-> NoAnswer], done |-> {}]

NoView  == [self |-> CHOOSE h \in Selves : TRUE, hosts |-> {}]
Idle    == [Reading(NoView) EXCEPT !.pc = "idle"]
Refused == [Reading(NoView) EXCEPT !.pc = "refused"]

Entries(c) == IF c = NoCatalog THEN << >> ELSE c.of

-----------------------------------------------------------------------------
(* What one host answers to one refresh, taken at one moment               *)
(* (host.build_inventory).                                                 *)

(* _provider_candidates: an installed or declared provider has its default *)
(* home and those declared.                                                *)
Listed(w, p) ==
    IF p \notin w.installed /\ w.declared[p] = {} THEN {}
    ELSE {[user |-> w.user, home |-> d] : d \in w.declared[p] \cup {DefaultHome}}

(* Without its command a provider is missing; with it, the command may be  *)
(* one without the manager, or not say.  Any other failure (a home that    *)
(* cannot be used, a conflict, the daemon's status) leaves it partial.     *)
Statuses(w, p) ==
    IF p \in w.installed THEN {"complete", "partial", "unknown", "missing"}
    ELSE {"missing"}

(* Homes that cannot be resolved, or exceed the limit, are left out of a   *)
(* list, and it is not complete then.                                      *)
Reads(w, p) ==
    {c \in [status : Statuses(w, p), targets : SUBSET Listed(w, p)] :
        /\ Cardinality(c.targets) <= MaxTargets
        /\ c.status = "complete" => c.targets = Listed(w, p)}

(* An inventory or an error.                                               *)
Answers(w) ==
    {[user |-> w.user, prov |-> f] :
        f \in {g \in [Providers -> UNION {Reads(w, p) : p \in Providers}] :
                    \A p \in Providers : g[p] \in Reads(w, p)}}
    \cup {[user |-> NoUser, prov |-> [p \in Providers |-> Unknown]]}

-----------------------------------------------------------------------------
(* Merging an answer into the entry the catalog has (_merge_host).         *)

(* Targets not seen again stay, after those that were, up to the limit     *)
(* (_target_union orders them by home and identity).                       *)
Unions(old, seen) ==
    LET room == IF Cardinality(seen) < MaxTargets
                THEN MaxTargets - Cardinality(seen) ELSE 0
    IN  {seen \cup S : S \in
            {T \in SUBSET (old \ seen) :
                \/ T = old \ seen /\ Cardinality(T) <= room
                \/ Cardinality(old \ seen) > room /\ Cardinality(T) = room}}

(* Mutant: targets seen before stay even if the provider has been listed   *)
(* completely.                                                             *)
MergedCoverageUnion(old, new) ==
    IF new.status = "missing" THEN {[new EXCEPT !.targets = {}]}
    ELSE {[new EXCEPT !.targets = T] : T \in Unions(old.targets, new.targets)}

(* A provider listed completely has exactly the targets reported, one not  *)
(* there none; of one listed in part, or whose state is not known, those   *)
(* reported are added to those known.                                      *)
MergedCoverage(old, new) ==
    CASE new.status = "complete" -> {new}
      [] new.status = "missing"  -> {[new EXCEPT !.targets = {}]}
      [] new.status \in {"partial", "unknown"} ->
            {[new EXCEPT !.targets = T] : T \in Unions(old.targets, new.targets)}

(* Mutant: the targets of an earlier user of the host stay.                *)
OldCoverageOfAnyone(previous, user) == previous.prov

OldCoverage(previous, user) ==
    IF previous.user \notin {NoUser, user}
    THEN [p \in Providers |-> Unknown] ELSE previous.prov

New == [local |-> FALSE, status |-> "error", user |-> NoUser,
        prov |-> [p \in Providers |-> Unknown]]

(* What is known of a host that answered with an inventory.                *)
Inventoried(previous, local, answer) ==
    LET old == OldCoverage(previous, answer.user)
        all == UNION {MergedCoverage(old[p], answer.prov[p]) : p \in Providers}
    IN  {[local |-> local, status |-> "answered", user |-> answer.user, prov |-> f] :
            f \in {g \in [Providers -> all] :
                \A p \in Providers : g[p] \in MergedCoverage(old[p], answer.prov[p])}}

(* Mutants: a host that cannot be reached loses what was known of it; one  *)
(* that is back, but does not answer, stays removed.                       *)
MergedForgets(previous, local, answer) ==
    IF answer.user = NoUser
    THEN {[New EXCEPT !.local = local, !.user = previous.user]}
    ELSE Inventoried(previous, local, answer)
MergedStaysRemoved(previous, local, answer) ==
    IF answer.user = NoUser
    THEN {[previous EXCEPT !.local = local]}
    ELSE Inventoried(previous, local, answer)

(* With no inventory everything known is kept, and shown as an error.      *)
Merged(previous, local, answer) ==
    IF answer.user = NoUser
    THEN {[previous EXCEPT !.local = local, !.status = "error"]}
    ELSE Inventoried(previous, local, answer)

-----------------------------------------------------------------------------
(* The file.                                                               *)

Removed(es) == {h \in DOMAIN es : es[h].status = "removed"}

(* _bounded_hosts: only hosts that are removed make room for others.       *)
Bounded(es) ==
    LET current == DOMAIN es \ Removed(es)
        room    == IF Cardinality(current) < MaxHosts
                   THEN MaxHosts - Cardinality(current) ELSE 0
        kept    == IF Cardinality(Removed(es)) <= room THEN {Removed(es)}
                   ELSE {S \in SUBSET Removed(es) : Cardinality(S) = room}
    IN  {[h \in current \cup S |-> es[h]] : S \in kept}

(* parse_snapshot, by which a catalog is read and without which none is    *)
(* written.                                                                *)
Readable(c) ==
    /\ Cardinality(DOMAIN c.of) <= MaxHosts
    /\ \A h \in DOMAIN c.of :
        /\ c.of[h].local => h = c.first
        /\ \A p \in Providers :
            /\ Cardinality(c.of[h].prov[p].targets) <= MaxTargets
            /\ \A t \in c.of[h].prov[p].targets : t.user = c.of[h].user

(* Mutant: a new local host goes to the end like any other. *)
FirstWithAppended(c, h, local) == IF c = NoCatalog THEN h ELSE c.first

(* A host the catalog does not have goes to the end, this machine to the   *)
(* beginning; one it has stays where it is.                                *)
FirstWith(c, h, local) ==
    IF c = NoCatalog \/ (local /\ h \notin DOMAIN Entries(c)) THEN h ELSE c.first

(* The one that was first may have been dropped for room. *)
Catalogs(es, first) ==
    UNION {{[of |-> b, first |-> f] : f \in IF first \in DOMAIN b THEN {first} ELSE DOMAIN b} :
           b \in Bounded(es)}

(* publish_host and finish_fleet, as the catalogs they may write.          *)
Published(h, local, answer) ==
    LET es   == Entries(catalog)
        prev == IF h \in DOMAIN es THEN es[h] ELSE New
    IN  UNION {Catalogs([k \in DOMAIN es \cup {h} |-> IF k = h THEN e ELSE es[k]],
                        FirstWith(catalog, h, local)) : e \in Merged(prev, local, answer)}

Finished(view) ==
    LET es == Entries(catalog)
    IN  Catalogs([h \in DOMAIN es |->
                    IF h \in view.hosts THEN es[h] ELSE [es[h] EXCEPT !.status = "removed"]],
                 view.self)

-----------------------------------------------------------------------------
(* A refresh.                                                              *)

At(r, pc) == refresher[r].pc = pc

(* A refresh that was refused has reported its error; the next one starts  *)
(* afresh.                                                                 *)
Start(r) ==
    /\ ~At(r, "reading")
    /\ refresher' = [refresher EXCEPT ![r] = Reading(mesh)]
    /\ UNCHANGED <<outside, catalog, aborts>>

(* Mutant: hosts of some other view are asked too. *)
ObserveAny(r, h) ==
    /\ At(r, "reading")
    /\ refresher[r].got[h] = NoAnswer
    /\ h \notin refresher[r].done
    /\ \E answer \in Answers(world[h]) :
            refresher' = [refresher EXCEPT ![r].got[h] = answer]
    /\ UNCHANGED <<outside, catalog, aborts>>

(* A host of the view answers, from what it has at this moment.            *)
Observe(r, h) ==
    /\ At(r, "reading")
    /\ h \in refresher[r].view.hosts
    /\ refresher[r].got[h] = NoAnswer
    /\ h \notin refresher[r].done
    /\ \E answer \in Answers(world[h]) :
            refresher' = [refresher EXCEPT ![r].got[h] = answer]
    /\ UNCHANGED <<outside, catalog, aborts>>

(* A catalog that would not be readable is not written, and the refresh    *)
(* ends there, whatever the other hosts answered.                          *)
Publish(r, h) ==
    /\ At(r, "reading")
    /\ refresher[r].got[h] # NoAnswer
    /\ \E c \in Published(h, h = refresher[r].view.self, refresher[r].got[h]) :
        IF Readable(c)
        THEN /\ catalog' = c
             /\ refresher' = [refresher EXCEPT ![r].got[h] = NoAnswer, ![r].done = @ \cup {h}]
        ELSE /\ UNCHANGED catalog
             /\ refresher' = [refresher EXCEPT ![r] = Refused]
    /\ UNCHANGED <<outside, aborts>>

(* Once every host of the view has been merged, the others are removed.    *)
FinishFleet(r) ==
    /\ At(r, "reading")
    /\ refresher[r].done = refresher[r].view.hosts
    /\ \E c \in Finished(refresher[r].view) :
        IF Readable(c)
        THEN catalog' = c /\ refresher' = [refresher EXCEPT ![r] = Idle]
        ELSE /\ UNCHANGED catalog
             /\ refresher' = [refresher EXCEPT ![r] = Refused]
    /\ UNCHANGED <<outside, aborts>>

(* A lock, disk or signal ends a refresh between two merges.               *)
Abort(r) ==
    /\ At(r, "reading")
    /\ aborts < MaxAborts
    /\ aborts' = aborts + 1
    /\ refresher' = [refresher EXCEPT ![r] = Idle]
    /\ UNCHANGED <<outside, catalog>>

-----------------------------------------------------------------------------
(* The rest of the world.                                                  *)

ChangeMesh ==
    /\ changes < MaxChanges
    /\ \E self \in Selves, others \in SUBSET Hosts :
            mesh' = [self |-> self, hosts |-> others \cup {self}]
    /\ changes' = changes + 1
    /\ UNCHANGED <<world, past, catalog, refresher, aborts>>

ChangeHost(h) ==
    /\ changes < MaxChanges
    /\ \E w \in World : world' = [world EXCEPT ![h] = w]
    /\ past' = [past EXCEPT ![h] = @ \cup {world'[h]}]
    /\ changes' = changes + 1
    /\ UNCHANGED <<mesh, catalog, refresher, aborts>>

Init ==
    /\ \E self \in Selves, others \in SUBSET Hosts :
            mesh = [self |-> self, hosts |-> others \cup {self}]
    /\ world \in [Hosts -> World]
    /\ past = [h \in Hosts |-> {world[h]}]
    /\ changes = 0
    /\ aborts = 0
    /\ catalog = NoCatalog
    /\ refresher = [r \in Refreshers |-> Idle]

Step(r) ==
    \/ Start(r) \/ FinishFleet(r)
    \/ \E h \in Hosts : Observe(r, h) \/ Publish(r, h)

Next ==
    \/ \E r \in Refreshers : Step(r) \/ Abort(r)
    \/ ChangeMesh
    \/ \E h \in Hosts : ChangeHost(h)

Spec == Init /\ [][Next]_vars

(* Refreshes keep being made and go on; every host answers or fails in a   *)
(* bounded time.  The mesh, the hosts and the failures settle.             *)
FairSpec == Spec /\ \A r \in Refreshers : WF_vars(Step(r))

-----------------------------------------------------------------------------
(* Properties                                                              *)

(* Every variable holds a value of its kind.                               *)
TypeOK ==
    /\ mesh \in Mesh
    /\ world \in [Hosts -> World]
    /\ past \in [Hosts -> SUBSET World]
    /\ catalog # NoCatalog =>
            /\ DOMAIN catalog.of \in SUBSET Hosts
            /\ \A h \in DOMAIN catalog.of : catalog.of[h] \in Entry
            /\ catalog.first \in DOMAIN catalog.of
    /\ refresher \in [Refreshers -> Refresh]
    /\ \A r \in Refreshers : \A h \in Hosts :
            refresher[r].got[h] # NoAnswer \/ h \in refresher[r].done =>
                h \in refresher[r].view.hosts

(* No interleaving of refreshes, no change of a host's user and none of    *)
(* its membership makes a merge produce a catalog that its own reader      *)
(* rejects: every host that answered is published (_mutate parses what it  *)
(* is about to write).  It holds while this machine keeps its identity and *)
(* the hosts fit the limit.                                                *)
MergesAreReadable == \A r \in Refreshers : ~At(r, "refused")

(* What is shown as the complete list of a provider is what the host had   *)
(* at one moment, never a mixture of several refreshes.                    *)
CompleteIsASnapshot ==
    catalog # NoCatalog =>
        \A h \in DOMAIN catalog.of, p \in Providers :
            catalog.of[h].prov[p].status = "complete" =>
                \E w \in past[h] : /\ w.user = catalog.of[h].user
                                   /\ Listed(w, p) = catalog.of[h].prov[p].targets

(* "Merge a completed host while preserving other hosts and partial        *)
(* targets" (publish_host): a target leaves the catalog only because its   *)
(* provider has been listed without it, its user is gone from the host, or *)
(* there is no more room; never because a host, or another one, failed.    *)
PartialKeepsTargets ==
    [][catalog # NoCatalog =>
        \A h \in DOMAIN catalog.of, p \in Providers :
            LET then == catalog.of[h]
                now  == catalog'.of[h]
            IN  \/ then.status = "removed" /\ h \notin DOMAIN catalog'.of
                \/ then.prov[p].targets \subseteq now.prov[p].targets
                \/ now.prov[p].status \in {"complete", "missing"}
                \/ now.user # then.user
                \/ Cardinality(now.prov[p].targets) = MaxTargets]_vars

(* Once the mesh settles, the catalog agrees with it on which hosts are    *)
(* removed, whatever refreshes with an older view still write.             *)
MembershipSettles ==
    <>[](/\ catalog # NoCatalog
         /\ \A h \in DOMAIN catalog.of :
                catalog.of[h].status = "removed" <=> h \notin mesh.hosts)
=============================================================================
