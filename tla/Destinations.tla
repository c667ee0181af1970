---------------------------- MODULE Destinations ----------------------------
(***************************************************************************)
(* The destinations service of the jitsu server (package destinations,    *)
(* src/unnamed/part_000): the registry of destination units, the shared   *)
(* per-token incoming loggers with their reference counts, and the three  *)
(* tokenized maps the request path reads.  One writer (the reload          *)
(* goroutine that runs Service.init) reconciles the registry with a new   *)
(* configuration snapshot, one lock-delimited step at a time.  The        *)
(* authorization service changes the set of known token ids concurrently.*)
(*                                                                         *)
(* Abstractions.  A storage handle and its event queue are one handle,    *)
(* the unit's id; a logger is an id too.  The configuration hash is the   *)
(* resolved configuration record itself (a collision-free hash).  The     *)
(* tokenized maps token -> key -> value are sets of tuples, so a token    *)
(* with no entries is simply absent, as Service.remove makes it.          *)
(***************************************************************************)
EXTENDS Naturals, FiniteSets, Functions, FiniteSetsExt, TLC

CONSTANTS
    Names,      \* destination names (keys of the configuration)
    Tokens,     \* token ids known to the authorization service
    Configs,    \* destination configurations a snapshot may hold
    Ids,        \* handle ids for units (storage/queue) and loggers
    SourceModes \* the sources NewService may be configured with

ASSUME Configs \subseteq [mode : {"stream", "batch"}, staged : BOOLEAN,
                          only : SUBSET Tokens]
ASSUME Names \cap Tokens = {}
ASSUME SourceModes \subseteq {"watch", "once", "off"}

VARIABLES
    units,          \* unitsByName: name -> [id, queue, tokenIDs, hash]
    loggers,        \* loggersUsageByTokenID: token -> [id, usage]
    consumers,      \* consumersByTokenID as <<token, key, id>>
    storagesBy,     \* storagesByTokenID as <<token, name, id>>
    idsBy,          \* destinationsIDByTokenID as <<token, name>>
    reloading,      \* StatusInstance.Reloading
    auth,           \* token ids the authorization service knows now
    pc,             \* writer: "idle", "loop", "recreate", "create", "panicked"
    dc,             \* the snapshot init is reconciling
    toDelete,       \* names still to remove in the deletion pass
    pending,        \* names of dc the create loop has not visited
    cur,            \* [name, cfg, hash] of the destination being visited
    newConsumers,   \* this cycle's additions, merged at the end of init
    newStorages,
    newIDs,
    unitsAtStart,   \* history: unitsByName when init began
    source          \* NewService's destinations source: "watch" (resources.Watch
                    \* started), "once" (config or inline JSON, init not run yet)
                    \* or "off" (not configured, or the one load is over)

vars == <<units, loggers, consumers, storagesBy, idsBy, reloading, auth, pc,
          dc, toDelete, pending, cur, newConsumers, newStorages, newIDs,
          unitsAtStart, source>>

(***************************************************************************)
(* Helpers                                                                 *)
(***************************************************************************)

\* A snapshot: every map from a set of names to configurations.
Snapshots == UNION {[S -> Configs] : S \in SUBSET Names}

\* The Unit record; hash is the resolved config (name is the map key).
Unit == [id : Ids, queue : BOOLEAN, tokenIDs : SUBSET Tokens,
         hash : [mode : {"stream", "batch"}, staged : BOOLEAN,
                 only : SUBSET Tokens]]

NoCur == [name |-> "none"]

\* Tokenized*.AddAll: merge the additions, an addition winning a key.
MergeEntries(m, add) ==
    {e \in m : ~\E a \in add : <<a[1], a[2]>> = <<e[1], e[2]>>} \cup add

\* Ids held by anything: live units and loggers, and every map entry.
InUse == {units[n].id : n \in DOMAIN units} \cup {loggers[t].id : t \in DOMAIN loggers}
         \cup {e[3] : e \in consumers \cup storagesBy \cup newConsumers \cup newStorages}

\* Only tokens resolve through GetAllIDsByToken, empty falls back to all.
Resolve(cfg) == IF cfg.only # {} THEN cfg.only \cap auth ELSE auth

(***************************************************************************)
(* Service.remove(name, unit), called with the write lock held.  For each *)
(* token the unit served: a queue-backed unit loses its consumer entry;  *)
(* any other unit decrements the token's logger usage and, at zero, the  *)
(* logger is closed and its entry and consumer deleted.  A token with no *)
(* logger entry makes loggerUsage nil: the decrement panics.  Then the   *)
(* storage and id entries go, the unit is closed and unregistered.       *)
(***************************************************************************)
RemovePanics(n) ==
    ~units[n].queue /\ \E t \in units[n].tokenIDs : t \notin DOMAIN loggers

\* Mutant: logger never closed when its usage reaches zero.
RemoveKeepsIdleLogger(n) ==
    LET u == units[n]  Shared == IF u.queue THEN {} ELSE u.tokenIDs
    IN  /\ consumers' = {e \in consumers : ~(u.queue /\ e[1] \in u.tokenIDs /\ e[2] = n)}
        /\ loggers' = [t \in DOMAIN loggers |->
                         IF t \in Shared THEN [loggers[t] EXCEPT !.usage = @ - 1] ELSE loggers[t]]
        /\ storagesBy' = {e \in storagesBy : ~(e[1] \in u.tokenIDs /\ e[2] = n)}
        /\ idsBy' = {e \in idsBy : ~(e[1] \in u.tokenIDs /\ e[2] = n)}
        /\ units' = Restrict(units, DOMAIN units \ {n})

\* Mutant: a queue consumer deleted under the token key, not the name.
RemoveQueueByToken(n) ==
    LET u == units[n]  Shared == IF u.queue THEN {} ELSE u.tokenIDs
        Dropped == {t \in Shared : loggers[t].usage - 1 = 0}
    IN  /\ consumers' = {e \in consumers : /\ ~(u.queue /\ e[1] \in u.tokenIDs /\ e[2] = e[1])
                                            /\ ~(e[1] \in Dropped /\ e[2] = e[1])}
        /\ loggers' = [t \in DOMAIN loggers \ Dropped |->
                         IF t \in Shared THEN [loggers[t] EXCEPT !.usage = @ - 1] ELSE loggers[t]]
        /\ storagesBy' = {e \in storagesBy : ~(e[1] \in u.tokenIDs /\ e[2] = n)}
        /\ idsBy' = {e \in idsBy : ~(e[1] \in u.tokenIDs /\ e[2] = n)}
        /\ units' = Restrict(units, DOMAIN units \ {n})

Remove(n) ==
    LET u       == units[n]
        Shared  == IF u.queue THEN {} ELSE u.tokenIDs
        Dropped == {t \in Shared : loggers[t].usage - 1 = 0}
    IN  /\ consumers' = {e \in consumers :
                            /\ ~(u.queue /\ e[1] \in u.tokenIDs /\ e[2] = n)
                            /\ ~(e[1] \in Dropped /\ e[2] = e[1])}
        /\ loggers' = [t \in DOMAIN loggers \ Dropped |->
                         IF t \in Shared THEN [loggers[t] EXCEPT !.usage = @ - 1]
                                         ELSE loggers[t]]
        /\ storagesBy' = {e \in storagesBy : ~(e[1] \in u.tokenIDs /\ e[2] = n)}
        /\ idsBy' = {e \in idsBy : ~(e[1] \in u.tokenIDs /\ e[2] = n)}
        /\ units' = Restrict(units, DOMAIN units \ {n})

(***************************************************************************)
(* Actions of the writer                                                   *)
(***************************************************************************)

Init ==
    /\ units = <<>> /\ loggers = <<>>
    /\ consumers = {} /\ storagesBy = {} /\ idsBy = {}
    /\ reloading = FALSE
    /\ auth \in SUBSET Tokens
    /\ pc = "idle" /\ dc = <<>> /\ toDelete = {} /\ pending = {} /\ cur = NoCur
    /\ newConsumers = {} /\ newStorages = {} /\ newIDs = {}
    /\ unitsAtStart = <<>>
    /\ source \in SourceModes

\* Mutant: the scan for names absent from the new snapshot is skipped.
UpdateDestinationsNoDelete(snap) ==
    /\ pc = "idle" /\ source # "off"
    /\ source' = IF source = "once" THEN "off" ELSE "watch"
    /\ reloading' = TRUE
    /\ dc' = snap
    /\ toDelete' = {}
    /\ pending' = DOMAIN snap
    /\ newConsumers' = {} /\ newStorages' = {} /\ newIDs' = {}
    /\ unitsAtStart' = units
    /\ pc' = "loop"
    /\ UNCHANGED <<units, loggers, consumers, storagesBy, idsBy, auth, cur>>

\* updateDestinations with a payload that parses, up to the end of the
\* unlocked scan for names absent from the new snapshot.
UpdateDestinations(snap) ==
    /\ pc = "idle" /\ source # "off"
    /\ source' = IF source = "once" THEN "off" ELSE "watch"
    /\ reloading' = TRUE
    /\ dc' = snap
    /\ toDelete' = DOMAIN units \ DOMAIN snap
    /\ pending' = DOMAIN snap
    /\ newConsumers' = {} /\ newStorages' = {} /\ newIDs' = {}
    /\ unitsAtStart' = units
    /\ pc' = "loop"
    /\ UNCHANGED <<units, loggers, consumers, storagesBy, idsBy, auth, cur>>

\* The config section does not unmarshal, or the inline JSON does not parse:
\* NewService returns the service with init never run.  (A watched
\* payload that does not parse is a stutter: the next one is tried.)
LoadFailed ==
    /\ source = "once"
    /\ source' = "off"
    /\ UNCHANGED <<units, loggers, consumers, storagesBy, idsBy, reloading, auth,
                   pc, dc, toDelete, pending, cur, newConsumers, newStorages,
                   newIDs, unitsAtStart>>

\* The deletion pass, under the write lock, one stale unit at a time.
RemoveStale(n) ==
    /\ pc = "loop" /\ n \in toDelete
    /\ ~RemovePanics(n)
    /\ Remove(n)
    /\ toDelete' = toDelete \ {n}
    /\ UNCHANGED <<source, reloading, auth, pc, dc, pending, cur, newConsumers,
                   newStorages, newIDs, unitsAtStart>>

\* Mutant: no hash comparison, an existing unit is always recreated.
PickDestNoHashCheck(n) ==
    LET cfg  == [dc[n] EXCEPT !.only = Resolve(dc[n])]
    IN  /\ pc = "loop" /\ toDelete = {} /\ n \in pending
        /\ pending' = pending \ {n}
        /\ cur' = [name |-> n, cfg |-> cfg]
        /\ pc' = IF n \in DOMAIN units THEN "recreate" ELSE "create"
        /\ UNCHANGED <<source, units, loggers, consumers, storagesBy, idsBy, reloading,
                       auth, dc, toDelete, newConsumers, newStorages, newIDs,
                       unitsAtStart>>

\* Mutant: an existing unit is skipped whatever its hash.
PickDestNameOnly(n) ==
    LET cfg  == [dc[n] EXCEPT !.only = Resolve(dc[n])]
    IN  /\ pc = "loop" /\ toDelete = {} /\ n \in pending
        /\ pending' = pending \ {n}
        /\ cur' = [name |-> n, cfg |-> cfg]
        /\ pc' = IF n \in DOMAIN units THEN "loop" ELSE "create"
        /\ UNCHANGED <<source, units, loggers, consumers, storagesBy, idsBy, reloading,
                       auth, dc, toDelete, newConsumers, newStorages, newIDs,
                       unitsAtStart>>

\* Visit the next destination of dc (map order is arbitrary): resolve its
\* tokens, hash, and skip it if its unit exists with the same hash.
PickDest(n) ==
    LET cfg  == [dc[n] EXCEPT !.only = Resolve(dc[n])]
    IN  /\ pc = "loop" /\ toDelete = {} /\ n \in pending
        /\ pending' = pending \ {n}
        /\ cur' = [name |-> n, cfg |-> cfg]
        /\ pc' = IF n \in DOMAIN units /\ units[n].hash = cfg THEN "loop"
                 ELSE IF n \in DOMAIN units THEN "recreate"
                 ELSE "create"
        /\ UNCHANGED <<source, units, loggers, consumers, storagesBy, idsBy, reloading,
                       auth, dc, toDelete, newConsumers, newStorages, newIDs,
                       unitsAtStart>>

\* A changed destination: remove the old unit under the write lock.
RemoveForRecreate ==
    /\ pc = "recreate"
    /\ ~RemovePanics(cur.name)
    /\ Remove(cur.name)
    /\ pc' = "create"
    /\ UNCHANGED <<source, reloading, auth, dc, toDelete, pending, cur, newConsumers,
                   newStorages, newIDs, unitsAtStart>>

\* remove on a unit without a queue whose token has no logger entry:
\* loggerUsage is nil and "loggerUsage.usage -= 1" panics.  The process
\* (or at least this reload) ends here.
RemovePanic ==
    /\ \/ pc = "loop" /\ \E n \in toDelete : RemovePanics(n)
       \/ pc = "recreate" /\ RemovePanics(cur.name)
    /\ pc' = "panicked"
    /\ UNCHANGED <<source, units, loggers, consumers, storagesBy, idsBy, reloading,
                   auth, dc, toDelete, pending, cur, newConsumers, newStorages,
                   newIDs, unitsAtStart>>

\* Zero resolved tokens: authorization isn't ready, try next cycle.
SkipUnauthorized ==
    /\ pc = "create" /\ cur.cfg.only = {}
    /\ pc' = "loop"
    /\ UNCHANGED <<source, units, loggers, consumers, storagesBy, idsBy, reloading,
                   auth, dc, toDelete, pending, cur, newConsumers, newStorages,
                   newIDs, unitsAtStart>>

\* storageFactory.Create returned an error: the destination is skipped.
CreateFailed ==
    /\ pc = "create" /\ cur.cfg.only # {}
    /\ pc' = "loop"
    /\ UNCHANGED <<source, units, loggers, consumers, storagesBy, idsBy, reloading,
                   auth, dc, toDelete, pending, cur, newConsumers, newStorages,
                   newIDs, unitsAtStart>>

\* Mutant: an existing logger is reused without counting the new user.
AttachLoggersNoCount(Shared, Fresh, lid) ==
    [t \in DOMAIN loggers \cup Fresh |->
        IF t \in Fresh THEN [id |-> lid[t], usage |-> 1] ELSE loggers[t]]

\* Get or create the logger of each token in Shared (lid names the new
\* loggers' ids) and count one more user of it.
AttachLoggers(Shared, Fresh, lid) ==
    [t \in DOMAIN loggers \cup Fresh |->
        IF t \in Fresh THEN [id |-> lid[t], usage |-> 1]
        ELSE IF t \in Shared THEN [loggers[t] EXCEPT !.usage = @ + 1]
        ELSE loggers[t]]

\* Create the unit, register it without the lock, and for each token of a
\* non-staged destination stage its id entry and its queue consumer, or
\* get-or-create the token's logger, count the use, and stage the logger
\* consumer (under the token) and the storage (under the name).
Create ==
    LET n       == cur.name
        cfg     == cur.cfg
        batch   == cfg.mode # "stream"
        Routed  == IF cfg.staged THEN {} ELSE cfg.only
        Shared  == IF batch THEN Routed ELSE {}
        Fresh   == Shared \ DOMAIN loggers
        Free    == Ids \ InUse
        uid     == Min(Free)
    IN  /\ pc = "create" /\ cfg.only # {}
        /\ Free # {} /\ Injection(Fresh, Free \ {uid}) # {}
        /\ LET lid == CHOOSE f \in Injection(Fresh, Free \ {uid}) : TRUE
               lg  == AttachLoggers(Shared, Fresh, lid)
           IN  /\ units' = (n :> [id |-> uid, queue |-> ~batch,
                                  tokenIDs |-> cfg.only, hash |-> cfg]) @@ units
               /\ loggers' = lg
               /\ newIDs' = newIDs \cup {<<t, n>> : t \in Routed}
               /\ newConsumers' =
                    IF batch THEN {e \in newConsumers : ~(e[1] \in Shared /\ e[2] = e[1])}
                                  \cup {<<t, t, lg[t].id>> : t \in Shared}
                    ELSE {e \in newConsumers : ~(e[1] \in Routed /\ e[2] = n)}
                         \cup {<<t, n, uid>> : t \in Routed}
               /\ newStorages' = IF batch THEN newStorages \cup {<<t, n, uid>> : t \in Shared}
                                 ELSE newStorages
        /\ pc' = "loop"
        /\ UNCHANGED <<source, consumers, storagesBy, idsBy, reloading, auth, dc,
                       toDelete, pending, cur, unitsAtStart>>

\* Mutant: the storages additions are never merged.
PublishWithoutStorages ==
    /\ pc = "loop" /\ toDelete = {} /\ pending = {}
    /\ consumers' = MergeEntries(consumers, newConsumers)
    /\ idsBy' = idsBy \cup newIDs
    /\ reloading' = FALSE
    /\ pc' = "idle" /\ cur' = NoCur
    /\ UNCHANGED <<source, units, loggers, storagesBy, auth, dc, toDelete, pending,
                   newConsumers, newStorages, newIDs, unitsAtStart>>

\* Merge this cycle's additions under the write lock; reloading is over.
Publish ==
    /\ pc = "loop" /\ toDelete = {} /\ pending = {}
    /\ consumers' = MergeEntries(consumers, newConsumers)
    /\ storagesBy' = MergeEntries(storagesBy, newStorages)
    /\ idsBy' = idsBy \cup newIDs
    /\ reloading' = FALSE
    /\ pc' = "idle" /\ cur' = NoCur
    /\ UNCHANGED <<source, units, loggers, auth, dc, toDelete, pending, newConsumers,
                   newStorages, newIDs, unitsAtStart>>

\* The authorization service reloads its tokens (and then forces a reload
\* of this service, which is just the next UpdateDestinations).
AuthReload(a) ==
    /\ a # auth
    /\ auth' = a
    /\ UNCHANGED <<source, units, loggers, consumers, storagesBy, idsBy, reloading, pc,
                   dc, toDelete, pending, cur, newConsumers, newStorages,
                   newIDs, unitsAtStart>>

Next ==
    \/ \E s \in Snapshots : UpdateDestinations(s)
    \/ LoadFailed
    \/ \E n \in Names : RemoveStale(n) \/ PickDest(n)
    \/ RemoveForRecreate \/ RemovePanic \/ SkipUnauthorized \/ CreateFailed \/ Create
    \/ Publish
    \/ \E a \in SUBSET Tokens : AuthReload(a)

Spec == Init /\ [][Next]_vars

\* The watcher (resources.Watch, spec section 4.2) calls updateDestinations
\* on its timer, so with a watched source a reload eventually starts
\* whenever the writer is idle (a one-shot source's single init is not
\* forced to happen: NewService may fail to unmarshal it), and init runs
\* to completion: weak fairness of every step of init.
\* The storage factory is the environment: Create may fail any number of
\* times, but not every time it is tried (strong fairness of Create).
Fairness ==
    /\ WF_vars(\E s \in Snapshots : UpdateDestinations(s))
    /\ WF_vars(\E n \in Names : RemoveStale(n))
    /\ WF_vars(\E n \in Names : PickDest(n))
    /\ WF_vars(RemoveForRecreate) /\ WF_vars(RemovePanic) /\ WF_vars(SkipUnauthorized)
    /\ WF_vars(Create \/ CreateFailed) /\ SF_vars(Create)
    /\ WF_vars(Publish)

\* The environment settles: from some point on every reload fetches the
\* snapshot of the reload before it, and the authorization service keeps
\* its token ids.
Settled ==
    <>[][auth' = auth /\ (pc = "idle" /\ pc' = "loop" => dc' = dc)]_vars

LiveSpec == Spec /\ Fairness /\ Settled

(***************************************************************************)
(* Properties                                                              *)
(***************************************************************************)

TypeOK ==
    /\ DOMAIN units \subseteq Names /\ \A n \in DOMAIN units : units[n] \in Unit
    /\ DOMAIN loggers \subseteq Tokens
    /\ \A t \in DOMAIN loggers : loggers[t].id \in Ids /\ loggers[t].usage \in Nat \ {0}
    /\ consumers \cup newConsumers \subseteq Tokens \X (Names \cup Tokens) \X Ids
    /\ storagesBy \cup newStorages \subseteq Tokens \X Names \X Ids
    /\ idsBy \cup newIDs \subseteq Tokens \X Names
    /\ reloading \in BOOLEAN /\ auth \subseteq Tokens
    /\ pc \in {"idle", "loop", "recreate", "create", "panicked"}
    /\ toDelete \cup pending \subseteq Names
    /\ source \in {"watch", "once", "off"}

\* Non-staged batch units that serve token t.
BatchUsers(t) ==
    {n \in DOMAIN units : ~units[n].queue /\ ~units[n].hash.staged
                          /\ t \in units[n].tokenIDs}

\* LoggerUsage: a token has a shared logger exactly while some non-staged
\* batch unit serves it, and its usage counts those units (init increments,
\* remove decrements and closes at zero).
RefCountMatchesUnits ==
    \A t \in Tokens :
        /\ (t \in DOMAIN loggers) = (BatchUsers(t) # {})
        /\ t \in DOMAIN loggers => loggers[t].usage = Cardinality(BatchUsers(t))

\* What the maps must hold for the registry (spec section 3): each
\* non-staged unit has its id entry per token, a stream unit its queue as
\* consumer under its name, a batch unit its storage under its name and the
\* token's logger under the token.
Live(queue) ==
    {n \in DOMAIN units : units[n].queue = queue /\ ~units[n].hash.staged}

\* GetDestinationIDs' entries for a registry u: each token of a non-staged unit.
RoutedIDs(u) ==
    {<<t, n>> \in Tokens \X DOMAIN u : ~u[n].hash.staged /\ t \in u[n].tokenIDs}

RoutedConsumers ==
    UNION {{<<t, n, units[n].id>> : t \in units[n].tokenIDs} : n \in Live(TRUE)}
    \cup {<<t, t, loggers[t].id>> : t \in {s \in DOMAIN loggers : BatchUsers(s) # {}}}

\* Between reloads, GetConsumers, GetStorages and GetDestinationIDs serve
\* exactly the registry: nothing of a removed or replaced unit survives a
\* reload and everything of a created unit has been published.
MapsMatchRegistry ==
    pc = "idle" =>
        /\ consumers = RoutedConsumers
        /\ storagesBy = UNION {{<<t, n, units[n].id>> : t \in units[n].tokenIDs} : n \in Live(FALSE)}
        /\ idsBy = RoutedIDs(units)

\* At every instant, also in the middle of a reload, a reader holding the
\* read lock is handed only handles that are still open: each consumer and
\* storage entry is the id of the live unit of that name or of the live
\* logger of that token (remove closes what it unregisters).
NoClosedHandleServed ==
    /\ \A e \in consumers :
        \/ e[2] \in DOMAIN units /\ units[e[2]].id = e[3]
        \/ e[2] = e[1] /\ e[1] \in DOMAIN loggers /\ loggers[e[1]].id = e[3]
    /\ \A e \in storagesBy : e[2] \in DOMAIN units /\ units[e[2]].id = e[3]

\* The registry the reconciled snapshot asks for: a unit for each
\* destination whose tokens resolve, built from its resolved configuration.
Wanted == {n \in DOMAIN dc : Resolve(dc[n]) # {}}

Converged ==
    /\ DOMAIN units = Wanted
    /\ \A n \in Wanted : units[n].hash = [dc[n] EXCEPT !.only = Resolve(dc[n])]

\* Once the configuration and the token ids stop changing, the registry
\* comes to match them and stays so: a destination skipped because its
\* tokens were not loaded yet (line 211), or whose factory call failed
\* (line 219), is created by a later reload, a changed one rebuilt, a
\* dropped one removed, and no later reload disturbs the result.  The one
\* other outcome is the nil-logger panic of remove, which ends the process.
RoutesConverge == <>[]Converged \/ <>(pc = "panicked")

\* The registry and routing as the service's contract sees them: the live
\* ones between reloads, and while a reload runs those it began with.
AsRegistry(u) == [n \in DOMAIN u |-> [id |-> u[n].id, cfg |-> u[n].hash]]

RT == INSTANCE RoutingTable
        WITH wanted   <- dc,
             registry <- AsRegistry(IF pc = "idle" THEN units ELSE unitsAtStart),
             routes   <- IF pc = "idle" THEN idsBy ELSE RoutedIDs(unitsAtStart)

\* Every completed reload is one atomic reconciliation of RoutingTable
\* against the snapshot updateDestinations received: no unit of a name the
\* snapshot dropped survives the deletion pass, every unit left was built
\* from its own name's configuration with the tokens resolved, unchanged
\* ones are the same instances, and the ids the service serves are exactly
\* those of the non-staged units.
RefinesRoutingTable == RT!Spec

\* Change detection (spec section 8): a reload that ends with a unit whose
\* hash is the one it had when the reload began kept the same instance; an
\* unchanged destination is never closed and rebuilt.
UnchangedUnitKept ==
    [][pc' = "idle" /\ pc # "idle" =>
        \A n \in DOMAIN unitsAtStart \cap DOMAIN units' :
            unitsAtStart[n].hash = units'[n].hash => unitsAtStart[n].id = units'[n].id]_vars
=============================================================================
