---------------------------- MODULE DestinationsRW ----------------------------
(***************************************************************************)
(* The destinations service with its readers: the request goroutines that *)
(* call GetStorageByID and GetDestinationIDs under the read lock of the   *)
(* service's RWMutex, composed with the reload writer of Destinations.    *)
(* The writer's critical sections (deletion pass, recreate removal, the   *)
(* final merge) wait until no reader holds the read lock; its other steps *)
(* take no lock.  GetStorageByID is split at its lock: RLock, then the    *)
(* read of unitsByName and RUnlock, so a write in between is concurrent   *)
(* with the read.  GetDestinationIDs copies under the lock in one step.   *)
(* GetConsumers and GetStorages copy the token's handles under the lock   *)
(* in one step too, and their caller uses the copies after the deferred   *)
(* RUnlock: a handle id is a pointer the caller keeps.                     *)
(***************************************************************************)
EXTENDS Destinations

CONSTANT Readers

VARIABLES
    rpc,         \* reader: "idle", "get" (inside GetStorageByID, RLock held)
                 \* or "use" (using the handles GetConsumers/GetStorages gave)
    held,        \* reader -> the handle ids it copied and has not used yet
    seen,        \* history: <<token, ids>> views read during the current reload
    idsAtStart   \* history: destinationsIDByTokenID when the reload began

rvars == <<rpc, held, seen, idsAtStart>>
allVars == <<vars, rvars>>

\* Readers inside GetStorageByID, holding the read lock.
Holding == {r \in Readers : rpc[r] = "get"}

\* The writer is blocked in s.Lock(): before the deletion pass (line 174),
\* the recreate removal (206) or the final merge (269).  sync.RWMutex then
\* makes every new RLock wait until the writer has had the lock.
WriterPending ==
    \/ pc = "recreate"
    \/ pc = "loop" /\ (toDelete # {} \/ pending = {})

\* GetDestinationIDs(token) over a map m.
IdsOf(m, t) == {n \in Names : <<t, n>> \in m}

\* The handles a tokenized map m holds for token t (its copy loop).
HandlesOf(m, t) == {e[3] : e \in {x \in m : x[1] = t}}

\* Handles not closed yet: every registered unit and every counted logger
\* (remove closes a unit as it unregisters it, and a logger as its entry
\* is deleted).
OpenHandles == {units[n].id : n \in DOMAIN units} \cup {loggers[t].id : t \in DOMAIN loggers}

RWInit ==
    /\ Init
    /\ rpc = [r \in Readers |-> "idle"] /\ held = [r \in Readers |-> {}]
    /\ seen = {} /\ idsAtStart = {}

(***************************************************************************)
(* The writer: Destinations' steps, the locked ones waiting for readers.  *)
(***************************************************************************)

WriterUpdate(s) ==
    /\ UpdateDestinations(s)
    /\ seen' = {} /\ idsAtStart' = idsBy
    /\ UNCHANGED <<rpc, held>>

WriterLocked ==
    /\ Holding = {}
    /\ \/ \E n \in Names : RemoveStale(n)
       \/ RemoveForRecreate
       \/ Publish
    /\ UNCHANGED rvars

\* The unlocked steps of the create loop.
WriterScan ==
    /\ \/ \E n \in Names : PickDest(n)
       \/ RemovePanic \/ SkipUnauthorized \/ CreateFailed \/ Create
    /\ UNCHANGED rvars

WriterUnlocked ==
    \/ WriterScan
    \/ \E a \in SUBSET Tokens : AuthReload(a) /\ UNCHANGED rvars

(***************************************************************************)
(* The readers                                                             *)
(***************************************************************************)

StorageByIDLock(r) ==
    /\ rpc[r] = "idle" /\ ~WriterPending
    /\ rpc' = [rpc EXCEPT ![r] = "get"]
    /\ UNCHANGED <<vars, held, seen, idsAtStart>>

\* GetStorageByID: the lookup in unitsByName, then the deferred RUnlock.
StorageByIDRead(r) ==
    /\ rpc[r] = "get"
    /\ rpc' = [rpc EXCEPT ![r] = "idle"]
    /\ UNCHANGED <<vars, held, seen, idsAtStart>>

\* GetDestinationIDs(t): a copy of the token's id set under the read lock;
\* a copy taken while a reload is in progress is remembered.
ReadDestinationIDs(r, t) ==
    /\ rpc[r] = "idle" /\ ~WriterPending
    /\ seen' = IF pc # "idle" THEN seen \cup {<<t, IdsOf(idsBy, t)>>} ELSE seen
    /\ UNCHANGED <<vars, rpc, held, idsAtStart>>

\* GetConsumers(t): range over consumersByTokenID[t] under the read lock
\* and return the copied handles.
GetConsumers(r, t) ==
    /\ rpc[r] = "idle" /\ ~WriterPending
    /\ held' = [held EXCEPT ![r] = HandlesOf(consumers, t)]
    /\ rpc' = [rpc EXCEPT ![r] = "use"]
    /\ UNCHANGED <<vars, seen, idsAtStart>>

\* GetStorages(t): the same over storagesByTokenID[t].
GetStorages(r, t) ==
    /\ rpc[r] = "idle" /\ ~WriterPending
    /\ held' = [held EXCEPT ![r] = HandlesOf(storagesBy, t)]
    /\ rpc' = [rpc EXCEPT ![r] = "use"]
    /\ UNCHANGED <<vars, seen, idsAtStart>>

\* The caller, with no lock, hands its event to each returned handle.
UseHandles(r) ==
    /\ rpc[r] = "use"
    /\ rpc' = [rpc EXCEPT ![r] = "idle"] /\ held' = [held EXCEPT ![r] = {}]
    /\ UNCHANGED <<vars, seen, idsAtStart>>

RWNext ==
    \/ \E s \in Snapshots : WriterUpdate(s)
    \/ WriterLocked
    \/ WriterUnlocked
    \/ \E r \in Readers :
        \/ StorageByIDLock(r) \/ StorageByIDRead(r)
        \/ \E t \in Tokens : ReadDestinationIDs(r, t) \/ GetConsumers(r, t) \/ GetStorages(r, t)
        \/ UseHandles(r)

RWSpec == RWInit /\ [][RWNext]_allVars

\* The reload goroutine is fair once a reload has begun, and a reader that
\* holds the read lock in GetStorageByID does a map lookup and releases it.
\* Requests (RLock) and the authorization service are not fair: they may
\* stop or go on for ever.
RWFairness ==
    /\ WF_allVars(WriterLocked)
    /\ WF_allVars(WriterScan)
    /\ \A r \in Readers : WF_allVars(StorageByIDRead(r))

RWLiveSpec == RWSpec /\ RWFairness

(***************************************************************************)
(* Properties                                                              *)
(***************************************************************************)

NoRegistryRace ==
    [][Holding # {} => UNCHANGED units]_allVars

\* Spec section 5: a reader during a reload sees, for a token, either the
\* pre-reload or the post-reload destination ids, never a mixture.
ViewIsPreOrPost ==
    pc = "idle" =>
        \A o \in seen : o[2] \in {IdsOf(idsAtStart, o[1]), IdsOf(idsBy, o[1])}
\* Spec section 5: readers take snapshot copies and "cannot be handed a
\* reference to a resource being concurrently closed": a handle returned
\* by GetConsumers or GetStorages is still open when the caller uses it,
\* although remove may run between the RUnlock and the use.
HeldHandlesOpen ==
    \A r \in Readers : rpc[r] = "use" => held[r] \subseteq OpenHandles
=============================================================================
