---------------------------- MODULE AirbyteDriver ----------------------------
(***************************************************************************)
(* The airbyte CLI source driver (package airbyte, the second half of     *)
(* src/server/storages/snowflake.go).  Three kinds of goroutine share one *)
(* driver: the EnsureCatalog goroutine started by NewAirbyte, which       *)
(* discovers the catalog until it succeeds or the driver is closed; the   *)
(* Load calls of sync tasks, which wait for readiness, register a runner  *)
(* in activeRunners and read from it; and Close, which closes the closed  *)
(* channel and kills every registered runner.  a.mutex guards            *)
(* activeRunners and discoverCatalogLastError; catalogDiscovered is an    *)
(* atomic flag; streamsRepresentation is written without the mutex.      *)
(*                                                                         *)
(* A runner is its task id; a docker process is "running" until it ends  *)
(* by itself or is killed.  Catalog contents are abstracted to whether    *)
(* streamsRepresentation has been set.                                   *)
(***************************************************************************)
EXTENDS Naturals

CONSTANTS
    Tasks,      \* sync tasks calling Load (task ids)
    Closers,    \* goroutines that may call Close
    MaxRetry    \* bound on EnsureCatalog's retry counter

ASSUME MaxRetry \in Nat

VARIABLES
    closed,       \* the closed channel has been closed
    discovered,   \* catalogDiscovered
    lastErr,      \* discoverCatalogLastError != nil
    catalog,      \* streamsRepresentation: "none" or "set"
    retry,        \* EnsureCatalog's retry counter
    epc,          \* EnsureCatalog: "top", "discover", "store", "mark", "done"
    imagePulled,  \* the airbyte bridge has pulled the docker image
    active,       \* activeRunners (task ids)
    running,      \* runners whose docker process is alive
    tpc,          \* Load of each task
    readCat,      \* streamsRepresentation as each Load passed it to Read
    cpc           \* Close of each closer

vars == <<closed, discovered, lastErr, catalog, retry, epc, imagePulled,
          active, running, tpc, readCat, cpc>>

LoadStates == {"idle", "waiting", "statepath", "reading", "done", "failed"}

\* IsClosed: a non-blocking receive on the closed channel.
IsClosed == closed

\* Mutant: Ready without the catalogDiscovered check.
ReadyImageOnly == imagePulled

\* Ready: the image is pulled and the catalog discovered.
Ready == imagePulled /\ discovered

(***************************************************************************)
(* NewAirbyte: a catalog given in the config counts as discovered and its *)
(* streams are parsed at once; EnsureCatalog is started.                  *)
(***************************************************************************)
Init ==
    /\ \E provided \in BOOLEAN :
        /\ discovered = provided
        /\ catalog = IF provided THEN "set" ELSE "none"
    /\ closed = FALSE /\ lastErr = FALSE /\ retry = 0 /\ epc = "top"
    /\ imagePulled \in BOOLEAN
    /\ active = {} /\ running = {}
    /\ tpc = [t \in Tasks |-> "idle"]
    /\ readCat = [t \in Tasks |-> "unread"]
    /\ cpc = [c \in Closers |-> "idle"]

(***************************************************************************)
(* EnsureCatalog                                                           *)
(***************************************************************************)

\* Mutant: the loop head no longer tests IsClosed.
ECTopIgnoresClose ==
    /\ epc = "top"
    /\ epc' = IF discovered THEN "done" ELSE "discover"
    /\ UNCHANGED <<closed, discovered, lastErr, catalog, retry, imagePulled,
                   active, running, tpc, readCat, cpc>>

\* Loop head: stop when closed or when the catalog is already discovered.
ECTop ==
    /\ epc = "top"
    /\ epc' = IF IsClosed \/ discovered THEN "done" ELSE "discover"
    /\ UNCHANGED <<closed, discovered, lastErr, catalog, retry, imagePulled,
                   active, running, tpc, readCat, cpc>>

\* loadCatalog: airbyte Discover answers ErrNotReady while the image is
\* not pulled; then Discover, reformatCatalog or writing the catalog file
\* may fail, or it returns the catalog path and the streams.
LoadCatalog == IF imagePulled THEN {"error", "ok"} ELSE {"notReady"}

\* ErrNotReady: sleep a second and retry; another error: record it under
\* the mutex, count a retry (up to MaxRetry here) and sleep; success goes
\* on to store the catalog.
ECDiscover ==
    /\ epc = "discover"
    /\ \E r \in LoadCatalog :
         \/ r = "notReady" /\ epc' = "top" /\ UNCHANGED <<lastErr, retry>>
         \/ r = "error" /\ retry < MaxRetry
            /\ lastErr' = TRUE /\ retry' = retry + 1 /\ epc' = "top"
         \/ r = "ok" /\ epc' = "store" /\ UNCHANGED <<lastErr, retry>>
    /\ UNCHANGED <<closed, discovered, catalog, imagePulled, active, running,
                   tpc, readCat, cpc>>

\* Success: clear the error under the mutex, set catalog path, streams and
\* table name mapping (no mutex) ...
ECStore ==
    /\ epc = "store"
    /\ lastErr' = FALSE /\ catalog' = "set" /\ epc' = "mark"
    /\ UNCHANGED <<closed, discovered, retry, imagePulled, active, running,
                   tpc, readCat, cpc>>

\* ... and only then publish catalogDiscovered.
ECMark ==
    /\ epc = "mark"
    /\ discovered' = TRUE /\ epc' = "done"
    /\ UNCHANGED <<closed, lastErr, catalog, retry, imagePulled, active,
                   running, tpc, readCat, cpc>>

\* The airbyte bridge finishes pulling the image in the background.
ImagePull ==
    /\ ~imagePulled /\ imagePulled' = TRUE
    /\ UNCHANGED <<closed, discovered, lastErr, catalog, retry, epc, active,
                   running, tpc, readCat, cpc>>

(***************************************************************************)
(* Load                                                                    *)
(***************************************************************************)

\* A closed driver refuses the load; otherwise wait for readiness.
LoadBegin(t) ==
    /\ tpc[t] = "idle"
    /\ tpc' = [tpc EXCEPT ![t] = IF IsClosed THEN "failed" ELSE "waiting"]
    /\ UNCHANGED <<closed, discovered, lastErr, catalog, retry, epc,
                   imagePulled, active, running, readCat, cpc>>

\* base.WaitReadiness returns once Ready, or gives up while not ready.
LoadWait(t) ==
    /\ tpc[t] = "waiting"
    /\ \/ Ready /\ tpc' = [tpc EXCEPT ![t] = "statepath"]
       \/ ~Ready /\ tpc' = [tpc EXCEPT ![t] = "failed"]
    /\ UNCHANGED <<closed, discovered, lastErr, catalog, retry, epc,
                   imagePulled, active, running, readCat, cpc>>

\* GetStateFilePath may fail; otherwise create the runner, register it in
\* activeRunners under the mutex and start Read with streamsRepresentation.
LoadStart(t) ==
    /\ tpc[t] = "statepath"
    /\ \/ tpc' = [tpc EXCEPT ![t] = "failed"]
          /\ UNCHANGED <<active, running, readCat>>
       \/ /\ active' = active \cup {t}
          /\ running' = running \cup {t}
          /\ readCat' = [readCat EXCEPT ![t] = catalog]
          /\ tpc' = [tpc EXCEPT ![t] = "reading"]
    /\ UNCHANGED <<closed, discovered, lastErr, catalog, retry, epc,
                   imagePulled, cpc>>

\* Mutant: the deferred removal from activeRunners is missing.
LoadEndKeepsRunner(t) ==
    /\ tpc[t] = "reading"
    /\ running' = running \ {t}
    /\ tpc' = [tpc EXCEPT ![t] = "done"]
    /\ UNCHANGED <<closed, discovered, lastErr, catalog, retry, epc,
                   imagePulled, active, readCat, cpc>>

\* Read returns, because the process ended or was killed; the deferred
\* function removes the runner from activeRunners under the mutex.
LoadEnd(t) ==
    /\ tpc[t] = "reading"
    /\ active' = active \ {t}
    /\ running' = running \ {t}
    /\ tpc' = [tpc EXCEPT ![t] = "done"]
    /\ UNCHANGED <<closed, discovered, lastErr, catalog, retry, epc,
                   imagePulled, readCat, cpc>>

(***************************************************************************)
(* Close                                                                   *)
(***************************************************************************)

\* Already closed: return nil.
CloseCheck(c) ==
    /\ cpc[c] = "idle"
    /\ cpc' = [cpc EXCEPT ![c] = IF IsClosed THEN "done" ELSE "chan"]
    /\ UNCHANGED <<closed, discovered, lastErr, catalog, retry, epc,
                   imagePulled, active, running, tpc, readCat>>

\* close(a.closed); closing a closed channel panics.
CloseChan(c) ==
    /\ cpc[c] = "chan"
    /\ cpc' = [cpc EXCEPT ![c] = IF closed THEN "panicked" ELSE "kill"]
    /\ closed' = TRUE
    /\ UNCHANGED <<discovered, lastErr, catalog, retry, epc, imagePulled,
                   active, running, tpc, readCat>>

\* Under the mutex, kill every registered runner.
CloseKill(c) ==
    /\ cpc[c] = "kill"
    /\ running' = running \ active
    /\ cpc' = [cpc EXCEPT ![c] = "done"]
    /\ UNCHANGED <<closed, discovered, lastErr, catalog, retry, epc,
                   imagePulled, active, tpc, readCat>>

Next ==
    \/ ECTop \/ ECDiscover \/ ECStore \/ ECMark \/ ImagePull
    \/ \E t \in Tasks : LoadBegin(t) \/ LoadWait(t) \/ LoadStart(t) \/ LoadEnd(t)
    \/ \E c \in Closers : CloseCheck(c) \/ CloseChan(c) \/ CloseKill(c)

Spec == Init /\ [][Next]_vars

\* EnsureCatalog runs on a goroutine of its own that only sleeps between
\* iterations, so each of its steps, once enabled, is eventually taken.
\* Nothing is assumed of the image pull, the loads or Close.
Fairness ==
    WF_vars(ECTop) /\ WF_vars(ECDiscover) /\ WF_vars(ECStore) /\ WF_vars(ECMark)

LiveSpec == Spec /\ Fairness

(***************************************************************************)
(* Properties                                                              *)
(***************************************************************************)

\* Types; activeRunners holds exactly the runners of loads still reading.
TypeOK ==
    /\ closed \in BOOLEAN /\ discovered \in BOOLEAN /\ lastErr \in BOOLEAN
    /\ catalog \in {"none", "set"} /\ retry \in 0..MaxRetry
    /\ epc \in {"top", "discover", "store", "mark", "done"}
    /\ tpc \in [Tasks -> LoadStates]
    /\ active = {t \in Tasks : tpc[t] = "reading"}
    /\ running \subseteq active
    /\ readCat \in [Tasks -> {"unread", "none", "set"}]
    /\ cpc \in [Closers -> {"idle", "chan", "kill", "done", "panicked"}]

\* A Load that passed readiness hands Read the discovered streams: the
\* EnsureCatalog goroutine writes streamsRepresentation without the mutex
\* and publishes it only by the later atomic store of catalogDiscovered.
ReadHasCatalog ==
    \A t \in Tasks : readCat[t] # "none"

\* "Close kills all runners": once a Close has returned, no runner of the
\* driver is still running.
NoRunnerAfterClose ==
    (\E c \in Closers : cpc[c] = "done") => running = {}
\* Close stops the EnsureCatalog goroutine: once the closed channel is
\* closed, the discovery loop eventually exits at its IsClosed test, even
\* if the image is never pulled and Discover never succeeds.
ClosedStopsDiscovery ==
    closed ~> epc = "done"
=============================================================================
