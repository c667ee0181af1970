------------------------------ MODULE Snowflake ------------------------------
(***************************************************************************)
(* The Snowflake storage (src/server/storages/snowflake.go, lines 1-316): *)
(* the acquire sequence of NewSnowflake with every error return, the      *)
(* schema-creating reconnect of CreateSnowflakeAdapter, Store's loop over *)
(* the tables of one file, and Close.                                     *)
(*                                                                         *)
(* Resources are named by what they are; "open" holds the ones acquired   *)
(* and not yet closed.  Every external call (adapter constructors, the    *)
(* table helper, the stage, the processor) either succeeds or fails.      *)
(***************************************************************************)
EXTENDS FiniteSets

CONSTANT Tables   \* tables the processed file splits into

Resources == {"stage", "adapter", "tmp", "fallback", "archive", "worker"}

VARIABLES
    streamMode,   \* config.streamMode
    npc,          \* NewSnowflake / CreateSnowflakeAdapter step
    open,         \* resources acquired and not closed
    spc,          \* Store: "idle" or "tables"
    todo,         \* tables of the current Store still to visit
    results,      \* tableResults: table -> "none", "ok" or "err"
    storeFailed,  \* storeFailedEvents
    returned,     \* what the last Store returned: "none", "failed", "nofailed"
    staged,       \* tables whose uploaded file is still in the stage
    closed,       \* Close has run
    upc,          \* Update: "idle" or "envelopes"
    envs,         \* tables of the envelopes ProcessEvent made of the object
    utodo,        \* envelopes still to update
    updated,      \* envelopes whose row was updated
    uret          \* what the last Update returned: "none", "err" or "nil"

vars == <<streamMode, npc, open, spc, todo, results, storeFailed, returned,
          staged, closed, upc, envs, utodo, updated, uret>>
uvars == <<upc, envs, utodo, updated, uret>>

\* storeTable's outcomes: a failed EnsureTableWithoutCaching, UploadBytes
\* or Copy returns the error; a failed DeleteObject is only logged.
Outcomes == {"ensureErr", "uploadErr", "copyErr", "deleteErr", "ok"}
TableOk(o) == o \in {"deleteErr", "ok"}
\* The uploaded file stays in the stage when Copy or DeleteObject fails.
LeavesFile(o) == o \in {"copyErr", "deleteErr"}

Init ==
    /\ streamMode \in BOOLEAN
    /\ npc = "config" /\ open = {}
    /\ spc = "idle" /\ todo = {} /\ results = [t \in Tables |-> "none"]
    /\ storeFailed = TRUE /\ returned = "none" /\ staged = {}
    /\ closed = FALSE
    /\ upc = "idle" /\ envs = {} /\ utodo = {} /\ updated = {} /\ uret = "none"

\* Frame for the construction steps.
Building == UNCHANGED <<streamMode, spc, todo, results, storeFailed, returned,
                        staged, closed>> /\ UNCHANGED uvars

(***************************************************************************)
(* NewSnowflake                                                            *)
(***************************************************************************)

\* Destination, Google and S3 configs: any may fail to parse or validate.
NewConfig ==
    /\ npc = "config"
    /\ npc' \in {"stage", "err"}
    /\ UNCHANGED open /\ Building

\* Batch mode builds the S3 or GCS stage adapter; stream mode has none.
NewStage ==
    /\ npc = "stage"
    /\ \/ streamMode /\ npc' = "connect" /\ UNCHANGED open
       \/ ~streamMode /\ npc' = "err" /\ UNCHANGED open
       \/ ~streamMode /\ npc' = "connect" /\ open' = open \cup {"stage"}
    /\ Building

\* CreateSnowflakeAdapter: connect with the schema; a missing schema
\* (ErrObjectNotExistOrAuthorized) connects without it, any other error
\* is returned.
Connect ==
    /\ npc = "connect"
    /\ \/ npc' = "fields" /\ open' = open \cup {"adapter"}
       \/ npc' = "tmp" /\ UNCHANGED open
       \/ npc' = "adapterErr" /\ UNCHANGED open
    /\ Building

\* The schema-less adapter, closed by a deferred Close once it is open.
TmpConnect ==
    /\ npc = "tmp"
    /\ \/ npc' = "schema" /\ open' = open \cup {"tmp"}
       \/ npc' = "adapterErr" /\ UNCHANGED open
    /\ Building

\* CreateDbSchema; a failure returns, running the deferred close.
CreateSchema ==
    /\ npc = "schema"
    /\ \/ npc' = "reconnect" /\ UNCHANGED open
       \/ npc' = "adapterErr" /\ open' = open \ {"tmp"}
    /\ Building

\* Reconnect with the schema; the deferred close runs either way.
Reconnect ==
    /\ npc = "reconnect"
    /\ \/ npc' = "fields" /\ open' = (open \ {"tmp"}) \cup {"adapter"}
       \/ npc' = "adapterErr" /\ open' = open \ {"tmp"}
    /\ Building

\* NewSnowflake on an adapter error: close the stage adapter if any.
AdapterFailed ==
    /\ npc = "adapterErr"
    /\ npc' = "err" /\ open' = open \ {"stage"}
    /\ Building

\* The struct and its Abstract fields: failed-event and archive loggers.
Fields ==
    /\ npc = "fields"
    /\ npc' = "worker" /\ open' = open \cup {"fallback", "archive"}
    /\ Building

\* newStreamingWorker may fail and NewSnowflake returns its error as is;
\* otherwise the worker is started.
StartWorker ==
    /\ npc = "worker"
    /\ \/ npc' = "err" /\ UNCHANGED open
       \/ npc' = "ok" /\ open' = open \cup {"worker"}
    /\ Building

(***************************************************************************)
(* Store (batch mode, called by the uploader on a constructed storage; it *)
(* does not check whether the storage was closed)                         *)
(***************************************************************************)

\* ProcessEvents may fail before any table; otherwise every table of the
\* file is stored and the flag starts TRUE.
StoreBegin ==
    /\ npc = "ok" /\ ~streamMode /\ spc = "idle"
    /\ returned' = "none"
    /\ \/ UNCHANGED <<spc, todo, results, storeFailed>>
       \/ /\ spc' = "tables" /\ todo' = Tables
          /\ results' = [t \in Tables |-> "none"] /\ storeFailed' = TRUE
    /\ UNCHANGED <<streamMode, npc, open, staged, closed>>
    /\ UNCHANGED uvars

\* Mutant: the flag takes the outcome of the last table only.
StoreTableLastWins(t, o) ==
    /\ spc = "tables" /\ t \in todo
    /\ todo' = todo \ {t}
    /\ results' = [results EXCEPT ![t] = IF TableOk(o) THEN "ok" ELSE "err"]
    /\ storeFailed' = TableOk(o)
    /\ staged' = IF LeavesFile(o) THEN staged \cup {t} ELSE staged
    /\ UNCHANGED <<streamMode, npc, open, spc, returned, closed>>
    /\ UNCHANGED uvars

\* storeTable(t) with outcome o, and Store's bookkeeping of its result: a
\* failed table clears storeFailedEvents.
StoreTable(t, o) ==
    /\ spc = "tables" /\ t \in todo
    /\ todo' = todo \ {t}
    /\ results' = [results EXCEPT ![t] = IF TableOk(o) THEN "ok" ELSE "err"]
    /\ storeFailed' = (storeFailed /\ TableOk(o))
    /\ staged' = IF LeavesFile(o) THEN staged \cup {t} ELSE staged
    /\ UNCHANGED <<streamMode, npc, open, spc, returned, closed>>
    /\ UNCHANGED uvars

\* Mutant: Store returns at the first failed table.
StoreEndEarly ==
    /\ spc = "tables"
    /\ spc' = "idle"
    /\ returned' = IF storeFailed THEN "failed" ELSE "nofailed"
    /\ UNCHANGED <<streamMode, npc, open, todo, results, storeFailed, staged,
                   closed>>
    /\ UNCHANGED uvars

\* Failed events go back for the fallback only when every table stored.
StoreEnd ==
    /\ spc = "tables" /\ todo = {}
    /\ spc' = "idle"
    /\ returned' = IF storeFailed THEN "failed" ELSE "nofailed"
    /\ UNCHANGED <<streamMode, npc, open, todo, results, storeFailed, staged,
                   closed>>
    /\ UNCHANGED uvars

(***************************************************************************)
(* Close                                                                   *)
(***************************************************************************)

\* Close the snowflake adapter, the stage adapter if any, the streaming
\* worker if any, and the Abstract's loggers (s.close), collecting errors.
\* Nothing marks the storage closed or waits for a Store or Update in
\* progress, and a second Close closes everything again.
Close ==
    /\ npc = "ok"
    /\ closed' = TRUE
    /\ open' = {}
    /\ UNCHANGED <<streamMode, npc, spc, todo, results, storeFailed, returned,
                   staged>>
    /\ UNCHANGED uvars

(***************************************************************************)
(* Update (one object, on a constructed storage; nothing checks Close)    *)
(***************************************************************************)

\* ProcessEvent may fail and Update returns its error; otherwise it makes
\* one envelope per table the object maps to.
UpdateBegin ==
    /\ npc = "ok" /\ upc = "idle"
    /\ \/ uret' = "err" /\ UNCHANGED <<upc, envs, utodo, updated>>
       \/ \E E \in SUBSET Tables :
            /\ upc' = "envelopes" /\ envs' = E /\ utodo' = E
            /\ updated' = {} /\ uret' = "none"
    /\ UNCHANGED <<streamMode, npc, open, spc, todo, results, storeFailed,
                   returned, staged, closed>>

\* Mutant: a failed envelope is skipped and the loop goes on.
UpdateEnvelopeSkipErr(t, ok) ==
    /\ upc = "envelopes" /\ t \in utodo
    /\ utodo' = utodo \ {t}
    /\ updated' = IF ok THEN updated \cup {t} ELSE updated
    /\ UNCHANGED <<upc, envs, uret>>
    /\ UNCHANGED <<streamMode, npc, open, spc, todo, results, storeFailed,
                   returned, staged, closed>>

\* One envelope: EnsureTableWithCaching, then the adapter's Update by the
\* unique id; either failing returns its error at once.
UpdateEnvelope(t, ok) ==
    /\ upc = "envelopes" /\ t \in utodo
    /\ utodo' = utodo \ {t}
    /\ \/ ok /\ updated' = updated \cup {t} /\ UNCHANGED <<upc, uret>>
       \/ ~ok /\ upc' = "idle" /\ uret' = "err" /\ UNCHANGED updated
    /\ UNCHANGED envs
    /\ UNCHANGED <<streamMode, npc, open, spc, todo, results, storeFailed,
                   returned, staged, closed>>

\* Every envelope done: return nil.
UpdateEnd ==
    /\ upc = "envelopes" /\ utodo = {}
    /\ upc' = "idle" /\ uret' = "nil"
    /\ UNCHANGED <<envs, utodo, updated>>
    /\ UNCHANGED <<streamMode, npc, open, spc, todo, results, storeFailed,
                   returned, staged, closed>>

Next ==
    \/ NewConfig \/ NewStage \/ Connect \/ TmpConnect \/ CreateSchema
    \/ Reconnect \/ AdapterFailed \/ Fields \/ StartWorker
    \/ StoreBegin \/ StoreEnd \/ Close
    \/ \E t \in Tables, o \in Outcomes : StoreTable(t, o)
    \/ UpdateBegin \/ UpdateEnd
    \/ \E t \in Tables, ok \in BOOLEAN : UpdateEnvelope(t, ok)

Spec == Init /\ [][Next]_vars

(***************************************************************************)
(* Properties                                                              *)
(***************************************************************************)

TypeOK ==
    /\ streamMode \in BOOLEAN /\ open \subseteq Resources
    /\ npc \in {"config", "stage", "connect", "tmp", "schema", "reconnect",
                "adapterErr", "fields", "worker", "ok", "err"}
    /\ spc \in {"idle", "tables"} /\ todo \subseteq Tables
    /\ spc = "idle" => todo = {}
    /\ staged \subseteq Tables
    /\ results \in [Tables -> {"none", "ok", "err"}]
    /\ storeFailed \in BOOLEAN /\ closed \in BOOLEAN
    /\ returned \in {"none", "failed", "nofailed"}
    /\ upc \in {"idle", "envelopes"} /\ uret \in {"none", "err", "nil"}
    /\ utodo \subseteq envs /\ updated \subseteq envs \ utodo

\* Store hands failed events to the fallback only if every table of the
\* file was stored: a later successful table must not cancel an earlier
\* failure (storeFailedEvents is only ever cleared).
FallbackOnlyIfAllStored ==
    returned = "failed" => \A t \in Tables : results[t] = "ok"

\* Update returns nil only after the row of every envelope of the object
\* was updated: an EnsureTableWithCaching or adapter Update error is never
\* swallowed by a later envelope.
UpdateNilMeansAllUpdated ==
    uret = "nil" => updated = envs
=============================================================================
