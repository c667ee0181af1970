--------------------------- MODULE MCDestinations ---------------------------
(* Model-checking instance of Destinations: two destination names, two    *)
(* token ids, and the destination configurations each run explores.       *)
EXTENDS Destinations, TLC

CONSTANTS d1, d2, t1, t2

MCNames == {d1, d2}
MCTokens == {t1, t2}
MCIds == 1..6

Cfg(mode, staged, only) == [mode |-> mode, staged |-> staged, only |-> only]

\* Batch on t1, batch on all tokens, stream on both, staged stream on t2.
RoutingConfigs ==
    {Cfg("batch", FALSE, {t1}), Cfg("batch", FALSE, {}),
     Cfg("stream", FALSE, {t1, t2}), Cfg("stream", TRUE, {t2})}

\* Adds a staged batch destination on t1 beside a live batch one on t1.
StagedBatchConfigs ==
    {Cfg("batch", FALSE, {t1}), Cfg("batch", TRUE, {t1}), Cfg("stream", FALSE, {t1})}

\* Batch on t1, stream on all tokens, and a staged batch destination alone
\* on t2 (whose removal panics).
ConvergeConfigs ==
    {Cfg("batch", FALSE, {t1}), Cfg("stream", FALSE, {}), Cfg("batch", TRUE, {t2})}

\* NewService's three outcomes: a watched URL or file, a config section or
\* inline JSON loaded once, and no destinations configured.
AllSources == {"watch", "once", "off"}
Watched == {"watch"}

NameSymmetry == Permutations(MCNames)
=============================================================================
