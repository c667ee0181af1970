-------------------------- MODULE MCDestinationsRW --------------------------
(* Model-checking instance of DestinationsRW: one request reader beside   *)
(* the reload writer, two destination names, one token id (two in the    *)
(* pass run).                                                             *)
EXTENDS DestinationsRW, TLC

CONSTANTS d1, d2, t1, t2, r1

MCNames == {d1, d2}
MCTokens == {t1}
MCPassTokens == {t1, t2}
MCReaders == {r1}
MCIds == 1..5

Cfg(mode, staged, only) == [mode |-> mode, staged |-> staged, only |-> only]

\* Batch and stream destinations on t1, one configured for all tokens.
ReaderConfigs ==
    {Cfg("batch", FALSE, {t1}), Cfg("stream", FALSE, {}), Cfg("stream", TRUE, {t1})}

\* For the liveness run, without symmetry: the staged batch destination
\* alone on t1 (its removal panics) and a stream one on t2.
ReaderLiveConfigs ==
    {Cfg("batch", TRUE, {t1}), Cfg("stream", FALSE, {t2})}

\* Readers against a watched source, which keeps reloading.
Watched == {"watch"}

NameSymmetry == Permutations(MCNames)
=============================================================================
