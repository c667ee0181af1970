--------------------------- MODULE MCAirbyteDriver ---------------------------
(* Two sync tasks against one driver; one or two goroutines closing it.     *)
EXTENDS AirbyteDriver, TLC

CONSTANTS k1, k2, c1, c2

MCTasks == {k1, k2}
OneCloser == {c1}
TwoClosers == {c1, c2}
MCMaxRetry == 2

TaskSymmetry == Permutations(MCTasks)
=============================================================================
