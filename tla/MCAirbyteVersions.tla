-------------------------- MODULE MCAirbyteVersions --------------------------
(* Up to three tags ("latest" and two versions) on one or two pages, with  *)
(* push dates 0 (unparseable), 1 and 2, so ties, missing dates and pushes   *)
(* in and against page order all occur.                                    *)
EXTENDS AirbyteVersions

MCTagNames == {"latest", "v1", "v2"}
MCMaxPushed == 2
=============================================================================
