--------------------------- MODULE AirbyteVersions ---------------------------
(***************************************************************************)
(* The versions endpoint of the airbyte HTTP handlers                     *)
(* (src/server/handlers/airbyte.go): VersionsHandler calls               *)
(* getAvailableDockerVersions, which follows DockerHub's "next" links     *)
(* page by page, sorts the collected tags by their push date and drops    *)
(* the "latest" tag.                                                      *)
(*                                                                         *)
(* DockerHub is the variable hub, a sequence of pages fixed at the start; *)
(* a tag is its name and the instant of tag_last_pushed, 0 standing for   *)
(* a date that does not parse (the zero time).  sort.Slice is not stable: *)
(* its result is any ordering of the tags that its less function accepts. *)
(***************************************************************************)
EXTENDS Naturals, Sequences, SequencesExt

CONSTANTS
    TagNames,    \* tag names on DockerHub, "latest" among them
    MaxPushed    \* push instants are 0..MaxPushed; 0 is the zero time

Latest == "latest"
ASSUME Latest \in TagNames /\ MaxPushed \in Nat

Tag == [name : TagNames, pushed : 0..MaxPushed]

VARIABLES
    hub,    \* DockerHub's pages of tags, each page a sequence
    page,   \* index of the page nextURL points at; Len(hub) + 1 when ""
    tags,   \* the tags collected so far, then sorted
    hpc,    \* "fetch", "sort", "filter" or "done"
    out     \* the HTTP response: [code, versions]

vars == <<hub, page, tags, hpc, out>>

NoResponse == [code |-> 0, versions |-> <<>>]
BadRequest == [code |-> 400, versions |-> <<>>]

\* Every DockerHub content over TagNames: the tags in some order, with any
\* push dates, on one page or split over two.
Hubs ==
    UNION {
      UNION {
        { IF k = Len(s) THEN <<s>> ELSE <<SubSeq(s, 1, k), SubSeq(s, k + 1, Len(s))>>
          : k \in 1..Len(s) }
        : s \in { [i \in 1..Len(ns) |-> [name |-> ns[i], pushed |-> d[i]]]
                  : d \in [1..Len(ns) -> 0..MaxPushed] } }
      : ns \in SetToAllKPermutations(TagNames) \ {<<>>} }
    \cup {<< <<>> >>}

(***************************************************************************)
(* time.Parse(layout, value).  The correct call parses the RFC 3339 date  *)
(* of the tag; getAvailableDockerVersions passes the date as the layout   *)
(* and time.RFC3339Nano as the value.  A push date read as a layout       *)
(* starts with "20", which Go reads as the day element "2" followed by    *)
(* "0..": the value's "2006-01-..." fails on its "-" and an empty date    *)
(* fails on extra text, so the call always returns the error and the zero *)
(* time, which the code ignores.                                          *)
(***************************************************************************)
ParseRFC3339(t) == t.pushed
ParseSwapped(t) == 0

\* The less function given to sort.Slice (aTime.Before(bTime)).
LessByPushed(a, b) == ParseSwapped(a) < ParseSwapped(b)

\* sort.Slice on fewer than 13 elements is an insertion sort: element i
\* is swapped leftwards while less(data[j], data[j-1]) holds, so an element
\* never passes one it is not less than.
RECURSIVE InsertByPushed(_, _)
InsertByPushed(s, x) ==
    IF s = <<>> \/ ~LessByPushed(x, Last(s)) THEN Append(s, x)
    ELSE Append(InsertByPushed(Front(s), x), Last(s))

RECURSIVE SortSlice(_)
SortSlice(s) ==
    IF s = <<>> THEN s ELSE InsertByPushed(SortSlice(Front(s)), Last(s))

\* Mutant: the loop breaks at "latest" instead of skipping it.
RECURSIVE VersionNamesBreak(_)
VersionNamesBreak(s) ==
    IF s = <<>> \/ Head(s).name = Latest THEN <<>>
    ELSE <<Head(s).name>> \o VersionNamesBreak(Tail(s))

\* The names of the sorted tags in order, skipping "latest".
RECURSIVE VersionNames(_)
VersionNames(s) ==
    IF s = <<>> THEN <<>>
    ELSE IF Head(s).name = Latest THEN VersionNames(Tail(s))
    ELSE <<Head(s).name>> \o VersionNames(Tail(s))

Init ==
    /\ hub \in Hubs
    /\ page = 1 /\ tags = <<>> /\ hpc = "fetch" /\ out = NoResponse

\* requestDockerHubTags(nextURL): a failed Get (a timeout among them), a
\* failed read of the body, a status other than 200 or a body that does not
\* unmarshal returns an error; otherwise the page's tags and its "next"
\* link, which is empty (page Len(hub) + 1) after the last page.
RequestDockerHubTags(p) ==
    {[ok |-> FALSE, tags |-> <<>>, next |-> p],
     [ok |-> TRUE, tags |-> hub[p], next |-> p + 1]}

\* One iteration of the pagination loop: an error makes the handler answer
\* 400; otherwise the tags are appended and nextURL follows "next".
FetchPage ==
    /\ hpc = "fetch"
    /\ \E r \in RequestDockerHubTags(page) :
         \/ /\ r.ok
            /\ tags' = tags \o r.tags
            /\ page' = r.next
            /\ hpc' = IF r.next > Len(hub) THEN "sort" ELSE "fetch"
            /\ UNCHANGED out
         \/ /\ ~r.ok
            /\ out' = BadRequest /\ hpc' = "done"
            /\ UNCHANGED <<page, tags>>
    /\ UNCHANGED hub

\* sort.Slice by the parsed push dates.
SortTags ==
    /\ hpc = "sort"
    /\ tags' = SortSlice(tags)
    /\ hpc' = "filter"
    /\ UNCHANGED <<hub, page, out>>

\* Mutant: an empty version list is answered with 200.
RespondNoEmptyCheck ==
    /\ hpc = "filter"
    /\ out' = [code |-> 200, versions |-> VersionNames(tags)]
    /\ hpc' = "done"
    /\ UNCHANGED <<hub, page, tags>>

\* The names without "latest"; none left is a 400, otherwise 200.
Respond ==
    /\ hpc = "filter"
    /\ out' = IF VersionNames(tags) = <<>> THEN BadRequest
              ELSE [code |-> 200, versions |-> VersionNames(tags)]
    /\ hpc' = "done"
    /\ UNCHANGED <<hub, page, tags>>

Next == FetchPage \/ SortTags \/ Respond

Spec == Init /\ [][Next]_vars

(***************************************************************************)
(* Properties                                                              *)
(***************************************************************************)

\* Types; a 200 response carries at least one version.
TypeOK ==
    /\ hub \in Seq(Seq(Tag)) /\ page \in 1..Len(hub) + 1
    /\ tags \in Seq(Tag) /\ hpc \in {"fetch", "sort", "filter", "done"}
    /\ out.code \in {0, 200, 400} /\ out.versions \in Seq(TagNames)
    /\ out.code = 200 => out.versions # <<>>

AllTags == FlattenSeq(hub)
Published == {t.name : t \in ToSet(AllTags)} \ {Latest}

\* A 200 answer lists every tag of every page except "latest", each once:
\* the pagination loop follows "next" to the last page and the filter
\* skips only "latest".  A 400 without a fetch error means there was none.
VersionsComplete ==
    /\ out.code = 200 =>
         /\ ToSet(out.versions) = Published
         /\ Len(out.versions) = Cardinality(Published)
    /\ (out.code = 400 /\ page = Len(hub) + 1) => Published = {}

\* "sort by pushed date": the versions come out in the order their tags
\* were pushed.
VersionsByPushDate ==
    out.code = 200 =>
        LET when(n) == ParseRFC3339(CHOOSE t \in ToSet(AllTags) : t.name = n)
        IN  IsSorted(out.versions, LAMBDA a, b : when(a) <= when(b))
=============================================================================
