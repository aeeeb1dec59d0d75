---------------------------- MODULE DeploymentsPage ----------------------------
(***************************************************************************)
(* The dashboard's list of deployments and its log drawer: a browser that  *)
(* reads a history which grows while it is read.  The list is paged by the *)
(* time of the oldest row shown (usePagedSection) and read again while a   *)
(* row is in flight; the drawer follows a log by a cursor (deployments     *)
(* page, deploymentsLogs).  An answer is what the server read when it was  *)
(* asked and arrives later, or fails; the client never throws.  Rows and   *)
(* lines are numbered in the order they come into being.                   *)
(* Bounds: MaxRows rows, MaxReads reads of the list, MaxLines lines, two   *)
(* reads of the log under way.                                             *)
(***************************************************************************)
EXTENDS Naturals, Sequences, SequencesExt

CONSTANTS PageSize, MaxRows, MaxReads, MaxLines

ASSUME PageAssumption ==
  PageSize \in Nat \ {0} /\ MaxRows \in Nat /\ MaxLines \in Nat \ {0}

VARIABLES
  made,             \* rows of the project
  list,             \* what the page shows, holds in memory and offers
  first, more,      \* the read of the newest page; of an older one
  reads,            \* how often the newest page was read
  missed,           \* history: a read of an older page failed since the last reload
  lines,            \* log -> its length
  handled,          \* whether the row names a deployment at the engine
  numbered,         \* whether the engine gives cursors
  drawer,           \* what the drawer shows and the cursor it holds
  polls,            \* reads of the log under way
  jumbled           \* history: polls overlapped, or the log changed under a cursor

listVars == <<made, list, first, more, reads, missed>>
drawerVars == <<lines, handled, numbered, drawer, polls, jumbled>>
pageVars == <<listVars, drawerVars>>

Nothing == [at |-> "none", before |-> 0, page |-> <<>>]
AskedFor(before) == [at |-> "asked", before |-> before, page |-> <<>>]

Reading(from) == [from |-> from, at |-> "asked", shown |-> <<>>, cursor |-> 0]

Logs == {"application", "deployment"}

PageInit ==
  /\ made \in 0..MaxRows
  /\ list = [state |-> "loading", shown |-> <<>>, items |-> <<>>, more |-> FALSE, stale |-> FALSE]
  /\ first = AskedFor(0) /\ more = Nothing /\ reads = 1 /\ missed = FALSE
  /\ lines \in [Logs -> 0..1] /\ handled \in BOOLEAN /\ numbered \in BOOLEAN
  /\ drawer = [state |-> "loading", shown |-> <<>>, cursor |-> 0]
  /\ polls = <<Reading(0)>>
  /\ jumbled = FALSE

-----------------------------------------------------------------------------
\* The list.

\* listDeployments: rows strictly older than the cursor, newest first; 0 is no
\* cursor.
PageBefore(before) ==
  LET last == IF before = 0 THEN made ELSE before - 1
      size == IF last < PageSize THEN last ELSE PageSize
  IN [k \in 1..size |-> last + 1 - k]

RowAdded ==
  /\ made < MaxRows
  /\ made' = made + 1
  /\ UNCHANGED <<list, first, more, reads, missed, drawerVars>>

ListServed ==
  /\ first.at = "asked"
  /\ first' \in {[first EXCEPT !.at = "answered", !.page = PageBefore(0)],
                 [first EXCEPT !.at = "failed"]}
  /\ UNCHANGED <<made, list, more, reads, missed, drawerVars>>

OlderServed ==
  /\ more.at = "asked"
  /\ more' \in {[more EXCEPT !.at = "answered", !.page = PageBefore(more.before)],
                [more EXCEPT !.at = "failed"]}
  /\ UNCHANGED <<made, list, first, reads, missed, drawerVars>>

\* A mutation, a retry, or the timer of a page with a row in flight: the pages in
\* memory go, the read under way is no longer waited for, and the rows stay on
\* screen until the new ones come.
Reload ==
  /\ reads < MaxReads
  /\ reads' = reads + 1
  /\ first' = AskedFor(0)
  /\ list' = [list EXCEPT !.items = <<>>, !.more = FALSE, !.stale = more.at # "none"]
  /\ missed' = FALSE
  /\ UNCHANGED <<made, more, drawerVars>>

\* Faulty: a page that is just full is taken for the last one.
OffersIfOver(page) == Len(page) > PageSize

\* setHasMore: only a full page says there may be older rows.
Offers(page) == Len(page) >= PageSize

ListArrives ==
  /\ first.at \in {"answered", "failed"}
  /\ first' = Nothing
  /\ list' = [list EXCEPT !.state = IF first.at = "failed" THEN "error" ELSE "ready",
                          !.shown = first.page, !.items = first.page,
                          !.more = first.at = "answered" /\ Offers(first.page)]
  /\ UNCHANGED <<made, more, reads, missed, drawerVars>>

\* loadMore, one at a time.
LoadMore ==
  /\ list.state = "ready" /\ list.more /\ list.items # <<>> /\ more.at = "none"
  /\ more' = AskedFor(Last(list.items))
  /\ UNCHANGED <<made, list, first, reads, missed, drawerVars>>

\* The rows of a page that are not in memory, in the order of the page.
Unseen(page) ==
  LET new    == {k \in DOMAIN page : ~ Contains(list.items, page[k])}
      Nth(n) == CHOOSE k \in new : Cardinality({i \in new : i < k}) = n - 1
  IN [n \in 1..Cardinality(new) |-> page[Nth(n)]]

\* Faulty: an answer from before a reload is appended like any other.
OlderAppended ==
  /\ more.at \in {"answered", "failed"}
  /\ more' = Nothing
  /\ LET items == list.items \o Unseen(more.page)
     IN list' = [list EXCEPT !.items = items, !.shown = items, !.state = "ready",
                             !.more = Offers(more.page), !.stale = FALSE]
  /\ missed' = (missed \/ more.at = "failed")
  /\ UNCHANGED <<made, first, reads, drawerVars>>

\* An answer from before a reload is dropped.  A failed one is an empty page.
OlderArrives ==
  /\ more.at \in {"answered", "failed"}
  /\ more' = Nothing
  /\ IF list.stale
     THEN list' = [list EXCEPT !.stale = FALSE] /\ UNCHANGED missed
     ELSE LET items == list.items \o Unseen(more.page)
          IN /\ list' = [list EXCEPT !.items = items, !.shown = items, !.state = "ready",
                                     !.more = Offers(more.page)]
             /\ missed' = (missed \/ more.at = "failed")
  /\ UNCHANGED <<made, first, reads, drawerVars>>

-----------------------------------------------------------------------------
\* The log drawer, open on a deployment in flight.

\* deploymentsLogs: the deployment's own log as soon as the row names one.
Source == IF handled THEN "deployment" ELSE "application"

LineWritten(log) ==
  /\ lines[log] < MaxLines
  /\ lines' = [lines EXCEPT ![log] = @ + 1]
  /\ UNCHANGED <<listVars, handled, numbered, drawer, polls, jumbled>>

\* The worker records what the engine called the deployment.
HandleRecorded ==
  /\ ~ handled
  /\ handled' = TRUE
  /\ jumbled' = (jumbled \/ drawer.cursor > 0 \/ \E k \in DOMAIN polls : polls[k].cursor > 0)
  /\ UNCHANGED <<listVars, lines, numbered, drawer, polls>>

\* The timer does not wait for the read before.
Poll ==
  /\ drawer.state = "success" /\ drawer.shown # <<>> /\ Len(polls) < 2
  /\ polls' = Append(polls, Reading(drawer.cursor))
  /\ jumbled' = (jumbled \/ (numbered /\ polls # <<>>))
  /\ UNCHANGED <<listVars, lines, handled, numbered, drawer>>

\* An engine with cursors answers with what follows it, one without with it all.
LogServed(k) ==
  /\ polls[k].at = "asked"
  /\ LET log == [n \in 1..lines[Source] |-> <<Source, n>>]
         page == IF numbered THEN SubSeq(log, polls[k].from + 1, Len(log)) ELSE log
         cursor == IF numbered THEN Len(log) ELSE 0
     IN polls' \in {[polls EXCEPT ![k].at = "answered", ![k].shown = page, ![k].cursor = cursor],
                    [polls EXCEPT ![k].at = "failed"]}
  /\ UNCHANGED <<listVars, lines, handled, numbered, drawer, jumbled>>

\* load: the first read fills the drawer.
Filled(p) == [state |-> IF p.at = "failed" THEN "degraded" ELSE "success",
              shown |-> p.shown, cursor |-> p.cursor]

\* Faulty: the cursor stays where the first read left it.
AppendedUncounted(p) ==
  [drawer EXCEPT !.shown = IF numbered THEN @ \o p.shown ELSE p.shown]

\* poll: the cursor moves and lines are appended, or replace what is shown when
\* there is no cursor.
Appended(p) ==
  [drawer EXCEPT !.cursor = p.cursor,
                 !.shown = IF numbered THEN @ \o p.shown ELSE p.shown]

LogArrives(k) ==
  /\ polls[k].at \in {"answered", "failed"}
  /\ polls' = RemoveAt(polls, k)
  /\ drawer' = IF drawer.state = "loading" THEN Filled(polls[k])
               ELSE IF polls[k].at = "failed" THEN drawer ELSE Appended(polls[k])
  /\ UNCHANGED <<listVars, lines, handled, numbered, jumbled>>

-----------------------------------------------------------------------------
ListNext ==
  \/ RowAdded
  \/ ListServed \/ OlderServed \/ Reload \/ ListArrives \/ LoadMore \/ OlderArrives

DrawerNext ==
  \/ \E log \in Logs : LineWritten(log)
  \/ HandleRecorded \/ Poll
  \/ \E k \in DOMAIN polls : LogServed(k) \/ LogArrives(k)

PageNext == ListNext \/ DrawerNext

PageSpec == PageInit /\ [][PageNext]_pageVars

-----------------------------------------------------------------------------
PageType ==
  /\ made <= MaxRows
  /\ list.state \in {"loading", "ready", "error"}
  /\ Range(list.shown) \cup Range(list.items) \subseteq 1..made
  /\ {first.at, more.at} \subseteq {"none", "asked", "answered", "failed"}
  /\ drawer.state \in {"loading", "degraded", "success"}
  /\ \A k \in DOMAIN polls : polls[k].from <= MaxLines /\ polls[k].cursor <= MaxLines

\* What the list shows is a stretch of the history without a gap or a repeat,
\* although rows arrive while its pages are read and reloads overtake reads.
ShownIsContiguous ==
  \A k \in 1..Len(list.shown) - 1 : list.shown[k + 1] = list.shown[k] - 1

\* A page at rest that offers no older rows shows the oldest one, unless a read of
\* an older page failed since it was last read from the start.
EndIsTheEnd ==
  list.state = "ready" /\ first.at = "none" /\ ~ list.more /\ list.shown # <<>> =>
    missed \/ Last(list.shown) = 1

\* The drawer shows the beginning of one log, each line once, as long as its polls
\* do not overlap and the log it reads stays the same.
FollowedOnce ==
  jumbled \/ \E log \in Logs :
    drawer.shown = [k \in 1..Len(drawer.shown) |-> <<log, k>>]

\* What the dashboard shows is the history, from its newest row and the first line
\* of a log on, and it says so when there is no more of it.
ShowsHistory == ShownIsContiguous /\ EndIsTheEnd /\ FollowedOnce
=============================================================================
