----------------------------- MODULE Catalogue -----------------------------
(***************************************************************************)
(* A reader who follows next_cursor through the published catalogue or the  *)
(* results of a search, while datasets are created, published, released     *)
(* together at the end of an embargo, and archived.  A cursor names the     *)
(* last row of a page; what follows it is decided anew for each page.       *)
(***************************************************************************)
EXTENDS Integers, Sequences, FiniteSets, SequencesExt, Functions

CONSTANTS
  Size,       \* datasets; an id is its place in the order of the UUIDs
  PageSize,   \* page_size
  Relevance,  \* per dataset, its similarity to the search term
  Title       \* per dataset, its place in the order of the titles

ASSUME CatalogueAssumption ==
  /\ Size \in Nat /\ PageSize \in Nat \ {0}
  /\ Relevance \in [1 .. Size -> Nat] /\ Title \in [1 .. Size -> Nat]

VARIABLES
  time,      \* ticks; each transaction has its own
  row,       \* status, created_at and published_at, 0 for NULL
  semantic,  \* datasets Qdrant finds for the term beyond those Postgres finds
  walk       \* the reader: sort, cursor, pages so far

catVars == <<time, row, semantic, walk>>

CatIds == 1 .. Size
NoCursor == 0
Away == [phase |-> "away"]
NotListed == [status |-> "absent", created |-> 0, published |-> 0]

CatInit ==
  /\ time = 0
  /\ row = [d \in CatIds |-> NotListed]
  /\ semantic = {}
  /\ walk = Away

-----------------------------------------------------------------------------
(* list_datasets and search_datasets *)

\* "fallback" is any name the table of _resolve_sort does not have.
Sorts == {"-published_at", "-created_at", "created_at", "title", "fallback", "relevance"}
Scopes == {"published", "all"}

\* The ORDER BY: _resolve_sort, and search_datasets by relevance.
OrderKey(sort, d) ==
  LET r == row[d] IN
  CASE sort = "fallback" -> <<r.published, r.created, d>>
    [] sort = "-published_at" -> <<r.published, d>>
    [] sort = "-created_at" -> <<r.created, d>>
    [] sort = "created_at" -> <<-r.created, d>>
    [] sort = "title" -> <<-Title[d], d>>
    [] sort = "relevance" -> <<Relevance[d], r.created, d>>

Coalesce(r) == IF r.published = 0 THEN r.created ELSE r.published

\* Mutant: rows that share the timestamp of the cursor are taken to be shown.
CursorKey_Timestamp(sort, d) ==
  CASE sort = "-created_at" -> <<row[d].created>>
    [] sort = "relevance" -> <<Relevance[d]>>
    [] OTHER -> <<Coalesce(row[d])>>

\* What the WHERE of the next page compares with the cursor's row.
CursorKey(sort, d) ==
  CASE sort = "-published_at" -> <<Coalesce(row[d]), d>>
    [] sort \in {"-created_at", "created_at"} -> <<row[d].created, d>>
    [] sort \in {"title", "fallback"} -> <<d>>
    [] sort = "relevance" -> <<Relevance[d], row[d].created, d>>

Above(a, b) ==
  \E i \in DOMAIN a : a[i] > b[i] /\ \A j \in 1 .. i - 1 : a[j] = b[j]

\* Rows the query selects: the published ones for the public, all for staff;
\* in a search those that match the term, or that Qdrant adds.
Selected(sort, scope) ==
  {d \in CatIds : /\ row[d].status \in IF scope = "published" THEN {"published"}
                                       ELSE {"draft", "published", "archived"}
                  /\ sort = "relevance" => Relevance[d] > 0 \/ d \in semantic}

\* ... and of these the ones that the cursor leaves.
Following(sort, scope, cursor) ==
  {d \in Selected(sort, scope) :
     cursor # NoCursor => Above(CursorKey(sort, cursor), CursorKey(sort, d))}

\* What the database returns: those rows, each once, in the order of the query.
Pages(sort, scope, cursor) ==
  LET rest == Following(sort, scope, cursor) IN
  {rows \in [1 .. Cardinality(rest) -> rest] :
     /\ Range(rows) = rest
     /\ \A i, j \in DOMAIN rows : i < j => Above(OrderKey(sort, rows[i]), OrderKey(sort, rows[j]))}

-----------------------------------------------------------------------------

\* The reader starts; `steady` is what it may expect to see.
OpenWalk(sort, scope) ==
  /\ walk = Away
  /\ walk' = [phase |-> "reading", sort |-> sort, scope |-> scope, cursor |-> NoCursor,
              shown |-> <<>>,
              steady |-> {d \in Selected(sort, scope) : sort = "relevance" => Relevance[d] > 0}]
  /\ UNCHANGED <<time, row, semantic>>

\* LIMIT page_size + 1 tells whether there is more; the cursor is the last item.
ReadPage ==
  /\ walk.phase = "reading"
  /\ \E rows \in Pages(walk.sort, walk.scope, walk.cursor) :
       LET more == Len(rows) > PageSize
           items == IF more THEN SubSeq(rows, 1, PageSize) ELSE rows
       IN  walk' = [walk EXCEPT !.phase = IF more THEN "reading" ELSE "read",
                                !.cursor = IF more THEN Last(items) ELSE NoCursor,
                                !.shown = @ \o items]
  /\ UNCHANGED <<time, row, semantic>>

CreateRow(d) ==
  /\ row[d] = NotListed
  /\ time' = time + 1
  /\ row' = [row EXCEPT ![d] = [status |-> "draft", created |-> time', published |-> 0]]
  /\ UNCHANGED <<semantic, walk>>

\* An approval publishes one dataset, the release of embargoes all that are due.
PublishRows(due) ==
  /\ due # {} /\ \A d \in due : row[d].status = "draft"
  /\ time' = time + 1
  /\ row' = [d \in CatIds |-> IF d \in due
                             THEN [row[d] EXCEPT !.status = "published", !.published = time']
                             ELSE row[d]]
  /\ UNCHANGED <<semantic, walk>>

ArchiveRow(d) ==
  /\ row[d].status = "published"
  /\ row' = [row EXCEPT ![d].status = "archived"]
  /\ walk' = IF walk # Away /\ walk.scope = "published"
               THEN [walk EXCEPT !.steady = @ \ {d}]
               ELSE walk
  /\ UNCHANGED <<time, semantic>>

\* Qdrant answers differently once a point is written, or not at all.
SemanticChange ==
  /\ semantic' \in SUBSET {d \in CatIds : Relevance[d] = 0}
  /\ semantic' # semantic
  /\ UNCHANGED <<time, row, walk>>

CatNext ==
  \/ \E sort \in Sorts, scope \in Scopes : OpenWalk(sort, scope)
  \/ ReadPage
  \/ \E d \in CatIds : CreateRow(d) \/ ArchiveRow(d)
  \/ \E due \in SUBSET CatIds : PublishRows(due)
  \/ SemanticChange

CatSpec == CatInit /\ [][CatNext]_catVars

-----------------------------------------------------------------------------

CatTypeOK ==
  /\ time \in Nat
  /\ row \in [CatIds -> [status : {"absent", "draft", "published", "archived"},
                      created : Nat, published : Nat]]
  /\ semantic \subseteq CatIds

\* Orders whose cursor compares what the ORDER BY compares: the two defaults of
\* the endpoint, and a search.
Keyset(sort, scope) ==
  \/ sort = "-published_at" /\ scope = "published"
  \/ sort \in {"-created_at", "relevance"}

KeysetWalk == Keyset(walk.sort, walk.scope)

\* Whoever follows the cursors to the end has seen every dataset that was
\* there all along, and none twice, whatever was created, published together or
\* archived between two pages (dataset_repository.py:124-174,
\* search_service.py:62-95, datasets.py:94-102).
WalkIsComplete ==
  walk.phase = "read" /\ KeysetWalk =>
    walk.steady \subseteq Range(walk.shown) /\ IsInjective(walk.shown)
=============================================================================
