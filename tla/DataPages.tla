----------------------------- MODULE DataPages -----------------------------
(***************************************************************************)
(* A client that pages through the rows of one dataset while ingests add    *)
(* versions, and overlapping ones replace files of versions: each page is   *)
(* cut from the version that is the latest by then, and names it; the       *)
(* cursor is an offset and nothing else.                                    *)
(***************************************************************************)
EXTENDS Naturals, Sequences, FiniteSets

CONSTANTS
  RowCounts,    \* rows a version may have
  MaxVersions,  \* versions
  RowsPerPage   \* page_size

ASSUME PagesAssumption ==
  /\ RowCounts \subseteq Nat
  /\ MaxVersions \in Nat /\ RowsPerPage \in Nat \ {0}

VARIABLES
  version,  \* rows in the file of each version that has a storage_path
  client    \* what the client read: offset, rows and versions so far; and the
            \* versions whose files were replaced since it began (history)

pageVars == <<version, client>>

Gone == [phase |-> "gone"]
Fresh == [phase |-> "paging", offset |-> 0, rows |-> <<>>, versions |-> {},
          replaced |-> {}]

PagesInit == version = <<>> /\ client = Gone

\* CommitVersion of module Ingest.
AddVersion(n) ==
  /\ Len(version) < MaxVersions
  /\ version' = Append(version, n)
  /\ UNCHANGED client

\* PutObject of module Ingest, by an ingest that computed v before another one
\* committed it: the object is in place although the row will be refused.
ReplaceFile(v, n) ==
  /\ version' = [version EXCEPT ![v] = n]
  /\ client' = IF client = Gone THEN Gone ELSE [client EXCEPT !.replaced = @ \union {v}]

\* read_page without a version: DatasetDataNotAvailable.
StartPaging ==
  /\ client = Gone /\ version # <<>>
  /\ client' = Fresh
  /\ UNCHANGED version

\* Mutant: as many rows are cut as are returned.
Cut_Page(offset, n) == {k \in 1 .. n : offset < k /\ k <= offset + RowsPerPage}

\* query_parquet_page cuts one row more than a page, to see whether more follow.
Cut(offset, n) == {k \in 1 .. n : offset < k /\ k <= offset + RowsPerPage + 1}

ReadRows ==
  LET latest == Len(version)
      cut == Cut(client.offset, version[latest])
      more == Cardinality(cut) > RowsPerPage
      length == IF more THEN RowsPerPage ELSE Cardinality(cut)
  IN
  /\ client.phase = "paging"
  /\ client' = [phase |-> IF more THEN "paging" ELSE "complete",
                offset |-> client.offset + RowsPerPage,
                rows |-> client.rows \o [i \in 1 .. length |-> client.offset + i],
                versions |-> client.versions \union {latest},
                replaced |-> client.replaced]
  /\ UNCHANGED version

PagesNext ==
  \/ \E n \in RowCounts : AddVersion(n) \/ \E v \in DOMAIN version : ReplaceFile(v, n)
  \/ StartPaging
  \/ ReadRows

PagesSpec == PagesInit /\ [][PagesNext]_pageVars

-----------------------------------------------------------------------------

PagesTypeOK ==
  /\ version \in Seq(RowCounts) /\ Len(version) <= MaxVersions
  /\ client # Gone =>
       client.rows \in Seq(Nat) /\ client.versions \union client.replaced \subseteq 1 .. MaxVersions

\* A client can tell whether an ingest came between its pages: pages that all
\* name one version are that version's rows from the first to the last, each
\* once, unless an overlapping ingest replaced its very file meanwhile, which
\* nothing shows.  Pages of several versions may repeat and skip rows
\* (dataset_data_reader.py:24-83, dataset_data_service.py:47-78).
OneVersionIsWhole ==
  client.phase = "complete" =>
    \A v \in DOMAIN version \ client.replaced :
      client.versions = {v} => client.rows = [i \in 1 .. version[v] |-> i]
=============================================================================
