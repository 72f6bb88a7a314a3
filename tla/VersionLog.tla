----------------------------- MODULE VersionLog -----------------------------
(***************************************************************************)
(* What the pipeline promises the readers of one dataset: its versions are *)
(* a log that only grows, in which each entry describes what its object    *)
(* holds, and the dataset shows the last one.                              *)
(***************************************************************************)
EXTENDS Sequences

CONSTANTS Uploads, Contents, NoFile, NoVersion

VARIABLES
  files,  \* per upload, what the uploaded file holds
  log,    \* the versions: an object made of an upload, and its description
  shown   \* what the dataset says of itself

Init == files = [u \in Uploads |-> NoFile] /\ log = <<>> /\ shown = NoVersion

Accept(u, c) ==
  /\ files[u] = NoFile
  /\ files' = [files EXCEPT ![u] = c]
  /\ UNCHANGED <<log, shown>>

\* A file with another schema than the versions before it is not published.
Publish(u) ==
  /\ files[u] # NoFile
  /\ \A n \in DOMAIN log : log[n].describes.schema = files[u].schema
  /\ log' = Append(log, [object |-> u, describes |-> files[u]])
  /\ shown' = files[u]
  /\ UNCHANGED files

Next == \E u \in Uploads : Publish(u) \/ \E c \in Contents : Accept(u, c)

Spec == Init /\ [][Next]_<<files, log, shown>>
=============================================================================
