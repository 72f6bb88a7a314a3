--------------------------- MODULE SourcePlugins ---------------------------
(***************************************************************************)
(* The connector plugins: what test_connection, get_schema and pull of each *)
(* do in turn, from where on a test turns an exception into ok=False, and   *)
(* what a sync makes of it.  The source may come and go between any two     *)
(* steps; a driver, the configuration or the table may be missing.          *)
(* ConnectorSync has the breaker and the schedule around this.              *)
(***************************************************************************)
EXTENDS Naturals, Sequences

CONSTANT MaxFlips   \* times the source comes or goes

ASSUME PluginsAssumption == MaxFlips \in Nat

VARIABLES
  setup,   \* the connector: its type, and what its configuration lacks
  source,  \* external: does it answer, and what it has
  flips,
  run,     \* the operation under way and its next step
  connections, \* open connections to the source
  outcome  \* how the last operation ended, and over what

pluginVars == <<setup, source, flips, run, connections, outcome>>

-----------------------------------------------------------------------------
(* The plugins.  "driver" is an import inside the method, "config" what      *)
(* raises for missing settings, "target" for a missing table, "yield" hands  *)
(* the batch to the sync.  guard is the first step of the test inside try.   *)

Postgres ==
  [guard  |-> 1,
   test   |-> <<"config", "open", "probe", "close">>,
   schema |-> <<"config", "open", "target", "read", "close">>,
   pull   |-> <<"config", "open", "target", "read", "yield", "close">>]

Mysql ==
  [guard  |-> 2,
   test   |-> <<"driver", "config", "open", "probe", "close">>,
   schema |-> <<"driver", "config", "open", "target", "read", "close">>,
   pull   |-> <<"driver", "config", "open", "target", "read", "yield", "close">>]

\* The DSN is made of the settings in the call that connects.
Mssql == Mysql

\* Mutant: the try begins after the connection is made.
Oracle_Late == [Mysql EXCEPT !.guard = 4]

\* The settings are read before the try.
Oracle == [Mysql EXCEPT !.guard = 3]

\* The rows are handed over once the connection is closed.
Sqlite ==
  [Mysql EXCEPT !.pull = <<"driver", "config", "open", "target", "read", "close", "yield">>]

\* Each request to the bucket has a client of its own; a pull reads one object.
MinioS3 ==
  [guard  |-> 1,
   test   |-> <<"config", "driver", "list">>,
   schema |-> <<"config", "driver", "list", "get", "parse">>,
   pull   |-> <<"config", "driver", "list", "get", "parse", "yield">>]

\* The test downloads everything and parses nothing.
RestApi ==
  [guard  |-> 1,
   test   |-> <<"config", "open", "read", "close">>,
   schema |-> <<"config", "open", "read", "close", "parse">>,
   pull   |-> <<"config", "open", "read", "close", "parse", "yield">>]

\* get_connector; "minio" is another name of "s3".
Plugins ==
  [postgres |-> Postgres, mysql |-> Mysql, mssql |-> Mssql, oracle |-> Oracle,
   sqlite |-> Sqlite, s3 |-> MinioS3, rest_api |-> RestApi]

Types == DOMAIN Plugins

-----------------------------------------------------------------------------

NoRun == [op |-> "none", at |-> 1, sync |-> FALSE]

Holdings == {"rows", "nothing", "garbage"}
Lacks == {"nothing", "driver", "config", "target"}

\* The API creates "rest_api" only; rows of the other types are put there.
PluginsInit ==
  /\ setup \in [type : Types, lacks : Lacks, linked : BOOLEAN]
  /\ source \in [up : {TRUE}, has : Holdings]
  /\ flips = 0
  /\ run = NoRun
  /\ connections = 0
  /\ outcome = [op |-> "none", sync |-> FALSE, over |-> "nothing", result |-> "none"]

SourceFlips ==
  /\ flips < MaxFlips
  /\ flips' = flips + 1
  /\ source' = [source EXCEPT !.up = ~@]
  /\ UNCHANGED <<setup, run, connections, outcome>>

\* test_connector and sync_connector; get_schema is called by the tests only.
Begin(op, sync) ==
  /\ run = NoRun
  /\ run' = [op |-> op, at |-> 1, sync |-> sync]
  /\ UNCHANGED <<setup, source, flips, connections, outcome>>

Ops(op) == Plugins[setup.type][op]
NextStep == Ops(run.op)[run.at]

\* Over what a step fails, if it does.
Trouble(step) ==
  CASE step \in {"driver", "config", "target"} /\ setup.lacks = step -> step
    [] step \in {"open", "probe", "read", "list", "get"} /\ ~source.up -> "outage"
    [] step = "parse" /\ source.has = "garbage" -> "garbage"
    [] OTHER -> "nothing"

\* Connected, no tabular objects found: the listing is the last step.
CutShort(step) == step = "list" /\ source.has = "nothing"

LastStep == run.at = Len(Ops(run.op)) \/ CutShort(NextStep)

After(step) == CASE step = "open" -> connections + 1
                 [] step = "close" -> connections - 1
                 [] OTHER -> connections

Takes ==
  /\ run # NoRun /\ Trouble(NextStep) = "nothing" /\ ~LastStep
  /\ run' = [run EXCEPT !.at = @ + 1]
  /\ connections' = After(NextStep)
  /\ UNCHANGED <<setup, source, flips, outcome>>

Ends(over, result) ==
  /\ run' = NoRun
  /\ outcome' = [op |-> run.op, sync |-> run.sync, over |-> over, result |-> result]
  /\ UNCHANGED <<setup, source, flips>>

\* The last step of an operation; the sync goes on from a test to the pull when
\* a dataset is linked, and from the pull to the ingest when there are rows.
Completes ==
  /\ run # NoRun /\ Trouble(NextStep) = "nothing" /\ LastStep
  /\ connections' = After(NextStep)
  /\ IF run.sync /\ run.op = "test" /\ setup.linked
       THEN /\ run' = [run EXCEPT !.op = "pull", !.at = 1]
            /\ UNCHANGED <<setup, source, flips, outcome>>
       ELSE Ends("nothing",
                 CASE run.sync /\ run.op = "test" -> "skipped"
                   [] run.sync /\ run.op = "pull" ->
                        (IF source.has = "nothing" THEN "empty" ELSE "ingest")
                   [] OTHER -> "answered")

\* Does the test turn the exception into an answer?
Guarded == run.op = "test" /\ run.at >= Plugins[setup.type].guard

\* Mutant: only what ends well is closed.
Released_Never == connections

\* finally, or the end of async with.
Released == 0

\* An answer of ok=False is counted by a sync; an exception is not, it ends
\* the task.
Fails ==
  /\ run # NoRun /\ Trouble(NextStep) # "nothing"
  /\ connections' = Released
  /\ Ends(Trouble(NextStep),
          IF ~Guarded THEN "raised" ELSE IF run.sync THEN "counted" ELSE "answered")

PluginsNext ==
  \/ SourceFlips
  \/ Begin("test", FALSE) \/ Begin("test", TRUE) \/ Begin("schema", FALSE)
  \/ Takes \/ Completes \/ Fails

PluginsSpec == PluginsInit /\ [][PluginsNext]_pluginVars

-----------------------------------------------------------------------------

PluginsTypeOK ==
  /\ setup \in [type : Types, lacks : Lacks, linked : BOOLEAN]
  /\ source \in [up : BOOLEAN, has : Holdings]
  /\ flips \in 0 .. MaxFlips /\ connections \in 0 .. 1
  /\ run.op \in {"none", "test", "schema", "pull"} /\ run.at \in 1 .. 7
  /\ outcome.result \in {"none", "answered", "counted", "raised", "skipped", "empty", "ingest"}

\* A source that stops answering at any moment of a test is an answer of every
\* plugin: the sync counts it, the endpoint reports it; and whatever breaks an
\* operation off, it leaves no connection behind (test_connection, get_schema
\* and pull of services/connectors; connector_sync_service.py:31-37).
OutageIsContained ==
  /\ outcome.op = "test" /\ outcome.over = "outage" =>
       outcome.result = IF outcome.sync THEN "counted" ELSE "answered"
  /\ run = NoRun => connections = 0
=============================================================================
