---------------------------- MODULE MCBackground ----------------------------
(* Instances of the three parts of which something is promised in the end: the *)
(* consumers of the workflow's events, the syncs of a connector, the labels    *)
(* and scores of a dataset.  They share no variable; a behaviour is one        *)
(* part's, and the others stay as they began.                                  *)
EXTENDS EventProperties, ConnectorProperties, Freshness

VARIABLE part  \* the part that moves

\* A developer may subscribe to everything.
Lists == {AllowedEvents}

BackgroundInit ==
  /\ part \in {"events", "syncs", "scores"}
  /\ Init /\ ConnInit /\ FreshInit
  /\ part # "scores" => frequency = "on_demand" /\ score = Unscored

BackgroundNext ==
  \/ part = "events" /\ Next /\ UNCHANGED <<part, connVars, freshVars>>
  \/ part = "syncs" /\ ConnNext /\ UNCHANGED <<part, vars, freshVars>>
  \/ part = "scores" /\ FreshNext /\ UNCHANGED <<part, vars, connVars>>

backgroundVars == <<part, vars, connVars, freshVars>>

\* The fairness of each module. Only the check of labels can start in a part's
\* initial state, so it alone has to say whose turn it is.
BackgroundSpec ==
  /\ BackgroundInit /\ [][BackgroundNext]_backgroundVars
  /\ WF_vars(WorkerStep)
  /\ ConnFairness
  /\ WF_freshVars(part = "scores" /\ LoadForCheck) /\ SF_freshVars(CommitCheck)
  /\ WF_freshVars(LoadForDecay) /\ SF_freshVars(CommitDecay)
=============================================================================
