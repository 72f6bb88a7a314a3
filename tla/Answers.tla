------------------------------ MODULE Answers ------------------------------
(***************************************************************************)
(* Questions about a published dataset.  An answer is put together from     *)
(* three reads of a READ COMMITTED session - the dataset row, the number of *)
(* its latest version, and the file of its latest version - and up to two   *)
(* completions, while ingests and an archiving of the dataset commit.  An   *)
(* ingest that overlaps another may leave the row's count as it was.        *)
(* The model and what it replies are external.                              *)
(***************************************************************************)
EXTENDS Naturals

CONSTANTS
  MaxIngests,  \* versions of the dataset
  Threshold    \* LLM_CONFIDENCE_THRESHOLD, in percent

ASSUME AnswersAssumption == MaxIngests \in Nat \ {0} /\ Threshold \in 1 .. 100

VARIABLES
  aiMode,   \* is AI_MODE "disabled", and may the provider be used here
  dataset,  \* its status, its latest version, and the version its row_count is of
  chat,     \* the request: what it has read and got so far; mixed (history):
            \* its count was of an older version, or an ingest came in between
  answer,   \* the last answer given
  proposal  \* the last metadata suggestion given

answerVars == <<aiMode, dataset, chat, answer, proposal>>

AtRest == [phase |-> "rest"]
Unanswered == [kind |-> "none"]
NoProposal == [ai |-> FALSE, confidence |-> 0]

AiModes == {"disabled", "misplaced", "usable"}

AnswersInit ==
  /\ aiMode \in AiModes
  /\ dataset = [status |-> "published", version |-> 1, counted |-> 1]
  /\ chat = AtRest
  /\ answer = Unanswered
  /\ proposal = NoProposal

Reading == chat.phase \in {"loaded", "numbered"}

\* apply_ingest_result: the ORM writes the count only where it differs from the
\* one it loaded, which an overlapping ingest may have replaced.
IngestVersion ==
  /\ dataset.version < MaxIngests
  /\ \E counted \in {dataset.counted, dataset.version + 1} :
       dataset' = [dataset EXCEPT !.version = @ + 1, !.counted = counted]
  /\ chat' = IF Reading THEN [chat EXCEPT !.mixed = TRUE] ELSE chat
  /\ UNCHANGED <<aiMode, answer, proposal>>

ArchiveDataset ==
  /\ dataset.status = "published"
  /\ dataset' = [dataset EXCEPT !.status = "archived"]
  /\ UNCHANGED <<aiMode, chat, answer, proposal>>

-----------------------------------------------------------------------------
(* safe_complete *)

\* What layer 1 finds in the text that goes to the model, what comes back.
Texts == {"plain", "flagged"}
Replies == {"query", "other", "leak", "down"}

\* layer1_sanitise: flagged when a pattern matches.
Sanitised(text) == text = "plain"

\* get_llm_provider: nothing outside the perimeter of an air-gapped deployment.
ProviderUsable == aiMode = "usable"

\* layer4_filter_output: a secret or personal data in the reply.
Passed(reply) == reply # "leak"

\* No provider sets a confidence: LLMResponse has its default, 1.0.
ProviderConfidence == 100

\* AiDisabled or LlmError.
Refused(text, reply) == ~Sanitised(text) \/ ~ProviderUsable \/ ~Passed(reply)

\* "down" is whatever the provider raised.
SafeComplete(text, reply) == IF Refused(text, reply) THEN "refused" ELSE reply

Completions == {SafeComplete(text, reply) : text \in Texts, reply \in Replies}

-----------------------------------------------------------------------------
(* chat_with_dataset *)

ModelFails == chat' = AtRest /\ answer' = [kind |-> "error"]

Responds(record) == chat' = AtRest /\ answer' = record

\* The question is sanitised and the row loaded.  A published dataset has been
\* ingested, so it has columns and a version.
Ask(text) ==
  /\ chat = AtRest
  /\ IF Sanitised(text) /\ dataset.status = "published"
       THEN /\ chat' = [phase |-> "loaded", counted |-> dataset.counted,
                        mixed |-> dataset.counted # dataset.version]
            /\ UNCHANGED answer
       ELSE ModelFails
  /\ UNCHANGED <<aiMode, dataset, proposal>>

\* read_page, for the number of the version whose first row it reads.
ReadNumber ==
  /\ chat.phase = "loaded"
  /\ \/ /\ chat' = [phase |-> "numbered", counted |-> chat.counted, mixed |-> chat.mixed,
                    number |-> dataset.version]
        /\ UNCHANGED answer
     \/ ModelFails
  /\ UNCHANGED <<aiMode, dataset, proposal>>

\* The latest version once more, for its file.
ReadFile ==
  /\ chat.phase = "numbered"
  /\ \/ /\ chat' = [phase |-> "opened", counted |-> chat.counted, mixed |-> chat.mixed,
                    number |-> chat.number, file |-> dataset.version]
        /\ UNCHANGED answer
     \/ ModelFails
  /\ UNCHANGED <<aiMode, dataset, proposal>>

\* Mutant: the number is looked up when the answer is written.
Cited_Now == dataset.version

Cited == chat.number

\* execute_select_on_parquet, in a process of its own: rows, no rows, or a
\* ValidationError for a query that is refused, fails or takes too long.
Executions == {"rows", "empty", "invalid"}

\* _heuristic_answer: the count of the row, the columns, an aggregate over the
\* file, or a text that has the count too.
Heuristics ==
  {[kind |-> "heuristic", ai |-> FALSE, version |-> Cited, of |-> chat.counted,
    confidence |-> c, rows |-> FALSE, mixed |-> chat.mixed] : c \in {60, 100}}
  \union
  {[kind |-> "heuristic", ai |-> FALSE, version |-> Cited, of |-> chat.file,
    confidence |-> 90, rows |-> TRUE, mixed |-> chat.mixed]}

AnswerHeuristically ==
  /\ chat.phase = "opened" /\ aiMode = "disabled"
  /\ \E record \in Heuristics : Responds(record)
  /\ UNCHANGED <<aiMode, dataset, proposal>>

LowConfidence(confidence, rows) ==
  [kind |-> "not found", ai |-> TRUE, version |-> Cited, of |-> chat.file,
   confidence |-> confidence, rows |-> rows, mixed |-> chat.mixed]

NothingFound(confidence, rows) == confidence < Threshold \/ ~rows

\* The completion that writes the query, and its execution: a refusal and an
\* invalid query fall back, a provider that fails ends the request.
Query ==
  /\ chat.phase = "opened" /\ aiMode # "disabled"
  /\ \E completion \in Completions, execution \in Executions :
       LET rows == completion = "query" /\ execution = "rows"
           confidence == IF completion = "query" THEN ProviderConfidence ELSE 0
       IN
       \/ completion = "down" /\ ModelFails
       \/ /\ completion = "refused" \/ (completion = "query" /\ execution = "invalid")
          /\ \E record \in Heuristics : Responds(record)
       \/ /\ completion = "other" \/ (completion = "query" /\ execution # "invalid")
          /\ IF NothingFound(confidence, rows)
               THEN Responds(LowConfidence(confidence, rows))
               ELSE /\ chat' = [phase |-> "queried", mixed |-> chat.mixed,
                                number |-> chat.number, file |-> chat.file, rows |-> rows]
                    /\ UNCHANGED answer
  /\ UNCHANGED <<aiMode, dataset, proposal>>

\* The completion that tells the result: here a refusal ends the request, too.
Narrate ==
  /\ chat.phase = "queried"
  /\ \E completion \in Completions :
       IF completion \in {"refused", "down"}
         THEN ModelFails
         ELSE Responds(IF ProviderConfidence < Threshold
                         THEN LowConfidence(ProviderConfidence, chat.rows)
                         ELSE [kind |-> "narration", ai |-> TRUE, version |-> Cited,
                               of |-> chat.file, confidence |-> ProviderConfidence,
                               rows |-> chat.rows, mixed |-> chat.mixed])
  /\ UNCHANGED <<aiMode, dataset, proposal>>

-----------------------------------------------------------------------------
(* suggest_dataset_metadata: every exception ends in the heuristic *)

SuggestMetadata(completion, parses) ==
  /\ proposal' = IF completion \in {"query", "other"} /\ parses
                   THEN [ai |-> TRUE, confidence |-> ProviderConfidence]
                   ELSE [ai |-> FALSE, confidence |-> 50]
  /\ UNCHANGED <<aiMode, dataset, chat, answer>>

AnswersNext ==
  \/ IngestVersion \/ ArchiveDataset
  \/ \E text \in Texts : Ask(text)
  \/ ReadNumber \/ ReadFile
  \/ AnswerHeuristically \/ Query \/ Narrate
  \/ \E completion \in Completions, parses \in BOOLEAN : SuggestMetadata(completion, parses)

AnswersSpec == AnswersInit /\ [][AnswersNext]_answerVars

-----------------------------------------------------------------------------

Answers == {"none", "error", "heuristic", "not found", "narration"}

AnswersTypeOK ==
  /\ aiMode \in AiModes
  /\ dataset \in [status : {"published", "archived"}, version : 1 .. MaxIngests,
                  counted : 1 .. MaxIngests]
  /\ chat.phase \in {"rest", "loaded", "numbered", "opened", "queried"}
  /\ answer.kind \in Answers
  /\ proposal \in [ai : BOOLEAN, confidence : 0 .. 100]

\* An answer is of the version it cites unless an ingest got in its way: one that
\* commits while the question reads the row, the number and the file, or one that
\* left an older count behind; what commits during the completions changes
\* nothing.  Even a mixed answer never cites a version newer than its rows nor
\* one older than its count (chat_service.py:121-241).
AnswerIsOfItsVersion ==
  answer.kind \notin {"none", "error"} =>
    /\ ~answer.mixed => answer.of = answer.version
    /\ answer.kind = "heuristic" /\ ~answer.rows => answer.of <= answer.version
    /\ answer.rows => answer.version <= answer.of
=============================================================================
