---------------------------- MODULE ProviderCall ----------------------------
(* One call of a model: SessionRunner.streamWithFallback, the retries of        *)
(* core/llm/fetch-policy.ts, and the three stream parsers (openai-compatible,   *)
(* anthropic, gemini), against a server that may refuse, stall, cut a stream    *)
(* off or interleave the fragments of several tool calls, and a user who may    *)
(* abort at any time. An argument is the list of its pieces; text is left out.   *)
EXTENDS Integers, Sequences, Ordering

CONSTANTS
  MaxRetries,  \* options.maxRetries
  MaxItems,    \* bound on the events of a stream
  Indexes      \* the indexes of the tool calls in a response

ASSUME CallAssumption ==
  Indexes \subseteq Nat /\ IsFiniteSet(Indexes) /\ MaxRetries \in Nat /\ MaxItems \in Nat

Protocols == {"openai", "anthropic", "gemini"}

VARIABLES
  proto,      \* the adapter of the model in use
  model,      \* "primary" or "fallback"
  fallback,   \* is config.models.fallback another model?
  attempt,    \* attempt of fetchWithProviderPolicy
  at,         \* prepare, headers, backoff, body; ok, failed (also collectStream breaking off)
  aborted,    \* abortSignal.aborted
  pending,    \* pendingToolCalls: the pieces of each tool call so far
  named,      \* the pending calls that have a valid name
  numbered,   \* do the server's fragments say which tool call they are of?
  calls,      \* the tool calls that were yielded, each its index and pieces
  sent,       \* the server's view: the pieces of each tool call of this response
  proper,     \* the server's view: those that it gave a valid name
  finished,   \* has the server sent everything it meant to send?
  items       \* how many events it has sent

bodyVars == <<pending, named, numbered, calls, sent, proper, finished, items>>
callVars == <<proto, model, fallback, attempt, at, aborted, bodyVars>>

Pieces == Seq(1..MaxItems)

\* The indexes of a stream's calls, that of a fragment without one, and the places of calls that
\* come at once.
Numbers == Indexes \cup {0} \cup 1..Cardinality(Indexes)

CallTypeOK ==
  /\ proto \in Protocols /\ model \in {"primary", "fallback"} /\ fallback \in BOOLEAN
  /\ attempt \in 0..MaxRetries
  /\ at \in {"prepare", "headers", "backoff", "body", "ok", "failed"}
  /\ {aborted, numbered, finished} \subseteq BOOLEAN
  /\ pending \in [DOMAIN pending -> Pieces] /\ DOMAIN pending \subseteq Indexes \cup {0}
  /\ named \subseteq DOMAIN pending
  /\ calls \in Seq([index : Numbers, pieces : Pieces])
  /\ sent \in [DOMAIN sent -> Pieces] /\ DOMAIN sent \subseteq Numbers
  /\ proper \subseteq DOMAIN sent
  /\ items \in 0..MaxItems

None == [s \in {} |-> << >>]

NewBody ==
  /\ pending' = None /\ named' = {} /\ numbered' = TRUE /\ calls' = << >>
  /\ sent' = None /\ proper' = {} /\ finished' = FALSE /\ items' = 0

CallInit ==
  /\ proto \in Protocols /\ model = "primary" /\ fallback \in BOOLEAN
  /\ attempt = 0 /\ at = "prepare" /\ aborted = FALSE
  /\ pending = None /\ named = {} /\ numbered = TRUE /\ calls = << >>
  /\ sent = None /\ proper = {} /\ finished = FALSE /\ items = 0

(***************************************************************************)
(* The end of a call                                                       *)
(***************************************************************************)
\* streamWithFallback's catch: an eligible error of the primary model starts the fallback,
\* whatever of the primary's text was already published.
Throw(eligible) ==
  IF eligible /\ fallback /\ model = "primary" /\ ~aborted
    THEN /\ model' = "fallback" /\ proto' \in Protocols
         /\ attempt' = 0 /\ at' = "prepare" /\ NewBody
    ELSE at' = "failed" /\ UNCHANGED <<model, proto, attempt, bodyVars>>

\* Faulty: a call without arguments is taken for a piece of nothing.
Flushed_Fault == calls \o
  LET order == Sorted({s \in named : pending[s] # << >>})
  IN [i \in DOMAIN order |-> [index |-> order[i], pieces |-> pending[order[i]]]]

\* The calls in the order of their indexes; one without a valid name is dropped.
Flushed == calls \o
  LET order == Sorted(named)
  IN [i \in DOMAIN order |-> [index |-> order[i], pieces |-> pending[order[i]]]]

Flush == calls' = Flushed /\ pending' = None /\ named' = {}

(***************************************************************************)
(* fetchWithProviderPolicy                                                 *)
(***************************************************************************)
Request ==
  /\ at = "prepare"
  /\ at' = IF aborted THEN "failed" ELSE "headers"
  /\ UNCHANGED <<proto, model, fallback, attempt, aborted, bodyVars>>

\* A failure of attempt n: the next one after a delay, or the caller gets it.
Retry(eligible) ==
  IF attempt < MaxRetries
    THEN at' = "backoff" /\ UNCHANGED <<model, proto, attempt, bodyVars>>
    ELSE Throw(eligible)

\* 408, 409, 425, 429 and 5xx, and fetch itself failing.
RetryableAnswer == at = "headers" /\ Retry(TRUE) /\ UNCHANGED <<fallback, aborted>>

\* No headers within headerTimeoutMs; the error of the timer is none that the runner
\* takes for a failure of the network.
HeaderTimeout == at = "headers" /\ ~aborted /\ Retry(FALSE) /\ UNCHANGED <<fallback, aborted>>

\* Any other status: the adapter throws.
Refused == at = "headers" /\ Throw(FALSE) /\ UNCHANGED <<fallback, aborted>>

Headers ==
  /\ at = "headers" /\ at' = "body" /\ numbered' \in BOOLEAN
  /\ UNCHANGED <<proto, model, fallback, attempt, aborted>>
  /\ UNCHANGED <<pending, named, calls, sent, proper, finished, items>>

\* A server that does not stream answers with all n calls at once. The OpenAI adapter leaves out
\* those without a valid name.
JsonAnswer(n, valid) ==
  LET order == Sorted(valid) IN
  /\ at = "headers" /\ at' = (IF aborted THEN "failed" ELSE "ok")
  /\ proto = "openai" \/ valid = 1..n
  /\ sent' = [s \in 1..n |-> << >>] /\ proper' = valid /\ finished' = TRUE
  /\ calls' = [i \in DOMAIN order |-> [index |-> order[i], pieces |-> << >>]]
  /\ UNCHANGED <<proto, model, fallback, attempt, aborted, pending, named, numbered, items>>

BackoffEnds ==
  /\ at = "backoff" /\ at' = "prepare" /\ attempt' = attempt + 1
  /\ UNCHANGED <<proto, model, fallback, aborted, bodyVars>>

(***************************************************************************)
(* The body                                                                *)
(***************************************************************************)
SentPiece(s) == [sent EXCEPT ![s] = Append(@, items + 1)]

\* The entry for a fragment of call s. Without an index the OpenAI adapter takes 0 for it, and
\* the Anthropic adapter the next number, or the last one, which is s where calls come in turn.
Place(s) == IF proto = "openai" /\ ~numbered THEN 0 ELSE s

\* A tool call begins, alone or among others, and after the others where they are not numbered.
\* An entry that is there is kept, but for its name; one that no tool may have is not valid.
CallStarts(s, valid) ==
  /\ at = "body" /\ ~finished /\ items < MaxItems /\ proto # "gemini" /\ s \notin DOMAIN sent
  /\ numbered \/ s = Cardinality(DOMAIN sent)
  /\ proto = "openai" \/ valid
  /\ items' = items + 1
  /\ sent' = [t \in DOMAIN sent \cup {s} |-> IF t = s THEN << >> ELSE sent[t]]
  /\ proper' = IF valid THEN proper \cup {s} ELSE proper
  /\ pending' = [t \in DOMAIN pending \cup {Place(s)} |-> IF t \in DOMAIN pending THEN pending[t] ELSE << >>]
  /\ named' = IF valid THEN named \cup {Place(s)} ELSE named \ {Place(s)}
  /\ UNCHANGED <<proto, model, fallback, attempt, at, aborted, numbered, calls, finished>>

\* Faulty: a fragment goes to the call that began last.
Arguments_Fault(s) ==
  LET last == CHOOSE t \in DOMAIN pending : \A u \in DOMAIN pending : u <= t IN
  /\ at = "body" /\ ~finished /\ items < MaxItems /\ proto # "gemini" /\ s \in DOMAIN sent
  /\ numbered \/ s + 1 = Cardinality(DOMAIN sent)
  /\ items' = items + 1
  /\ sent' = SentPiece(s)
  /\ pending' = [pending EXCEPT ![last] = Append(@, items + 1)]
  /\ UNCHANGED <<proto, model, fallback, attempt, at, aborted, named, numbered, calls, proper, finished>>

\* mergeToolCallChunk, input_json_delta: a piece of call s, which began last if calls are not
\* numbered.
Arguments(s) ==
  /\ at = "body" /\ ~finished /\ items < MaxItems /\ proto # "gemini" /\ s \in DOMAIN sent
  /\ numbered \/ s + 1 = Cardinality(DOMAIN sent)
  /\ items' = items + 1
  /\ sent' = SentPiece(s)
  /\ pending' = [pending EXCEPT ![Place(s)] = Append(@, items + 1)]
  /\ UNCHANGED <<proto, model, fallback, attempt, at, aborted, named, numbered, calls, proper, finished>>

\* Gemini sends a call whole, and it is yielded at once.
WholeCall(s) ==
  /\ at = "body" /\ ~finished /\ items < MaxItems /\ proto = "gemini"
  /\ s = Len(calls)
  /\ items' = items + 1
  /\ sent' = [t \in DOMAIN sent \cup {s} |-> IF t = s THEN <<items + 1>> ELSE sent[t]]
  /\ proper' = proper \cup {s}
  /\ calls' = Append(calls, [index |-> s, pieces |-> <<items + 1>>])
  /\ UNCHANGED <<proto, model, fallback, attempt, at, aborted, pending, named, numbered, finished>>

\* "[DONE]" ends the adapter, "message_stop" only flushes; Gemini just ends.
Stop ==
  /\ at = "body" /\ ~finished /\ finished' = TRUE
  /\ IF proto = "gemini" THEN UNCHANGED <<pending, named, calls>> ELSE Flush
  /\ at' = IF proto = "openai" /\ ~aborted THEN "ok" ELSE at
  /\ UNCHANGED <<proto, model, fallback, attempt, aborted, numbered, sent, proper, items>>

\* The end of the body flushes too, also when the server was not finished.
BodyEnds ==
  /\ at = "body" /\ at' = (IF aborted THEN "failed" ELSE "ok")
  /\ Flush
  /\ UNCHANGED <<proto, model, fallback, attempt, aborted, numbered, sent, proper, finished, items>>

\* Only the OpenAI adapter reports a line that is no JSON, and that never starts the fallback.
MalformedLine ==
  /\ at = "body" /\ proto = "openai" /\ ~finished
  /\ at' = "failed"
  /\ UNCHANGED <<proto, model, fallback, attempt, aborted, bodyVars>>

ReadFails == at = "body" /\ Throw(TRUE) /\ UNCHANGED <<fallback, aborted>>

(***************************************************************************)
(* The user                                                                *)
(***************************************************************************)
Abort ==
  /\ at \notin {"ok", "failed"} /\ ~aborted /\ aborted' = TRUE
  /\ UNCHANGED <<proto, model, fallback, attempt, at, bodyVars>>

\* Faulty: the delay between two attempts does not listen to the signal, nor does the body.
AbortSeen_Fault ==
  /\ aborted /\ at = "headers" /\ at' = "failed"
  /\ UNCHANGED <<proto, model, fallback, attempt, aborted, bodyVars>>

\* The signal ends the fetch, the delay and the reading of the body.
AbortSeen ==
  /\ aborted /\ at \in {"headers", "backoff", "body"} /\ at' = "failed"
  /\ UNCHANGED <<proto, model, fallback, attempt, aborted, bodyVars>>

\* What goes on by itself: the program and its timers; a server may be silent for ever.
CallProgress == Request \/ BackoffEnds \/ HeaderTimeout \/ AbortSeen

CallNext ==
  \/ \E n \in 0..Cardinality(Indexes) : \E valid \in SUBSET (1..n) : JsonAnswer(n, valid)
  \/ Request \/ RetryableAnswer \/ HeaderTimeout \/ Refused \/ Headers \/ BackoffEnds
  \/ \E s \in Indexes : (\E valid \in BOOLEAN : CallStarts(s, valid)) \/ Arguments(s) \/ WholeCall(s)
  \/ Stop \/ BodyEnds \/ MalformedLine \/ ReadFails \/ Abort \/ AbortSeen

CallSpec == CallInit /\ [][CallNext]_callVars

(***************************************************************************)
(* Properties                                                              *)
(***************************************************************************)
\* An OpenAI-compatible stream whose calls are not numbered has at most one.
Apart == numbered \/ proto # "openai" \/ DOMAIN sent \subseteq {0}

(* The tool calls of a response that came whole are those the server sent, all *)
(* of them but those whose name the OpenAI adapter finds invalid, in the       *)
(* server's order, each with its own arguments, also when their fragments came *)
(* interleaved (mergeToolCallChunk, flushToolCalls, parseStreamingEvent). Only *)
(* of several calls in an OpenAI-compatible stream that does not number them   *)
(* nothing is said: mergeToolCallChunk takes them for one.                     *)
CallsWhole ==
  at = "ok" /\ finished /\ Apart =>
    /\ \A i \in DOMAIN calls : calls[i].pieces = sent[calls[i].index]
    /\ \A i, j \in DOMAIN calls : i < j => calls[i].index < calls[j].index
    /\ {calls[i].index : i \in DOMAIN calls} = proper

(* An abort ends the call whatever the server does: in the middle of waiting   *)
(* for headers, between two attempts, and while a stream has stalled.          *)
AbortSettles == aborted ~> at \in {"ok", "failed"}

\* What the proof of AbortSettles takes for granted of its fairness: a call that was aborted
\* can go on wherever it waits.
AbortCanHappen ==
  aborted /\ at \in {"prepare", "headers", "backoff", "body"} => ENABLED <<CallProgress>>_callVars
=============================================================================
