----------------------------- MODULE ModelCalls -----------------------------
(***************************************************************************)
(* One call of a model: what the Anthropic provider makes of the message   *)
(* or the error the API sends (external: the API and its SDK), and what    *)
(* the metering makes of the tokens it was billed.                         *)
(***************************************************************************)
EXTENDS Integers, Sequences, SequencesExt

CONSTANTS
  Prices,   \* PricingTable.models: the rates of the models that are priced
  Unit      \* the rates are in 1/Unit of a micro-dollar per token

ASSUME PricesAssumption ==
  /\ Unit \in Nat \ {0}
  /\ \A m \in DOMAIN Prices : Prices[m] \in [input : Nat, output : Nat, read : Nat, write : Nat]

\* The sum of a sequence of numbers.
Total(s) ==
  LET sum[n \in 0 .. Len(s)] == IF n = 0 THEN 0 ELSE sum[n - 1] + s[n] IN sum[Len(s)]

-----------------------------------------------------------------------------
(* Errors                                                                  *)

TransientTypes == {"overloaded_error", "api_error", "rate_limit_error", "timeout_error"}

\* The errors the API documents and the status each has when it is the whole response.
StatusOf(type) ==
  CASE type = "invalid_request_error" -> 400
    [] type = "authentication_error"  -> 401
    [] type = "permission_error"      -> 403
    [] type = "not_found_error"       -> 404
    [] type = "request_too_large"     -> 413
    [] type = "rate_limit_error"      -> 429
    [] type = "api_error"             -> 500
    [] type = "timeout_error"         -> 504
    [] type = "overloaded_error"      -> 529

ErrorTypes == TransientTypes \cup {"invalid_request_error", "authentication_error",
                "permission_error", "not_found_error", "request_too_large"}

\* No answer at all; a proxy's error without a body; an error response; an error event in a stream.
ApiErrors ==
  {[status |-> 0, type |-> ""], [status |-> 502, type |-> ""], [status |-> 413, type |-> ""]}
    \cup {[status |-> StatusOf(t), type |-> t] : t \in ErrorTypes}
    \cup {[status |-> 200, type |-> t] : t \in ErrorTypes}

\* _status_error: the type in the body decides, then the status.
StatusError(e) ==
  IF e.type \in TransientTypes \/ e.status >= 500 THEN "transient" ELSE "configuration"

ErrorOf(e) ==
  CASE e.status \in {400, 401, 403, 404} -> "configuration"
    [] e.status \in {0, 429}             -> "transient"
    [] OTHER                             -> StatusError(e)

\* LLMError.retryable: whether the job is tried again.
Retryable(error) == error = "transient"

-----------------------------------------------------------------------------
(* Messages                                                                *)

NoTokens == [input |-> 0, output |-> 0, read |-> 0, write |-> 0]

\* The API counts cached input apart; TokenUsage.input_tokens includes it.
UsageOf(entry) ==
  [input |-> entry.uncached + entry.read + entry.write, output |-> entry.output,
   read |-> entry.read, write |-> entry.write]

\* The declined attempts of a fallback are in iterations only.
BilledTopLevel(message) == <<[model |-> message.model, usage |-> UsageOf(message.usage)]>>

Billed(message) ==
  IF message.iterations = <<>> THEN <<[model |-> message.model, usage |-> UsageOf(message.usage)]>>
  ELSE [i \in DOMAIN message.iterations |->
          [model |-> IF message.iterations[i].model = "" THEN message.model
                     ELSE message.iterations[i].model,
           usage |-> UsageOf(message.iterations[i])]]

Usage(message) ==
  LET billed == Billed(message) IN
  [k \in DOMAIN NoTokens |-> Total([i \in DOMAIN billed |-> billed[i].usage[k]])]

\* How the call ends; only an answered one is a response.
Outcome(message) ==
  CASE message.stop = "refusal" -> "refused"
    [] message.stop \in {"max_tokens", "model_context_window_exceeded"} -> "output"
    [] OTHER -> IF message.valid THEN "answered" ELSE "output"

Response(message) ==
  [model |-> message.model, usage |-> Usage(message), billed |-> Billed(message)]

-----------------------------------------------------------------------------
(* Metering                                                                *)

\* cost_microusd, in 1/Unit of a micro-dollar, and rounded half up to whole ones.
Exact(model, usage) ==
  (usage.input - usage.read - usage.write) * Prices[model].input
    + usage.read * Prices[model].read + usage.write * Prices[model].write
    + usage.output * Prices[model].output

Rounded(amount) == (2 * amount + Unit) \div (2 * Unit)

Cost(model, usage) == IF model \in DOMAIN Prices THEN Rounded(Exact(model, usage)) ELSE 0

\* price: every billed attempt at its own model's rates; one unknown model makes a call unpriced.
Price(response) ==
  LET entries == IF response.billed # <<>> THEN response.billed
                 ELSE <<[model |-> response.model, usage |-> response.usage]>> IN
  [cost     |-> Total([i \in DOMAIN entries |-> Cost(entries[i].model, entries[i].usage)]),
   unpriced |-> IF \E i \in DOMAIN entries : entries[i].model \notin DOMAIN Prices THEN 1 ELSE 0]

NoMeter == [calls |-> 0, tokens |-> 0, cost |-> 0, unpriced |-> 0]

\* MeteredProvider._call: what is not metered counts as a call that cost nothing.
MeterAdd(meter, response, metered) ==
  LET price == IF metered THEN Price(response) ELSE [cost |-> 0, unpriced |-> 0] IN
  [calls    |-> meter.calls + 1,
   tokens   |-> meter.tokens + response.usage.input + response.usage.output,
   cost     |-> meter.cost + price.cost,
   unpriced |-> meter.unpriced + price.unpriced]
=============================================================================
