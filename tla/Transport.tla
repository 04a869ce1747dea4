-------------------------------- MODULE Transport ------------------------------
(***************************************************************************)
(* How a failure gets from the wire to the caller of FetchSnapshot: Fetch  *)
(* of notionapi judges one response, mapNotionError of ingest turns what   *)
(* it says into a status, a code and a retry hint.                         *)
(*                                                                         *)
(* A response is                                                           *)
(*   [arrives, tooBig, status, json, body, retry, says]                    *)
(* where json tells whether its content type is JSON or missing, body is   *)
(* "ok", "syntax" (no JSON), "trailing" (more than one value), "deep" or   *)
(* "wide" (beyond the structural limits), retry whether it has a           *)
(* Retry-After and says whether its message reads "notion page not found". *)
(***************************************************************************)
EXTENDS Integers

\* Without a code of the client's own it is "none".
Failure(is, status, code, retry, says) ==
  [is |-> is, status |-> status, code |-> code, retry |-> retry, says |-> says]

\* No Retry-After.
NoHint == FALSE

NoFailure == Failure("none", 0, "none", NoHint, FALSE)
Network == Failure("other", 0, "none", NoHint, FALSE)
Deadline == Failure("deadline", 0, "none", NoHint, FALSE)
Guard(status, code) == Failure("upstream", status, code, NoHint, code = "page_not_found")

Success(status) == status \in 200..299

\* The first check that fails decides; validateDecodedStructure is the last.
Fetch(r) ==
  IF ~r.arrives THEN Network
  ELSE IF r.tooBig THEN Guard(413, "max_response_bytes_exceeded")
  ELSE IF ~Success(r.status) THEN Failure("upstream", r.status, "none", r.retry, r.says)
  ELSE IF ~r.json THEN Guard(502, "unexpected_content_type")
  ELSE IF r.body = "syntax" THEN Network
  ELSE IF r.body \in {"trailing", "deep", "wide"} THEN Guard(502, "malformed_response")
  ELSE NoFailure

Told(status, code, retry) == [status |-> status, code |-> code, retry |-> retry]

Limits == {"max_response_bytes_exceeded", "max_blocks_exceeded"}
Incomplete == {"unexpected_content_type", "malformed_response", "missing_blocks"}

\* By the code of the client's own guards first, then by the status, then by the text.
OfStatus(f) ==
  IF f.status \in {401, 403} THEN Told(f.status, "notion_upstream_error", f.retry)
  ELSE IF f.status = 404 THEN Told(404, "notion_page_not_found", f.retry)
  ELSE IF f.status = 429 THEN Told(429, "notion_rate_limited", f.retry)
  ELSE IF f.status >= 500 THEN Told(502, "notion_upstream_error", f.retry)
  ELSE IF f.status >= 400 THEN Told(f.status, "notion_upstream_error", f.retry)
  ELSE IF f.says THEN Told(404, "notion_page_not_found", NoHint)
  ELSE Told(500, "internal_error", NoHint)

\* Fault: the status decides also for what the client found out itself.
mapNotionError_StatusOnly(f) ==
  IF f.is = "deadline" THEN Told(504, "notion_fetch_timeout", NoHint)
  ELSE IF f.is = "upstream" THEN OfStatus(f)
  ELSE Told(500, "internal_error", NoHint)

mapNotionError(f) ==
  IF f.is = "deadline" THEN Told(504, "notion_fetch_timeout", NoHint)
  ELSE IF f.is # "upstream" THEN Told(500, "internal_error", NoHint)
  ELSE IF f.code \in Limits THEN Told(413, f.code, f.retry)
  ELSE IF f.code \in Incomplete THEN Told(502, f.code, f.retry)
  ELSE OfStatus(f)
================================================================================
