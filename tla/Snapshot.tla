-------------------------------- MODULE Snapshot -------------------------------
(***************************************************************************)
(* ingest: FetchSnapshot.  Under one deadline the page is fetched, its     *)
(* collection queries are repaired (module Repair), its file URLs are      *)
(* signed and its assets collected; what went wrong without being fatal    *)
(* is told by the errors and the truncation flags of the snapshot.         *)
(*                                                                         *)
(* The client is external.  The record map it is going to return is that   *)
(* with which Repair starts.                                               *)
(***************************************************************************)
EXTENDS Transport, Repair

CONSTANTS
  ReducerLimit,  \* collectionReducerLimit
  MaxAssets,     \* RequestLimits.MaxAssets
  MaxFound,      \* bound: the assets of the page
  Responses      \* what Notion may answer to a request of GetPage (module Transport)

\* The limit of the blocks is never off here (limits.go:85).
ASSUME SnapshotAssumption ==
  /\ MaxBlocks > 0 /\ ReducerLimit \in Nat \ {0} /\ MaxAssets \in Nat /\ MaxFound \in Nat
  /\ "signing" \notin Pairs
  /\ Responses \subseteq
       [arrives : BOOLEAN, tooBig : BOOLEAN, status : Int, json : BOOLEAN,
        body : {"ok", "syntax", "trailing", "deep", "wide"}, retry : BOOLEAN, says : BOOLEAN]

VARIABLES
  phase,           \* where FetchSnapshot is
  outcome,         \* a snapshot, or the error that is returned
  limitReached,    \* collectionRepairReport.LimitReached
  errors,          \* Snapshot.Errors: what each of them is about
  found,           \* the assets of the page
  kept,            \* len(Snapshot.Assets)
  truncated,       \* Snapshot.Truncated
  cause,           \* what went wrong with the page, NoFailure if nothing did
  told             \* status and retry hint of the error that is returned

fetchVars == <<vars, phase, outcome, limitReached, errors, found, kept, truncated, cause, told>>

NotTruncated == [assets |-> FALSE, blocks |-> FALSE, collections |-> FALSE]

FetchInit ==
  /\ Init
  /\ phase = "page"
  /\ outcome = "none"
  /\ limitReached = FALSE
  /\ errors = {}
  /\ found = 0
  /\ kept = 0
  /\ truncated = NotTruncated
  /\ cause = NoFailure
  /\ told = Told(0, "none", FALSE)

Fail(failure) ==
  /\ phase' = "done"
  /\ cause' = failure
  /\ told' = mapNotionError(failure)
  /\ outcome' = told'.code
  /\ UNCHANGED <<vars, limitReached, errors, found, kept, truncated>>

\* GetPage fails: a request does, blocks stay missing, the root is not among them; it
\* does for sure if the deadline passes in the middle of it.
PageFails ==
  /\ phase = "page"
  /\ \E failure \in IF expired THEN {Deadline}
                    ELSE ({Fetch(r) : r \in Responses} \ {NoFailure})
                         \cup {Guard(502, "missing_blocks"), Guard(404, "page_not_found")} :
       Fail(failure)

\* The client returns more blocks than it was allowed to.
PageTooLarge ==
  /\ phase = "page"
  /\ ~expired
  /\ Fail(Guard(413, "max_blocks_exceeded"))

Page ==
  /\ phase = "page"
  /\ ~expired
  /\ phase' = "repair"
  /\ UNCHANGED <<vars, outcome, limitReached, errors, found, kept, truncated, cause, told>>

RepairStep ==
  /\ phase = "repair"
  /\ Step
  /\ UNCHANGED <<phase, outcome, limitReached, errors, found, kept, truncated, cause, told>>

RepairRejected ==
  /\ phase = "repair"
  /\ at = "rejected"
  /\ Fail(Guard(413, "max_blocks_exceeded"))

\* collectionQueryViewsAtLimit: the views with so many rows that there may be more.
AtLimit == {p \in Pairs : Cardinality(query[p].rows) >= ReducerLimit}

\* Fault: the row limit is looked for only in what repair has fetched.
Repaired_LimitOfRepaired ==
  /\ phase = "repair"
  /\ at = "done"
  /\ limitReached' = \E p \in AtLimit : asked[p] > 0
  /\ phase' = "sign"
  /\ UNCHANGED <<vars, outcome, errors, found, kept, truncated, cause, told>>

\* Repair is over; observeReducerLimit looks at every query there is.
Repaired ==
  /\ phase = "repair"
  /\ at = "done"
  /\ limitReached' = (AtLimit # {})
  /\ phase' = "sign"
  /\ UNCHANGED <<vars, outcome, errors, found, kept, truncated, cause, told>>

\* What the report of repair tells.
RepairErrors ==
  report.failed \cup (IF report.budget THEN {"budget"} ELSE {})
                \cup (IF report.passes THEN {"passes"} ELSE {})
                \cup (IF limitReached THEN {"limit"} ELSE {})

\* Signing is best effort: its failure is one more error of the snapshot.
Sign ==
  /\ phase = "sign"
  /\ errors' \in {RepairErrors, {"signing"} \cup RepairErrors}
  /\ phase' = "assets"
  /\ UNCHANGED <<vars, outcome, limitReached, found, kept, truncated, cause, told>>

CollectionsFlag ==
  report.budget \/ report.passes \/ limitReached \/ report.failed # {}

\* The assets are collected and cut; the snapshot is returned.
Finish ==
  /\ phase = "assets"
  /\ found' \in 0..MaxFound
  /\ kept' = IF found' < MaxAssets THEN found' ELSE MaxAssets
  /\ truncated' = [assets |-> found' > kept', blocks |-> FALSE,
                   collections |-> CollectionsFlag]
  /\ outcome' = "snapshot"
  /\ phase' = "done"
  /\ UNCHANGED <<vars, limitReached, errors, cause, told>>

\* The deadline passes.
DeadlinePasses ==
  /\ phase # "done"
  /\ Expire
  /\ UNCHANGED <<phase, outcome, limitReached, errors, found, kept, truncated, cause, told>>

FetchStep ==
  \/ PageFails \/ PageTooLarge \/ Page
  \/ RepairStep \/ RepairRejected \/ Repaired
  \/ Sign \/ Finish

FetchNext == FetchStep \/ DeadlinePasses

FetchSpec == FetchInit /\ [][FetchNext]_fetchVars

--------------------------------------------------------------------------------
\* The codes of an error (errors.go:14-37).
Codes == Limits \cup Incomplete \cup
         {"notion_fetch_timeout", "notion_rate_limited", "notion_page_not_found",
          "notion_upstream_error", "internal_error"}

\* A snapshot whose collections flag is down is one whose views are all decided,
\* without a failure and below the row limit (types.go:69-72), also if the deadline
\* passed at any point of the repair.  Whatever raises the flag is also told by an
\* error, every failed view by one of its own, for a caller who does not see the log
\* (fetcher.go:129-130).
FlagsTellTheTruth ==
  outcome = "snapshot" =>
    /\ ~truncated.collections =>
         /\ Shown \subseteq processed
         /\ report.failed = {}
         /\ AtLimit = {}
    /\ report.failed \subseteq errors
    /\ truncated.collections <=> errors \ {"signing"} # {}

\* An error says what was the matter: a page is called missing only if an answer said
\* so or the root was not in one, a 4xx is the upstream's own or a limit that was met,
\* what is incomplete is told as that, and a retry hint that came with a status is
\* handed on (fetcher.go:199-252, client.go:748-810).
ErrorsTellTheCause ==
  outcome \in Codes =>
    /\ outcome = "notion_fetch_timeout" <=> cause = Deadline
    /\ outcome = "notion_page_not_found" => cause.status = 404 \/ cause.says
    /\ outcome = "notion_rate_limited" <=> cause.status = 429
    /\ told.status \in 400..499 =>
         told.status = cause.status \/ outcome = "notion_page_not_found"
    /\ cause.code \in Incomplete => told.status = 502 /\ outcome = cause.code
    /\ cause.status \in 400..599 => told.retry = cause.retry
================================================================================
