--------------------------------- MODULE Views ---------------------------------
(***************************************************************************)
(* A database view from the query to the page: notionapi.GetCollectionData *)
(* asks for one bucket of rows per configured group, upstream answers, and *)
(* package notion matches the buckets to the groups, or lays the rows out  *)
(* by the lanes of a board or by date.                                     *)
(*                                                                         *)
(* The groups of a view have one property and so one value type; a bucket  *)
(* "results:<type>:<label>" is named by its label alone.  Decode is what   *)
(* collectionGroupLabel reads back from that key: a label is query-escaped *)
(* text, of which only what follows the last colon counts.                 *)
(***************************************************************************)
EXTENDS Integers, SequencesExt, FiniteSetsExt, Lists

CONSTANTS
  KeyOrder,   \* the labels of all buckets, in the order of their keys
  Decode,     \* collectionGroupLabel of a bucket's key
  Escaped,    \* url.QueryEscape of a label
  Fold,       \* normalizeGroupLabel: lower case
  Configs,    \* the views: type, grouping, groups, dates that are hidden
  Tables,     \* the rows: block there or not, labels, dates
  Stale,      \* labels upstream may have buckets for without being asked
  Limit,      \* CollectionOptions.Limit
  MaxDays     \* the longest axis of a timeline, 120

Uncategorized == "uncategorized"
NoValue == "No value"
Other == "other"
None == "none"

Keys == ToSet(KeyOrder)

\* The label of a group, and that of its reducer.
Label(group) == IF group.value = None THEN NoValue ELSE group.value
QueryLabel(group) == IF group.value = None THEN Uncategorized ELSE group.value

\* The row of a table: whether its block is there, its labels, its first and last day.
RowRecord == [there : BOOLEAN, labels : SUBSET Keys, from : Nat, to : Nat]

ASSUME ViewsAssumption ==
  /\ KeyOrder \in Seq(STRING) /\ Uncategorized \in Keys /\ None \notin Keys
  /\ Decode[Uncategorized] = NoValue
  /\ NoValue \in Keys /\ Decode[NoValue] = NoValue
  /\ \A l \in DOMAIN Escaped :
       /\ Escaped[l] = Uncategorized => l = Uncategorized
       /\ Escaped[l] \in Keys \ {Uncategorized} => Decode[Escaped[l]] = l
  /\ \A l \in DOMAIN Fold : Fold[l] \in DOMAIN Fold /\ Fold[Fold[l]] = Fold[l]
  /\ \A k \in Keys : Decode[k] \in DOMAIN Fold
  /\ \A t \in Tables : t \in Seq(RowRecord)
  /\ \A c \in Configs :
       /\ c.groups \in Seq([value : DOMAIN Fold \cup {None}, hidden : BOOLEAN])
       /\ \A i \in DOMAIN c.groups :
            /\ Label(c.groups[i]) \in DOMAIN Fold \cap DOMAIN Escaped
            /\ QueryLabel(c.groups[i]) \in Keys
  /\ Stale \subseteq Keys
  /\ Limit \in Nat \ {0} /\ MaxDays \in Nat \ {0}

VARIABLES
  stage,
  view,      \* the view's record
  rows,      \* the rows of the collection
  reducers,  \* what GetCollectionData asks for: bucket -> position of its group
  buckets,   \* the buckets of the answer, each a sequence of rows
  plain,     \* collection_group_results of the answer
  columns,   \* board_columns of the answer
  sections,  \* what is rendered: heading and rows
  bars       \* the timeline's items: row, first column and width, 0 in a list

viewVars == <<stage, view, rows, reducers, buckets, plain, columns, sections, bars>>

Row == DOMAIN rows
Groups == view.groups
Without == [k \in {} |-> <<>>]

ViewInit ==
  /\ stage = "ask"
  /\ view \in Configs
  /\ rows \in Tables
  /\ reducers = Without
  /\ buckets = Without
  /\ plain = <<>>
  /\ columns = <<>>
  /\ sections = <<>>
  /\ bars = <<>>

--------------------------------------------------------------------------------
\* A later group overwrites the reducer of an earlier one of its label.
Ask ==
  /\ stage = "ask"
  /\ stage' = "answer"
  /\ reducers' = IF ~view.grouped THEN Without ELSE
       [k \in {QueryLabel(Groups[i]) : i \in DOMAIN Groups} |->
          Max({i \in DOMAIN Groups : QueryLabel(Groups[i]) = k})]
  /\ UNCHANGED <<view, rows, buckets, plain, columns, sections, bars>>

Matches(r, k) == IF k = Uncategorized THEN rows[r].labels = {} ELSE k \in rows[r].labels

Cut(s) == SubSeq(s, 1, IF Len(s) < Limit THEN Len(s) ELSE Limit)
RowsWith(k) == Cut(Select(Ascending(Row), LAMBDA r : Matches(r, k)))

\* The query as the table holds it when the view is rendered: one list of rows, or the
\* buckets that were asked for with some of groups the view does not list any more, and
\* the columns of a board in an order of upstream's own; or, once repair has merged an
\* answer with buckets into a query with a list, both.  Either is cut at the limit.
Answer ==
  /\ stage = "answer"
  /\ stage' = "render"
  /\ plain' \in {<<>>, Cut(Ascending(Row))}
  /\ \/ UNCHANGED <<buckets, columns>>
     \/ \E extra \in SUBSET Stale :
          /\ reducers # Without
          /\ buckets' = [k \in DOMAIN reducers \cup extra |-> RowsWith(k)]
          /\ columns' \in (IF view.type = "board" THEN {Groups, Reverse(Groups)} ELSE {<<>>})
  /\ UNCHANGED <<view, rows, reducers, sections, bars>>

--------------------------------------------------------------------------------
Sorted(K) == Select(KeyOrder, LAMBDA k : k \in K)

\* collectionRowIDs
RowIDs ==
  IF plain # <<>> THEN plain
  ELSE Unique(FlattenSeq([i \in DOMAIN Sorted(DOMAIN buckets) |->
                            buckets[Sorted(DOMAIN buckets)[i]]]))

Filled == {k \in DOMAIN buckets : buckets[k] # <<>>}
FirstKey(K) == IF K = {} THEN None ELSE Head(Sorted(K))

\* The three ways a group names its bucket, from the strongest to the weakest.
ByLabel(group)  == FirstKey({k \in Filled : Decode[k] = Label(group)})
ByKey(group)    ==
  IF Label(group) \in Filled THEN Label(group)
  ELSE IF Escaped[Label(group)] \in Filled THEN Escaped[Label(group)] ELSE None
ByFolded(group) == FirstKey({k \in Filled : Fold[Decode[k]] = Fold[Label(group)]})

\* One pass: the groups that have no bucket yet claim in turn the one they name, if no
\* group before them has done so.
Claim(matched, named) ==
  [i \in DOMAIN Groups |->
     IF /\ matched[i] = None /\ named[i] \notin ToSet(matched)
        /\ \A j \in 1..i - 1 : matched[j] = None => named[j] # named[i]
     THEN named[i] ELSE matched[i]]

Unmatched == [i \in DOMAIN Groups |-> None]

\* Fault: one pass, in which each group takes what it can get.
Matched_OnePass ==
  Claim(Unmatched,
        [i \in DOMAIN Groups |->
           IF ByLabel(Groups[i]) # None THEN ByLabel(Groups[i])
           ELSE IF ByKey(Groups[i]) # None THEN ByKey(Groups[i]) ELSE ByFolded(Groups[i])])

AfterLabels == Claim(Unmatched, [i \in DOMAIN Groups |-> ByLabel(Groups[i])])
AfterKeys   == Claim(AfterLabels, [i \in DOMAIN Groups |-> ByKey(Groups[i])])
Matched     == Claim(AfterKeys, [i \in DOMAIN Groups |-> ByFolded(Groups[i])])

\* collectionGroupSpecsByLabel: the last group of a label, or the first of one that
\* folds to it.
NoGroup == [value |-> None, hidden |-> FALSE, label |-> ""]
GroupOf(label) ==
  LET exact == {i \in DOMAIN Groups : Label(Groups[i]) = label}
      folded == {i \in DOMAIN Groups : Fold[Label(Groups[i])] = label}
  IN  IF exact # {} THEN Groups[Max(exact)]
      ELSE IF folded # {} THEN Groups[Min(folded)] ELSE NoGroup
GroupOfKey(k) ==
  IF GroupOf(Decode[k]) # NoGroup THEN GroupOf(Decode[k]) ELSE GroupOf(Fold[Decode[k]])

Section(head, rs, hidden) == [head |-> head, rows |-> rs, hidden |-> hidden]

\* collectionGroups: the configured groups in their order, the buckets left in the
\* order of their keys, the rows left in a last group.
Claimed == Select([i \in DOMAIN Groups |-> <<Matched[i], Groups[i]>>], LAMBDA c : c[1] # None)
Remaining ==
  LET left == Sorted(Filled \ ToSet(Matched))
  IN  [i \in DOMAIN left |-> <<left[i], GroupOfKey(left[i])>>]
Emit(c) ==
  Section(IF c[2] = NoGroup THEN Decode[c[1]] ELSE Label(c[2]), buckets[c[1]], c[2].hidden)

\* Fault: the rows of no bucket are left out.
Uncovered_None == <<>>

\* The rows left.
Uncovered == Select(RowIDs, LAMBDA r : \A k \in Filled : r \notin ToSet(buckets[k]))
GroupsOfQuery ==
  LET all == Claimed \o Remaining
  IN  [i \in DOMAIN all |-> Emit(all[i])]
      \o (IF Uncovered = <<>> THEN <<>> ELSE <<Section(Other, Uncovered, FALSE)>>)

\* collectionGroupsFromView: without buckets the rows' own values decide.
Values(r) == IF rows[r].labels = {} THEN {NoValue} ELSE rows[r].labels
GroupsFromView ==
  LET there == Select(RowIDs, LAMBDA r : rows[r].there)
      of(label) == Select(there, LAMBDA r : label \in Values(r))
      configured == {Label(Groups[i]) : i \in DOMAIN Groups}
      left == Sorted((UNION {Values(r) : r \in ToSet(there)}) \ configured)
  IN  Select([i \in DOMAIN Groups |->
                Section(Label(Groups[i]), of(Label(Groups[i])), Groups[i].hidden)],
             LAMBDA s : s.rows # <<>>)
      \o [i \in DOMAIN left |-> Section(left[i], of(left[i]), FALSE)]

--------------------------------------------------------------------------------
\* A row without its block is left out by whoever renders rows.
Shown(rs) == Select(rs, LAMBDA r : rows[r].there)
Visible(ss) ==
  LET seen == Select(ss, LAMBDA s : ~s.hidden /\ s.rows # <<>>)
  IN  [i \in DOMAIN seen |-> [head |-> seen[i].head, rows |-> Shown(seen[i].rows)]]

Ungrouped == <<Section("", RowIDs, FALSE)>>

Shows(type) ==
  /\ stage = "render"
  /\ view.type = type
  /\ stage' = "done"
  /\ UNCHANGED <<view, rows, reducers, buckets, plain, columns>>

\* table, list and gallery
RowSections ==
  IF DOMAIN buckets # {} THEN GroupsOfQuery
  ELSE IF view.grouped /\ GroupsFromView # <<>> THEN GroupsFromView ELSE Ungrouped

RenderRows ==
  /\ Shows("table")
  /\ sections' = Visible(RowSections)
  /\ UNCHANGED bars

\* boardColumnLabelAndKey
LaneRows(column) ==
  IF QueryLabel(column) \in DOMAIN buckets THEN buckets[QueryLabel(column)] ELSE <<>>

\* The lanes of the answer; the rows of none of them, hidden ones included, follow.
Lanes ==
  [i \in DOMAIN columns |->
     Section(QueryLabel(columns[i]), LaneRows(columns[i]), columns[i].hidden)]
Unplaced(ss) ==
  <<Section(Other, Select(RowIDs, LAMBDA r : \A i \in DOMAIN ss : r \notin ToSet(ss[i].rows)), FALSE)>>

RenderBoard ==
  /\ Shows("board")
  /\ sections' = Visible(Lanes \o Unplaced(Lanes))
  /\ UNCHANGED bars

\* Rows without a date, unless the view hides them by a flag or by a group.
HideUndated ==
  view.hideUndated \/ \E i \in DOMAIN Groups : Groups[i].hidden /\ Groups[i].value = None
Undated ==
  IF HideUndated THEN <<>>
  ELSE <<Section("No date", Select(Shown(RowIDs), LAMBDA r : rows[r].from = 0), FALSE)>>

Dated == Select(Shown(RowIDs), LAMBDA r : rows[r].from # 0)
Days ==
  LET days == Ascending({rows[r].from : r \in ToSet(Dated)})
  IN  [i \in DOMAIN days |->
         Section(days[i], Select(Dated, LAMBDA r : rows[r].from = days[i]),
                 days[i] \in view.hiddenDays)]

RenderCalendar ==
  /\ Shows("calendar")
  /\ sections' = Visible(Days \o Undated)
  /\ UNCHANGED bars

\* A range that ends before it starts is a single day.
End(r) == IF rows[r].to < rows[r].from THEN rows[r].from ELSE rows[r].to
Earlier(r, s) ==
  \/ rows[r].from < rows[s].from
  \/ rows[r].from = rows[s].from /\ End(r) < End(s)
  \/ rows[r].from = rows[s].from /\ End(r) = End(s) /\ r < s
Entries == Sort(ToSet(Dated), Earlier)

\* Fault: the axis ends with the last of the sorted entries.
Axis_LastEntry(es) == [first |-> rows[es[1]].from, days |-> End(Last(es)) - rows[es[1]].from + 1]

\* From the first start to the last end.
Axis(es) ==
  LET first == Min({rows[r].from : r \in ToSet(es)})
  IN  [first |-> first, days |-> Max({End(r) : r \in ToSet(es)}) - first + 1]

\* The columns of one entry, kept inside the axis.
Bar(r, axis) ==
  LET start == Max({1, rows[r].from - axis.first + 1})
      span == Max({1, End(r) - rows[r].from + 1})
  IN  [row |-> r, start |-> start,
       span |-> IF start + span - 1 > axis.days THEN axis.days - start + 1 ELSE span]

\* An axis that is too long gives way to a list of the rows.
Bars ==
  LET axis == Axis(Entries) IN
    [i \in DOMAIN Entries |->
       IF axis.days \notin 1..MaxDays THEN [row |-> Entries[i], start |-> 0, span |-> 0]
       ELSE Bar(Entries[i], axis)]

RenderTimeline ==
  /\ Shows("timeline")
  /\ bars' = Bars
  /\ sections' = Visible(<<Section("", Entries, FALSE)>> \o Undated)

ViewDone == stage = "done" /\ UNCHANGED viewVars

ViewNext ==
  \/ Ask \/ Answer
  \/ RenderRows \/ RenderBoard \/ RenderCalendar \/ RenderTimeline
  \/ ViewDone

ViewSpec == ViewInit /\ [][ViewNext]_viewVars

--------------------------------------------------------------------------------
OnPage(r) == \E i \in DOMAIN sections : r \in ToSet(sections[i].rows)

BucketsOf(r) == {k \in Filled : r \in ToSet(buckets[k])}

\* A bucket belongs to the groups it was asked for.  It is distinct if it is read back
\* as the label of no other group, and no other bucket as the label of its own; the
\* bucket "C+D" is not, where there is a group "C D".
OwnGroup(k) == {i \in DOMAIN Groups : QueryLabel(Groups[i]) = k}
Distinct(k) ==
  /\ \A i \in DOMAIN Groups : Decode[k] = Label(Groups[i]) => i \in OwnGroup(k)
  /\ \A i \in OwnGroup(k) :
       /\ Groups[i].value # Uncategorized
       /\ \A l \in Filled : Decode[l] = Label(Groups[i]) => l = k

\* The groups a bucket may go with: its own if it has one and is distinct, or else
\* whatever group can be read from its key, in any case of letters.
MayTake(k) ==
  IF OwnGroup(k) # {} /\ Distinct(k) THEN OwnGroup(k)
  ELSE {i \in DOMAIN Groups :
          LET g == Groups[i]
          IN  \/ k \in {QueryLabel(g), Escaped[Label(g)]}
              \/ Fold[Label(g)] = Fold[Decode[k]]}
MayBeHidden(k) == \E i \in MayTake(k) : Groups[i].hidden
IsHidden(k) == OwnGroup(k) # {} /\ Distinct(k) /\ \A i \in OwnGroup(k) : Groups[i].hidden

\* The rows a layout can know of: those of the list and of the buckets that it reads,
\* on a board only those of lanes.
Reads(k) == view.type = "table" \/ (view.type = "board" /\ OwnGroup(k) # {})
Known == ToSet(RowIDs) \cup UNION {ToSet(buckets[k]) : k \in {l \in DOMAIN buckets : Reads(l)}}

\* What the view's settings say of a row with its block.  By date: its day, or that it
\* has none, is not hidden.  In a table without buckets: a value of its own is that of
\* a group that is shown, or of no group.
ByDate(r) ==
  IF rows[r].from = 0 THEN ~HideUndated
  ELSE view.type = "timeline" \/ rows[r].from \notin view.hiddenDays
ByValue(r) ==
  \/ ~view.grouped
  \/ \E l \in Values(r) : \/ \A i \in DOMAIN Groups : Label(Groups[i]) # l
                          \/ \E i \in DOMAIN Groups : Label(Groups[i]) = l /\ ~Groups[i].hidden

\* Every row that upstream sent with its block is on the page, unless a group, a lane
\* or a date that the view hides holds it; a row that is in no bucket is shown last,
\* and one that only hidden ones hold is not on the page (collection.go:422-460,
\* 478-491, collection_group.go:181-190, 251-279).
RowsShown ==
  stage = "done" =>
    \A r \in Known : rows[r].there =>
      IF view.type \in {"calendar", "timeline"} THEN OnPage(r) <=> ByDate(r)
      ELSE IF view.type = "table" /\ DOMAIN buckets = {} THEN OnPage(r) <=> ByValue(r)
      ELSE /\ (\A k \in BucketsOf(r) : ~MayBeHidden(k)) => OnPage(r)
           /\ BucketsOf(r) # {} /\ (\A k \in BucketsOf(r) : IsHidden(k)) => ~OnPage(r)

\* A bucket is shown under the heading of the group it was asked for, also if its key
\* does not decode to the group's label or folds to another's (collection_group.go:121-125).
UnderOwnHeading ==
  stage = "done" /\ view.type = "table" =>
    \A i \in DOMAIN Groups :
      LET k == QueryLabel(Groups[i]) IN
        k \in Filled /\ Distinct(k) /\ ~MayBeHidden(k) =>
          \E j \in DOMAIN sections :
            sections[j] = [head |-> Label(Groups[i]), rows |-> Shown(buckets[k])]

\* Every row is where the view's settings say, whatever buckets the answer has.
RowsPlaced == RowsShown /\ UnderOwnHeading

\* The bar of a row covers its dates and no other, and lies on the axis
\* (collection.go:571-581: the clamps never bite).
BarsTellDates ==
  stage = "done" =>
    \A i \in DOMAIN bars : bars[i].start # 0 =>
      LET r == bars[i].row
          axis == Axis(Entries)
      IN  /\ axis.first + bars[i].start - 1 = rows[r].from
          /\ axis.first + bars[i].start + bars[i].span - 2 = End(r)
          /\ bars[i].start >= 1
          /\ bars[i].start + bars[i].span - 1 <= axis.days
================================================================================
