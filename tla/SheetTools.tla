----------------------------- MODULE SheetTools -----------------------------
(***************************************************************************)
(* What the Google tools of a connector compute: sheets_query_rows scans a *)
(* sheet page by page under a budget and answers a window of the matches;  *)
(* sheets_read_range turns the range it is given into a bounded one; every *)
(* tool authenticates with a token source out of a cache that is keyed by  *)
(* connector and by a fingerprint of the stored credential.                *)
(*                                                                         *)
(* The filtered column of a data row holds 0 or 1, or the row is blank: a  *)
(* blank cell is the text "", which compares below both.  A column's       *)
(* letters are digits of base Base.  The sheet stands still while it is    *)
(* paged through; the bucket and Google may refuse at any charge or fetch. *)
(***************************************************************************)
EXTENDS Integers, Sequences, SequencesExt

CONSTANTS
    MaxRowsOfSheet, PageSize, ScanBudget, MaxLimit,
    Filters,                   \* lists of filters a query may carry
    Base, MaxColumn,           \* 26 letters; maxColumnIndex
    MaxReadRangeRows, MaxReadRangeCells,
    RangeRows, MaxLetters,     \* bounds: row numbers and letters of a range
    Widths,                    \* column counts a tab may report
    Credentials,               \* the credentials a connector is given in turn
    Readers                    \* calls that use the token cache

ASSUME SheetToolsAssumption ==
    /\ PageSize \in Nat \ {0} /\ ScanBudget \in Nat \ {0} /\ MaxLimit \in Nat \ {0}
    /\ MaxRowsOfSheet \in Nat /\ RangeRows \subseteq Nat /\ MaxLetters \in Nat
    /\ Base \in Nat \ {0, 1} /\ MaxColumn \in Nat /\ Widths \subseteq 0 .. MaxColumn + 1
    /\ MaxReadRangeRows \in Nat /\ MaxReadRangeCells \in Nat
    /\ Credentials # <<>>
    /\ Credentials \in Seq([variant : {"oauth", "service_account"}, id : Nat, secret : Nat])

VARIABLES
    sheet,     \* the data rows of the tab, blank rows included
    query,     \* a query in progress
    answer,    \* the answer to the last query
    got,       \* history: the rows an agent has followed has_more to
    range,     \* the last range: corners, tab width and what was sent
    cred,      \* position of the stored credential in Credentials
    cache,     \* the connector's entry of TokenSourceCache
    reader     \* a call: credential it opened, source it got

scanVars == <<sheet, query, answer, got>>
tokenVars == <<cred, cache, reader>>
sheetVars == <<scanVars, range, tokenVars>>

Blank == -1
Cells == {Blank, 0, 1}
Least(a, b) == IF a < b THEN a ELSE b
Most(a, b) == IF a < b THEN b ELSE a

-----------------------------------------------------------------------------
(* sheets_query_rows *)

NoQuery == [at |-> "idle", wanted |-> {}, offset |-> 0, limit |-> 1, row |-> 1,
            retained |-> <<>>, scanned |-> 0]
NoAnswer == [rows |-> <<>>, offset |-> 0, more |-> FALSE, next |-> 0, scanned |-> 0,
             stop |-> "none", total |-> -1, wanted |-> {}]

\* A number and a blank or numeric cell, compared as numbers or as text.
Matches(f, cell) ==
    CASE f.op \in {"eq", "contains"} -> cell = f.value
      [] f.op = "neq" -> cell # f.value
      [] f.op = "gt" -> cell > f.value
      [] f.op = "lt" -> cell < f.value
      [] f.op = "gte" -> cell >= f.value
      [] f.op = "lte" -> cell <= f.value
      [] f.op = "in" -> cell \in f.values

\* Filters are and-ed; without one every row matches.
matchRow(filters, cell) == \A f \in filters : Matches(f, cell)

\* Google's answer to a range of whole rows: blank rows at its end are left out.
Values(s, from, to) ==
    LET full == {i \in from .. Least(to, Len(s)) : s[i] # Blank}
    IN IF full = {} THEN <<>> ELSE SubSeq(s, from, CHOOSE m \in full : \A i \in full : i <= m)

\* Mutant: only the window itself is retained.
retainCapExact(q) == q.offset + q.limit

\* One match more than the window, which is what has_more is read from.
retainCap(q) == q.offset + q.limit + 1

\* The window of what was retained; a total only at the end of the sheet.
Answer(q, stop) ==
    LET end == q.offset + q.limit
    IN [rows |-> SubSeq(q.retained, q.offset + 1, Least(end, Len(q.retained))),
        offset |-> q.offset, more |-> Len(q.retained) > end, next |-> end,
        scanned |-> q.scanned, stop |-> stop,
        total |-> IF stop = "end" THEN Len(q.retained) ELSE -1, wanted |-> q.wanted]

\* A first query, or the one has_more asks for: same filter, next_offset.
ValidateQueryRowsInput(filters, limit, offset) ==
    /\ query.at = "idle" /\ limit \in 1 .. MaxLimit /\ offset >= 0
    /\ query' = [NoQuery EXCEPT !.at = "scan", !.limit = limit, !.offset = offset,
                    !.wanted = {c \in Cells : matchRow(filters, c)}]
    /\ UNCHANGED <<sheet, answer, got>>

Continue(limit) ==
    /\ query.at = "idle" /\ answer.more /\ limit \in 1 .. MaxLimit
    /\ query' = [NoQuery EXCEPT !.at = "scan", !.limit = limit, !.offset = answer.next,
                    !.wanted = answer.wanted]
    /\ UNCHANGED <<sheet, answer, got>>

Respond(q, stop) ==
    /\ answer' = Answer(q, stop)
    /\ got' = IF q.offset = 0 THEN Answer(q, stop).rows ELSE got \o Answer(q, stop).rows
    /\ query' = NoQuery
    /\ UNCHANGED sheet

\* The charge for a page is refused: what was found so far is the answer.
BucketEmpty == query.at = "scan" /\ Respond(query, "bucket")

\* The rows of a page that match are retained in turn, until the buffer is full.
Retain(q, page) ==
    LET kept[n \in 0 .. Len(page)] ==
            IF n = 0 THEN q.retained
            ELSE IF page[n] \in q.wanted /\ Len(kept[n - 1]) < retainCap(q)
                 THEN Append(kept[n - 1], q.row + n - 1)
                 ELSE kept[n - 1]
    IN kept[Len(page)]

\* One page, whose evaluation ends at the row that fills the buffer.
queryRows ==
    /\ query.at = "scan"
    /\ LET page == Values(sheet, query.row, query.row + PageSize - 1)
           kept == Retain(query, page)
           full == Len(kept) = retainCap(query)
           q == [query EXCEPT
                    !.retained = kept,
                    !.scanned = @ + (IF full THEN Last(kept) - query.row + 1 ELSE Len(page)),
                    !.row = @ + PageSize]
       IN IF full THEN Respond(q, "cap")
          ELSE IF Len(page) < PageSize THEN Respond(q, "end")
          ELSE IF q.scanned >= ScanBudget THEN Respond(q, "budget")
          ELSE query' = q /\ UNCHANGED <<sheet, answer, got>>

\* A charge or a fetch fails, or the answer is over maxResultBytes: an error
\* and no answer.
QueryFails ==
    /\ query.at = "scan" /\ query' = NoQuery /\ answer' = NoAnswer /\ got' = <<>>
    /\ UNCHANGED sheet

ScanStep ==
    /\ \/ \E fs \in Filters, l \in 1 .. MaxLimit : ValidateQueryRowsInput(fs, l, 0)
       \/ \E l \in 1 .. MaxLimit : Continue(l)
       \/ BucketEmpty \/ queryRows \/ QueryFails
    /\ UNCHANGED <<range, tokenVars>>

-----------------------------------------------------------------------------
(* sheets_read_range *)

NoRows == -1
Letters == UNION {[1 .. n -> 0 .. Base - 1] : n \in 0 .. MaxLetters}

\* One half of a range: letters and a row number, either of which may be missing.
Halves == [letters : Letters, row : RangeRows \cup {NoRows}]

\* "A" is 0; past MaxColumn the reference is refused.
columnIndex(ls) ==
    LET idx[i \in 0 .. Len(ls)] == IF i = 0 THEN 0 ELSE idx[i - 1] * Base + ls[i] + 1
    IN idx[Len(ls)] - 1

columnLetter[n \in 0 .. MaxColumn] ==
    IF n < Base THEN <<n>> ELSE Append(columnLetter[(n \div Base) - 1], n % Base)

\* Letters alone are never looked up; row 0 is refused.
classifyA1Ref(h) ==
    IF h.letters # <<>> /\ h.row = NoRows THEN "column"
    ELSE IF h.row < 1 THEN "invalid"
    ELSE IF h.letters = <<>> THEN "row"
    ELSE IF columnIndex(h.letters) > MaxColumn THEN "invalid" ELSE "full"

Rect(c1, c2, r1, r2) == [cols |-> <<c1, c2>>, rows |-> <<r1, r2>>]
Refused == Rect(0, 0, 0, 0)

\* Both halves of one kind and with rows; reversed corners are put in order.
ParseA1Range(l, r) ==
    LET kind == classifyA1Ref(l)
    IN IF kind # classifyA1Ref(r) \/ kind \notin {"row", "full"} THEN Refused
       ELSE LET c1 == IF kind = "row" THEN -1 ELSE columnIndex(l.letters)
                c2 == IF kind = "row" THEN -1 ELSE columnIndex(r.letters)
            IN Rect(Least(c1, c2), Most(c1, c2), Least(l.row, r.row), Most(l.row, r.row))

RowSpan(p) == p.rows[2] - p.rows[1] + 1
ColSpan(p) == p.cols[2] - p.cols[1] + 1

\* Mutant: the second check forgets the cells.
checkRangeSizeRows(p) == RowSpan(p) <= MaxReadRangeRows

\* Cells are not counted while the columns are unknown.
checkRangeSize(p) ==
    /\ RowSpan(p) <= MaxReadRangeRows
    /\ p.cols[1] >= 0 => RowSpan(p) * ColSpan(p) <= MaxReadRangeCells

\* A range of rows is read over the width of the tab, one column at least.
Resolve(p, width) == IF p.cols[1] < 0 THEN [p EXCEPT !.cols = <<0, Most(width - 1, 0)>>] ELSE p

\* The range as it is sent, and as it is echoed.
formatA1Range(p) ==
    [from |-> [letters |-> columnLetter[p.cols[1]], row |-> p.rows[1]],
     to |-> [letters |-> columnLetter[p.cols[2]], row |-> p.rows[2]],
     columns |-> [i \in 1 .. ColSpan(p) |-> columnLetter[p.cols[1] + i - 1]]]

NotSent == [from |-> [letters |-> <<>>, row |-> 0], to |-> [letters |-> <<>>, row |-> 0],
            columns |-> <<>>]
NoHalf == [letters |-> <<>>, row |-> NoRows]
NoRange == [left |-> NoHalf, right |-> NoHalf, width |-> 0, sent |-> NotSent]

\* Checked once as parsed and once resolved, then charged and fetched; an
\* unknown tab, the bucket or Google may refuse it in between.
readRange ==
    /\ range = NoRange
    /\ \E l, r \in Halves, w \in Widths :
          LET parsed == ParseA1Range(l, r)
              whole == Resolve(parsed, w)
              ok == parsed # Refused /\ checkRangeSize(parsed) /\ checkRangeSize(whole)
          IN range' = [left |-> l, right |-> r, width |-> w,
                       sent |-> IF ok THEN formatA1Range(whole) ELSE NotSent]
    /\ UNCHANGED <<scanVars, tokenVars>>

-----------------------------------------------------------------------------
(* TokenSourceCache *)

NoReader == [at |-> "idle", begun |-> 0, opened |-> 0, source |-> 0]

\* Mutant: the variant of the credential is not part of the digest.
fingerprintPlain(v) == <<Credentials[v].id, Credentials[v].secret>>

\* A digest of the variant and of every field.
fingerprint(v) == <<Credentials[v].variant, Credentials[v].id, Credentials[v].secret>>

\* PATCH stores the next credential of the connector.
Rotate ==
    /\ cred < Len(Credentials) /\ cred' = cred + 1
    /\ UNCHANGED <<cache, reader>>

Begin(r) ==
    /\ reader[r].at = "idle"
    /\ reader' = [reader EXCEPT ![r] = [NoReader EXCEPT !.at = "begun", !.begun = cred]]
    /\ UNCHANGED <<cred, cache>>

\* The row is fetched and its configuration opened.
OpenCredential(r) ==
    /\ reader[r].at = "begun"
    /\ reader' = [reader EXCEPT ![r].at = "opened", ![r].opened = cred]
    /\ UNCHANGED <<cred, cache>>

\* Get, under the cache's mutex: the entry, or a new source in its place.
Get(r) ==
    /\ reader[r].at = "opened"
    /\ LET v == reader[r].opened
           hit == cache.of # 0 /\ fingerprint(cache.of) = fingerprint(v)
       IN /\ cache' = IF hit THEN cache ELSE [of |-> v]
          /\ reader' = [reader EXCEPT ![r].at = "got", ![r].source = cache'.of]
    /\ UNCHANGED cred

\* The requests of the call, with a token of its source; an answer or an error.
EndCall(r) ==
    /\ reader[r].at = "got"
    /\ reader' = [reader EXCEPT ![r] = NoReader]
    /\ UNCHANGED <<cred, cache>>

\* The cache dies with the process.
Restart ==
    /\ cache.of # 0
    /\ cache' = [of |-> 0] /\ reader' = [r \in Readers |-> NoReader]
    /\ UNCHANGED cred

TokenStep ==
    /\ \/ Rotate \/ Restart
       \/ \E r \in Readers : Begin(r) \/ OpenCredential(r) \/ Get(r) \/ EndCall(r)
    /\ UNCHANGED <<scanVars, range>>

-----------------------------------------------------------------------------

InitSheets ==
    /\ sheet \in UNION {[1 .. n -> Cells] : n \in 0 .. MaxRowsOfSheet}
    /\ query = NoQuery /\ answer = NoAnswer /\ got = <<>>
    /\ range = NoRange
    /\ cred = 1 /\ cache = [of |-> 0] /\ reader = [r \in Readers |-> NoReader]

-----------------------------------------------------------------------------
(* Properties *)

LastRow == CHOOSE m \in 0 .. Len(sheet) :
              /\ m > 0 => sheet[m] # Blank
              /\ \A i \in m + 1 .. Len(sheet) : sheet[i] = Blank

\* The rows that match among the first n, in order.
MatchesUpTo(wanted) ==
    LET found[n \in 0 .. Len(sheet)] ==
            IF n = 0 THEN <<>>
            ELSE IF sheet[n] \in wanted THEN Append(found[n - 1], n) ELSE found[n - 1]
    IN found

AllMatches(wanted) == MatchesUpTo(wanted)[LastRow]

\* Some page before the last one ends in a blank row, and comes back short.
BlankPageEnd == \E p \in 1 .. LastRow - 1 : p % PageSize = 0 /\ sheet[p] = Blank

\* Following has_more through a sheet, an agent is given the matches in order,
\* none twice and none left out; more are promised only where there are more,
\* and an answer that neither promises more nor says that the scan was cut
\* short has given them all, with the exact total, unless a page of the sheet
\* ends in blank rows (query.go: the retained window, has_more and total).
\* No call evaluates a page beyond the budget or retains more than one match
\* beyond its window.
ScanHonest ==
    /\ Len(query.retained) <= query.offset + query.limit + 1
    /\ query.scanned < ScanBudget
    /\ answer.stop # "none" =>
          LET all == AllMatches(answer.wanted)
          IN /\ IsPrefix(got, all)
             /\ answer.scanned < ScanBudget + PageSize
             /\ answer.more => Len(got) = answer.next /\ answer.next < Len(all)
             /\ (~answer.more /\ answer.stop \in {"cap", "end"} /\ ~BlankPageEnd) => got = all
             /\ (answer.total >= 0 /\ ~BlankPageEnd) => answer.total = Len(all)

\* Google's reading of letters: a numeral without a zero.
ColumnNumber[ls \in Seq(0 .. Base - 1)] ==
    IF ls = <<>> THEN 0 ELSE ColumnNumber[Front(ls)] * Base + Last(ls) + 1

Asked ==
    LET l == range.left  r == range.right
        rows == Least(l.row, r.row) .. Most(l.row, r.row)
        a == ColumnNumber[l.letters]  b == ColumnNumber[r.letters]
    IN IF l.letters = <<>> THEN (1 .. Most(range.width, 1)) \X rows
       ELSE (Least(a, b) .. Most(a, b)) \X rows

\* The range names cells: rows at both ends, columns at both or at neither,
\* and none past the last column of a sheet.
Bounded ==
    LET l == range.left  r == range.right
    IN /\ l.row >= 1 /\ r.row >= 1 /\ (l.letters = <<>>) = (r.letters = <<>>)
       /\ ColumnNumber[l.letters] <= MaxColumn + 1 /\ ColumnNumber[r.letters] <= MaxColumn + 1

\* What is sent to Google is the block of cells between the corners that were
\* given, in either order, written in letters that mean it, never one without
\* rows or over the caps, and every bounded block within the caps is sent
\* (readrange.go: ParseA1Range, checkRangeSize, formatA1Range).
RangeFaithful ==
    range # NoRange =>
        LET s == range.sent
            fits == /\ Bounded
                    /\ Most(range.left.row, range.right.row)
                          - Least(range.left.row, range.right.row) < MaxReadRangeRows
                    /\ Cardinality(Asked) <= MaxReadRangeCells
        IN /\ (s # NotSent) = fits
           /\ fits => /\ (ColumnNumber[s.from.letters] .. ColumnNumber[s.to.letters])
                              \X (s.from.row .. s.to.row) = Asked
                      /\ \A i \in 1 .. Len(s.columns) :
                            ColumnNumber[s.columns[i]] = ColumnNumber[s.from.letters] + i - 1

\* A call authenticates with the credential that was stored when it began or
\* with a later one: after a rotation nothing that starts uses the retired
\* credential, whatever order the calls reach the cache in (oauth.go, Get).
RotationTakesEffect ==
    \A r \in Readers : reader[r].at = "got" =>
        \E v \in reader[r].begun .. cred : Credentials[v] = Credentials[reader[r].source]

=============================================================================
