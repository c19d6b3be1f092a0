------------------------------ MODULE Exports ------------------------------
(* A CSV of transfers, fetched page by page from the newest to the oldest   *)
(* while transfers are made: each page starts after the last row of the     *)
(* page before.                                                             *)
EXTENDS Integers, FiniteSets

CONSTANTS
  Rows,       \* the transfers that can be made, numbered in the order of createdAt
  Filters,    \* what an export may be narrowed to: sets of rows
  PageSize

ASSUME RowsAssumption == /\ Rows \subseteq Nat /\ IsFiniteSet(Rows)
                         /\ Filters \subseteq SUBSET Rows
ASSUME PageAssumption == PageSize \in Nat \ {0}

VARIABLES
  rows,       \* the rows of the table
  export

NoCursor == -1

(* wanted is history: the rows that were there when the export began.       *)
Export == [at : {"idle", "paging", "waits", "done", "stalled"}, filter : SUBSET Rows,
           cursor : Rows \cup {NoCursor}, more : BOOLEAN,
           written : SUBSET Rows, wanted : SUBSET Rows]

NoExport == [at |-> "idle", filter |-> {}, cursor |-> NoCursor, more |-> TRUE,
             written |-> {}, wanted |-> {}]

ExportInit == rows = {} /\ export = NoExport

(* createdAt is the time at which the transaction began: a row may appear   *)
(* after a newer one.                                                       *)
Insert(t) == t \in Rows \ rows /\ rows' = rows \cup {t}

Begins ==
  /\ export.at \in {"idle", "done", "stalled"}
  /\ \E filter \in Filters :
       export' = [NoExport EXCEPT !.at = "paging", !.filter = filter, !.wanted = rows \cap filter]
  /\ UNCHANGED rows

(* Faulty variant of Left: only the cursor's row is skipped.                *)
LeftButCursor == {t \in rows \cap export.filter : t # export.cursor}

Left == {t \in rows \cap export.filter : export.cursor = NoCursor \/ t < export.cursor}

Page == {t \in Left : Cardinality({u \in Left : u > t}) < PageSize}

(* Faulty variant of LastOf: the row fetched to see if there are more.      *)
FirstLeftOver(page) == CHOOSE t \in Left \ page : \A u \in Left \ page : u <= t

LastOf(page) == CHOOSE t \in page : \A u \in page : t <= u

WritesPage ==
  /\ export.at = "paging"
  /\ export' = IF Cardinality(Left) > PageSize
               THEN [export EXCEPT !.at = "waits", !.written = @ \cup Page, !.cursor = LastOf(Page)]
               ELSE [export EXCEPT !.at = "waits", !.written = @ \cup Page, !.more = FALSE]
  /\ UNCHANGED rows

(* The client has read enough for the next page.                            *)
Drains ==
  /\ export.at = "waits"
  /\ export' = [export EXCEPT !.at = IF export.more THEN "paging" ELSE "done"]
  /\ UNCHANGED rows

(* The client leaves while the export waits for it: the wait has no end.    *)
Stalls ==
  /\ export.at = "waits"
  /\ export' = [export EXCEPT !.at = "stalled"]
  /\ UNCHANGED rows

(* The client has gone, or a query fails.                                   *)
Aborts ==
  /\ export.at = "paging"
  /\ export' = NoExport
  /\ UNCHANGED rows

ExportTransfers == Begins \/ WritesPage \/ Drains \/ Stalls \/ Aborts

ExportNext ==
  \/ \E t \in Rows : Insert(t) /\ UNCHANGED export
  \/ ExportTransfers

ExportSpec == ExportInit /\ [][ExportNext]_<<rows, export>>

-----------------------------------------------------------------------------
ExportTypeOK == rows \subseteq Rows /\ export \in Export

(* A finished export has every row that was there when it began             *)
(* (transfer.repository.ts:256).                                            *)
ExportIsComplete == export.at = "done" => export.wanted \subseteq export.written

(* No row is written twice, and what a page adds is older than all that was *)
(* written before (transfer.repository.ts:241).                             *)
PagesDescend ==
  [][WritesPage => \A t \in export.written, u \in Page : u < t]_<<rows, export>>
=============================================================================
