---------------------------- MODULE TransferPage ---------------------------
(* The page of one transfer in a browser (useTransferStream): it fetches    *)
(* the transfer, then listens to one process of the API for its status,     *)
(* which that process sends if it is the one to handle TRANSFER_COMPLETED.  *)
CONSTANTS
  PageTransfers,  \* the transfers that have pages
  Processes,      \* those of the API
  Nowhere

ASSUME NowhereAssumption == Nowhere \notin Processes

VARIABLES
  status,         \* of each transfer, in the table
  page

Statuses == {"INITIATED", "COMPLETED", "FAILED"}
Terminal == {"COMPLETED", "FAILED"}

(* connects: the page has a stream or is about to get one.  missed is       *)
(* history: a status was sent while the page had no stream to the process   *)
(* that sent it, or its stream was refused.                                 *)
Shown == [at : {"none", "loading", "shown", "error"}, of : PageTransfers, shown : Statuses,
          connects : BOOLEAN, stream : Processes \cup {Nowhere}, missed : BOOLEAN]

PageOf(t) == [at |-> "loading", of |-> t, shown |-> "INITIATED",
              connects |-> FALSE, stream |-> Nowhere, missed |-> FALSE]

PageInit ==
  /\ status = [t \in PageTransfers |-> "INITIATED"]
  /\ page \in {[PageOf(t) EXCEPT !.at = "none"] : t \in PageTransfers}

Opens(t) == page' = PageOf(t) /\ UNCHANGED status

Leaves ==
  /\ page.at # "none"
  /\ page' = [PageOf(page.of) EXCEPT !.at = "none"]
  /\ UNCHANGED status

(* Faulty variant of Loads: the page does not listen.                       *)
LoadsOnly ==
  /\ page.at = "loading"
  /\ page' = [page EXCEPT !.at = "shown", !.shown = status[page.of]]
  /\ UNCHANGED status

Loads ==
  /\ page.at = "loading"
  /\ page' = [page EXCEPT !.at = "shown", !.shown = status[page.of],
                          !.connects = status[page.of] \notin Terminal]
  /\ UNCHANGED status

LoadFails ==
  /\ page.at = "loading"
  /\ page' = [page EXCEPT !.at = "error"]
  /\ UNCHANGED status

Connects(p) ==
  /\ page.connects /\ page.stream = Nowhere
  /\ page' = [page EXCEPT !.stream = p]
  /\ UNCHANGED status

(* After five minutes, or when the process stops; the EventSource connects  *)
(* again by itself.                                                         *)
StreamEnds ==
  /\ page.stream # Nowhere
  /\ page' = [page EXCEPT !.stream = Nowhere]
  /\ UNCHANGED status

(* An error status instead of a stream: the EventSource gives up.           *)
Refused ==
  /\ page.connects /\ page.stream = Nowhere
  /\ page' = [page EXCEPT !.connects = FALSE, !.missed = TRUE]
  /\ UNCHANGED status

-----------------------------------------------------------------------------
Becomes(t, new) == status' = [status EXCEPT ![t] = new] /\ UNCHANGED page

(* Process p handles TRANSFER_COMPLETED: it completes what is INITIATED and *)
(* sends the status to those who listen to it; the page closes its stream.  *)
Emits(t, p) ==
  /\ status' = IF status[t] = "INITIATED" THEN [status EXCEPT ![t] = "COMPLETED"] ELSE status
  /\ page' = IF page.of # t \/ ~page.connects THEN page
             ELSE IF page.stream = p
             THEN [page EXCEPT !.shown = "COMPLETED", !.connects = FALSE, !.stream = Nowhere]
             ELSE [page EXCEPT !.missed = TRUE]

View ==
  \/ Leaves \/ Loads \/ LoadFails \/ StreamEnds \/ Refused
  \/ \E t \in PageTransfers : Opens(t)
  \/ \E p \in Processes : Connects(p)

-----------------------------------------------------------------------------
PageTypeOK == status \in [PageTransfers -> Statuses] /\ page \in Shown
=============================================================================
