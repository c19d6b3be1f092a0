---------------------------- MODULE ViewsProofs ----------------------------
(* Proofs about CustomerViews and the protocols it is made of, for any      *)
(* number of transfers, calls and processes, any page size and any filters. *)
EXTENDS CustomerViews, FiniteSetTheorems, WellFoundedInduction, TLAPS

-----------------------------------------------------------------------------
(* Numbers.                                                                 *)

Before == {s \in Nat \X Nat : s[1] < s[2]}

LEMMA BeforeIsWellFounded == IsWellFoundedOn(Before, Nat)
BY NatLessThanWellFounded, SMT DEF OpToRel, Before

LEMMA Least ==
  ASSUME NEW S \in SUBSET Nat, S # {}
  PROVE  \E x \in S : \A y \in S : x <= y
<1>1. S \subseteq Nat
  OBVIOUS
<1>2. PICK x \in S : \A y \in S : <<y, x>> \notin Before
  BY <1>1, BeforeIsWellFounded, WFMin
<1>3. \A y \in S : x \in Nat /\ y \in Nat /\ ~(y < x)
  BY <1>1, <1>2 DEF Before
<1>. QED
  BY <1>3

Newer(S, t) == {u \in S : u > t}

LEMMA FewerNewer ==
  ASSUME NEW S \in SUBSET Nat, IsFiniteSet(S), NEW t \in S
  PROVE  /\ IsFiniteSet(Newer(S, t)) /\ Cardinality(Newer(S, t)) \in Nat
         /\ Cardinality(Newer(S, t)) < Cardinality(S)
         /\ \A u \in S : u >= t => Cardinality(Newer(S, u)) <= Cardinality(Newer(S, t))
<1>1. IsFiniteSet(Newer(S, t)) /\ Cardinality(Newer(S, t)) \in Nat /\ Cardinality(S) \in Nat
  BY FS_Subset, FS_CardinalityType DEF Newer
<1>2. Cardinality(Newer(S, t)) <= Cardinality(S) /\ Cardinality(S) # Cardinality(Newer(S, t))
  BY FS_Subset DEF Newer
<1>3. ASSUME NEW u \in S, u >= t
      PROVE  Cardinality(Newer(S, u)) <= Cardinality(Newer(S, t))
  <2>1. \A w \in S : w > u => w > t
    BY <1>3
  <2>2. Newer(S, u) \subseteq Newer(S, t)
    BY <2>1, Zenon DEF Newer
  <2>. QED
    BY <1>1, <2>2, FS_Subset
<1>. QED
  BY <1>1, <1>2, <1>3

LEMMA Greatest ==
  ASSUME NEW S \in SUBSET Nat, IsFiniteSet(S), S # {}
  PROVE  \E x \in S : \A y \in S : y <= x
<1>. DEFINE Counts == {Cardinality(Newer(S, t)) : t \in S}
<1>1. Counts \in SUBSET Nat /\ Counts # {}
  BY FewerNewer
<1>2. PICK n \in Counts : \A m \in Counts : n <= m
  BY <1>1, Least
<1>3. PICK x \in S : n = Cardinality(Newer(S, x))
  OBVIOUS
<1>4. ASSUME NEW y \in S, ~(y <= x)
      PROVE  FALSE
  <2>1. y \in Newer(S, x) /\ y \notin Newer(S, y)
    BY <1>4 DEF Newer
  <2>2. Newer(S, y) \subseteq Newer(S, x)
    <3>1. \A w \in S : w > y => w > x
      BY <1>4
    <3>. QED
      BY <3>1, Zenon DEF Newer
  <2>3. Cardinality(Newer(S, y)) <= Cardinality(Newer(S, x))
    BY <1>4, FewerNewer
  <2>4. Cardinality(Newer(S, y)) # Cardinality(Newer(S, x))
    BY <2>1, <2>2, FewerNewer, FS_Subset
  <2>5. Cardinality(Newer(S, y)) \in Counts
    OBVIOUS
  <2>. QED
    BY <1>2, <1>3, <2>3, <2>4, <2>5, FewerNewer
<1>. QED
  BY <1>4

-----------------------------------------------------------------------------
(* The wallets.                                                             *)

OneOpening ==
  /\ WalletsTypeOK
  /\ ~together => /\ wallets <= 1
                  /\ wallets = 1 => \A o \in Openings : opening[o] = 0
                  /\ \A o, p \in Openings : opening[o] > 0 /\ opening[p] > 0 => o = p

LEMMA WalletsStart == WalletsInit => OneOpening
<1>. SUFFICES ASSUME WalletsInit
              PROVE  OneOpening
  OBVIOUS
<1>1. opening \in [Openings -> 0 .. MaxAttempts] /\ wallets = 0 /\ \A o \in Openings : opening[o] = 0
  BY AttemptsAssumption DEF WalletsInit
<1>2. together \in BOOLEAN
  BY Zenon DEF WalletsInit
<1>. QED
  BY <1>1, <1>2 DEF OneOpening, WalletsTypeOK

LEMMA WalletsStep == OneOpening /\ [WalletsNext]_<<wallets, opening, together>> => OneOpening'
<1>. SUFFICES ASSUME OneOpening, [WalletsNext]_<<wallets, opening, together>>
              PROVE  OneOpening'
  OBVIOUS
<1>. USE AttemptsAssumption DEF OneOpening, WalletsTypeOK
<1>0. Pending # {} <=> \E o \in Openings : opening[o] > 0
  BY DEF Pending
<1>1. ASSUME NEW o \in Openings, FindsNone(o)
      PROVE  OneOpening'
  <2>1. /\ opening[o] = 0 /\ wallets = 0 /\ wallets' = 0
        /\ opening' = [opening EXCEPT ![o] = MaxAttempts]
    BY <1>1 DEF FindsNone
  <2>2. /\ together' \in BOOLEAN
        /\ ~together' => ~together /\ ~\E p \in Openings : opening[p] > 0
    BY <1>0, <1>1, Zenon DEF FindsNone
  <2>3. opening' \in [Openings -> 0 .. MaxAttempts]
    BY <2>1
  <2>. QED
    BY <2>1, <2>2, <2>3
<1>2. ASSUME NEW o \in Openings, CreatesWallet(o)
      PROVE  OneOpening'
  BY <1>2 DEF CreatesWallet, Pending
<1>3. ASSUME NEW o \in Openings, Collides(o)
      PROVE  OneOpening'
  BY <1>3 DEF Collides, Pending
<1>4. ASSUME NEW o \in Openings, CreateFails(o)
      PROVE  OneOpening'
  BY <1>4 DEF CreateFails, Pending
<1>5. CASE UNCHANGED <<wallets, opening, together>>
  BY <1>5
<1>. QED
  BY <1>1, <1>2, <1>3, <1>4, <1>5 DEF WalletsNext, CreateWallet

LEMMA OneOpeningSuffices == OneOpening => OneWallet
BY DEF OneOpening, OneWallet, WalletsTypeOK

(* createWallet alone: a user gets a second wallet of a currency only by    *)
(* two calls at the same time, however many calls and attempts there are.   *)
THEOREM WalletsAlone == WalletsSpec => []OneWallet
<1>1. WalletsSpec => []OneOpening
  BY WalletsStart, WalletsStep, PTL DEF WalletsSpec
<1>. QED
  BY <1>1, OneOpeningSuffices, PTL

-----------------------------------------------------------------------------
(* The exports.                                                             *)

(* What a running export has to write lies before its cursor.               *)
Behind == export.cursor = NoCursor => export.written = {}
Ahead  == /\ \A t \in export.written : export.cursor # NoCursor => export.cursor <= t
          /\ \A t \in export.wanted : export.cursor # NoCursor /\ export.cursor <= t
                                       => t \in export.written

ExportInv ==
  /\ ExportTypeOK
  /\ export.at # "idle" => export.wanted \subseteq rows \cap export.filter
  /\ export.at = "paging" => export.more
  /\ export.at \in {"paging", "waits"} /\ export.more => Behind /\ Ahead
  /\ export.at = "waits" /\ ~export.more => export.wanted \subseteq export.written
  /\ ExportIsComplete

LEMMA LeftFacts ==
  ASSUME ExportTypeOK
  PROVE  /\ Left \in SUBSET Nat /\ Left \subseteq Rows /\ IsFiniteSet(Left)
         /\ Page \subseteq Left
         /\ \A t \in Left : Newer(Left, t) = {u \in Left : u > t}
<1>1. Left \subseteq Rows
  BY DEF Left, ExportTypeOK
<1>2. Left \in SUBSET Nat /\ IsFiniteSet(Left)
  BY <1>1, RowsAssumption, FS_Subset
<1>. QED
  BY <1>1, <1>2, Zenon DEF Page, Newer

(* A page has all that is newer than its last row, and is not empty while   *)
(* anything is left.                                                        *)
LEMMA PageFacts ==
  ASSUME ExportTypeOK
  PROVE  /\ \A t \in Page : \A u \in Left : t <= u => u \in Page
         /\ Left # {} => Page # {}
         /\ ~(Cardinality(Left) > PageSize) => Page = Left
         /\ Cardinality(Left) > PageSize => Left # {}
<1>. USE LeftFacts, PageAssumption
<1>0. \A t \in Left : t \in Page <=> Cardinality(Newer(Left, t)) < PageSize
  BY Zenon DEF Page, Newer
<1>1. ASSUME NEW t \in Page, NEW u \in Left, t <= u
      PROVE  u \in Page
  <2>1. /\ Cardinality(Newer(Left, u)) <= Cardinality(Newer(Left, t))
        /\ Cardinality(Newer(Left, t)) \in Nat /\ Cardinality(Newer(Left, u)) \in Nat
    BY <1>1, FewerNewer
  <2>2. Cardinality(Newer(Left, t)) < PageSize
    BY <1>0
  <2>. QED
    BY <1>0, <2>1, <2>2
<1>2. ASSUME Left # {}
      PROVE  Page # {}
  <2>1. PICK t \in Left : \A u \in Left : u <= t
    BY <1>2, Greatest
  <2>2. Newer(Left, t) = {}
    BY <2>1 DEF Newer
  <2>3. Cardinality(Newer(Left, t)) = 0
    BY <2>2, FS_EmptySet
  <2>. QED
    BY <1>0, <2>3
<1>3. ASSUME ~(Cardinality(Left) > PageSize), NEW t \in Left
      PROVE  t \in Page
  <2>1. /\ Cardinality(Newer(Left, t)) < Cardinality(Left)
        /\ Cardinality(Newer(Left, t)) \in Nat
    BY FewerNewer
  <2>2. Cardinality(Left) \in Nat
    BY FS_CardinalityType
  <2>. QED
    BY <1>0, <1>3, <2>1, <2>2
<1>4. Cardinality(Left) > PageSize => Left # {}
  BY FS_EmptySet
<1>. QED
  BY <1>1, <1>2, <1>3, <1>4

LEMMA LastOfPage ==
  ASSUME ExportTypeOK, Left # {}
  PROVE  LastOf(Page) \in Page /\ \A u \in Page : LastOf(Page) <= u
<1>1. Page \in SUBSET Nat /\ Page # {}
  BY LeftFacts, PageFacts
<1>2. \E t \in Page : \A u \in Page : t <= u
  BY <1>1, Least
<1>. QED
  BY <1>2 DEF LastOf

LEMMA WritesMore ==
  ASSUME ExportInv, WritesPage, Cardinality(Left) > PageSize
  PROVE  ExportInv'
<1>. DEFINE last == LastOf(Page)
<1>0. ExportTypeOK /\ export \in Export /\ rows \subseteq Rows
  BY DEF ExportInv, ExportTypeOK
<1>1. Left # {} /\ last \in Page /\ (\A u \in Page : last <= u) /\ Page \subseteq Left /\ last \in Rows
  BY <1>0, PageFacts, LastOfPage, LeftFacts
<1>2. /\ export' = [export EXCEPT !.at = "waits", !.written = @ \cup Page, !.cursor = last]
      /\ rows' = rows /\ export.at = "paging"
  BY DEF WritesPage
<1>. HIDE DEF last
<1>3. /\ export'.at = "waits" /\ export'.written = export.written \cup Page
      /\ export'.cursor = last /\ export'.wanted = export.wanted
      /\ export'.filter = export.filter /\ export'.more = export.more /\ export' \in Export
  BY <1>0, <1>1, <1>2, LeftFacts DEF Export
<1>4. Behind /\ Ahead /\ export.more /\ export.wanted \subseteq rows \cap export.filter
  BY <1>2, Zenon DEF ExportInv
<1>5. /\ Rows \subseteq Nat /\ export.written \subseteq Rows /\ export.wanted \subseteq Rows
      /\ export.cursor \in Rows \cup {NoCursor} /\ last # NoCursor /\ last \in Nat
  <2>1. Rows \subseteq Nat
    BY RowsAssumption
  <2>2. /\ export.written \subseteq Rows /\ export.wanted \subseteq Rows
        /\ export.cursor \in Rows \cup {NoCursor}
    BY <1>0 DEF Export
  <2>3. last \in Nat /\ last # NoCursor
    BY <1>1, <2>1 DEF NoCursor
  <2>. QED
    BY <2>1, <2>2, <2>3
<1>6. Ahead'
  <2>1. ASSUME NEW t \in export.written
        PROVE  last <= t
    <3>1. export.cursor # NoCursor /\ export.cursor <= t
      BY <1>4, <1>5 DEF Behind, Ahead
    <3>2. last < export.cursor
      BY <1>1, <3>1 DEF Left
    <3>3. t \in Nat /\ export.cursor \in Nat /\ last \in Nat
      BY <1>5, <3>1
    <3>. QED
      BY <3>1, <3>2, <3>3
  <2>2. ASSUME NEW t \in export.wanted, last <= t
        PROVE  t \in export.written \cup Page
    <3>1. CASE t \in Left
      BY <1>0, <1>1, <2>2, <3>1, PageFacts
    <3>2. CASE t \notin Left
      <4>1. export.cursor # NoCursor /\ ~(t < export.cursor)
        BY <1>4, <3>2 DEF Left
      <4>2. t \in Nat /\ export.cursor \in Nat
        BY <1>5, <4>1
      <4>3. export.cursor <= t
        BY <4>1, <4>2
      <4>. QED
        BY <1>4, <4>1, <4>3 DEF Ahead
    <3>. QED
      BY <3>1, <3>2
  <2>. QED
    BY <1>1, <1>3, <2>1, <2>2 DEF Ahead
<1>. QED
  BY <1>0, <1>2, <1>3, <1>4, <1>5, <1>6 DEF ExportInv, ExportTypeOK, Behind, ExportIsComplete

LEMMA WritesLast ==
  ASSUME ExportInv, WritesPage, ~(Cardinality(Left) > PageSize)
  PROVE  ExportInv'
<1>0. ExportTypeOK /\ export \in Export /\ rows \subseteq Rows
  BY DEF ExportInv, ExportTypeOK
<1>1. Page = Left /\ Left \subseteq Rows
  BY <1>0, PageFacts, LeftFacts
<1>2. /\ export' = [export EXCEPT !.at = "waits", !.written = @ \cup Page, !.more = FALSE]
      /\ rows' = rows /\ export.at = "paging"
  BY DEF WritesPage
<1>3. /\ export'.at = "waits" /\ export'.written = export.written \cup Left
      /\ export'.wanted = export.wanted /\ export'.filter = export.filter
      /\ export'.more = FALSE /\ export' \in Export
  BY <1>0, <1>1, <1>2 DEF Export
<1>4. Behind /\ Ahead /\ export.wanted \subseteq rows \cap export.filter
  BY <1>2, Zenon DEF ExportInv
<1>5. ASSUME NEW t \in export.wanted
      PROVE  t \in export.written \cup Left
  <2>1. CASE t \notin Left
    <3>1. export.cursor # NoCursor /\ ~(t < export.cursor)
      BY <1>4, <2>1 DEF Left
    <3>2. t \in Nat /\ export.cursor \in Nat
      BY <1>0, <1>4, <3>1, RowsAssumption DEF Export
    <3>. QED
      BY <1>4, <3>1, <3>2 DEF Ahead
  <2>. QED
    BY <2>1
<1>. QED
  BY <1>0, <1>2, <1>3, <1>4, <1>5 DEF ExportInv, ExportTypeOK, ExportIsComplete

LEMMA ExportStart == ExportInit => ExportInv
BY DEF ExportInit, ExportInv, ExportTypeOK, ExportIsComplete, NoExport, Export

LEMMA BeginsKeeps == ExportInv /\ Begins => ExportInv'
<1>. SUFFICES ASSUME ExportInv, Begins
              PROVE  ExportInv'
  OBVIOUS
<1>1. PICK filter \in Filters :
        export' = [NoExport EXCEPT !.at = "paging", !.filter = filter, !.wanted = rows \cap filter]
  BY DEF Begins
<1>2. rows' = rows /\ rows \subseteq Rows /\ filter \subseteq Rows
  BY RowsAssumption DEF Begins, ExportInv, ExportTypeOK
<1>3. export' = [at |-> "paging", filter |-> filter, cursor |-> NoCursor, more |-> TRUE,
                 written |-> {}, wanted |-> rows \cap filter]
  BY <1>1 DEF NoExport
<1>4. export' \in Export
  BY <1>2, <1>3 DEF Export
<1>. QED
  BY <1>2, <1>3, <1>4 DEF ExportInv, ExportTypeOK, Behind, Ahead, ExportIsComplete

LEMMA ExportStep == ExportInv /\ [ExportNext]_<<rows, export>> => ExportInv'
<1>. SUFFICES ASSUME ExportInv, [ExportNext]_<<rows, export>>
              PROVE  ExportInv'
  OBVIOUS
<1>0. rows \subseteq Rows /\ export \in Export
  BY DEF ExportInv, ExportTypeOK
<1>1. ASSUME NEW t \in Rows, Insert(t), UNCHANGED export
      PROVE  ExportInv'
  BY <1>0, <1>1 DEF Insert, ExportInv, ExportTypeOK, Behind, Ahead, ExportIsComplete
<1>2. CASE Begins
  BY <1>2, BeginsKeeps
<1>3. CASE WritesPage
  BY <1>3, WritesMore, WritesLast
<1>4. CASE Drains
  <2>1. /\ export' = [export EXCEPT !.at = IF export.more THEN "paging" ELSE "done"]
        /\ export.at = "waits" /\ rows' = rows
    BY <1>4 DEF Drains
  <2>2. CASE export.more
    <3>1. export' = [export EXCEPT !.at = "paging"]
      BY <2>1, <2>2
    <3>. QED
      BY <1>0, <2>1, <2>2, <3>1 DEF ExportInv, ExportTypeOK, Export, Behind, Ahead, ExportIsComplete
  <2>3. CASE ~export.more
    <3>1. export' = [export EXCEPT !.at = "done"]
      BY <2>1, <2>3
    <3>. QED
      BY <1>0, <2>1, <2>3, <3>1 DEF ExportInv, ExportTypeOK, Export, ExportIsComplete
  <2>. QED
    BY <2>2, <2>3
<1>5. CASE Stalls
  BY <1>0, <1>5 DEF Stalls, ExportInv, ExportTypeOK, Export, ExportIsComplete
<1>6. CASE Aborts
  BY <1>0, <1>6 DEF Aborts, NoExport, ExportInv, ExportTypeOK, Export, ExportIsComplete
<1>7. CASE UNCHANGED <<rows, export>>
  BY <1>7 DEF ExportInv, ExportTypeOK, Behind, Ahead, ExportIsComplete
<1>. QED
  BY <1>1, <1>2, <1>3, <1>4, <1>5, <1>6, <1>7 DEF ExportNext, ExportTransfers

LEMMA PageIsOlder ==
  ASSUME ExportInv, WritesPage, NEW t \in export.written, NEW u \in Page
  PROVE  u < t
<1>0. ExportTypeOK /\ export \in Export
  BY DEF ExportInv, ExportTypeOK
<1>1. Behind /\ Ahead
  BY Zenon DEF ExportInv, WritesPage
<1>2. export.cursor # NoCursor /\ export.cursor <= t
  BY <1>1 DEF Behind, Ahead
<1>3. u \in Left /\ u < export.cursor
  BY <1>0, <1>2, LeftFacts DEF Left
<1>4. u \in Nat /\ t \in Nat /\ export.cursor \in Nat
  BY <1>0, <1>2, <1>3, RowsAssumption, LeftFacts DEF Export
<1>. QED
  BY <1>2, <1>3, <1>4

(* An export alone, of any table, with any filter and any page size: when   *)
(* it is finished it has every row that was there when it began.            *)
THEOREM ExportAlone == ExportSpec => []ExportIsComplete
<1>1. ExportSpec => []ExportInv
  BY ExportStart, ExportStep, PTL DEF ExportSpec
<1>2. ExportInv => ExportIsComplete
  BY DEF ExportInv
<1>. QED
  BY <1>1, <1>2, PTL

(* Its pages go from the newest to the oldest, whatever is inserted.        *)
THEOREM PagesAlone == ExportSpec => PagesDescend
<1>1. ExportSpec => []ExportInv
  BY ExportStart, ExportStep, PTL DEF ExportSpec
<1>2. ExportInv => [WritesPage => \A t \in export.written, u \in Page : u < t]_<<rows, export>>
  BY PageIsOlder
<1>. QED
  BY <1>1, <1>2, PTL DEF PagesDescend

-----------------------------------------------------------------------------
(* The balance.                                                             *)

(* The sums of a call that no posting has crossed are those of the journal. *)
BalanceInv ==
  /\ BalanceTypeOK
  /\ \A r \in Reads : reading[r].at = "idle" =>
       reading[r].credits = NotRead /\ reading[r].debits = NotRead /\ ~reading[r].crossed
  /\ \A r \in Reads : ~reading[r].crossed =>
       /\ reading[r].credits # NotRead => reading[r].credits = Credits(posted)
       /\ reading[r].debits # NotRead => reading[r].debits = Debits(posted)
  /\ BalanceExplained

LEMMA SumsAreNat ==
  ASSUME posted \subseteq Transfers
  PROVE  Credits(posted) \in Nat /\ Debits(posted) \in Nat
<1>1. IsFiniteSet(posted)
  BY TransfersAssumption, FS_Subset
<1>2. IsFiniteSet(posted \cap Incoming) /\ IsFiniteSet(posted \ Incoming)
  BY <1>1, FS_Subset
<1>. QED
  BY <1>2, FS_CardinalityType DEF Credits, Debits

LEMMA NoReadingTyped == NoReading \in Reading /\ NoEntry \in Entry
BY DEF NoReading, Reading, NotRead, Sums, NoEntry, Entry

LEMMA BalanceStart == BalanceInit => BalanceInv
BY NoReadingTyped DEF BalanceInit, BalanceInv, BalanceTypeOK, BalanceExplained, NoReading, NoEntry

LEMMA GetBalanceKeeps ==
  ASSUME BalanceInv, NEW r \in Reads, GetBalance(r)
  PROVE  BalanceInv'
<1>. USE DEF NotRead, Sums
<1>0. /\ posted \subseteq Transfers /\ dirty \subseteq posted
      /\ entry \in Entry /\ reading \in [Reads -> Reading]
      /\ Credits(posted) \in Nat /\ Debits(posted) \in Nat
  BY SumsAreNat DEF BalanceInv, BalanceTypeOK
<1>1. CASE MissesEntry(r)
  <2>1. /\ reading' = [reading EXCEPT ![r].at = "sums"] /\ reading[r].at = "idle"
        /\ UNCHANGED <<posted, dirty, entry>>
    BY <1>1 DEF MissesEntry
  <2>2. reading' \in [Reads -> Reading]
    BY <1>0, <2>1 DEF Reading
  <2>. QED
    BY <1>0, <2>1, <2>2 DEF BalanceInv, BalanceTypeOK, BalanceExplained, Reading, Credits, Debits, Balance
<1>2. CASE SumsCredits(r)
  <2>1. /\ reading' = [reading EXCEPT ![r].credits = Credits(posted)] /\ reading[r].at = "sums"
        /\ UNCHANGED <<posted, dirty, entry>>
    BY <1>2 DEF SumsCredits
  <2>2. reading' \in [Reads -> Reading]
    BY <1>0, <2>1 DEF Reading
  <2>. QED
    BY <1>0, <2>1, <2>2 DEF BalanceInv, BalanceTypeOK, BalanceExplained, Reading, Credits, Debits, Balance
<1>3. CASE SumsDebits(r)
  <2>1. /\ reading' = [reading EXCEPT ![r].debits = Debits(posted)] /\ reading[r].at = "sums"
        /\ UNCHANGED <<posted, dirty, entry>>
    BY <1>3 DEF SumsDebits
  <2>2. reading' \in [Reads -> Reading]
    BY <1>0, <2>1 DEF Reading
  <2>. QED
    BY <1>0, <2>1, <2>2 DEF BalanceInv, BalanceTypeOK, BalanceExplained, Reading, Credits, Debits, Balance
<1>4. CASE Stores(r)
  <2>1. /\ reading[r].credits # NotRead /\ reading[r].debits # NotRead
        /\ entry' = [known |-> TRUE, amount |-> reading[r].credits - reading[r].debits,
                     excused |-> reading[r].crossed]
        /\ reading' = [reading EXCEPT ![r] = NoReading]
        /\ posted' = posted /\ dirty' = dirty
    BY <1>4 DEF Stores
  <2>2. reading[r].credits \in Nat /\ reading[r].debits \in Nat /\ reading[r].crossed \in BOOLEAN
    BY <1>0, <2>1 DEF Reading
  <2>3. entry' \in Entry /\ reading' \in [Reads -> Reading]
    BY <1>0, <2>1, <2>2, NoReadingTyped DEF Entry
  <2>4. BalanceExplained'
    <3>1. ~reading[r].crossed => entry'.amount = Balance
      BY <2>1 DEF BalanceInv, Balance
    <3>2. entry'.excused = reading[r].crossed /\ Balance' = Balance
      BY <2>1 DEF Balance, Credits, Debits
    <3>. QED
      BY <3>1, <3>2, Zenon DEF BalanceExplained
  <2>5. \A q \in Reads : reading'[q] = IF q = r THEN NoReading ELSE reading[q]
    BY <1>0, <2>1
  <2>. QED
    BY <1>0, <2>1, <2>3, <2>4, <2>5 DEF BalanceInv, BalanceTypeOK, NoReading, Credits, Debits
<1>5. CASE ReadFails(r)
  <2>1. reading' = [reading EXCEPT ![r] = NoReading] /\ UNCHANGED <<posted, dirty, entry>>
    BY <1>5 DEF ReadFails
  <2>2. reading' \in [Reads -> Reading]
    BY <1>0, <2>1, NoReadingTyped
  <2>3. \A q \in Reads : reading'[q] = IF q = r THEN NoReading ELSE reading[q]
    BY <1>0, <2>1
  <2>. QED
    BY <1>0, <2>1, <2>2, <2>3 DEF BalanceInv, BalanceTypeOK, BalanceExplained, NoReading, Credits, Debits, Balance
<1>. QED
  BY <1>1, <1>2, <1>3, <1>4, <1>5 DEF GetBalance

LEMMA PostsKeeps ==
  ASSUME BalanceInv, NEW t \in Transfers, Posts(t)
  PROVE  BalanceInv'
<1>0. /\ posted \subseteq Transfers /\ dirty \subseteq posted
      /\ entry \in Entry /\ reading \in [Reads -> Reading]
  BY DEF BalanceInv, BalanceTypeOK
<1>1. /\ posted' = posted \cup {t} /\ dirty' = dirty \cup {t} /\ entry' = entry
      /\ reading' = [r \in Reads |->
           [reading[r] EXCEPT !.crossed = \/ @ \/ reading[r].credits # NotRead
                                          \/ reading[r].debits # NotRead]]
  BY DEF Posts
<1>2. ASSUME NEW r \in Reads
      PROVE  /\ reading'[r] \in Reading
             /\ reading'[r].at = "idle" =>
                  reading'[r].credits = NotRead /\ reading'[r].debits = NotRead /\ ~reading'[r].crossed
             /\ ~reading'[r].crossed => reading'[r].credits = NotRead /\ reading'[r].debits = NotRead
  <2>1. reading[r] \in Reading
    BY <1>0
  <2>2. PICK c \in BOOLEAN :
          /\ c = (\/ reading[r].crossed \/ reading[r].credits # NotRead
                                        \/ reading[r].debits # NotRead)
          /\ reading'[r] = [reading[r] EXCEPT !.crossed = c]
    BY <1>1, Zenon
  <2>3. /\ reading'[r].at = reading[r].at /\ reading'[r].credits = reading[r].credits
        /\ reading'[r].debits = reading[r].debits /\ reading'[r].crossed = c
        /\ reading'[r] \in Reading
    BY <2>1, <2>2 DEF Reading
  <2>4. ~c => reading[r].credits = NotRead /\ reading[r].debits = NotRead
    BY <2>2, Zenon
  <2>5. reading[r].at = "idle" =>
          reading[r].credits = NotRead /\ reading[r].debits = NotRead /\ ~c
    BY <2>2, Zenon DEF BalanceInv
  <2>. QED
    BY <2>3, <2>4, <2>5
<1>3. reading' \in [Reads -> Reading]
  BY <1>1, <1>2
<1>4. BalanceExplained' /\ posted' \subseteq Transfers /\ dirty' \subseteq posted'
  BY <1>0, <1>1, Zenon DEF BalanceExplained
<1>. QED
  BY <1>0, <1>1, <1>2, <1>3, <1>4 DEF BalanceInv, BalanceTypeOK

LEMMA InvalidatesKeeps ==
  ASSUME BalanceInv, NEW t \in Transfers, Invalidates(t) \/ NeverInvalidates(t)
  PROVE  BalanceInv'
<1>0. posted \subseteq Transfers /\ dirty \subseteq posted /\ entry \in Entry
  BY DEF BalanceInv, BalanceTypeOK
<1>1. posted' = posted /\ reading' = reading /\ dirty' \subseteq dirty
  BY DEF Invalidates, NeverInvalidates
<1>2. entry' \in Entry /\ BalanceExplained'
  <2>1. CASE Invalidates(t)
    <3>1. entry' = NoEntry /\ ~NoEntry.known
      BY <2>1 DEF Invalidates, NoEntry
    <3>. QED
      BY <3>1, NoReadingTyped, Zenon DEF BalanceExplained
  <2>2. CASE NeverInvalidates(t)
    <3>1. entry' = IF entry.known THEN [entry EXCEPT !.excused = TRUE] ELSE entry
      BY <2>2 DEF NeverInvalidates
    <3>2. entry' \in Entry /\ (entry'.known => entry'.excused)
      BY <1>0, <3>1 DEF Entry
    <3>. QED
      BY <3>2, Zenon DEF BalanceExplained
  <2>. QED
    BY <2>1, <2>2
<1>. QED
  BY <1>0, <1>1, <1>2 DEF BalanceInv, BalanceTypeOK

LEMMA BalanceStep == BalanceInv /\ [BalanceNext]_balances => BalanceInv'
<1>. SUFFICES ASSUME BalanceInv, [BalanceNext]_balances
              PROVE  BalanceInv'
  OBVIOUS
<1>1. ASSUME NEW r \in Reads, GetBalance(r)
      PROVE  BalanceInv'
  BY <1>1, GetBalanceKeeps
<1>2. ASSUME NEW t \in Transfers, Posts(t)
      PROVE  BalanceInv'
  BY <1>2, PostsKeeps
<1>3. ASSUME NEW t \in Transfers, Invalidates(t) \/ NeverInvalidates(t)
      PROVE  BalanceInv'
  BY <1>3, InvalidatesKeeps
<1>4. CASE EntryExpires
  BY <1>4, NoReadingTyped DEF EntryExpires, BalanceInv, BalanceTypeOK, BalanceExplained, NoEntry
<1>5. CASE UNCHANGED balances
  BY <1>5 DEF balances, BalanceInv, BalanceTypeOK, BalanceExplained, Balance
<1>. QED
  BY <1>1, <1>2, <1>3, <1>4, <1>5 DEF BalanceNext

(* The cache alone, of any number of transfers and calls: what it holds is  *)
(* the balance of the journal unless a posting explains the difference.     *)
THEOREM CacheAlone == BalanceSpec => []BalanceExplained
<1>1. BalanceSpec => []BalanceInv
  BY BalanceStart, BalanceStep, PTL DEF BalanceSpec
<1>2. BalanceInv => BalanceExplained
  BY DEF BalanceInv
<1>. QED
  BY <1>1, <1>2, PTL

-----------------------------------------------------------------------------
(* The page and the consumers.                                              *)

(* What the stage of a transfer says of its status and of the journal.      *)
StageInv(t) ==
  /\ status[t] = "COMPLETED" => t \in posted
  /\ status[t] = "FAILED" => t \in lost /\ work[t] = "over"
  /\ work[t] \in {"status", "invalidate", "publish", "emit", "again"} => t \in posted
  /\ work[t] = "over" /\ t \notin lost => status[t] \in Terminal

ListensInv ==
  /\ page.connects => page.at = "shown" /\ page.shown = "INITIATED"
  /\ page.stream # Nowhere => page.connects
  /\ page.at = "shown" /\ page.shown = "INITIATED" => page.connects \/ page.missed

PageInv ==
  /\ PageTypeOK /\ work \in [Transfers -> Stages] /\ lost \subseteq Transfers
  /\ posted \subseteq Transfers
  /\ \A t \in Transfers : StageInv(t)
  /\ ListensInv /\ ShownIsTrue /\ WaitIsExplained

LEMMA PageStart == Init => PageInv
<1>. SUFFICES ASSUME Init
              PROVE  PageInv
  OBVIOUS
<1>. USE OneSetOfTransfers
<1>1. PICK t \in PageTransfers : page = [PageOf(t) EXCEPT !.at = "none"]
  BY DEF Init, PageInit
<1>2. page = [at |-> "none", of |-> t, shown |-> "INITIATED",
              connects |-> FALSE, stream |-> Nowhere, missed |-> FALSE]
  BY <1>1 DEF PageOf
<1>3. page \in Shown
  BY <1>2 DEF Shown, Statuses
<1>. QED
  BY <1>2, <1>3 DEF Init, PageInit, BalanceInit, PageInv, PageTypeOK, Statuses, Stages, StageInv,
                    ListensInv, ShownIsTrue, WaitIsExplained

(* Steps of the consumers that leave the table's statuses alone.            *)
LEMMA MovesKeeps ==
  ASSUME PageInv, UNCHANGED <<status, page>>, NEW t \in Transfers,
         \/ Create(t) \/ Post(t) \/ Invalidate(t) \/ Publish(t) \/ Stop(t) \/ StopNotice(t)
  PROVE  PageInv'
<1>. USE DEF Moves, Stages
<1>0. work \in [Transfers -> Stages] /\ posted \subseteq Transfers /\ lost \subseteq Transfers
  BY DEF PageInv
<1>1. /\ posted \subseteq posted' /\ posted' \subseteq Transfers
      /\ lost \subseteq lost' /\ lost' \subseteq Transfers
      /\ \E new \in Stages \ {"over"} :
           /\ work' = [work EXCEPT ![t] = new]
           /\ new \in {"status", "invalidate", "publish", "emit", "again"} => t \in posted'
      /\ work[t] # "over"
  <2>1. CASE Create(t)
    <3>1. /\ work[t] = "none" /\ work' = [work EXCEPT ![t] = "post"]
          /\ posted' = posted /\ lost' = lost
      BY <2>1, Zenon DEF Create, balances
    <3>2. /\ "post" \in Stages \ {"over"}
          /\ "post" \notin {"status", "invalidate", "publish", "emit", "again"}
      OBVIOUS
    <3>3. /\ posted \subseteq posted' /\ posted' \subseteq Transfers
          /\ lost \subseteq lost' /\ lost' \subseteq Transfers /\ work[t] # "over"
      BY <1>0, <3>1
    <3>. QED
      BY <3>1, <3>2, <3>3
  <2>2. CASE Post(t)
    BY <1>0, <2>2 DEF Post, Posts
  <2>3. CASE Invalidate(t)
    BY <1>0, <2>3 DEF Invalidate, Invalidates, PageInv, StageInv
  <2>4. CASE Publish(t)
    BY <1>0, <2>4 DEF Publish, balances, PageInv, StageInv
  <2>5. CASE Stop(t)
    <3>1. posted' = posted
      BY <2>5 DEF Stop, NeverInvalidates, balances
    <3>. QED
      BY <1>0, <2>5, <3>1 DEF Stop, PageInv, StageInv
  <2>6. CASE StopNotice(t)
    BY <1>0, <2>6 DEF StopNotice, balances, PageInv, StageInv
  <2>. QED
    BY <2>1, <2>2, <2>3, <2>4, <2>5, <2>6
<1>2. PICK new \in Stages \ {"over"} :
        /\ work' = [work EXCEPT ![t] = new]
        /\ new \in {"status", "invalidate", "publish", "emit", "again"} => t \in posted'
  BY <1>1
<1>3. work' \in [Transfers -> Stages] /\ \A u \in Transfers : work'[u] = IF u = t THEN new ELSE work[u]
  BY <1>0, <1>2
<1>4. \A u \in Transfers : StageInv(u)'
  BY <1>1, <1>2, <1>3 DEF PageInv, StageInv
<1>5. page.of \in Transfers
  BY OneSetOfTransfers DEF PageInv, PageTypeOK, Shown
<1>6. ShownIsTrue' /\ WaitIsExplained'
  BY <1>1, <1>3, <1>5 DEF PageInv, ShownIsTrue, WaitIsExplained
<1>. QED
  BY <1>1, <1>3, <1>4, <1>6 DEF PageInv, PageTypeOK, ListensInv

LEMMA FailKeeps ==
  ASSUME PageInv, NEW t \in Transfers, Fail(t)
  PROVE  PageInv'
<1>. USE DEF Moves, Stages, Becomes, Statuses
<1>0. /\ work \in [Transfers -> Stages] /\ status \in [Transfers -> Statuses]
      /\ page.of \in Transfers
  BY OneSetOfTransfers DEF PageInv, PageTypeOK, Shown
<1>1. /\ work' = [work EXCEPT ![t] = "over"] /\ status' = [status EXCEPT ![t] = "FAILED"]
      /\ lost' = lost \cup {t} /\ posted' = posted /\ page' = page
  BY DEF Fail, balances
<1>2. \A u \in Transfers : StageInv(u)'
  BY <1>0, <1>1 DEF PageInv, StageInv, Terminal
<1>3. work' \in [Transfers -> Stages] /\ PageTypeOK'
  BY <1>0, <1>1, OneSetOfTransfers DEF PageInv, PageTypeOK
<1>4. ShownIsTrue' /\ WaitIsExplained'
  BY <1>0, <1>1 DEF PageInv, ShownIsTrue, WaitIsExplained
<1>. QED
  BY <1>1, <1>2, <1>3, <1>4 DEF PageInv, ListensInv

LEMMA CompleteKeeps ==
  ASSUME PageInv, NEW t \in Transfers, Complete(t)
  PROVE  PageInv'
<1>. USE DEF Moves, Stages, Becomes, Statuses
<1>0. /\ work \in [Transfers -> Stages] /\ status \in [Transfers -> Statuses]
      /\ page.of \in Transfers
  BY OneSetOfTransfers DEF PageInv, PageTypeOK, Shown
<1>1. /\ work' = [work EXCEPT ![t] = "invalidate"] /\ status' = [status EXCEPT ![t] = "COMPLETED"]
      /\ work[t] = "status" /\ lost' = lost /\ posted' = posted /\ page' = page
  BY DEF Complete, balances
<1>2. \A u \in Transfers : StageInv(u)'
  BY <1>0, <1>1 DEF PageInv, StageInv, Terminal
<1>3. work' \in [Transfers -> Stages] /\ PageTypeOK'
  BY <1>0, <1>1, OneSetOfTransfers DEF PageInv, PageTypeOK
<1>4. ShownIsTrue' /\ WaitIsExplained'
  BY <1>0, <1>1 DEF PageInv, ShownIsTrue, WaitIsExplained
<1>. QED
  BY <1>1, <1>2, <1>3, <1>4 DEF PageInv, ListensInv

LEMMA EmitKeeps ==
  ASSUME PageInv, NEW t \in Transfers, NEW p \in Processes, Emit(t, p)
  PROVE  PageInv'
<1>. USE DEF Stages, Statuses
<1>0. /\ work \in [Transfers -> Stages] /\ status \in [Transfers -> Statuses]
      /\ page \in Shown /\ page.of \in Transfers /\ work[t] = "emit" /\ t \in posted
  BY OneSetOfTransfers DEF PageInv, PageTypeOK, Shown, Emit, Moves, StageInv
<1>1. /\ lost' = lost /\ posted' = posted /\ work' \in [Transfers -> Stages]
      /\ \A u \in Transfers : u # t => work'[u] = work[u]
      /\ work'[t] \in {"emit", "over"}
  BY <1>0 DEF Emit, Moves, balances
<1>2. /\ status' \in [Transfers -> Statuses]
      /\ \A u \in Transfers : u # t => status'[u] = status[u]
      /\ status'[t] = "COMPLETED"
  BY <1>0 DEF Emit, Emits, PageInv, StageInv
<1>3. \A u \in Transfers : StageInv(u)'
  BY <1>0, <1>1, <1>2 DEF PageInv, StageInv, Terminal
<1>4. /\ page' \in Shown /\ ListensInv' /\ ShownIsTrue' /\ WaitIsExplained'
  <2>1. CASE page.of # t \/ ~page.connects
    <3>1. page' = page
      BY <2>1 DEF Emit, Emits
    <3>2. page.at = "shown" /\ page.shown = "INITIATED" /\ page.of = t => page.missed
      BY <2>1, Zenon DEF PageInv, ListensInv
    <3>3. page'.at = "shown" => page'.shown # "FAILED" \/ page'.of # t
      BY <1>0, <3>1 DEF PageInv, ShownIsTrue
    <3>4. ListensInv' /\ page' \in Shown
      BY <1>0, <3>1 DEF PageInv, ListensInv
    <3>5. ShownIsTrue' /\ WaitIsExplained'
      BY <1>0, <1>1, <3>1, <3>2, <3>3 DEF PageInv, ShownIsTrue, WaitIsExplained
    <3>. QED
      BY <3>4, <3>5
  <2>2. CASE page.of = t /\ page.connects /\ page.stream = p
    <3>1. page' = [page EXCEPT !.shown = "COMPLETED", !.connects = FALSE, !.stream = Nowhere]
      BY <2>2 DEF Emit, Emits
    <3>2. /\ page' \in Shown /\ page'.of = t /\ page'.shown = "COMPLETED" /\ page'.at = page.at
          /\ ~page'.connects /\ page'.stream = Nowhere
      BY <1>0, <2>2, <3>1 DEF Shown
    <3>. QED
      BY <1>0, <1>1, <3>2 DEF ListensInv, ShownIsTrue, WaitIsExplained
  <2>3. CASE page.of = t /\ page.connects /\ page.stream # p
    <3>1. page' = [page EXCEPT !.missed = TRUE]
      BY <2>3 DEF Emit, Emits
    <3>2. /\ page' \in Shown /\ page'.of = t /\ page'.shown = page.shown /\ page'.at = page.at
          /\ page'.connects = page.connects /\ page'.stream = page.stream /\ page'.missed
      BY <1>0, <2>3, <3>1 DEF Shown
    <3>3. page.at = "shown" /\ page.shown = "INITIATED"
      BY <2>3 DEF PageInv, ListensInv
    <3>. QED
      BY <1>0, <1>1, <3>2, <3>3 DEF PageInv, ListensInv, ShownIsTrue, WaitIsExplained
  <2>. QED
    BY <2>1, <2>2, <2>3
<1>. QED
  BY <1>0, <1>1, <1>2, <1>3, <1>4, OneSetOfTransfers DEF PageInv, PageTypeOK

LEMMA BrowseKeeps ==
  ASSUME PageInv, Browse
  PROVE  PageInv'
<1>. USE DEF Statuses
<1>0. /\ page \in Shown /\ page.of \in Transfers /\ status \in [Transfers -> Statuses]
  BY OneSetOfTransfers DEF PageInv, PageTypeOK, Shown
<1>1. UNCHANGED <<posted, work, lost, status>>
  BY Zenon DEF Browse, balances, View, Leaves, Loads, LoadFails, StreamEnds, Refused, Opens, Connects
<1>2. page' \in Shown /\ ListensInv' /\ ShownIsTrue' /\ WaitIsExplained'
  <2>1. ASSUME NEW t \in PageTransfers, page' = PageOf(t) \/ page' = [PageOf(t) EXCEPT !.at = "none"]
        PROVE  page' \in Shown /\ page'.at # "shown" /\ ~page'.connects /\ page'.stream = Nowhere
    <3>1. /\ PageOf(t) \in Shown /\ PageOf(t).at = "loading"
          /\ PageOf(t).connects = FALSE /\ PageOf(t).stream = Nowhere
      BY DEF PageOf, Shown
    <3>. QED
      BY <2>1, <3>1 DEF Shown
  <2>2. CASE Leaves \/ \E t \in PageTransfers : Opens(t)
    <3>1. page' \in Shown /\ page'.at # "shown" /\ ~page'.connects /\ page'.stream = Nowhere
      BY <1>0, <2>1, <2>2, OneSetOfTransfers DEF Leaves, Opens
    <3>. QED
      BY <3>1 DEF ListensInv, ShownIsTrue, WaitIsExplained
  <2>3. CASE Loads
    <3>0. status[page.of] \in Statuses
      BY <1>0
    <3>1. PICK c \in BOOLEAN :
            /\ c <=> status[page.of] \notin Terminal
            /\ page' = [page EXCEPT !.at = "shown", !.shown = status[page.of], !.connects = c]
      BY <2>3, Zenon DEF Loads
    <3>2. /\ page' \in Shown /\ page'.at = "shown" /\ page'.shown = status[page.of]
          /\ page'.connects = c /\ page'.stream = page.stream /\ page'.of = page.of
      BY <1>0, <3>0, <3>1 DEF Shown
    <3>3. page.stream = Nowhere
      BY <2>3 DEF Loads, PageInv, ListensInv
    <3>4. c <=> status[page.of] = "INITIATED"
      BY <3>0, <3>1 DEF Terminal
    <3>5. ListensInv'
      BY <3>2, <3>3, <3>4, Zenon DEF ListensInv
    <3>. QED
      BY <1>0, <1>1, <3>2, <3>5 DEF PageInv, StageInv, ShownIsTrue, WaitIsExplained, Terminal
  <2>4. CASE LoadFails
    <3>1. /\ page' = [page EXCEPT !.at = "error"] /\ page.at = "loading"
      BY <2>4 DEF LoadFails
    <3>. QED
      BY <1>0, <3>1 DEF Shown, PageInv, ListensInv, ShownIsTrue, WaitIsExplained
  <2>5. ASSUME NEW p \in Processes, Connects(p)
        PROVE  page' \in Shown /\ ListensInv' /\ ShownIsTrue' /\ WaitIsExplained'
    <3>1. page' = [page EXCEPT !.stream = p] /\ page.connects
      BY <2>5 DEF Connects
    <3>. QED
      BY <1>0, <1>1, <3>1 DEF Shown, PageInv, ListensInv, ShownIsTrue, WaitIsExplained
  <2>6. CASE StreamEnds
    <3>1. page' = [page EXCEPT !.stream = Nowhere]
      BY <2>6 DEF StreamEnds
    <3>. QED
      BY <1>0, <1>1, <3>1 DEF Shown, PageInv, ListensInv, ShownIsTrue, WaitIsExplained
  <2>7. CASE Refused
    <3>1. page' = [page EXCEPT !.connects = FALSE, !.missed = TRUE] /\ page.stream = Nowhere
      BY <2>7 DEF Refused
    <3>. QED
      BY <1>0, <1>1, <3>1 DEF Shown, PageInv, ListensInv, ShownIsTrue, WaitIsExplained
  <2>. QED
    BY <2>2, <2>3, <2>4, <2>5, <2>6, <2>7 DEF Browse, View
<1>3. PageTypeOK'
  BY <1>0, <1>1, <1>2, OneSetOfTransfers DEF PageTypeOK
<1>. QED
  BY <1>1, <1>2, <1>3, Zenon DEF PageInv, StageInv

LEMMA PageStep == PageInv /\ [Next]_vars => PageInv'
<1>. SUFFICES ASSUME PageInv, [Next]_vars
              PROVE  PageInv'
  OBVIOUS
<1>1. CASE \E t \in Transfers : Consume(t)
  <2>1. PICK t \in Transfers : Consume(t)
    BY <1>1
  <2>2. CASE \/ Create(t) \/ Post(t) \/ Invalidate(t) \/ Publish(t) \/ Stop(t) \/ StopNotice(t)
    <3>1. UNCHANGED <<status, page>>
      BY <2>2, Zenon DEF Create, Post, Invalidate, Publish, Stop, StopNotice
    <3>. QED
      BY <2>2, <3>1, MovesKeeps
  <2>3. CASE Fail(t)
    BY <2>3, FailKeeps
  <2>4. CASE Complete(t)
    BY <2>4, CompleteKeeps
  <2>5. CASE \E p \in Processes : Emit(t, p)
    BY <2>5, EmitKeeps
  <2>. QED
    BY <2>1, <2>2, <2>3, <2>4, <2>5 DEF Consume
<1>2. CASE Browse
  BY <1>2, BrowseKeeps
<1>3. CASE UNCHANGED <<posted, work, lost, status, page>>
  BY <1>3, Zenon DEF PageInv, PageTypeOK, StageInv, ListensInv, ShownIsTrue, WaitIsExplained
<1>4. ASSUME AskBalance \/ Download \/ OpenWallet \/ UNCHANGED vars
      PROVE  UNCHANGED <<posted, work, lost, status, page>>
  BY <1>4, Zenon DEF AskBalance, Download, OpenWallet, vars, balances, GetBalance, MissesEntry,
                     SumsCredits, SumsDebits, Stores, ReadFails, EntryExpires
<1>. QED
  BY <1>1, <1>2, <1>3, <1>4 DEF Next

(* A page never shows a completion that did not happen, and waits in vain   *)
(* only for the reasons the model names, for any number of transfers and    *)
(* processes.                                                               *)
THEOREM PageIsTrue == Spec => []ShownIsTrue
<1>1. Spec => []PageInv
  BY PageStart, PageStep, PTL DEF Spec
<1>2. PageInv => ShownIsTrue
  BY DEF PageInv
<1>. QED
  BY <1>1, <1>2, PTL

(* Only a status sent elsewhere, a refused stream or a consumer that failed *)
(* leaves a page waiting for a transfer that is settled.                    *)
THEOREM WaitsForAReason == Spec => []WaitIsExplained
<1>1. Spec => []PageInv
  BY PageStart, PageStep, PTL DEF Spec
<1>2. PageInv => WaitIsExplained
  BY DEF PageInv
<1>. QED
  BY <1>1, <1>2, PTL

-----------------------------------------------------------------------------
(* The composition implements its parts.                                    *)

LEMMA StartsParts == Init => BalanceInit /\ ExportInit /\ WalletsInit
BY DEF Init

LEMMA StepsParts ==
  [Next]_vars => /\ [BalanceNext]_balances /\ [ExportNext]_<<rows, export>>
                 /\ [WalletsNext]_<<wallets, opening, together>>
<1>. SUFFICES ASSUME [Next]_vars
              PROVE  /\ [BalanceNext]_balances /\ [ExportNext]_<<rows, export>>
                     /\ [WalletsNext]_<<wallets, opening, together>>
  OBVIOUS
<1>1. CASE \E t \in Transfers : Consume(t)
  <2>1. PICK t \in Transfers : Consume(t)
    BY <1>1
  <2>2. UNCHANGED <<wallets, opening, together>> /\ UNCHANGED export
    BY <2>1, Zenon DEF Consume, Create, Post, Fail, Complete, Invalidate, Publish, Stop, StopNotice, Emit
  <2>3. UNCHANGED rows \/ (Insert(t) /\ t \in Rows)
    BY <2>1, OneSetOfTransfers, Zenon
       DEF Consume, Create, Post, Fail, Complete, Invalidate, Publish, Stop, StopNotice, Emit
  <2>4. UNCHANGED balances \/ Posts(t) \/ Invalidates(t) \/ NeverInvalidates(t)
    BY <2>1, Zenon
       DEF Consume, Create, Post, Fail, Complete, Invalidate, Publish, Stop, StopNotice, Emit
  <2>. QED
    BY <2>2, <2>3, <2>4 DEF BalanceNext, ExportNext
<1>2. CASE AskBalance
  BY <1>2, Zenon DEF AskBalance, BalanceNext
<1>3. CASE Browse
  BY <1>3, Zenon DEF Browse
<1>4. CASE Download
  BY <1>4, Zenon DEF Download, ExportNext
<1>5. CASE OpenWallet
  BY <1>5, Zenon DEF OpenWallet
<1>6. CASE UNCHANGED vars
  BY <1>6, Zenon DEF vars
<1>. QED
  BY <1>1, <1>2, <1>3, <1>4, <1>5, <1>6 DEF Next

(* What the consumers and the customer do to the cache, the table and the   *)
(* wallets is what the three protocols allow.                               *)
THEOREM ImplementsParts == Spec => BalanceSpec /\ ExportSpec /\ WalletsSpec
BY StartsParts, StepsParts, PTL DEF Spec, BalanceSpec, ExportSpec, WalletsSpec

(* A wrong balance in the cache is explained while the consumers work.      *)
THEOREM BalanceIsExplained == Spec => []BalanceExplained
BY ImplementsParts, CacheAlone, PTL

(* A finished export has every transfer that was there when it began.       *)
THEOREM FinishedExportIsComplete == Spec => []ExportIsComplete
BY ImplementsParts, ExportAlone, PTL

(* The pages of an export go from the newest transfer to the oldest.        *)
THEOREM ExportDescends == Spec => PagesDescend
BY ImplementsParts, PagesAlone, PTL

(* Only two calls at the same time make a second wallet of a currency.      *)
THEOREM WalletIsOne == Spec => []OneWallet
BY ImplementsParts, WalletsAlone, PTL

(* The types of all parts.                                                  *)
THEOREM ViewsTyped == Spec => []TypeOK
<1>1. Spec => []PageInv
  BY PageStart, PageStep, PTL DEF Spec
<1>2. Spec => []BalanceInv /\ []ExportInv /\ []OneOpening
  BY ImplementsParts, BalanceStart, BalanceStep, ExportStart, ExportStep, WalletsStart, WalletsStep, PTL
     DEF BalanceSpec, ExportSpec, WalletsSpec
<1>3. PageInv /\ BalanceInv /\ ExportInv /\ OneOpening => TypeOK
  BY DEF PageInv, BalanceInv, ExportInv, OneOpening, TypeOK
<1>. QED
  BY <1>1, <1>2, <1>3, PTL
=============================================================================
