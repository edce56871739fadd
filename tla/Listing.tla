-------------------------------- MODULE Listing ---------------------------------
(***************************************************************************)
(* Keyset paging (pkg/page) as the console uses it for drivers and trips:  *)
(* newest first by (time, id), one row more than the page asked for to     *)
(* learn whether there is another page, and a cursor that is the last row  *)
(* shown.  Rows are inserted and change in and out of the filter between   *)
(* the pages.                                                              *)
(***************************************************************************)
EXTENDS Naturals, Sequences, SequencesExt, Order

CONSTANTS
  Times,     \* when a row can have been made, positive numbers
  Ids,       \* its identifier, a positive number too
  PageSize   \* rows a page shows

VARIABLES
  rows,      \* row -> "absent", "match" or "other": what the filter says of it
  cursor,    \* the row the next page starts after, <<>> for the first page, or End
  shown,     \* the rows of all pages so far
  steady     \* rows that matched when the first page was asked for, and since

\* A row by what it is sorted by.
Rows == Times \X Ids

listingVars == <<rows, cursor, shown, steady>>

\* Descending order by time, then by id.
Later(a, b) == a[1] > b[1] \/ (a[1] = b[1] /\ a[2] > b[2])

Newest == {p \in Rows \X Rows : Later(p[1], p[2])}

\* Mutant: rows of the same instant are not told apart by their id.
BeforeByTime(c, r) == c = <<>> \/ r[1] < c[1]

\* The row comes after the cursor; the empty cursor is the first page.
Before(c, r) == c = <<>> \/ Later(c, r)

Matches(r) == rows[r] = "match"

Cut(found, limit) == SubSeq(found, 1, IF Len(found) < limit THEN Len(found) ELSE limit)

\* List of a repository: filtered, after the cursor, newest first, cut.
List(c, limit) ==
  LET found == Arranged({r \in Rows : Matches(r) /\ Before(c, r)}, Newest)
  IN  Cut(found, limit)

ListingInit ==
  /\ rows \in [Rows -> {"absent", "match"}]
  /\ cursor = <<>> /\ shown = <<>> /\ steady = {}

End == <<0, 0>>
Ended == cursor = End

\* The row more than the page has room for says that there is another page.
NextCursor(found) == IF Len(found) > PageSize THEN found[PageSize] ELSE End

\* ListDrivers and ListTrips.
ShowPage ==
  /\ ~Ended
  /\ LET found == List(cursor, PageSize + 1)
     IN  /\ shown' = shown \o Cut(found, PageSize)
         /\ cursor' = NextCursor(found)
  /\ steady' = IF cursor = <<>> THEN {r \in Rows : Matches(r)} ELSE steady
  /\ UNCHANGED rows

\* A driver registers or a trip is ordered: its time was taken before it is
\* stored, so it may be older than rows that are there.
InsertRow(r) ==
  /\ rows[r] = "absent"
  /\ rows' = [rows EXCEPT ![r] = "match"]
  /\ UNCHANGED <<cursor, shown, steady>>

\* The row changes so that the filter takes it in or leaves it out.
ChangeRow(r) ==
  /\ rows[r] # "absent"
  /\ rows' = [rows EXCEPT ![r] = IF @ = "match" THEN "other" ELSE "match"]
  /\ steady' = steady \ {r}
  /\ UNCHANGED <<cursor, shown>>

ListingNext ==
  \/ ShowPage
  \/ ~Ended /\ \E r \in Rows : InsertRow(r) \/ ChangeRow(r)

ListingSpec == ListingInit /\ [][ListingNext]_listingVars

-------------------------------------------------------------------------------
ListingTypeOK ==
  /\ rows \in [Rows -> {"absent", "match", "other"}]
  /\ cursor \in {<<>>, End} \cup Rows
  /\ shown \in Seq(Rows)
  /\ steady \subseteq Rows

\* Turning the pages shows no row twice and in no other order than newest first,
\* and by the last page every row that was there from the start and kept
\* matching has been shown.
PagesComplete ==
  /\ \A i, j \in DOMAIN shown : i < j => Later(shown[i], shown[j])
  /\ Ended => steady \subseteq ToSet(shown)
===============================================================================
