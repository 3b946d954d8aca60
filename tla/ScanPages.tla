------------------------------ MODULE ScanPages ------------------------------
(***************************************************************************)
(* Wi-Fi scans are read in pages of two networks: scan of                  *)
(* src/guest/devices/wifi_scan.py, against the few snapshots kept by       *)
(* src/host/devices/WiFiBackend.swift.  Several readers scan on their own, *)
(* and their pages interleave.  A network is its scan and its place in it. *)
(***************************************************************************)
EXTENDS Integers, Sequences, FiniteSets

CONSTANTS
  Readers,     \* independent readers
  Snapshots,   \* snapshots kept: 4 in the code
  Totals,      \* numbers of networks a scan may find
  ScanLimit    \* bound: scans of the Mac

ASSUME ScanAssumption ==
  Snapshots \in Nat \ {0} /\ ScanLimit \in Nat /\ Totals \subseteq Nat

VARIABLES
  kept,     \* snapshots: scan -> number of networks, of those kept
  scans,    \* scans so far, and those 60 seconds old
  scanner   \* each reader: its scan, expected offset, records, outcome

scanVars == <<kept, scans, scanner>>

NoScan == [pc |-> "idle", id |-> 0, total |-> 0, records |-> <<>>]

\* The networks of one page, and whether another follows.
Page(id, total, offset) ==
  LET start == IF offset < total THEN offset ELSE total
      end   == IF start + 2 < total THEN start + 2 ELSE total
  IN [entries |-> [i \in 1..end - start |-> <<id, start + i>>],
      next |-> IF end < total THEN end ELSE -1]

\* What scan does with a page: it goes on from where the page says, or ends.
Taken(r, id, total) ==
  LET page == Page(id, total, Len(r.records))
      all  == r.records \o page.entries
  IN [pc |-> IF page.next = -1
             THEN IF Len(all) = total THEN "whole" ELSE "failed"
             ELSE IF page.next = Len(all) /\ page.entries # <<>> THEN "paging" ELSE "failed",
      id |-> id, total |-> total, records |-> all]

Without(id) == [s \in DOMAIN kept \ {id} |-> kept[s]]

\* The oldest gives way when the limit is reached.
Evicted ==
  Without(CHOOSE s \in DOMAIN kept : \A t \in DOMAIN kept : s <= t)

Full == Cardinality(DOMAIN kept) >= Snapshots

\* wifi-scan: a new snapshot, and its first page.
Scan(r) ==
  /\ scanner[r].pc = "idle" /\ scans.count < ScanLimit
  /\ \E total \in Totals :
       LET id   == scans.count + 1
           room == IF Full THEN Evicted ELSE kept
       IN /\ kept' = [s \in DOMAIN room \cup {id} |-> IF s = id THEN total ELSE room[s]]
          /\ scans' = [scans EXCEPT !.count = id]
          /\ scanner' = [scanner EXCEPT ![r] = Taken(NoScan, id, total)]

NextPage_latest(r) ==
  LET me == scanner[r] IN
  /\ me.pc = "paging" /\ scans.count \in DOMAIN kept
  /\ scanner' = [scanner EXCEPT ![r] = Taken(me, scans.count, kept[scans.count])]
  /\ UNCHANGED <<kept, scans>>

\* wifi-scan-page.
NextPage(r) ==
  LET me == scanner[r] IN
  /\ me.pc = "paging"
  /\ scanner' = [scanner EXCEPT ![r] =
       IF me.id \in DOMAIN kept THEN Taken(me, me.id, kept[me.id]) ELSE [me EXCEPT !.pc = "stale"]]
  /\ UNCHANGED <<kept, scans>>

\* A snapshot is 60 seconds old; the next request drops it.
Expires ==
  /\ \E s \in DOMAIN kept :
       /\ \A t \in DOMAIN kept : s <= t
       /\ kept' = Without(s)
       /\ scans' = [scans EXCEPT !.expired = @ \cup {s}]
  /\ UNCHANGED scanner

ReaderDone(r) ==
  /\ scanner[r].pc \in {"whole", "failed", "stale"}
  /\ scanner' = [scanner EXCEPT ![r] = NoScan]
  /\ UNCHANGED <<kept, scans>>

ScanInit ==
  /\ kept = <<>> /\ scans = [count |-> 0, expired |-> {}]
  /\ scanner = [r \in Readers |-> NoScan]

ScanNext == Expires \/ \E r \in Readers : Scan(r) \/ NextPage(r) \/ ReaderDone(r)
ScanSpec == ScanInit /\ [][ScanNext]_scanVars

-----------------------------------------------------------------------------
(* Properties *)

\* A reader ends with every network of one scan, each once and in order,
\* whatever other readers scan meanwhile, or with an error.
ScanWhole ==
  \A r \in Readers :
    scanner[r].pc = "whole" => scanner[r].records =
      [i \in 1..scanner[r].total |-> <<scanner[r].id, i>>]

\* A reader is told its scan is gone only after 60 seconds or as many newer
\* scans as are kept: a new scan does not invalidate the one before it.
StaleOnlyWhenOld ==
  \A r \in Readers :
    scanner[r].pc = "stale" =>
      scanner[r].id \in scans.expired \/ scans.count - scanner[r].id >= Snapshots

\* The Mac keeps no more snapshots than it means to.
SnapshotsBounded == Cardinality(DOMAIN kept) <= Snapshots

\* Readers of overlapping scans each get their own, for as long as the bounded
\* number of snapshots allows.
ScansApart == ScanWhole /\ StaleOnlyWhenOld /\ SnapshotsBounded
=============================================================================
