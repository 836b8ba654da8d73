----------------------------- MODULE Indicators -----------------------------
(***************************************************************************)
(* Indicators of compromise of one tenant (services/intel.py, api/intel.py *)
(* and the part of ingestion that uses them).                              *)
(*                                                                         *)
(* Requests run in sessions that overlap.  Each reads rows, changes its    *)
(* copies, flushes the columns that differ from what it read, and commits  *)
(* or is rolled back.  A flush waits for rows another session has written. *)
(* An indicator lives for a bounded time: afterwards it must not match,    *)
(* whether or not a sweep has marked it inactive yet.                      *)
(***************************************************************************)
EXTENDS Integers

CONSTANTS
  Clients,       \* requests that may be in progress at once
  Folded,        \* indicator types whose values are stored in lower case
  Exact,         \* the other types
  Ttls,          \* values of ttl_hours a client may ask for
  MaxTtl,        \* 24 * 365 in the code
  MaxTime,       \* bound: hours that pass
  MaxRequests    \* bound: requests in all

ASSUME IndicatorAssumption ==
  /\ Folded \cap Exact = {}
  /\ Ttls \subseteq Int
  /\ {MaxTtl, MaxTime, MaxRequests} \subseteq Nat \ {0}

\* Two spellings of one value.
Values == {"lower", "mixed"}
Lower(v) == "lower"

Types == Folded \cup Exact
IocKeys == (Folded \X {"lower"}) \cup (Exact \X Values)

VARIABLES
  now,        \* utcnow(), in hours
  rows,       \* the committed table: a function from the keys it holds
  tx,         \* [Clients -> the request in progress]
  served,     \* requests begun (bound)
  serialRows, \* the table if every request had happened at its commit (history)
  contested,  \* indicators two open requests have touched (history)
  counted,    \* [IocKeys -> sightings of committed requests] (history)
  lived       \* [Clients -> indicators alive since the request began] (history)

intelVars == <<now, rows, tx, served, serialRows, contested, counted, lived>>

EmptyTable == [k \in {} |-> k]

NoRequest ==
  [op |-> "none", pc |-> "idle", key |-> "none", value |-> "lower", ttl |-> 0, feed |-> {},
   now |-> 0, read |-> EmptyTable, enriched |-> {}]

IocRow == [active : BOOLEAN, expires_at : Nat, updated_at : Nat, sightings : Nat,
           provenance : SUBSET {"first", "feed", "expired", "deactivated"}]

Live(table, t) == {k \in DOMAIN table : table[k].active /\ table[k].expires_at > t}

-----------------------------------------------------------------------------
(* intel.py: what each operation makes of the rows of a table               *)

\* The key under which an indicator is stored.
StoredKey(type, v) == <<type, IF type \in Folded THEN Lower(v) ELSE v>>

Clamp(ttl) == IF ttl > MaxTtl THEN MaxTtl ELSE IF ttl < 1 THEN 1 ELSE ttl

\* upsert_ioc: a known indicator is renewed and made active again, an unknown
\* one is inserted.
Upserted(t, table) ==
  LET old == IF t.key \in DOMAIN table THEN table[t.key]
             ELSE [active |-> TRUE, expires_at |-> 0, updated_at |-> 0, sightings |-> 0,
                   provenance |-> IF t.feed = {} THEN {"first"} ELSE {}]
  IN  [k \in {t.key} |->
         [old EXCEPT !.active = TRUE, !.expires_at = t.now + Clamp(t.ttl),
                     !.updated_at = t.now, !.provenance = @ \cup t.feed]]

\* expire_stale
Expired(t, table) ==
  [k \in {k \in DOMAIN table : table[k].active /\ table[k].expires_at <= t.now} |->
     [table[k] EXCEPT !.active = FALSE, !.updated_at = t.now, !.provenance = @ \cup {"expired"}]]

\* deactivate_ioc
Deactivated(t, table) ==
  [k \in {t.key} \cap DOMAIN table |->
     [table[k] EXCEPT !.active = FALSE, !.updated_at = t.now,
                      !.provenance = @ \cup {"deactivated"}]]

\* Mutant: the value is looked up in lower case only.
Candidates_Lower(v) == {k \in IocKeys : k[2] = Lower(v)}

\* The rows record_sightings selects for a value of the event.
Candidates(v) == {k \in IocKeys : k[2] \in {v, Lower(v)}}

\* record_sightings
Sighted(t, table) ==
  [k \in Candidates(t.value) \cap Live(table, t.now) |->
     [table[k] EXCEPT !.sightings = @ + 1, !.updated_at = t.now]]

\* Mutant: the indicators are not filtered by their expiry.
active_intel_map_Active(t, table, v) ==
  LET live == {k \in DOMAIN table : table[k].active}
  IN  {k \in live : k[2] = v /\ \A j \in live : j[2] = v => table[k].updated_at <= table[j].updated_at}

\* active_intel_map: one entry per value; of several types the one that was
\* updated first is kept, because it comes last in the listing.
active_intel_map(t, table, v) ==
  LET live == Live(table, t)
  IN  {k \in live : k[2] = v /\ \A j \in live : j[2] = v => table[k].updated_at <= table[j].updated_at}

\* The rows a request changes, and how.
Change(t, table) ==
  CASE t.op = "upsert" -> Upserted(t, table)
    [] t.op = "deactivate" -> Deactivated(t, table)
    [] t.op = "expire" -> Expired(t, table)
    [] t.op = "ingest" -> Sighted(t, table)

-----------------------------------------------------------------------------
(* Sessions                                                                 *)

\* The indicators a request may change.
Touched(t) ==
  CASE t.op = "none" -> {}
    [] t.op = "expire" -> IocKeys
    [] t.op = "ingest" -> Candidates(t.value)
    [] OTHER -> {t.key}

Begin(s, t) ==
  /\ tx[s].pc = "idle"
  /\ served < MaxRequests
  /\ served' = served + 1
  /\ tx' = [tx EXCEPT ![s] = t]
  /\ contested' = contested \cup (Touched(t) \cap UNION {Touched(tx[q]) : q \in Clients \ {s}})
  /\ UNCHANGED <<now, rows, serialRows, counted>>

Reading(op, pc) == [NoRequest EXCEPT !.op = op, !.pc = pc, !.now = now, !.read = rows]

\* POST /iocs up to the lookup in upsert_ioc.
LookUp(s, type, v, ttl, feed) ==
  Begin(s, [Reading("upsert", "change") EXCEPT
              !.key = StoredKey(type, v), !.ttl = ttl, !.feed = feed])

\* POST /iocs/{id}/deactivate up to get_ioc.
GetIoc(s, k) ==
  /\ k \in DOMAIN rows
  /\ Begin(s, [Reading("deactivate", "change") EXCEPT !.key = k])

\* POST /expire and GET /iocs up to the query of expire_stale.
SelectActive(s) == Begin(s, Reading("expire", "change"))

\* Ingestion of an event with a value: active_intel_map and enrich_event. A
\* value without an entry may be one of the built-in ones, which are not rows.
Enrich(s, v) ==
  LET entries == active_intel_map(now, rows, v)
  IN  \/ \E k \in entries :
            Begin(s, [Reading("ingest", "sight") EXCEPT !.value = v, !.enriched = {k}])
      \/ /\ entries = {}
         /\ Begin(s, [Reading("ingest", "sight") EXCEPT !.value = v])

\* record_sightings up to its query. Nothing holds the rows active_intel_map
\* went through, so the session loads them again.
SelectSighted(s) ==
  /\ tx[s].pc = "sight"
  /\ tx' = [tx EXCEPT ![s] = [tx[s] EXCEPT !.pc = "change", !.now = now, !.read = rows]]
  /\ UNCHANGED <<now, rows, served, serialRows, contested, counted>>

\* What a session is about to write, or has written.
Writes(t) == Change(t, t.read)

SightedBy(t) ==
  IF t.op = "ingest" /\ t.pc \in {"change", "flushed"} THEN DOMAIN Writes(t) ELSE {}

Waits(s) ==
  \E q \in Clients \ {s} :
    tx[q].pc = "flushed" /\ DOMAIN Writes(tx[q]) \cap DOMAIN Writes(tx[s]) # {}

\* The insert of an indicator that another request has stored meanwhile.
Duplicate(t) == t.op = "upsert" /\ t.key \notin DOMAIN t.read /\ t.key \in DOMAIN rows

\* db.flush()
FlushChanges(s) ==
  /\ tx[s].pc = "change"
  /\ ~Waits(s) /\ ~Duplicate(tx[s])
  /\ tx' = [tx EXCEPT ![s] = [tx[s] EXCEPT !.pc = "flushed"]]
  /\ UNCHANGED <<now, rows, served, serialRows, contested, counted>>

\* The UPDATE of a row sets the columns that differ from those read.
Column(new, old, stored) == IF new # old THEN new ELSE stored
Updated(new, old, stored) ==
  [active     |-> Column(new.active, old.active, stored.active),
   expires_at |-> Column(new.expires_at, old.expires_at, stored.expires_at),
   updated_at |-> Column(new.updated_at, old.updated_at, stored.updated_at),
   sightings  |-> Column(new.sightings, old.sightings, stored.sightings),
   provenance |-> Column(new.provenance, old.provenance, stored.provenance)]

Merged(table, t) ==
  [k \in DOMAIN table \cup DOMAIN Writes(t) |->
     IF k \notin DOMAIN Writes(t) THEN table[k]
     ELSE IF k \in DOMAIN t.read THEN Updated(Writes(t)[k], t.read[k], table[k])
     ELSE Writes(t)[k]]

\* The same request done at once on a table.
AtOnce(table, t) ==
  [k \in DOMAIN table \cup DOMAIN Change(t, table) |->
     IF k \in DOMAIN Change(t, table) THEN Change(t, table)[k] ELSE table[k]]

\* Mutant: a session's objects are written back whole.
CommitChanges_WholeRows(s) ==
  LET t == tx[s]
  IN  /\ t.pc = "flushed"
      /\ rows' = [k \in DOMAIN rows \cup DOMAIN Writes(t) |->
                    IF k \in DOMAIN Writes(t) THEN Writes(t)[k]
                    ELSE IF k \in DOMAIN t.read THEN t.read[k] ELSE rows[k]]
      /\ serialRows' = AtOnce(serialRows, t)
      /\ counted' = [k \in IocKeys |-> counted[k] + IF k \in SightedBy(t) THEN 1 ELSE 0]
      /\ tx' = [tx EXCEPT ![s] = NoRequest]
      /\ UNCHANGED <<now, served, contested>>

\* The handler returns, its audit record is written, get_db commits.
CommitChanges(s) ==
  LET t == tx[s]
  IN  /\ t.pc = "flushed"
      /\ rows' = Merged(rows, t)
      /\ serialRows' = AtOnce(serialRows, t)
      /\ counted' = [k \in IocKeys |-> counted[k] + IF k \in SightedBy(t) THEN 1 ELSE 0]
      /\ tx' = [tx EXCEPT ![s] = NoRequest]
      /\ UNCHANGED <<now, served, contested>>

\* The request fails: an insert of a duplicate, the audit record, anything.
RollbackChanges(s) ==
  /\ tx[s].pc # "idle"
  /\ tx' = [tx EXCEPT ![s] = NoRequest]
  /\ UNCHANGED <<now, rows, served, serialRows, contested, counted>>

HourPasses ==
  /\ now < MaxTime
  /\ now' = now + 1
  /\ UNCHANGED <<rows, tx, served, serialRows, contested, counted>>

ClientStep(s) ==
  \/ \E type \in Types, v \in Values, ttl \in Ttls, feed \in {{}, {"feed"}} : LookUp(s, type, v, ttl, feed)
  \/ \E k \in IocKeys : GetIoc(s, k)
  \/ SelectActive(s)
  \/ \E v \in Values : Enrich(s, v)
  \/ SelectSighted(s)
  \/ FlushChanges(s) \/ CommitChanges(s) \/ RollbackChanges(s)

\* History: which indicators each open request has seen alive.
Watch ==
  lived' = [s \in Clients |->
              IF tx'[s].pc = "idle" THEN {}
              ELSE lived[s] \cup Live(rows, now) \cup Live(rows', now')]

IntelInit ==
  /\ now = 0
  /\ rows = EmptyTable
  /\ tx = [s \in Clients |-> NoRequest]
  /\ served = 0
  /\ serialRows = EmptyTable
  /\ contested = {}
  /\ counted = [k \in IocKeys |-> 0]
  /\ lived = [s \in Clients |-> {}]

IntelNext == (HourPasses \/ \E s \in Clients : ClientStep(s)) /\ Watch

IntelSpec == IntelInit /\ [][IntelNext]_intelVars
-----------------------------------------------------------------------------
(* Types: the table holds rows under stored keys, sessions changes of them. *)
IntelTypeOK ==
  /\ now \in 0..MaxTime
  /\ DOMAIN rows \subseteq IocKeys /\ \A k \in DOMAIN rows : rows[k] \in IocRow
  /\ \A s \in Clients :
       /\ tx[s].pc \in {"idle", "sight", "change", "flushed"}
       /\ tx[s].enriched \cup SightedBy(tx[s]) \subseteq IocKeys
  /\ served \in 0..MaxRequests
  /\ contested \subseteq IocKeys
  /\ lived \in [Clients -> SUBSET IocKeys]

(* Whatever time to live a client asks for, an indicator ends within the    *)
(* maximum, and an active one was alive when it was last renewed or sighted *)
(* (the clamp of upsert_ioc, the comparison of record_sightings).           *)
LifeBounded ==
  \A k \in DOMAIN rows :
    /\ rows[k].expires_at <= now + MaxTtl
    /\ rows[k].active /\ k \notin contested => rows[k].expires_at > rows[k].updated_at

(* "expired IOC handling works" (BLUE_TEAM_OS_BUILD_SPEC.md:401): an event  *)
(* is enriched with, and counted for, only indicators that were alive at    *)
(* some moment of the request, although rows that have expired stay active  *)
(* until somebody sweeps them and the two matches read at different times.  *)
MatchedWereAlive == \A s \in Clients : tx[s].enriched \cup SightedBy(tx[s]) \subseteq lived[s]

(* What enriches an event is also counted as sighted, in whatever spelling  *)
(* the value is stored, unless it expired or was changed in between.        *)
EnrichedIsSighted ==
  \A s \in Clients :
    tx[s].op = "ingest" /\ tx[s].pc \in {"change", "flushed"} =>
      \A k \in tx[s].enriched \ contested :
        tx[s].read[k].expires_at > tx[s].now => k \in SightedBy(tx[s])

(* However requests overlap, an indicator is never credited with more       *)
(* sightings than requests have counted (record_sightings adds to what it   *)
(* read; overlapping requests can only lose some).                          *)
SightingsNeverExceed == \A k \in DOMAIN rows : rows[k].sightings <= counted[k]

(* Sightings and lives stay within bounds: what enriches is counted, what   *)
(* is counted was committed, and no renewal outlives the maximum            *)
(* (upsert_ioc, record_sightings, enrich_event).                            *)
SightingsSound == IntelTypeOK /\ LifeBounded /\ EnrichedIsSighted /\ SightingsNeverExceed

(* An indicator that no two open requests have touched is as if each        *)
(* request had happened at once when it committed; one that failed left     *)
(* nothing (renewal, expiry, deactivation and sightings of services/intel.py *)
(* in the session of get_db).                                               *)
AsIfAlone ==
  \A k \in IocKeys \ contested :
    /\ k \in DOMAIN rows <=> k \in DOMAIN serialRows
    /\ k \in DOMAIN rows => rows[k] = serialRows[k]
=============================================================================
