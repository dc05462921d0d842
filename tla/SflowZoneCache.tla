----------------------------- MODULE SflowZoneCache -----------------------------
(***************************************************************************)
(* The cache of zone statistics in src/sflow/sflow_protocol_leaf_hostv.c,  *)
(* shared by the polling threads of host_virt sources.  A snapshot of all  *)
(* zones (zs_usage_t) is read, and g_zone_list holds handles into it, one  *)
(* per zone; freeing the snapshot frees what they point to.  sflow_zlock   *)
(* guards both, but a handle that a search found is used after unlocking.  *)
(*                                                                         *)
(* Using a handle of a freed snapshot either kills the process or finds    *)
(* its old contents.                                                       *)
(***************************************************************************)
EXTENDS Integers, Sequences, SequencesExt, FiniteSets

CONSTANTS
  Threads,   \* polling threads of host_virt sources
  Zones,     \* zone names
  Global,    \* the global zone's, which always runs
  WantedBy,  \* the zone each thread's source is about
  PrefixOf,  \* pairs <<p, n>>: p is a prefix of n
  MaxSnaps,  \* bound: snapshots that are read
  NULL

ASSUME GlobalAssumption == Global \in Zones /\ IsFiniteSet(Zones)
ASSUME WantedAssumption == WantedBy \in [Threads -> Zones]
ASSUME PrefixAssumption == PrefixOf \subseteq Zones \X Zones
ASSUME MaxSnapsAssumption == MaxSnaps \in Nat
ASSUME NullAssumption == NULL \notin Threads \cup Nat

VARIABLES
  running,   \* zones that run
  zlock,     \* sflow_zlock: its owner
  usage,     \* usage: the snapshot, numbered in the order of reading, or NULL
  snaps,     \* snapshots read so far: the zones in each
  alive,     \* snapshots that are not freed
  zoneList,  \* g_zone_list, of g_zone_num handles
  fresh,     \* fewer than CACHE_OK seconds have passed since time_stamp
  th,        \* threads: step, forced refresh, z
  up         \* the process is running

cacheVars == <<usage, snaps, alive, zoneList, fresh>>
vars == <<running, zlock, cacheVars, th, up>>

Snaps == 1..MaxSnaps
Handles == [snap : Snaps, zone : Zones]

Init ==
  /\ running = {Global}
  /\ zlock = NULL
  /\ usage = NULL /\ snaps = <<>> /\ alive = {} /\ zoneList = <<>>
  /\ fresh = FALSE
  /\ th = [t \in Threads |-> [at |-> "idle", force |-> FALSE, z |-> NULL]]
  /\ up = TRUE

Goto(t, from, to) ==
  /\ up /\ th[t].at = from
  /\ th' = [th EXCEPT ![t].at = to]
  /\ UNCHANGED <<running, up>>

(***************************************************************************)
(* sflow_update_zone_stat_safe and sflow_update_zone_stat.                 *)
(***************************************************************************)

\* sflow_get_zone_stat is called for a zone that zone_getattr has just found, and
\* first makes "sure the cache is good enough".
Ask(t) ==
  /\ up /\ th[t].at = "idle"
  /\ WantedBy[t] \in running
  /\ th' = [th EXCEPT ![t] = [at |-> "lock", force |-> FALSE, z |-> NULL]]
  /\ UNCHANGED <<running, zlock, cacheVars, up>>

LockCache(t) ==
  /\ Goto(t, "lock", "check")
  /\ zlock = NULL
  /\ zlock' = t
  /\ UNCHANGED cacheVars

CheckAge(t) ==
  /\ Goto(t, "check", IF zoneList # <<>> /\ ~th[t].force /\ fresh THEN "unlock" ELSE "free")
  /\ UNCHANGED <<zlock, cacheVars>>

\* zs_open fails: nothing is changed.
OpenFails(t) ==
  /\ Goto(t, "free", "unlock")
  /\ UNCHANGED <<zlock, cacheVars>>

\* Mutant of FreeUsage: the old snapshot is kept.
FreeUsageNot(t) ==
  /\ Goto(t, "free", "read")
  /\ UNCHANGED <<zlock, cacheVars>>

\* zs_usage_free, which leaves the variable, and the list, as they are.
FreeUsage(t) ==
  /\ Goto(t, "free", "read")
  /\ alive' = alive \ {usage}
  /\ UNCHANGED <<zlock, usage, snaps, zoneList, fresh>>

ReadUsage(t) ==
  /\ Len(snaps) < MaxSnaps
  /\ Goto(t, "read", "list")
  /\ snaps' = Append(snaps, SetToSeq(running))
  /\ usage' = Len(snaps')
  /\ alive' = alive \cup {usage'}
  /\ UNCHANGED <<zlock, zoneList, fresh>>

\* zs_usage_read fails: no snapshot, an old list, and the time of that.
ReadFails(t) ==
  /\ Goto(t, "read", "unlock")
  /\ usage' = NULL
  /\ UNCHANGED <<zlock, snaps, alive, zoneList, fresh>>

Listed == [i \in DOMAIN snaps[usage] |-> [snap |-> usage, zone |-> snaps[usage][i]]]

\* Mutant of ListZones: the list is replaced only when it is too short.
ListZonesGrow(t) ==
  /\ Goto(t, "list", "stamp")
  /\ zoneList' = IF Len(Listed) > Len(zoneList) THEN Listed ELSE zoneList
  /\ UNCHANGED <<zlock, usage, snaps, alive, fresh>>

\* Mutant of ListZones: one handle more is allocated than is filled in.
ListZonesOneMore(t) ==
  /\ Goto(t, "list", "stamp")
  /\ zoneList' = Append(Listed, [snap |-> usage, zone |-> NULL])
  /\ UNCHANGED <<zlock, usage, snaps, alive, fresh>>

\* The loop around zs_zone_list: a list that is long enough keeps its length, and
\* behind the snapshot's zones its old handles.
ListZones(t) ==
  /\ Goto(t, "list", "stamp")
  /\ zoneList' = Listed \o SubSeq(zoneList, Len(Listed) + 1, Len(zoneList))
  /\ UNCHANGED <<zlock, usage, snaps, alive, fresh>>

Stamp(t) ==
  /\ Goto(t, "stamp", "unlock")
  /\ fresh' = TRUE
  /\ UNCHANGED <<zlock, usage, snaps, alive, zoneList>>

\* Mutant of UnlockCache: a forced refresh returns without unlocking.
UnlockCacheUnlessForced(t) ==
  /\ Goto(t, "unlock", IF th[t].force THEN "idle" ELSE "lock_search")
  /\ zlock' = IF th[t].force THEN zlock ELSE NULL
  /\ UNCHANGED cacheVars

\* After a forced refresh the caller gives up: "next time will give the right value".
UnlockCache(t) ==
  /\ Goto(t, "unlock", IF th[t].force THEN "idle" ELSE "lock_search")
  /\ zlock' = NULL
  /\ UNCHANGED cacheVars

(***************************************************************************)
(* sflow_get_zone_stat, after the cache has been looked after.             *)
(***************************************************************************)

LockSearch(t) ==
  /\ Goto(t, "lock_search", "search")
  /\ zlock = NULL
  /\ zlock' = t
  /\ UNCHANGED cacheVars

\* The first handle of a zone whose name is a prefix of the wanted one.
Hits(t) == {i \in DOMAIN zoneList : <<zoneList[i].zone, WantedBy[t]>> \in PrefixOf}
FirstHit(t) == CHOOSE i \in Hits(t) : \A j \in Hits(t) : i <= j

\* The search, its unlocking, and whether it found something.
Search(t) ==
  /\ up /\ th[t].at = "search"
  /\ th' = [th EXCEPT ![t] =
       IF Hits(t) = {} THEN [at |-> "lock", force |-> TRUE, z |-> NULL]
       ELSE [at |-> "use", force |-> FALSE, z |-> zoneList[FirstHit(t)]]]
  /\ zlock' = NULL
  /\ UNCHANGED <<running, cacheVars, up>>

\* zs_resource_used_zone_*, without the lock.
UseZone(t) ==
  /\ Goto(t, "use", "idle")
  /\ UNCHANGED <<zlock, cacheVars>>

\* A handle that is looked at leads to freed memory.
Fault ==
  /\ up
  /\ \E t \in Threads :
       \/ th[t].at = "use" /\ th[t].z.snap \notin alive
       \/ /\ th[t].at = "search"
          /\ \E i \in DOMAIN zoneList :
               zoneList[i].snap \notin alive /\ \A j \in Hits(t) : i <= j
  /\ up' = FALSE
  /\ UNCHANGED <<running, zlock, cacheVars, th>>

(***************************************************************************)
(* The system around the cache.                                            *)
(***************************************************************************)

Boot ==
  /\ up
  /\ \E z \in Zones \ running : running' = running \cup {z}
  /\ UNCHANGED <<zlock, cacheVars, th, up>>
Halt ==
  /\ up
  /\ \E z \in running \ {Global} : running' = running \ {z}
  /\ UNCHANGED <<zlock, cacheVars, th, up>>
CacheAges ==
  /\ up
  /\ fresh' = FALSE
  /\ UNCHANGED <<running, zlock, usage, snaps, alive, zoneList, th, up>>

ThreadStep(t) ==
  \/ LockCache(t) \/ CheckAge(t) \/ OpenFails(t) \/ FreeUsage(t) \/ ReadUsage(t)
  \/ ReadFails(t) \/ ListZones(t) \/ Stamp(t) \/ UnlockCache(t)
  \/ LockSearch(t) \/ Search(t) \/ UseZone(t)

Next ==
  \/ \E t \in Threads : Ask(t) \/ ThreadStep(t)
  \/ Fault \/ Boot \/ Halt \/ CacheAges

Spec == Init /\ [][Next]_vars

\* Runnable threads run.  The mutex is held for a few calls and asked for between
\* polls, so a waiter gets it: of several, each in its turn.
Fairness ==
  \A t \in Threads : WF_vars(ThreadStep(t)) /\ SF_vars(LockCache(t) \/ LockSearch(t))

FairSpec == Spec /\ Fairness

(***************************************************************************)
(* Properties.                                                             *)
(***************************************************************************)

Steps == {"idle", "lock", "check", "free", "read", "list", "stamp", "unlock",
          "lock_search", "search", "use"}

\* The variables hold what the code can store in them.
TypeOK ==
  /\ running \subseteq Zones /\ Global \in running
  /\ zlock \in Threads \cup {NULL}
  /\ snaps \in Seq(Seq(Zones)) /\ Len(snaps) <= MaxSnaps
  /\ usage \in Snaps \cup {NULL} /\ alive \subseteq DOMAIN snaps
  /\ zoneList \in Seq(Handles)
  /\ fresh \in BOOLEAN /\ up \in BOOLEAN
  /\ th \in [Threads -> [at : Steps, force : BOOLEAN, z : Handles \cup {NULL}]]

\* Between refreshes exactly the snapshot that usage names is allocated: no refresh,
\* failed or forced, leaks one or frees one twice (hostv.c:89-98).
OneSnapshot == zlock = NULL => alive = {usage} \ {NULL}

\* Between refreshes the list leads to each zone of the snapshot once, whether it
\* has grown or shrunk (hostv.c:100-111).
ListIsSnapshot ==
  (zlock = NULL /\ usage # NULL) =>
    LET current == {i \in DOMAIN zoneList : zoneList[i].snap = usage}
    IN  /\ {zoneList[i].zone : i \in current} = {snaps[usage][i] : i \in DOMAIN snaps[usage]}
        /\ Cardinality(current) = Len(snaps[usage])

\* A lookup returns, also one that has to refresh a second time (hostv.c:165-169).
LookupReturns ==
  \A t \in Threads : th[t].at # "idle" ~> (th[t].at = "idle" \/ ~up)

\* "now z should point to the zone we need" (hostv.c:164): when the statistics are
\* taken from it, the handle is one of an allocated snapshot.
UsedZoneIsLive ==
  \A t \in Threads : th[t].at = "use" => th[t].z.snap \in alive
================================================================================
