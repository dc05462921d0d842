-------------------------- MODULE SflowZoneCache_proofs --------------------------
(***************************************************************************)
(* Proofs about SflowZoneCache, for any number of threads and zones and    *)
(* any bound on the snapshots: type correctness, that refreshes neither    *)
(* leak a snapshot nor free one twice, and that the list of handles        *)
(* follows the snapshot.  They hold without the fairness of FairSpec.      *)
(***************************************************************************)
EXTENDS SflowZoneCache, FiniteSetTheorems,
  SequenceTheorems, TLAPS

USE GlobalAssumption, WantedAssumption, MaxSnapsAssumption, NullAssumption

(***************************************************************************)
(* The operators the cache is built from.                                  *)
(***************************************************************************)

\* The zones of a snapshot form a sequence.
LEMMA SetToSeqIs ==
  ASSUME NEW S, IsFiniteSet(S)
  PROVE  SetToSeq(S) \in Seq(S)
<1>1. Cardinality(S) \in Nat /\ ExistsBijection(1..Cardinality(S), S)
  BY FS_CardinalityType
<1>2. \E f \in [1..Cardinality(S) -> S] : IsInjective(f)
  BY <1>1, Zenon DEF ExistsBijection, Bijection, Injection
<1>3. SetToSeq(S) \in [1..Cardinality(S) -> S]
  BY <1>2, Zenon DEF SetToSeq
<1> QED BY <1>1, <1>3

\* A search that hits something has a first hit.
LEMMA FirstHitIs ==
  ASSUME NEW t \in Threads, zoneList \in Seq(Handles), Hits(t) # {}
  PROVE  FirstHit(t) \in 1..Len(zoneList)
<1> DEFINE Less == {ss \in Nat \X Nat : ss[1] < ss[2]}
<1>1. IsWellFoundedOn(Less, Nat)
  BY NatLessThanWellFounded, Zenon DEF OpToRel
<1>2. Hits(t) \subseteq 1..Len(zoneList) BY DEF Hits
<1>3. Hits(t) \subseteq Nat BY <1>2
<1> HIDE DEF Less
<1>4. PICK i \in Hits(t) : \A j \in Hits(t) : ~(<<j, i>> \in Less)
  BY <1>1, <1>3, WFMin
<1>5. \A j \in Hits(t) : i <= j
  <2> TAKE j \in Hits(t)
  <2>1. <<j, i>> \in Nat \X Nat BY <1>3
  <2>2. ~(j < i) BY <1>4, <2>1 DEF Less
  <2> QED BY <1>3, <2>2
<1>6. FirstHit(t) \in Hits(t) BY <1>5 DEF FirstHit
<1> QED BY <1>2, <1>6

(***************************************************************************)
(* The threads and the mutex.                                              *)
(***************************************************************************)

Lookups == [at : Steps, force : BOOLEAN, z : Handles \cup {NULL}]

\* The steps with sflow_zlock held.
Inside == {"check", "free", "read", "list", "stamp", "unlock", "search"}

ThreadTypes == zlock \in Threads \cup {NULL} /\ th \in [Threads -> Lookups]
LockInv == \A t \in Threads : th[t].at \in Inside <=> zlock = t
Someone(step) == \E t \in Threads : th[t].at = step

\* What a step of a thread leaves alone.
Moves(t) == th' \in [Threads -> Lookups] /\ \A u \in Threads \ {t} : th'[u] = th[u]

LEMMA GotoMoves ==
  ASSUME ThreadTypes, NEW t \in Threads, NEW from, NEW to \in Steps, Goto(t, from, to)
  PROVE  /\ Moves(t) /\ th[t].at = from /\ th'[t].at = to
         /\ running' = running /\ up' = up
BY DEF ThreadTypes, Lookups, Goto, Moves

\* Every action of a thread, as far as the thread and the mutex are concerned.
LEMMA StepMoves ==
  ASSUME ThreadTypes, zoneList \in Seq(Handles), NEW t \in Threads, Ask(t) \/ ThreadStep(t)
  PROVE  /\ Moves(t)
         /\ \/ zlock' = zlock /\ (th[t].at \in Inside <=> th'[t].at \in Inside)
            \/ th[t].at \notin Inside /\ th'[t].at \in Inside /\ zlock = NULL /\ zlock' = t
            \/ th[t].at \in Inside /\ th'[t].at \notin Inside /\ zlock' = NULL
         /\ th[t].at \notin Inside => th'[t].at \notin {"read", "list"}
<1> USE DEF Inside, Steps
<1>1. CASE Ask(t) BY <1>1 DEF Ask, ThreadTypes, Lookups, Moves
<1>2. CASE LockCache(t) BY <1>2, GotoMoves DEF LockCache
<1>3. CASE CheckAge(t) BY <1>3, GotoMoves DEF CheckAge
<1>4. CASE OpenFails(t) BY <1>4, GotoMoves DEF OpenFails
<1>5. CASE FreeUsage(t) BY <1>5, GotoMoves DEF FreeUsage
<1>6. CASE ReadUsage(t) BY <1>6, GotoMoves DEF ReadUsage
<1>7. CASE ReadFails(t) BY <1>7, GotoMoves DEF ReadFails
<1>8. CASE ListZones(t) BY <1>8, GotoMoves DEF ListZones
<1>9. CASE Stamp(t) BY <1>9, GotoMoves DEF Stamp
<1>10. CASE UnlockCache(t) BY <1>10, GotoMoves DEF UnlockCache
<1>11. CASE LockSearch(t) BY <1>11, GotoMoves DEF LockSearch
<1>12. CASE Search(t)
  <2>1. Hits(t) # {} => zoneList[FirstHit(t)] \in Handles BY FirstHitIs
  <2> QED BY <1>12, <2>1 DEF Search, ThreadTypes, Lookups, Moves
<1>13. CASE UseZone(t) BY <1>13, GotoMoves DEF UseZone
<1> QED
  BY <1>1, <1>2, <1>3, <1>4, <1>5, <1>6, <1>7, <1>8, <1>9, <1>10, <1>11, <1>12, <1>13
  DEF ThreadStep

LEMMA ThreadNext ==
  ASSUME ThreadTypes, LockInv, zoneList \in Seq(Handles), [Next]_vars
  PROVE  ThreadTypes' /\ LockInv'
<1>1. CASE \E t \in Threads : Ask(t) \/ ThreadStep(t)
  <2>1. PICK t \in Threads : Ask(t) \/ ThreadStep(t) BY <1>1
  <2>2. Moves(t) BY <2>1, StepMoves
  <2>3. \/ zlock' = zlock /\ (th[t].at \in Inside <=> th'[t].at \in Inside)
        \/ th[t].at \notin Inside /\ th'[t].at \in Inside /\ zlock = NULL /\ zlock' = t
        \/ th[t].at \in Inside /\ th'[t].at \notin Inside /\ zlock' = NULL
    BY <2>1, StepMoves
  <2>4. ThreadTypes' BY <2>2, <2>3 DEF ThreadTypes, Moves
  <2>5. LockInv' BY <2>2, <2>3 DEF LockInv, Moves
  <2> QED BY <2>4, <2>5
<1>2. CASE UNCHANGED <<th, zlock>> BY <1>2 DEF ThreadTypes, LockInv
<1> QED BY <1>1, <1>2 DEF Next, Fault, Boot, Halt, CacheAges, vars

\* Only the owner of the mutex can be at a step inside, so it alone decides who is.
LEMMA PhaseInside ==
  ASSUME ThreadTypes, LockInv, NEW t \in Threads, Moves(t), th[t].at \in Inside,
         NEW s \in Inside
  PROVE  (Someone(s) <=> th[t].at = s) /\ (Someone(s)' <=> th'[t].at = s)
BY DEF LockInv, Moves, Someone

LEMMA PhaseOutside ==
  ASSUME NEW t \in Threads, Moves(t), NEW s, th[t].at # s, th'[t].at # s
  PROVE  Someone(s)' <=> Someone(s)
BY DEF Moves, Someone

(***************************************************************************)
(* The cache.                                                              *)
(***************************************************************************)

CacheTypes ==
  /\ running \subseteq Zones /\ Global \in running
  /\ snaps \in Seq(Seq(Zones)) /\ Len(snaps) <= MaxSnaps
  /\ usage \in 1..Len(snaps) \cup {NULL} /\ alive \subseteq 1..Len(snaps)
  /\ zoneList \in Seq(Handles)
  /\ \A i \in 1..Len(zoneList) : zoneList[i].snap <= Len(snaps)
  /\ fresh \in BOOLEAN /\ up \in BOOLEAN

\* Between zs_usage_free and zs_usage_read no snapshot is allocated.
AliveInv == alive = IF Someone("read") THEN {} ELSE {usage} \ {NULL}

\* The list leads to the zones of the snapshot, in order, and behind them to older ones.
Leads ==
  /\ Len(snaps[usage]) <= Len(zoneList)
  /\ \A i \in 1..Len(snaps[usage]) :
       zoneList[i] = [snap |-> usage, zone |-> snaps[usage][i]]
  /\ \A i \in Len(snaps[usage]) + 1 .. Len(zoneList) : zoneList[i].snap # usage

LeadInv ==
  /\ usage # NULL /\ ~Someone("list") => Leads
  /\ Someone("list") => /\ usage # NULL
                        /\ \A i \in 1..Len(zoneList) : zoneList[i].snap # usage

CacheInv == ThreadTypes /\ LockInv /\ CacheTypes /\ AliveInv /\ LeadInv

LEMMA CacheInit == Init => CacheInv
<1> SUFFICES ASSUME Init PROVE CacheInv OBVIOUS
<1>1. ThreadTypes BY DEF Init, ThreadTypes, Lookups, Steps
<1>2. LockInv BY DEF Init, LockInv, Inside
<1>3. CacheTypes
  <2>1. snaps \in Seq(Seq(Zones)) /\ Len(snaps) = 0 /\ zoneList \in Seq(Handles) /\ Len(zoneList) = 0
    BY DEF Init
  <2>2. /\ running \subseteq Zones /\ Global \in running /\ fresh \in BOOLEAN /\ up \in BOOLEAN
        /\ usage = NULL /\ alive = {}
    BY DEF Init
  <2>3. \A i \in 1..Len(zoneList) : zoneList[i].snap <= Len(snaps) BY <2>1
  <2> QED BY <2>1, <2>2, <2>3 DEF CacheTypes
<1>4. AliveInv /\ LeadInv BY DEF Init, AliveInv, LeadInv, Someone
<1> QED BY <1>1, <1>2, <1>3, <1>4 DEF CacheInv

\* zs_usage_read gives a snapshot that no handle leads to.
LEMMA ReadUsageInv ==
  ASSUME CacheInv, NEW t \in Threads, ReadUsage(t)
  PROVE  CacheTypes' /\ AliveInv' /\ LeadInv'
<1> USE DEF CacheInv
<1>1. Moves(t) /\ th[t].at = "read" /\ th'[t].at = "list" /\ running' = running /\ up' = up
  BY GotoMoves DEF ReadUsage, Steps
<1>2. Someone("read") /\ ~Someone("read")' /\ Someone("list")'
  BY <1>1, PhaseInside DEF Inside
<1>3. SetToSeq(running) \in Seq(Zones)
  <2>1. IsFiniteSet(running) BY FS_Subset DEF CacheTypes
  <2>2. SetToSeq(running) \in Seq(running) BY <2>1, SetToSeqIs
  <2> QED BY <2>2 DEF CacheTypes
<1>4. /\ snaps' \in Seq(Seq(Zones)) /\ Len(snaps') = Len(snaps) + 1 /\ Len(snaps) < MaxSnaps
      /\ usage' = Len(snaps') /\ Len(snaps) \in Nat
  BY <1>3 DEF ReadUsage, CacheTypes
<1>5. zoneList' = zoneList /\ fresh' = fresh /\ alive' = alive \cup {usage'}
  BY DEF ReadUsage
<1>6. \A i \in 1..Len(zoneList) : zoneList[i].snap < usage' /\ zoneList[i].snap \in Nat
  <2> TAKE i \in 1..Len(zoneList)
  <2>1. zoneList[i] \in Handles /\ zoneList[i].snap <= Len(snaps) BY DEF CacheTypes
  <2>2. zoneList[i].snap \in Nat BY <2>1 DEF Handles, Snaps
  <2> QED BY <1>4, <2>1, <2>2
<1>7. CacheTypes'
  <2>1. running' \subseteq Zones /\ Global \in running' /\ fresh' \in BOOLEAN /\ up' \in BOOLEAN
    BY <1>1, <1>5 DEF CacheTypes
  <2>2. usage' \in 1..Len(snaps') /\ Len(snaps') <= MaxSnaps BY <1>4
  <2>3. alive' \subseteq 1..Len(snaps')
    <3>1. alive \subseteq 1..Len(snaps) BY DEF CacheTypes
    <3>2. 1..Len(snaps) \subseteq 1..Len(snaps') BY <1>4
    <3> QED BY <1>5, <2>2, <3>1, <3>2
  <2>4. zoneList' \in Seq(Handles) BY <1>5 DEF CacheTypes
  <2>5. \A i \in 1..Len(zoneList') : zoneList'[i].snap <= Len(snaps') BY <1>4, <1>5, <1>6
  <2> QED BY <1>4, <2>1, <2>2, <2>3, <2>4, <2>5 DEF CacheTypes
<1>8. AliveInv' BY <1>2, <1>4, <1>5 DEF AliveInv
<1>9. LeadInv' BY <1>2, <1>4, <1>5, <1>6 DEF LeadInv
<1> QED BY <1>7, <1>8, <1>9

\* zs_zone_list puts the snapshot's handles in front.
LEMMA ListZonesInv ==
  ASSUME CacheInv, NEW t \in Threads, ListZones(t)
  PROVE  CacheTypes' /\ AliveInv' /\ LeadInv'
<1> USE DEF CacheInv
<1>1. Moves(t) /\ th[t].at = "list" /\ th'[t].at = "stamp" /\ running' = running /\ up' = up
  BY GotoMoves DEF ListZones, Steps
<1>2. Someone("list") /\ ~Someone("list")' /\ ~Someone("read") /\ ~Someone("read")'
  BY <1>1, PhaseInside DEF Inside
<1>3. usage \in 1..Len(snaps) /\ usage \in Snaps /\ snaps[usage] \in Seq(Zones)
  BY <1>2 DEF CacheTypes, LeadInv, Snaps
<1> DEFINE n == Len(snaps[usage])
           rest == SubSeq(zoneList, n + 1, Len(zoneList))
<1>4. n \in Nat /\ DOMAIN snaps[usage] = 1..n BY <1>3
<1>5. Listed \in Seq(Handles) /\ Len(Listed) = n
  <2>1. Listed \in [1..n -> Handles] BY <1>3, <1>4 DEF Listed, Handles
  <2> QED BY <1>4, <2>1
<1>6. \A i \in 1..n : Listed[i] = [snap |-> usage, zone |-> snaps[usage][i]]
  BY <1>4 DEF Listed
<1>0. zoneList \in Seq(Handles) /\ Len(zoneList) \in Nat BY DEF CacheTypes
<1>7. /\ rest \in Seq(Handles)
      /\ Len(rest) = IF n < Len(zoneList) THEN Len(zoneList) - n ELSE 0
      /\ \A i \in 1..Len(rest) : rest[i] = zoneList[n + i]
  <2> HIDE DEF n
  <2>1. \A i \in n + 1 .. Len(zoneList) : zoneList[i] \in Handles BY <1>4, <1>0
  <2>2. /\ rest \in Seq(Handles)
        /\ Len(rest) = IF n + 1 <= Len(zoneList) THEN Len(zoneList) - (n + 1) + 1 ELSE 0
        /\ \A i \in 1 .. Len(zoneList) - (n + 1) + 1 : rest[i] = zoneList[n + 1 + i - 1]
    BY <1>4, <1>0, <2>1, SubSeqProperties
  <2>4. Len(rest) = IF n < Len(zoneList) THEN Len(zoneList) - n ELSE 0
    BY <1>4, <1>0, <2>2
  <2>5. \A i \in 1..Len(rest) : i \in 1 .. Len(zoneList) - (n + 1) + 1
    BY <1>4, <1>0, <2>4
  <2>6. \A i \in 1..Len(rest) : rest[i] = zoneList[n + i]
    <3> TAKE i \in 1..Len(rest)
    <3>1. rest[i] = zoneList[n + 1 + i - 1] BY <2>2, <2>5
    <3>2. n + 1 + i - 1 = n + i BY <1>4, <2>5
    <3> QED BY <3>1, <3>2
  <2> QED BY <2>2, <2>4, <2>6
<1>8. UNCHANGED <<usage, snaps, alive, fresh>> /\ zoneList' = Listed \o rest
  BY <1>5 DEF ListZones
<1> HIDE DEF rest
<1>9. /\ zoneList' \in Seq(Handles) /\ Len(zoneList') = n + Len(rest)
      /\ \A i \in 1..n : zoneList'[i] = Listed[i]
      /\ \A i \in n + 1 .. n + Len(rest) : zoneList'[i] = rest[i - n]
  <2> HIDE DEF n
  <2>1. /\ zoneList' \in Seq(Handles) /\ Len(zoneList') = Len(Listed) + Len(rest)
        /\ \A i \in 1 .. Len(Listed) + Len(rest) :
             zoneList'[i] = IF i <= Len(Listed) THEN Listed[i] ELSE rest[i - Len(Listed)]
    <3>1. \A r, s \in Seq(Handles) :
            /\ r \o s \in Seq(Handles) /\ Len(r \o s) = Len(r) + Len(s)
            /\ \A i \in 1 .. Len(r) + Len(s) :
                 (r \o s)[i] = IF i <= Len(r) THEN r[i] ELSE s[i - Len(r)]
      BY ConcatProperties
    <3> QED BY <1>5, <1>7, <1>8, <3>1
  <2>2. Len(rest) \in Nat BY <1>7
  <2> QED BY <1>4, <1>5, <2>1, <2>2
<1>10. \A i \in n + 1 .. n + Len(rest) :
         i \in 1..Len(zoneList) /\ zoneList'[i] = zoneList[i]
  <2> HIDE DEF n
  <2> TAKE i \in n + 1 .. n + Len(rest)
  <2>1. Len(rest) \in Nat BY <1>7
  <2>2. Len(rest) = Len(zoneList) - n BY <1>4, <1>7, <1>0, <2>1
  <2>3. i - n \in 1..Len(rest) /\ n + (i - n) = i /\ i \in 1..Len(zoneList)
    BY <1>4, <1>0, <2>1, <2>2
  <2> QED BY <1>7, <1>9, <2>3
<1>11. \A i \in 1..Len(zoneList') : zoneList'[i].snap <= Len(snaps)
  <2> TAKE i \in 1..Len(zoneList')
  <2>1. CASE i \in 1..n
    <3>1. zoneList'[i] = [snap |-> usage, zone |-> snaps[usage][i]] BY <1>6, <1>9, <2>1
    <3>2. zoneList'[i].snap = usage BY <3>1
    <3> QED BY <1>3, <3>2
  <2>2. CASE i \in n + 1 .. n + Len(rest) BY <1>10, <2>2 DEF CacheTypes
  <2>3. Len(rest) \in Nat BY <1>7
  <2> HIDE DEF n
  <2> QED BY <1>4, <1>9, <2>1, <2>2, <2>3
<1>12. CacheTypes' BY <1>1, <1>8, <1>9, <1>11 DEF CacheTypes
<1>13. AliveInv' BY <1>2, <1>8 DEF AliveInv
<1>14. Leads'
  <2>1. usage' = usage /\ snaps' = snaps BY <1>8
  <2>2. n <= Len(zoneList')
    <3> HIDE DEF n
    <3> QED BY <1>4, <1>7, <1>9
  <2>3. \A i \in 1..n : zoneList'[i] = [snap |-> usage, zone |-> snaps[usage][i]]
    BY <1>6, <1>9
  <2>4. \A i \in n + 1 .. Len(zoneList') : zoneList'[i].snap # usage
    <3> HIDE DEF n
    <3> QED BY <1>2, <1>9, <1>10 DEF LeadInv
  <2> QED BY <2>1, <2>2, <2>3, <2>4 DEF Leads
<1> QED BY <1>2, <1>12, <1>13, <1>14 DEF LeadInv

\* The other steps change little of the cache.
LEMMA OtherStepInv ==
  ASSUME CacheInv, NEW t \in Threads,
         \/ Ask(t) \/ LockCache(t) \/ CheckAge(t) \/ OpenFails(t) \/ FreeUsage(t)
         \/ ReadFails(t) \/ Stamp(t) \/ UnlockCache(t) \/ LockSearch(t) \/ Search(t)
         \/ UseZone(t)
  PROVE  CacheTypes' /\ AliveInv' /\ LeadInv'
<1> USE DEF CacheInv
<1>0. Moves(t) BY StepMoves DEF ThreadStep, CacheTypes
<1>1. CASE FreeUsage(t)
  <2>1. th[t].at = "free" /\ th'[t].at = "read" /\ running' = running /\ up' = up
    BY <1>1, GotoMoves DEF FreeUsage, Steps
  <2>2. ~Someone("list") /\ ~Someone("list")' /\ ~Someone("read") /\ Someone("read")'
    BY <1>0, <2>1, PhaseInside DEF Inside
  <2>3. UNCHANGED <<usage, snaps, zoneList, fresh>> /\ alive' = alive \ {usage}
    BY <1>1 DEF FreeUsage
  <2>4. CacheTypes' BY <2>1, <2>3 DEF CacheTypes
  <2>5. AliveInv' BY <2>2, <2>3 DEF AliveInv
  <2>6. LeadInv' BY <2>2, <2>3 DEF LeadInv, Leads
  <2> QED BY <2>4, <2>5, <2>6
<1>2. CASE ReadFails(t)
  <2>1. th[t].at = "read" /\ th'[t].at = "unlock" /\ running' = running /\ up' = up
    BY <1>2, GotoMoves DEF ReadFails, Steps
  <2>2. ~Someone("list")' /\ Someone("read") /\ ~Someone("read")'
    BY <1>0, <2>1, PhaseInside DEF Inside
  <2>3. UNCHANGED <<alive, snaps, zoneList, fresh>> /\ usage' = NULL
    BY <1>2 DEF ReadFails
  <2>4. CacheTypes' BY <2>1, <2>3 DEF CacheTypes
  <2>5. AliveInv' BY <2>2, <2>3 DEF AliveInv
  <2>6. LeadInv' BY <2>2, <2>3 DEF LeadInv
  <2> QED BY <2>4, <2>5, <2>6
<1>3. ASSUME UNCHANGED <<usage, snaps, alive, zoneList, running, up>>, fresh' \in BOOLEAN,
             th[t].at \notin {"read", "list"}, th'[t].at \notin {"read", "list"}
      PROVE  CacheTypes' /\ AliveInv' /\ LeadInv'
  <2>1. (Someone("read")' <=> Someone("read")) /\ (Someone("list")' <=> Someone("list"))
    BY <1>0, <1>3, PhaseOutside
  <2>2. CacheTypes' BY <1>3 DEF CacheTypes
  <2>3. AliveInv' BY <1>3, <2>1 DEF AliveInv
  <2>4. LeadInv' BY <1>3, <2>1 DEF LeadInv, Leads
  <2> QED BY <2>2, <2>3, <2>4
<1>4. CASE Ask(t)
  BY <1>3, <1>4 DEF Ask, cacheVars, ThreadTypes, CacheTypes
<1>5. CASE LockCache(t) BY <1>3, <1>5, GotoMoves DEF LockCache, cacheVars, Steps, CacheTypes
<1>6. CASE CheckAge(t) BY <1>3, <1>6, GotoMoves DEF CheckAge, cacheVars, Steps, CacheTypes
<1>7. CASE OpenFails(t) BY <1>3, <1>7, GotoMoves DEF OpenFails, cacheVars, Steps, CacheTypes
<1>8. CASE Stamp(t) BY <1>3, <1>8, GotoMoves DEF Stamp, Steps
<1>9. CASE UnlockCache(t) BY <1>3, <1>9, GotoMoves DEF UnlockCache, cacheVars, Steps, CacheTypes
<1>10. CASE LockSearch(t) BY <1>3, <1>10, GotoMoves DEF LockSearch, cacheVars, Steps, CacheTypes
<1>11. CASE Search(t)
  BY <1>3, <1>11 DEF Search, cacheVars, ThreadTypes, CacheTypes
<1>12. CASE UseZone(t) BY <1>3, <1>12, GotoMoves DEF UseZone, cacheVars, Steps, CacheTypes
<1> QED BY <1>1, <1>2, <1>4, <1>5, <1>6, <1>7, <1>8, <1>9, <1>10, <1>11, <1>12

LEMMA CacheNext == CacheInv /\ [Next]_vars => CacheInv'
<1> SUFFICES ASSUME CacheInv, [Next]_vars PROVE CacheInv' OBVIOUS
<1>1. ThreadTypes' /\ LockInv' BY ThreadNext DEF CacheInv, CacheTypes
<1>2. CacheTypes' /\ AliveInv' /\ LeadInv'
  <2>1. CASE \E t \in Threads : Ask(t) \/ ThreadStep(t)
    BY <2>1, ReadUsageInv, ListZonesInv, OtherStepInv DEF ThreadStep
  <2>2. ASSUME UNCHANGED <<usage, snaps, alive, zoneList, th>>,
               running' \subseteq Zones, Global \in running', fresh' \in BOOLEAN, up' \in BOOLEAN
        PROVE  CacheTypes' /\ AliveInv' /\ LeadInv'
    BY <2>2 DEF CacheInv, CacheTypes, AliveInv, LeadInv, Leads, Someone
  <2>3. CASE Fault BY <2>2, <2>3 DEF Fault, cacheVars, CacheInv, CacheTypes
  <2>4. CASE Boot BY <2>2, <2>4 DEF Boot, cacheVars, CacheInv, CacheTypes
  <2>5. CASE Halt BY <2>2, <2>5 DEF Halt, cacheVars, CacheInv, CacheTypes
  <2>6. CASE CacheAges BY <2>2, <2>6 DEF CacheAges, CacheInv, CacheTypes
  <2>7. CASE UNCHANGED vars BY <2>2, <2>7 DEF vars, cacheVars, CacheInv, CacheTypes
  <2> QED BY <2>1, <2>3, <2>4, <2>5, <2>6, <2>7 DEF Next
<1> QED BY <1>1, <1>2 DEF CacheInv

(***************************************************************************)
(* What follows.                                                           *)
(***************************************************************************)

\* The variables hold what the code can store in them.
THEOREM TypeCorrect == Spec => []TypeOK
<1>1. CacheInv => TypeOK
  BY DEF CacheInv, ThreadTypes, CacheTypes, TypeOK, Lookups, Snaps
<1> QED BY <1>1, CacheInit, CacheNext, PTL DEF Spec

\* No refresh, failed or forced, leaks a snapshot or frees one twice.
THEOREM OneSnapshotHolds == Spec => []OneSnapshot
<1>1. CacheInv => OneSnapshot
  BY DEF CacheInv, LockInv, ThreadTypes, AliveInv, OneSnapshot, Someone, Inside
<1> QED BY <1>1, CacheInit, CacheNext, PTL DEF Spec

\* The list leads to each zone of the snapshot once.
THEOREM ListIsSnapshotHolds == Spec => []ListIsSnapshot
<1>1. CacheInv => ListIsSnapshot
  <2> SUFFICES ASSUME CacheInv, zlock = NULL, usage # NULL
               PROVE  LET current == {i \in DOMAIN zoneList : zoneList[i].snap = usage}
                      IN  /\ {zoneList[i].zone : i \in current}
                               = {snaps[usage][i] : i \in DOMAIN snaps[usage]}
                          /\ Cardinality(current) = Len(snaps[usage])
    BY DEF ListIsSnapshot
  <2> DEFINE current == {i \in DOMAIN zoneList : zoneList[i].snap = usage}
             n == Len(snaps[usage])
  <2>1. Leads
    BY DEF CacheInv, LockInv, ThreadTypes, LeadInv, Someone, Inside
  <2>2. snaps[usage] \in Seq(Zones) /\ n \in Nat /\ DOMAIN snaps[usage] = 1..n
    BY DEF CacheInv, CacheTypes
  <2>3. DOMAIN zoneList = 1..Len(zoneList) /\ Len(zoneList) \in Nat
    BY DEF CacheInv, CacheTypes
  <2>0. \A i \in 1..n : zoneList[i].snap = usage /\ zoneList[i].zone = snaps[usage][i]
    <3> TAKE i \in 1..n
    <3>1. zoneList[i] = [snap |-> usage, zone |-> snaps[usage][i]] BY <2>1 DEF Leads
    <3> QED BY <3>1
  <2>4. current = 1..n
    <3>1. n <= Len(zoneList) BY <2>1 DEF Leads
    <3>2. \A i \in 1..n : zoneList[i].snap = usage BY <2>0
    <3>3. \A i \in n + 1 .. Len(zoneList) : zoneList[i].snap # usage BY <2>1 DEF Leads
    <3> HIDE DEF n
    <3> QED BY <2>2, <2>3, <3>1, <3>2, <3>3
  <2>5. Cardinality(1..n) = n BY <2>2, FS_Interval
  <2>6. \A i \in 1..n : zoneList[i].zone = snaps[usage][i] BY <2>0
  <2> HIDE DEF current
  <2>7. {zoneList[i].zone : i \in current} = {snaps[usage][i] : i \in DOMAIN snaps[usage]}
    BY <2>2, <2>4, <2>6
  <2>8. Cardinality(current) = n BY <2>4, <2>5
  <2> QED BY <2>7, <2>8 DEF current
<1> QED BY <1>1, CacheInit, CacheNext, PTL DEF Spec

================================================================================
