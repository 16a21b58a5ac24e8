--------------------------- MODULE RollupsProofs ---------------------------
(***************************************************************************)
(* The rollup tables never disagree with the results, for any set of       *)
(* monitors, any tiers and any retention, and across any deletions,        *)
(* failures and restarts during a compaction.                              *)
(***************************************************************************)
EXTENDS Rollups, TLAPS

\* A row is the aggregate of the results the table holds for its bucket.
Matches(row) == row.results = OfMonitor(InBucket(raw, row.window, Bucket[row.tier]), row.monitor)

\* Written or committed, a row matches, has its monitor, and its bucket is closed: it lies
\* in the past, and no result of it is on its way into the table.
RowsFinal == \A row \in rows \union durable :
    /\ Matches(row)
    /\ row.monitor \in monitors
    /\ row.window + Bucket[row.tier] <= now
    /\ \A r \in pending : r[2] >= row.window + Bucket[row.tier]

ResultsOwned == \A r \in raw : r[1] \in monitors

Compacting == pc \in {"tiers", "rows", "insert"}

\* A compaction began when no result was on its way, and none starts under it.
Undisturbed == Compacting => pending = {} /\ snap \in Start..now

AtTier == pc \in {"rows", "insert"} => tier \in 1..Len(Tiers)

\* What was read for the row about to be inserted is still what the table holds, unless
\* the monitor was deleted meanwhile, and then it never comes back.
ReadStands == pc = "insert" =>
    /\ cur[1] \in monitors \union gone
    /\ cur[1] \in monitors => cur[2] = OfMonitor(InBucket(raw, W, Bucket[T]), cur[1])

RollupsInv ==
    /\ TypeOK
    /\ Start <= now
    /\ RowsFinal
    /\ ResultsOwned
    /\ Undisturbed
    /\ AtTier
    /\ ReadStands

-----------------------------------------------------------------------------
(* Buckets. *)

LEMMA FloorBelow ==
    ASSUME NEW t \in Nat, NEW b \in Nat \ {0}
    PROVE  Floor(t, b) \in Nat /\ Floor(t, b) <= t
BY SMT DEF Floor

LEMMA TierFacts ==
    ASSUME tier \in 1..Len(Tiers)
    PROVE  /\ T \in TierSet
           /\ Bucket[T] \in Nat \ {0}
           /\ Bucket[T] <= Start
<1>1. T \in TierSet
    BY DEF T, TierSet
<1> QED BY <1>1, RollupAssumption

\* The bucket an evaluation considers has elapsed.
LEMMA WindowFacts ==
    ASSUME TypeOK, tier \in 1..Len(Tiers), snap \in Start..now
    PROVE  /\ W \in Times
           /\ W + Bucket[T] <= snap
<1>1. Bucket[T] \in Nat \ {0} /\ Bucket[T] <= Start
    BY TierFacts
<1>2. Start \in Nat /\ End \in Nat /\ now \in 0..End /\ snap \in Nat
    BY RollupAssumption DEF TypeOK, Times
<1> DEFINE b == Bucket[T]
           elapsed == snap - b
<1>3. b \in Nat \ {0} /\ elapsed \in Nat /\ elapsed <= snap
    BY <1>1, <1>2
<1>4. W = Floor(elapsed, b)
    BY DEF W, LastWindow
<1> HIDE DEF elapsed, b
<1>5. Floor(elapsed, b) \in Nat /\ Floor(elapsed, b) <= elapsed
    BY <1>3, FloorBelow
<1> HIDE DEF Floor
<1> USE DEF elapsed, b
<1>6. W \in Nat /\ W <= snap - Bucket[T]
    BY <1>4, <1>5
<1> HIDE DEF W, T
<1> QED BY <1>6, <1>1, <1>2 DEF Times

LEMMA RowFacts ==
    ASSUME TypeOK, NEW row \in rows \union durable
    PROVE  /\ DOMAIN row = {"tier", "monitor", "window", "results"}
           /\ row.tier \in TierSet
           /\ row.monitor \in Monitors
           /\ row.window \in Times
           /\ row.window \in Nat
           /\ row.results \subseteq Results
           /\ Bucket[row.tier] \in Nat \ {0}
BY RollupAssumption DEF TypeOK, Times

\* Rows and their results stay as they are: what is asked of rows is inherited.
LEMMA RowsInherited ==
    ASSUME RollupsInv,
           rows' \subseteq rows \union durable, durable' \subseteq rows \union durable,
           raw' = raw, monitors \subseteq monitors', now' \in Nat, now <= now',
           pending' \subseteq pending \union (Monitors \X {now})
    PROVE  RowsFinal'
<1> SUFFICES ASSUME NEW row \in rows' \union durable'
             PROVE  /\ Matches(row)'
                    /\ row.monitor \in monitors'
                    /\ row.window + Bucket[row.tier] <= now'
                    /\ \A r \in pending' : r[2] >= row.window + Bucket[row.tier]
    BY DEF RowsFinal
<1>1. row \in rows \union durable
    OBVIOUS
<1>2. /\ Matches(row)
      /\ row.monitor \in monitors
      /\ row.window + Bucket[row.tier] <= now
      /\ \A r \in pending : r[2] >= row.window + Bucket[row.tier]
    BY <1>1 DEF RollupsInv, RowsFinal
<1>3. row.window \in Nat /\ Bucket[row.tier] \in Nat /\ now \in Nat
    BY <1>1, RowFacts DEF RollupsInv, TypeOK, Times
<1>4. Matches(row)'
    BY <1>2 DEF Matches, OfMonitor, InBucket
<1>5. row.window + Bucket[row.tier] <= now'
    BY <1>2, <1>3
<1>6. ASSUME NEW r \in pending' PROVE r[2] >= row.window + Bucket[row.tier]
    <2>1. CASE r \in pending
        BY <2>1, <1>2
    <2>2. CASE r \in Monitors \X {now}
        BY <2>2, <1>2, <1>3
    <2> QED BY <2>1, <2>2
<1> QED BY <1>2, <1>4, <1>5, <1>6

\* Results go with the rows of their buckets or monitors: the rows that stay match.
LEMMA RowsPruned ==
    ASSUME RollupsInv,
           rows' \subseteq rows, durable' = rows',
           \A row \in rows' : /\ OfMonitor(InBucket(raw', row.window, Bucket[row.tier]), row.monitor)
                                   = OfMonitor(InBucket(raw, row.window, Bucket[row.tier]), row.monitor)
                              /\ row.monitor \in monitors',
           now' = now, pending' = pending
    PROVE  RowsFinal'
<1> SUFFICES ASSUME NEW row \in rows'
             PROVE  /\ Matches(row)'
                    /\ row.monitor \in monitors'
                    /\ row.window + Bucket[row.tier] <= now'
                    /\ \A r \in pending' : r[2] >= row.window + Bucket[row.tier]
    BY DEF RowsFinal
<1>1. row \in rows \union durable
    OBVIOUS
<1>2. /\ Matches(row)
      /\ row.window + Bucket[row.tier] <= now
      /\ \A r \in pending : r[2] >= row.window + Bucket[row.tier]
    BY <1>1 DEF RollupsInv, RowsFinal
<1>3. Matches(row)'
    BY <1>2 DEF Matches
<1> QED BY <1>2, <1>3

-----------------------------------------------------------------------------
(* The steps. *)

LEMMA RollupsInvInit == Init => RollupsInv
<1> SUFFICES ASSUME Init PROVE RollupsInv
    OBVIOUS
<1> USE DEF Init
<1>1. Start \in Nat /\ End \in Nat /\ Start <= End /\ Period \in Nat /\ Lateness \in Nat
    BY RollupAssumption
<1>2. NoResults[1] \in Monitors /\ NoResults[2] = {}
    BY RollupAssumption DEF NoResults
<1>3. Len(Tiers) \in Nat
    BY RollupAssumption
<1>4. /\ now \in Times
      /\ snap \in Times
      /\ sinceEval \in 0..(Period + Lateness)
      /\ tier \in 1..(Len(Tiers) + 1)
    BY <1>1, <1>3 DEF Times
<1>5. checks \in 0..MaxChecks /\ faults \in 0..MaxFaults /\ aborts \in Nat
    BY RollupAssumption
<1>6. TypeOK
    BY <1>2, <1>4, <1>5 DEF TypeOK
<1> QED BY <1>1, <1>6 DEF RollupsInv, RowsFinal, ResultsOwned, Undisturbed, Compacting, AtTier, ReadStands

LEMMA CreateInv ==
    ASSUME RollupsInv, NEW m \in Monitors, Create(m)
    PROVE  RollupsInv'
<1> USE DEF Create, locals, counters
<1>1. TypeOK'
    BY DEF RollupsInv, TypeOK
<1>2. RowsFinal'
    BY RowsInherited DEF RollupsInv, TypeOK, Times
<1>3. ResultsOwned' /\ Undisturbed' /\ AtTier'
    BY DEF RollupsInv, ResultsOwned, Undisturbed, Compacting, AtTier
<1>4. ReadStands'
    BY DEF RollupsInv, ReadStands, W, T
<1> QED BY <1>1, <1>2, <1>3, <1>4 DEF RollupsInv

LEMMA DeleteInv ==
    ASSUME RollupsInv, NEW m \in Monitors, Delete(m)
    PROVE  RollupsInv'
<1> USE DEF Delete, locals, counters
<1>1. TypeOK'
    BY DEF RollupsInv, TypeOK
<1>2. RowsFinal'
    <2>1. ASSUME NEW row \in rows'
          PROVE  /\ OfMonitor(InBucket(raw', row.window, Bucket[row.tier]), row.monitor)
                      = OfMonitor(InBucket(raw, row.window, Bucket[row.tier]), row.monitor)
                 /\ row.monitor \in monitors'
        BY DEF RollupsInv, RowsFinal, OfMonitor, InBucket
    <2> QED BY <2>1, RowsPruned
<1>3. ResultsOwned' /\ Undisturbed' /\ AtTier'
    BY DEF RollupsInv, ResultsOwned, Undisturbed, Compacting, AtTier
<1>4. ReadStands'
    <2> SUFFICES ASSUME pc = "insert"
                 PROVE  /\ cur[1] \in monitors' \union gone'
                        /\ cur[1] \in monitors' =>
                            cur[2] = OfMonitor(InBucket(raw', W, Bucket[T]), cur[1])
        BY DEF ReadStands, W, T
    <2> QED BY DEF RollupsInv, ReadStands, OfMonitor, InBucket
<1> QED BY <1>1, <1>2, <1>3, <1>4 DEF RollupsInv

LEMMA StampResultInv ==
    ASSUME RollupsInv, NEW m \in Monitors, StampResult(m)
    PROVE  RollupsInv'
<1> USE DEF StampResult, locals, tables
<1>1. TypeOK'
    BY RollupAssumption DEF RollupsInv, TypeOK, Results
<1>2. RowsFinal'
    BY RowsInherited DEF RollupsInv, TypeOK, Times
<1>3. ResultsOwned' /\ Undisturbed' /\ AtTier' /\ ReadStands'
    BY DEF RollupsInv, ResultsOwned, Undisturbed, Compacting, AtTier, ReadStands
<1> QED BY <1>1, <1>2, <1>3 DEF RollupsInv

LEMMA SaveResultInv ==
    ASSUME RollupsInv, NEW r \in pending, SaveResult(r)
    PROVE  RollupsInv'
<1> USE DEF SaveResult, locals, counters
<1>1. TypeOK'
    BY DEF RollupsInv, TypeOK
<1>2. RowsFinal'
    <2> SUFFICES ASSUME NEW row \in rows
                 PROVE  /\ Matches(row)'
                        /\ row.monitor \in monitors'
                        /\ row.window + Bucket[row.tier] <= now'
                        /\ \A p \in pending' : p[2] >= row.window + Bucket[row.tier]
        BY DEF RowsFinal
    <2>1. /\ Matches(row)
          /\ row.monitor \in monitors
          /\ row.window + Bucket[row.tier] <= now
          /\ \A p \in pending : p[2] >= row.window + Bucket[row.tier]
        BY DEF RollupsInv, RowsFinal
    <2>2. row.window + Bucket[row.tier] \in Nat /\ r[2] \in Nat
        BY RowFacts DEF RollupsInv, TypeOK, Times, Results
    <2>3. ~(r[2] < row.window + Bucket[row.tier])
        BY <2>1, <2>2
    <2>4. Matches(row)'
        BY <2>1, <2>3 DEF Matches, OfMonitor, InBucket
    <2> QED BY <2>1, <2>4
<1>3. ResultsOwned' /\ Undisturbed' /\ AtTier'
    BY DEF RollupsInv, ResultsOwned, Undisturbed, Compacting, AtTier
<1>4. ReadStands'
    BY DEF RollupsInv, Undisturbed, Compacting, ReadStands
<1> QED BY <1>1, <1>2, <1>3, <1>4 DEF RollupsInv

LEMMA EvaluateInv ==
    ASSUME RollupsInv, Evaluate
    PROVE  RollupsInv'
<1> USE DEF Evaluate, tables, counters
<1>1. TypeOK'
    BY RollupAssumption DEF RollupsInv, TypeOK
<1>2. RowsFinal'
    BY RowsInherited DEF RollupsInv, TypeOK, Times
<1>3. ResultsOwned' /\ AtTier' /\ ReadStands'
    BY DEF RollupsInv, ResultsOwned, AtTier, ReadStands
<1>4. Undisturbed'
    BY RollupAssumption DEF RollupsInv, Undisturbed, TypeOK, Times
<1>5. Start <= now'
    BY DEF RollupsInv
<1> QED BY <1>1, <1>2, <1>3, <1>4, <1>5 DEF RollupsInv

LEMMA SkipTierInv ==
    ASSUME RollupsInv, SkipTier
    PROVE  RollupsInv'
<1> USE DEF SkipTier, tables, counters
<1>1. TypeOK'
    BY RollupAssumption DEF RollupsInv, TypeOK
<1>2. RowsFinal'
    BY RowsInherited DEF RollupsInv, TypeOK, Times
<1>3. ResultsOwned' /\ Undisturbed' /\ AtTier' /\ ReadStands'
    BY DEF RollupsInv, ResultsOwned, Undisturbed, Compacting, AtTier, ReadStands
<1> QED BY <1>1, <1>2, <1>3 DEF RollupsInv

LEMMA SelectIdsInv ==
    ASSUME RollupsInv, SelectIds
    PROVE  RollupsInv'
<1> USE DEF SelectIds, tables, counters
<1>1. TypeOK'
    BY DEF RollupsInv, TypeOK
<1>2. RowsFinal'
    BY RowsInherited DEF RollupsInv, TypeOK, Times
<1>3. ResultsOwned' /\ Undisturbed' /\ ReadStands'
    BY DEF RollupsInv, ResultsOwned, Undisturbed, Compacting, ReadStands
<1>4. AtTier'
    BY RollupAssumption DEF RollupsInv, TypeOK, AtTier
<1> QED BY <1>1, <1>2, <1>3, <1>4 DEF RollupsInv

LEMMA SelectRowsInv ==
    ASSUME RollupsInv, NEW m \in Monitors, SelectRows(m)
    PROVE  RollupsInv'
<1> DEFINE read == OfMonitor(InBucket(raw, W, Bucket[T]), m)
<1>1. /\ pc = "rows" /\ ids' = ids \ {m}
      /\ \/ UNCHANGED <<cur, pc>>
         \/ read # {} /\ cur' = <<m, read>> /\ pc' = "insert"
      /\ UNCHANGED <<now, monitors, gone, pending, tables, last, sinceEval, snap, tier, counters>>
    BY DEF SelectRows
<1> USE DEF tables, counters
<1>2. read \subseteq raw /\ \A r \in read : r[1] = m
    BY DEF OfMonitor, InBucket
<1> HIDE DEF read
<1>3. TypeOK'
    BY <1>1, <1>2 DEF RollupsInv, TypeOK
<1>4. RowsFinal'
    BY <1>1, RowsInherited DEF RollupsInv, TypeOK, Times
<1>5. ResultsOwned' /\ Undisturbed' /\ AtTier'
    BY <1>1 DEF RollupsInv, ResultsOwned, Undisturbed, Compacting, AtTier
<1>6. read # {} => m \in monitors
    BY <1>2 DEF RollupsInv, ResultsOwned
<1>7. ReadStands'
    BY <1>1, <1>6 DEF ReadStands, W, T, read
<1> QED BY <1>1, <1>3, <1>4, <1>5, <1>7 DEF RollupsInv

LEMMA InsertRowInv ==
    ASSUME RollupsInv, InsertRow
    PROVE  RollupsInv'
<1> DEFINE row == [tier |-> T, monitor |-> cur[1], window |-> W, results |-> cur[2]]
<1>1. /\ pc = "insert"
      /\ cur[1] \in monitors
      /\ rows' = Replace(rows, row)
      /\ cur' = NoResults
      /\ pc' = "rows"
      /\ UNCHANGED <<now, monitors, gone, pending, raw, durable, last, sinceEval, snap, tier, ids,
                     counters>>
    BY DEF InsertRow
<1> USE DEF counters
<1>2. tier \in 1..Len(Tiers) /\ pending = {} /\ snap \in Start..now /\ TypeOK
    BY <1>1 DEF RollupsInv, AtTier, Undisturbed, Compacting
<1>3. T \in TierSet /\ W \in Times /\ W + Bucket[T] <= snap
    BY <1>2, TierFacts, WindowFacts
<1>4. DOMAIN row = {"tier", "monitor", "window", "results"}
    OBVIOUS
<1>5. row.tier = T /\ row.monitor = cur[1] /\ row.window = W /\ row.results = cur[2]
    OBVIOUS
<1> HIDE DEF row, W, T
<1>6. rows' \subseteq rows \union {row}
    BY <1>1 DEF Replace
<1>7. NoResults[1] \in Monitors /\ NoResults[2] = {}
    BY RollupAssumption DEF NoResults
<1>8. TypeOK'
    <2>1. \A r \in rows' \union durable' :
            /\ DOMAIN r = {"tier", "monitor", "window", "results"}
            /\ r.tier \in TierSet
            /\ r.monitor \in Monitors
            /\ r.window \in Times
            /\ r.results \subseteq Results
        BY <1>1, <1>2, <1>3, <1>4, <1>5, <1>6 DEF TypeOK
    <2> QED BY <1>1, <1>2, <1>7, <2>1 DEF TypeOK
<1>9. RowsFinal'
    <2> SUFFICES ASSUME NEW r \in rows' \union durable'
                 PROVE  /\ Matches(r)'
                        /\ r.monitor \in monitors'
                        /\ r.window + Bucket[r.tier] <= now'
                        /\ \A p \in pending' : p[2] >= r.window + Bucket[r.tier]
        BY DEF RowsFinal
    <2>1. CASE r \in rows \union durable
        BY <1>1, <2>1 DEF RollupsInv, RowsFinal, Matches
    <2>2. CASE r = row
        <3>1. cur[2] = OfMonitor(InBucket(raw, W, Bucket[T]), cur[1])
            BY <1>1 DEF RollupsInv, ReadStands
        <3>2. r.tier = T /\ r.monitor = cur[1] /\ r.window = W /\ r.results = cur[2]
            BY <1>5, <2>2
        <3>3. Matches(r)'
            BY <1>1, <3>1, <3>2 DEF Matches
        <3>4. W + Bucket[T] <= now
            <4>1. Bucket[T] \in Nat /\ now \in Nat /\ Start \in Nat
                BY <1>2, TierFacts, RollupAssumption DEF TypeOK, Times
            <4>2. W \in Nat /\ snap \in Nat /\ snap <= now
                BY <1>2, <1>3, <4>1 DEF Times
            <4> QED BY <1>3, <4>1, <4>2
        <3> QED BY <1>1, <1>2, <3>2, <3>3, <3>4
    <2> QED BY <1>1, <1>6, <2>1, <2>2
<1>10. ResultsOwned' /\ Undisturbed' /\ AtTier' /\ ReadStands'
    BY <1>1 DEF RollupsInv, ResultsOwned, Undisturbed, Compacting, AtTier, ReadStands
<1> QED BY <1>1, <1>8, <1>9, <1>10 DEF RollupsInv

LEMMA InsertFailsInv ==
    ASSUME RollupsInv, InsertFails
    PROVE  RollupsInv'
<1> USE DEF InsertFails, tables
<1>1. NoResults[1] \in Monitors /\ NoResults[2] = {}
    BY RollupAssumption DEF NoResults
<1>2. TypeOK'
    BY <1>1 DEF RollupsInv, TypeOK
<1>3. RowsFinal'
    BY RowsInherited DEF RollupsInv, TypeOK, Times
<1>4. ResultsOwned' /\ Undisturbed' /\ AtTier' /\ ReadStands'
    BY DEF RollupsInv, ResultsOwned, Undisturbed, Compacting, AtTier, ReadStands
<1> QED BY <1>2, <1>3, <1>4 DEF RollupsInv

LEMMA FinishTierInv ==
    ASSUME RollupsInv, FinishTier
    PROVE  RollupsInv'
<1> USE DEF FinishTier, counters
<1>1. tier \in 1..Len(Tiers) /\ snap \in Start..now /\ TypeOK
    BY DEF RollupsInv, AtTier, Undisturbed, Compacting
<1>2. W \in Times /\ T \in TierSet
    BY <1>1, WindowFacts, TierFacts
<1> HIDE DEF W, T
<1>3. TypeOK'
    <2>1. last' \in [TierSet -> Times \union {NoWindow}]
        BY <1>1, <1>2 DEF TypeOK
    <2>2. tier' \in 1..(Len(Tiers) + 1)
        BY <1>1, RollupAssumption
    <2>3. \A r \in rows' \union durable' : r \in rows \union durable
        OBVIOUS
    <2> QED BY <1>1, <2>1, <2>2, <2>3 DEF TypeOK
<1>4. RowsFinal'
    BY RowsInherited DEF RollupsInv, TypeOK, Times
<1>5. ResultsOwned' /\ Undisturbed' /\ AtTier' /\ ReadStands'
    BY DEF RollupsInv, ResultsOwned, Undisturbed, Compacting, AtTier, ReadStands
<1> QED BY <1>3, <1>4, <1>5 DEF RollupsInv

LEMMA FinishEvaluationInv ==
    ASSUME RollupsInv, FinishEvaluation
    PROVE  RollupsInv'
<1> USE DEF FinishEvaluation, tables, counters
<1>1. TypeOK'
    BY RollupAssumption DEF RollupsInv, TypeOK
<1>2. RowsFinal'
    BY RowsInherited DEF RollupsInv, TypeOK, Times
<1>3. ResultsOwned' /\ Undisturbed' /\ AtTier' /\ ReadStands'
    BY DEF RollupsInv, ResultsOwned, Undisturbed, Compacting, AtTier, ReadStands
<1> QED BY <1>1, <1>2, <1>3 DEF RollupsInv

LEMMA PurgeInv ==
    ASSUME RollupsInv, Purge
    PROVE  RollupsInv'
<1> DEFINE cutoff == now - Retention
<1>1. /\ pc = "idle"
      /\ raw' = {r \in raw : r[2] >= cutoff}
      /\ rows' = {r \in rows : r.window >= cutoff}
      /\ durable' = rows'
      /\ UNCHANGED <<now, monitors, gone, pending, last, sinceEval, pc, locals, counters>>
    BY DEF Purge
<1>2. cutoff \in Int
    BY RollupAssumption DEF RollupsInv, TypeOK, Times
<1> USE DEF locals, counters
<1> HIDE DEF cutoff
<1>3. TypeOK'
    BY <1>1 DEF RollupsInv, TypeOK
<1>4. RowsFinal'
    <2>1. ASSUME NEW row \in rows'
          PROVE  /\ OfMonitor(InBucket(raw', row.window, Bucket[row.tier]), row.monitor)
                      = OfMonitor(InBucket(raw, row.window, Bucket[row.tier]), row.monitor)
                 /\ row.monitor \in monitors'
        <3>1. row \in rows \union durable /\ row.window >= cutoff
            BY <1>1
        <3>2. row.window \in Nat
            BY <3>1, RowFacts DEF RollupsInv
        <3>3. \A r \in raw : r[2] \in Nat
            BY DEF RollupsInv, TypeOK, Results, Times
        <3>4. \A r \in raw : row.window <= r[2] => r[2] >= cutoff
            BY <1>2, <3>1, <3>2, <3>3
        <3>5. row.monitor \in monitors'
            BY <1>1, <3>1 DEF RollupsInv, RowsFinal
        <3> QED BY <1>1, <3>4, <3>5 DEF OfMonitor, InBucket
    <2> QED BY <1>1, <2>1, RowsPruned
<1>5. ResultsOwned' /\ Undisturbed' /\ AtTier' /\ ReadStands'
    BY <1>1 DEF RollupsInv, ResultsOwned, Undisturbed, Compacting, AtTier, ReadStands
<1> QED BY <1>1, <1>3, <1>4, <1>5 DEF RollupsInv

LEMMA ArchiveInv ==
    ASSUME RollupsInv, NEW m \in Monitors, Archive(m)
    PROVE  RollupsInv'
<1> USE DEF Archive, locals, counters
<1>1. TypeOK'
    BY DEF RollupsInv, TypeOK
<1>2. RowsFinal'
    <2>1. ASSUME NEW row \in rows'
          PROVE  /\ OfMonitor(InBucket(raw', row.window, Bucket[row.tier]), row.monitor)
                      = OfMonitor(InBucket(raw, row.window, Bucket[row.tier]), row.monitor)
                 /\ row.monitor \in monitors'
        BY DEF RollupsInv, RowsFinal, OfMonitor, InBucket
    <2> QED BY <2>1, RowsPruned
<1>3. ResultsOwned' /\ Undisturbed' /\ AtTier' /\ ReadStands'
    BY DEF RollupsInv, ResultsOwned, Undisturbed, Compacting, AtTier, ReadStands
<1> QED BY <1>1, <1>2, <1>3 DEF RollupsInv

LEMMA CrashInv ==
    ASSUME RollupsInv, Crash
    PROVE  RollupsInv'
<1> USE DEF Crash
<1>1. NoResults[1] \in Monitors /\ NoResults[2] = {}
    BY RollupAssumption DEF NoResults
<1>2. TypeOK'
    BY <1>1, RollupAssumption DEF RollupsInv, TypeOK, Times
<1>3. RowsFinal'
    BY RowsInherited DEF RollupsInv, TypeOK, Times
<1>4. ResultsOwned' /\ Undisturbed' /\ AtTier' /\ ReadStands'
    BY DEF RollupsInv, ResultsOwned, Undisturbed, Compacting, AtTier, ReadStands
<1> QED BY <1>2, <1>3, <1>4 DEF RollupsInv

LEMMA RestartInv ==
    ASSUME RollupsInv, Restart
    PROVE  RollupsInv'
<1> USE DEF Restart, tables, locals, counters
<1>1. TypeOK'
    BY DEF RollupsInv, TypeOK
<1>2. RowsFinal'
    BY RowsInherited DEF RollupsInv, TypeOK, Times
<1>3. ResultsOwned' /\ Undisturbed' /\ AtTier' /\ ReadStands'
    BY DEF RollupsInv, ResultsOwned, Undisturbed, Compacting, AtTier, ReadStands
<1> QED BY <1>1, <1>2, <1>3 DEF RollupsInv

LEMMA TimePassesInv ==
    ASSUME RollupsInv, TimePasses
    PROVE  RollupsInv'
<1>1. /\ now < End
      /\ now' = now + 1
      /\ UNCHANGED <<monitors, gone, pending, tables, last, pc, locals, checks, faults, aborts>>
      /\ \/ UNCHANGED sinceEval
         \/ sinceEval < Period + Lateness /\ sinceEval' = sinceEval + 1
      /\ outage' \in {TRUE, outage}
    BY DEF TimePasses
<1> USE DEF tables, locals
<1>2. Start \in Nat /\ End \in Nat /\ Period \in Nat /\ Lateness \in Nat
    BY RollupAssumption
<1>3. now \in Nat /\ snap \in Nat
    BY DEF RollupsInv, TypeOK, Times
<1>4. TypeOK'
    <2>1. now' \in Times
        BY <1>1, <1>2, <1>3 DEF Times
    <2>2. sinceEval' \in 0..(Period + Lateness)
        BY <1>1, <1>2 DEF RollupsInv, TypeOK
    <2>3. outage' \in BOOLEAN
        BY <1>1, Zenon DEF RollupsInv, TypeOK
    <2> QED BY <1>1, <2>1, <2>2, <2>3 DEF RollupsInv, TypeOK
<1>5. RowsFinal'
    BY <1>1, <1>3, RowsInherited
<1>6. ResultsOwned' /\ AtTier' /\ ReadStands'
    BY <1>1 DEF RollupsInv, ResultsOwned, AtTier, ReadStands, W, T
<1>7. Undisturbed' /\ Start <= now'
    BY <1>1, <1>2, <1>3 DEF RollupsInv, Undisturbed, Compacting
<1> QED BY <1>4, <1>5, <1>6, <1>7 DEF RollupsInv

LEMMA RollupsInvNext == RollupsInv /\ [Next]_vars => RollupsInv'
<1> SUFFICES ASSUME RollupsInv, [Next]_vars PROVE RollupsInv'
    OBVIOUS
<1>1. CASE \E m \in Monitors : Create(m) \/ Delete(m) \/ StampResult(m) \/ Archive(m)
    BY <1>1, CreateInv, DeleteInv, StampResultInv, ArchiveInv
<1>2. CASE \E r \in pending : SaveResult(r)
    BY <1>2, SaveResultInv
<1>3. CASE Compact
    BY <1>3, EvaluateInv, SkipTierInv, SelectIdsInv, SelectRowsInv, InsertRowInv, InsertFailsInv,
       FinishTierInv, FinishEvaluationInv DEF Compact
<1>4. CASE Purge \/ Crash \/ Restart \/ TimePasses
    BY <1>4, PurgeInv, CrashInv, RestartInv, TimePassesInv
<1>5. CASE UNCHANGED vars
    <2> USE <1>5 DEF vars
    <2>1. TypeOK'
        BY DEF RollupsInv, TypeOK
    <2>2. RowsFinal'
        BY DEF RollupsInv, RowsFinal, Matches
    <2>3. ResultsOwned' /\ Undisturbed' /\ AtTier' /\ ReadStands'
        BY DEF RollupsInv, ResultsOwned, Undisturbed, Compacting, AtTier, ReadStands, W, T
    <2> QED BY <2>1, <2>2, <2>3 DEF RollupsInv
<1> QED BY <1>1, <1>2, <1>3, <1>4, <1>5 DEF Next

LEMMA RollupsInvariance == Spec => []RollupsInv
<1> QED BY RollupsInvInit, RollupsInvNext, PTL DEF Spec

-----------------------------------------------------------------------------
(* Every long bucket is compacted in time. *)

\* A row for the key (t, m, w).
RowFor(set, t, m, w) == \E r \in set : r.tier = t /\ r.monitor = m /\ r.window = w

\* Monitor m has results in bucket w of tier t.
HasResults(t, m, w) == OfMonitor(InBucket(raw, w, Bucket[t]), m) # {}

CompactedIn(set, t, w) == \A m \in monitors : HasResults(t, m, w) => RowFor(set, t, m, w)

\* A committed row is only ever replaced by one with its key.
DurableKept == \A r \in durable : RowFor(rows, r.tier, r.monitor, r.window)

\* The timer has run since the compaction under way began, and since the oldest result
\* on its way into the table was stamped.
TimerRuns ==
    /\ Compacting => now - snap = sinceEval
    /\ \A r \in pending : pc = "idle" /\ now - r[2] <= sinceEval

\* The bucket _LAST_COMPACTED names is closed, and committed while it is retained.
LastDone == \A t \in TierSet : last[t] # NoWindow =>
    /\ last[t] + Bucket[t] <= now
    /\ \A r \in pending : r[2] >= last[t] + Bucket[t]
    /\ last[t] >= now - Retention => CompactedIn(durable, t, last[t])

\* The tier the compaction is at: the monitors done have their rows.
Progress == pc \in {"rows", "insert"} => \A m \in monitors :
    HasResults(T, m, W) =>
        m \in ids \/ (pc = "insert" /\ cur[1] = m) \/ RowFor(rows, T, m, W)

MaxPeriod == Period + Lateness

\* The time an evaluation may have been put off by those cut short, and by the restarts.
Slack == aborts * MaxPeriod + faults * Lateness

Long(t) == Bucket[t] >= (aborts + 1) * MaxPeriod + faults * Lateness

\* The compaction under way has yet to come to tier t, and began when bucket w had elapsed.
Awaited(t, w) ==
    Compacting /\ snap >= w + Bucket[t] /\ \E k \in tier..Len(Tiers) : Tiers[k] = t

\* How long ago a bucket can have elapsed that is not compacted yet.
OverdueBy(t, w) ==
    /\ now - (w + Bucket[t]) < sinceEval + Slack + MaxPeriod
    /\ ~Awaited(t, w) => now - (w + Bucket[t]) < sinceEval + Slack

BucketsInTime == ~outage => \A t \in TierSet, w \in Times :
    Long(t) /\ w % Bucket[t] = 0 /\ w >= now - Retention /\ ~CompactedIn(durable, t, w)
        => OverdueBy(t, w)

SurvivalInv == DurableKept /\ TimerRuns /\ LastDone /\ Progress /\ BucketsInTime

\* No step takes a retained bucket's row away while the bucket holds results.
KeepsCompacted == \A t \in TierSet, w \in Times :
    w >= now' - Retention /\ CompactedIn(durable, t, w) => CompactedIn(durable, t, w)'

LEMMA DelayFacts ==
    ASSUME TypeOK
    PROVE  /\ Period \in Nat /\ Lateness \in Nat /\ Retention \in Nat
           /\ MaxPeriod = Period + Lateness /\ MaxPeriod \in Nat
           /\ Slack \in Nat
           /\ now \in Nat /\ snap \in Nat
           /\ sinceEval \in Nat /\ sinceEval <= MaxPeriod
           /\ \A t \in TierSet : Bucket[t] \in Nat \ {0} /\ (Long(t) <=> Bucket[t] >= Slack + MaxPeriod)
           /\ \A w \in Times : w \in Nat
<1>1. /\ Period \in Nat /\ Lateness \in Nat /\ Retention \in Nat
      /\ \A t \in TierSet : Bucket[t] \in Nat \ {0}
    BY RollupAssumption
<1>2. MaxPeriod = Period + Lateness /\ MaxPeriod \in Nat
    BY <1>1 DEF MaxPeriod
<1>3. aborts \in Nat /\ faults \in Nat
    BY DEF TypeOK
<1>4. aborts * MaxPeriod \in Nat /\ faults * Lateness \in Nat
    BY <1>1, <1>2, <1>3
<1>5. (aborts + 1) * MaxPeriod = aborts * MaxPeriod + MaxPeriod
    BY <1>2, <1>3
<1>6. Slack \in Nat
    BY <1>4 DEF Slack
<1>7. \A t \in TierSet : Long(t) <=> Bucket[t] >= Slack + MaxPeriod
    BY <1>1, <1>2, <1>4, <1>5 DEF Long, Slack
<1>8. now \in Nat /\ snap \in Nat /\ \A w \in Times : w \in Nat
    BY DEF TypeOK, Times
<1>9. sinceEval \in Nat /\ sinceEval <= MaxPeriod
    BY <1>1, <1>2 DEF TypeOK
<1> QED BY <1>1, <1>2, <1>6, <1>7, <1>8, <1>9

\* An evaluation cut short puts the next one off by a period, a restart by the lateness too.
LEMMA SlackGrows ==
    ASSUME TypeOK, aborts' = aborts + 1
    PROVE  /\ faults' = faults => Slack' = Slack + MaxPeriod
           /\ faults' = faults + 1 => Slack' = Slack + MaxPeriod + Lateness
<1>1. aborts \in Nat /\ faults \in Nat /\ MaxPeriod \in Nat /\ Lateness \in Nat
    BY DelayFacts DEF TypeOK
<1>2. (aborts + 1) * MaxPeriod = aborts * MaxPeriod + MaxPeriod
    BY <1>1
<1>3. (faults + 1) * Lateness = faults * Lateness + Lateness
    BY <1>1
<1>4. aborts * MaxPeriod \in Nat /\ faults * Lateness \in Nat
    BY <1>1
<1>5. Slack' = aborts' * MaxPeriod + faults' * Lateness
    BY DEF Slack, MaxPeriod
<1> QED BY <1>1, <1>2, <1>3, <1>4, <1>5 DEF Slack

LEMMA MultipleBelow ==
    ASSUME NEW k \in Nat, NEW s \in Nat, NEW b \in Nat \ {0}, k * b <= s
    PROVE  k * b <= Floor(s, b)
<1> DEFINE d == s \div b
<1>1. d \in Nat /\ s < (d + 1) * b
    BY SMT
<1> HIDE DEF d
<1>2. CASE k >= d + 1
    <2>1. k * b >= (d + 1) * b
        BY <1>1, <1>2
    <2> QED BY <1>1, <2>1
<1>3. CASE k <= d
    <2>1. k * b <= d * b
        BY <1>1, <1>3
    <2> QED BY <2>1 DEF Floor, d
<1> QED BY <1>1, <1>2, <1>3

LEMMA FloorUnique ==
    ASSUME NEW w \in Nat, NEW s \in Nat, NEW b \in Nat \ {0}, w % b = 0, w <= s, s < w + b
    PROVE  Floor(s, b) = w
<1> DEFINE k == w \div b
<1>1. k \in Nat /\ w = k * b
    BY SMT
<1> HIDE DEF k
<1>2. s \div b = k
    BY <1>1, SMTT(30)
<1> QED BY <1>1, <1>2 DEF Floor

\* The only bucket of the tier that has elapsed and whose successor has not.
LEMMA WindowUnique ==
    ASSUME TypeOK, tier \in 1..Len(Tiers), snap \in Start..now,
           NEW w \in Times, w % Bucket[T] = 0, w + Bucket[T] <= snap, snap < w + 2 * Bucket[T]
    PROVE  w = W
<1>1. Bucket[T] \in Nat \ {0} /\ w \in Nat /\ snap \in Nat
    BY TierFacts DEF TypeOK, Times
<1> DEFINE b == Bucket[T]
           s == snap - b
<1>2. b \in Nat \ {0} /\ s \in Nat /\ w % b = 0 /\ w <= s /\ s < w + b
    BY <1>1
<1>3. W = Floor(s, b)
    BY DEF W, LastWindow
<1> HIDE DEF s, b
<1> QED BY <1>1, <1>2, <1>3, FloorUnique

\* The first tier's bucket divides the others: the bucket an evaluation considers ends
\* at or before the last boundary of the first tier.
LEMMA WindowElapsed ==
    ASSUME TypeOK, tier \in 1..Len(Tiers), snap \in Start..now
    PROVE  W + Bucket[T] <= Floor(snap, Bucket[Tiers[1]])
<1>1. /\ Bucket[T] \in Nat \ {0} /\ snap \in Nat /\ W \in Nat /\ W + Bucket[T] <= snap
      /\ Bucket[T] <= snap
    <2>1. snap \in Nat /\ Start \in Nat /\ Start <= snap
        BY RollupAssumption DEF TypeOK, Times
    <2>2. Bucket[T] \in Nat \ {0} /\ Bucket[T] <= Start
        BY TierFacts
    <2>3. W \in Nat /\ W + Bucket[T] <= snap
        BY WindowFacts DEF Times
    <2> QED BY <2>1, <2>2, <2>3
<1>2. Tiers[1] \in TierSet /\ T \in TierSet
    BY RollupAssumption, TierFacts DEF TierSet
<1> DEFINE c == Bucket[Tiers[1]]
           b == Bucket[T]
           j == b \div c
           i == (snap - b) \div b
<1>3. c \in Nat \ {0} /\ b \in Nat \ {0} /\ b % c = 0
    BY <1>2, RollupAssumption
<1>4. j \in Nat /\ b = j * c
    BY <1>3, SMT
<1>5. i \in Nat /\ W = i * b
    BY <1>1, SMT DEF W, LastWindow, Floor
<1>6. W + b \in Nat /\ W + b <= snap
    BY <1>1
<1> HIDE DEF c, b, j, i, W, T
<1>7. (i + 1) * j \in Nat
    BY <1>4, <1>5
<1>8. W + b = (i + 1) * b
    BY <1>3, <1>5
<1>9. (i + 1) * b = ((i + 1) * j) * c
    BY <1>3, <1>4, <1>5
<1>10. ((i + 1) * j) * c <= Floor(snap, c)
    BY <1>1, <1>3, <1>6, <1>7, <1>8, <1>9, MultipleBelow
<1> QED BY <1>8, <1>9, <1>10 DEF b, c

-----------------------------------------------------------------------------
(* What the steps keep. *)

LEMMA CommitKeeps ==
    ASSUME DurableKept, UNCHANGED <<raw, monitors>>, durable' = durable \/ durable' = rows
    PROVE  KeepsCompacted
<1> SUFFICES ASSUME NEW t \in TierSet, NEW w \in Times, CompactedIn(durable, t, w),
                    NEW m \in monitors, HasResults(t, m, w)
             PROVE  RowFor(durable', t, m, w)
    BY DEF KeepsCompacted, CompactedIn, HasResults, RowFor
<1>1. RowFor(durable, t, m, w)
    BY DEF CompactedIn
<1> QED BY <1>1 DEF DurableKept, RowFor

\* LastDone is kept by whatever keeps the buckets compacted.
LEMMA LastDoneKept ==
    ASSUME RollupsInv, LastDone, KeepsCompacted, last' = last, now' \in Nat, now <= now',
           pending' \subseteq pending \union (Monitors \X {now})
    PROVE  LastDone'
<1> SUFFICES ASSUME NEW t \in TierSet, last[t] # NoWindow
             PROVE  /\ last[t] + Bucket[t] <= now'
                    /\ \A r \in pending' : r[2] >= last[t] + Bucket[t]
                    /\ last[t] >= now' - Retention => CompactedIn(durable, t, last[t])'
    BY DEF LastDone, CompactedIn, HasResults, InBucket, OfMonitor
<1>1. /\ last[t] + Bucket[t] <= now
      /\ \A r \in pending : r[2] >= last[t] + Bucket[t]
      /\ last[t] >= now - Retention => CompactedIn(durable, t, last[t])
    BY DEF LastDone
<1>2. last[t] \in Times /\ last[t] \in Nat /\ now \in Nat /\ Retention \in Nat /\ Bucket[t] \in Nat
    BY DelayFacts DEF RollupsInv, TypeOK, Times
<1>3. \A r \in pending' : r[2] >= last[t] + Bucket[t]
    BY <1>1, <1>2
<1>4. ASSUME last[t] >= now' - Retention PROVE CompactedIn(durable, t, last[t])'
    <2>1. last[t] >= now - Retention
        BY <1>2, <1>4
    <2> QED BY <1>1, <1>2, <1>4, <2>1 DEF KeepsCompacted, CompactedIn, HasResults, InBucket, OfMonitor
<1> QED BY <1>1, <1>2, <1>3, <1>4

\* The bound is kept by whatever keeps the buckets compacted, the timer as it is and the
\* tiers to come.
LEMMA InTimeKept ==
    ASSUME RollupsInv, BucketsInTime, KeepsCompacted,
           UNCHANGED <<now, sinceEval, aborts, faults, outage>>,
           \A t \in TierSet, w \in Times : Awaited(t, w) => Awaited(t, w)'
    PROVE  BucketsInTime'
<1> SUFFICES ASSUME ~outage, NEW t \in TierSet, NEW w \in Times,
                    Long(t), w % Bucket[t] = 0, w >= now - Retention,
                    ~CompactedIn(durable, t, w)'
             PROVE  OverdueBy(t, w)'
    BY DEF BucketsInTime, Long
<1>1. OverdueBy(t, w)
    BY DEF BucketsInTime, KeepsCompacted
<1>2. ~Awaited(t, w)' => ~Awaited(t, w)
    OBVIOUS
<1>3. Slack' = Slack
    BY DEF Slack
<1> QED BY <1>1, <1>2, <1>3 DEF OverdueBy

-----------------------------------------------------------------------------
(* The steps, again. *)

LEMMA SurvivalInit == Init => SurvivalInv
<1> SUFFICES ASSUME Init PROVE SurvivalInv
    OBVIOUS
<1>1. DurableKept /\ TimerRuns /\ LastDone /\ Progress
    BY DEF Init, DurableKept, TimerRuns, Compacting, LastDone, Progress
<1>2. BucketsInTime
    BY DEF Init, BucketsInTime, CompactedIn
<1> QED BY <1>1, <1>2 DEF SurvivalInv

LEMMA CreateSurvival ==
    ASSUME RollupsInv, SurvivalInv, NEW m \in Monitors, Create(m)
    PROVE  SurvivalInv'
<1> USE DEF Create, locals, counters
<1>1. ASSUME NEW n \in monitors', NEW t, NEW w, HasResults(t, n, w)
      PROVE  n \in monitors
    BY <1>1 DEF RollupsInv, ResultsOwned, HasResults, OfMonitor, InBucket
<1>2. KeepsCompacted
    <2> SUFFICES ASSUME NEW t \in TierSet, NEW w \in Times, CompactedIn(durable, t, w),
                        NEW n \in monitors', HasResults(t, n, w)
                 PROVE  RowFor(rows, t, n, w)
        BY DEF KeepsCompacted, CompactedIn, HasResults, RowFor
    <2>1. RowFor(durable, t, n, w)
        BY <1>1 DEF CompactedIn
    <2> QED BY <2>1 DEF SurvivalInv, DurableKept, RowFor
<1>3. DurableKept' /\ TimerRuns'
    BY DEF SurvivalInv, DurableKept, RowFor, TimerRuns, Compacting
<1>4. LastDone'
    BY <1>2, LastDoneKept, DelayFacts DEF RollupsInv, SurvivalInv
<1>5. Progress'
    <2> SUFFICES ASSUME pc \in {"rows", "insert"}, NEW n \in monitors', HasResults(T, n, W)
                 PROVE  n \in ids \/ (pc = "insert" /\ cur[1] = n) \/ RowFor(rows, T, n, W)
        BY DEF Progress, HasResults, RowFor, W, T
    <2> QED BY <1>1 DEF SurvivalInv, Progress
<1>6. BucketsInTime'
    BY <1>2, InTimeKept DEF SurvivalInv, Awaited, Compacting
<1> QED BY <1>3, <1>4, <1>5, <1>6 DEF SurvivalInv

LEMMA DeleteSurvival ==
    ASSUME RollupsInv, SurvivalInv, NEW m \in Monitors, Delete(m)
    PROVE  SurvivalInv'
<1> USE DEF Delete, locals, counters
<1>1. ASSUME NEW n \in monitors', NEW t, NEW w, HasResults(t, n, w)'
      PROVE  n \in monitors /\ HasResults(t, n, w)
    BY <1>1 DEF HasResults, OfMonitor, InBucket
<1>2. ASSUME NEW n \in monitors', NEW t, NEW w, RowFor(rows, t, n, w)
      PROVE  RowFor(rows', t, n, w)
    BY <1>2 DEF RowFor
<1>3. KeepsCompacted
    <2> SUFFICES ASSUME NEW t \in TierSet, NEW w \in Times, CompactedIn(durable, t, w),
                        NEW n \in monitors', HasResults(t, n, w)'
                 PROVE  RowFor(rows', t, n, w)
        BY DEF KeepsCompacted, CompactedIn, RowFor
    <2>1. RowFor(durable, t, n, w)
        BY <1>1 DEF CompactedIn
    <2>2. RowFor(rows, t, n, w)
        BY <2>1 DEF SurvivalInv, DurableKept, RowFor
    <2> QED BY <1>2, <2>2
<1>4. DurableKept' /\ TimerRuns'
    BY DEF SurvivalInv, DurableKept, RowFor, TimerRuns, Compacting
<1>5. LastDone'
    BY <1>3, LastDoneKept, DelayFacts DEF RollupsInv, SurvivalInv
<1>6. Progress'
    <2> SUFFICES ASSUME pc \in {"rows", "insert"}, NEW n \in monitors', HasResults(T, n, W)'
                 PROVE  n \in ids \/ (pc = "insert" /\ cur[1] = n) \/ RowFor(rows', T, n, W)
        BY DEF Progress, HasResults, RowFor, W, T
    <2>1. n \in monitors /\ HasResults(T, n, W)
        BY DEF HasResults, OfMonitor, InBucket, T, W
    <2> QED BY <1>2, <2>1 DEF SurvivalInv, Progress
<1>7. BucketsInTime'
    BY <1>3, InTimeKept DEF SurvivalInv, Awaited, Compacting
<1> QED BY <1>4, <1>5, <1>6, <1>7 DEF SurvivalInv

LEMMA ArchiveSurvival ==
    ASSUME RollupsInv, SurvivalInv, NEW m \in Monitors, Archive(m)
    PROVE  SurvivalInv'
<1> USE DEF Archive, locals, counters
<1>1. KeepsCompacted
    <2> SUFFICES ASSUME NEW t \in TierSet, NEW w \in Times, CompactedIn(durable, t, w),
                        NEW n \in monitors, HasResults(t, n, w)'
                 PROVE  RowFor(rows', t, n, w)
        BY DEF KeepsCompacted, CompactedIn, RowFor
    <2>1. n # m /\ HasResults(t, n, w)
        BY DEF HasResults, OfMonitor, InBucket
    <2>2. RowFor(durable, t, n, w)
        BY <2>1 DEF CompactedIn
    <2>3. RowFor(rows, t, n, w)
        BY <2>2 DEF SurvivalInv, DurableKept, RowFor
    <2> QED BY <2>1, <2>3 DEF RowFor
<1>2. DurableKept' /\ TimerRuns' /\ Progress'
    BY DEF SurvivalInv, DurableKept, RowFor, TimerRuns, Compacting, Progress
<1>3. LastDone'
    BY <1>1, LastDoneKept, DelayFacts DEF RollupsInv, SurvivalInv
<1>4. BucketsInTime'
    BY <1>1, InTimeKept DEF SurvivalInv, Awaited, Compacting
<1> QED BY <1>2, <1>3, <1>4 DEF SurvivalInv

LEMMA StampResultSurvival ==
    ASSUME RollupsInv, SurvivalInv, NEW m \in Monitors, StampResult(m)
    PROVE  SurvivalInv'
<1> USE DEF StampResult, locals, tables
<1>1. KeepsCompacted
    BY CommitKeeps DEF SurvivalInv
<1>2. DurableKept' /\ Progress'
    BY DEF SurvivalInv, DurableKept, RowFor, Progress
<1>3. TimerRuns'
    <2> SUFFICES ASSUME NEW r \in pending' PROVE now - r[2] <= sinceEval
        BY DEF TimerRuns, Compacting
    <2>1. now \in Nat /\ sinceEval \in Nat
        BY DelayFacts DEF RollupsInv
    <2>2. r \in pending \/ r[2] = now
        OBVIOUS
    <2> QED BY <2>1, <2>2 DEF SurvivalInv, TimerRuns
<1>4. LastDone'
    BY <1>1, LastDoneKept, DelayFacts DEF RollupsInv, SurvivalInv
<1>5. BucketsInTime'
    BY <1>1, InTimeKept DEF SurvivalInv, Awaited, Compacting
<1> QED BY <1>2, <1>3, <1>4, <1>5 DEF SurvivalInv

LEMMA SaveResultSurvival ==
    ASSUME RollupsInv, SurvivalInv, NEW r \in pending, SaveResult(r)
    PROVE  SurvivalInv'
<1> USE DEF SaveResult, locals, counters
<1>1. now \in Nat /\ sinceEval \in Nat /\ Slack \in Nat /\ MaxPeriod \in Nat /\ r[2] \in Nat
    BY DelayFacts DEF RollupsInv, TypeOK, Results, Times
<1>2. pc = "idle" /\ now - r[2] <= sinceEval
    BY DEF SurvivalInv, TimerRuns
\* The result is in the bucket, or the bucket is compacted as it was.
<1>3. ASSUME NEW t \in TierSet, NEW w \in Times, CompactedIn(durable, t, w),
             ~(w <= r[2] /\ r[2] < w + Bucket[t])
      PROVE  CompactedIn(durable, t, w)'
    <2> SUFFICES ASSUME NEW n \in monitors, HasResults(t, n, w)'
                 PROVE  RowFor(rows, t, n, w)
        BY DEF CompactedIn, RowFor
    <2>1. HasResults(t, n, w)
        BY <1>3 DEF HasResults, OfMonitor, InBucket
    <2>2. RowFor(durable, t, n, w)
        BY <1>3, <2>1 DEF CompactedIn
    <2> QED BY <2>2 DEF SurvivalInv, DurableKept, RowFor
<1>4. DurableKept' /\ TimerRuns' /\ Progress'
    BY <1>2 DEF SurvivalInv, DurableKept, RowFor, TimerRuns, Compacting, Progress
<1>5. LastDone'
    <2> SUFFICES ASSUME NEW t \in TierSet, last[t] # NoWindow
                 PROVE  /\ last[t] + Bucket[t] <= now
                        /\ \A p \in pending' : p[2] >= last[t] + Bucket[t]
                        /\ last[t] >= now - Retention => CompactedIn(durable, t, last[t])'
        BY DEF LastDone, CompactedIn, HasResults, InBucket, OfMonitor
    <2>1. /\ last[t] + Bucket[t] <= now
          /\ \A p \in pending : p[2] >= last[t] + Bucket[t]
          /\ last[t] >= now - Retention => CompactedIn(durable, t, last[t])
        BY DEF SurvivalInv, LastDone
    <2>2. last[t] \in Times /\ last[t] \in Nat /\ Bucket[t] \in Nat
        BY DelayFacts DEF RollupsInv, TypeOK, Times
    <2>3. ~(r[2] < last[t] + Bucket[t])
        BY <1>1, <2>1, <2>2
    <2> QED BY <1>3, <2>1, <2>2, <2>3 DEF CompactedIn, HasResults, InBucket, OfMonitor
<1>6. BucketsInTime'
    <2> SUFFICES ASSUME ~outage, NEW t \in TierSet, NEW w \in Times,
                        Long(t), w % Bucket[t] = 0, w >= now - Retention,
                        ~CompactedIn(durable, t, w)'
                 PROVE  OverdueBy(t, w)'
        BY DEF BucketsInTime, Long
    <2>1. w \in Nat /\ Bucket[t] \in Nat
        BY DelayFacts DEF RollupsInv
    <2>2. Slack' = Slack
        BY DEF Slack
    <2>3. CASE ~CompactedIn(durable, t, w)
        <3>1. OverdueBy(t, w)
            BY <2>3 DEF SurvivalInv, BucketsInTime
        <3>2. ~Awaited(t, w)
            BY <1>2 DEF Awaited, Compacting
        <3> QED BY <1>1, <2>1, <2>2, <3>1, <3>2 DEF OverdueBy
    <2>4. CASE w <= r[2] /\ r[2] < w + Bucket[t]
        <3>1. now - (w + Bucket[t]) < sinceEval
            BY <1>1, <1>2, <2>1, <2>4
        <3>2. now - (w + Bucket[t]) \in Int
            BY <1>1, <2>1
        <3> QED BY <1>1, <2>1, <2>2, <3>1, <3>2 DEF OverdueBy
    <2> QED BY <1>3, <2>3, <2>4
<1> QED BY <1>4, <1>5, <1>6 DEF SurvivalInv

LEMMA EvaluateSurvival ==
    ASSUME RollupsInv, SurvivalInv, Evaluate
    PROVE  SurvivalInv'
<1> USE DEF Evaluate, tables, counters
<1>1. KeepsCompacted
    BY CommitKeeps DEF SurvivalInv
<1>2. DurableKept' /\ Progress'
    BY DEF SurvivalInv, DurableKept, RowFor, Progress
<1>3. TimerRuns'
    BY DelayFacts DEF RollupsInv, TimerRuns
<1>4. LastDone'
    BY <1>1, LastDoneKept, DelayFacts DEF RollupsInv, SurvivalInv
<1>5. BucketsInTime'
    <2> SUFFICES ASSUME ~outage, NEW t \in TierSet, NEW w \in Times,
                        Long(t), w % Bucket[t] = 0, w >= now - Retention,
                        ~CompactedIn(durable, t, w)'
                 PROVE  OverdueBy(t, w)'
        BY DEF BucketsInTime, Long
    <2>1. /\ w \in Nat /\ Bucket[t] \in Nat /\ now \in Nat
          /\ sinceEval \in Nat /\ sinceEval <= MaxPeriod /\ MaxPeriod \in Nat /\ Slack \in Nat
        BY DelayFacts DEF RollupsInv
    <2>2. ~CompactedIn(durable, t, w)
        BY <1>1 DEF KeepsCompacted
    <2>3. ~Awaited(t, w)
        BY DEF Awaited, Compacting
    <2>4. now - (w + Bucket[t]) < sinceEval + Slack
        BY <2>2, <2>3 DEF SurvivalInv, BucketsInTime, OverdueBy
    <2>5. Slack' = Slack /\ sinceEval' = 0 /\ now' = now
        BY DEF Slack
    <2>6. now - (w + Bucket[t]) < 0 + Slack + MaxPeriod
        BY <2>1, <2>4
    <2>7. ASSUME ~Awaited(t, w)' PROVE now - (w + Bucket[t]) < 0 + Slack
        <3>1. \E k \in 1..Len(Tiers) : Tiers[k] = t
            BY DEF TierSet
        <3>2. ~(now >= w + Bucket[t])
            BY <2>7, <3>1 DEF Awaited, Compacting
        <3> QED BY <2>1, <3>2
    <2> QED BY <2>5, <2>6, <2>7 DEF OverdueBy, MaxPeriod
<1> QED BY <1>2, <1>3, <1>4, <1>5 DEF SurvivalInv

\* When the compaction comes to a tier, its window is the only long bucket left to it.
LEMMA WindowLeft ==
    ASSUME RollupsInv, SurvivalInv, Compacting, tier \in 1..Len(Tiers), ~outage, Long(T),
           NEW w \in Times, w % Bucket[T] = 0, w >= now - Retention,
           ~CompactedIn(durable, T, w), snap >= w + Bucket[T]
    PROVE  w = W
<1>1. T \in TierSet /\ snap \in Start..now
    BY TierFacts DEF RollupsInv, Undisturbed
<1>2. /\ w \in Nat /\ Bucket[T] \in Nat /\ now \in Nat /\ snap \in Nat
      /\ sinceEval \in Nat /\ MaxPeriod \in Nat /\ Slack \in Nat
      /\ Bucket[T] >= Slack + MaxPeriod
    BY <1>1, DelayFacts DEF RollupsInv
<1>3. now - (w + Bucket[T]) < sinceEval + Slack + MaxPeriod
    BY <1>1 DEF SurvivalInv, BucketsInTime, OverdueBy
<1>4. now - snap = sinceEval
    BY DEF SurvivalInv, TimerRuns
<1>5. snap < w + 2 * Bucket[T]
    <2> DEFINE b == Bucket[T]
    <2>1. /\ w \in Nat /\ b \in Nat /\ now \in Nat /\ snap \in Nat
          /\ sinceEval \in Nat /\ MaxPeriod \in Nat /\ Slack \in Nat
          /\ b >= Slack + MaxPeriod
        BY <1>2
    <2>2. now - (w + b) < sinceEval + Slack + MaxPeriod
        BY <1>3
    <2> HIDE DEF b
    <2>3. snap < w + 2 * b
        BY <1>4, <2>1, <2>2
    <2> QED BY <2>3 DEF b
<1>6. w + Bucket[T] <= snap
    BY <1>2
<1> QED BY <1>1, <1>5, <1>6, WindowUnique DEF RollupsInv

\* A tier is left behind with its window compacted, or too old to matter.
LEMMA TierLeft ==
    ASSUME RollupsInv, SurvivalInv, Compacting, tier \in 1..Len(Tiers), tier' = tier + 1,
           pc' = "tiers", KeepsCompacted,
           UNCHANGED <<now, snap, sinceEval, aborts, faults, outage>>,
           NEW done \in TierSet, done = T, NEW window \in Times, window = W,
           window >= now - Retention => CompactedIn(durable, done, window)'
    PROVE  BucketsInTime'
<1> SUFFICES ASSUME ~outage, NEW t \in TierSet, NEW w \in Times,
                    Long(t), w % Bucket[t] = 0, w >= now - Retention,
                    ~CompactedIn(durable, t, w)'
             PROVE  OverdueBy(t, w)'
    BY DEF BucketsInTime, Long
<1>1. /\ w \in Nat /\ Bucket[t] \in Nat /\ now \in Nat /\ snap \in Nat
      /\ sinceEval \in Nat /\ MaxPeriod \in Nat /\ Slack \in Nat
    BY DelayFacts DEF RollupsInv
<1>2. ~CompactedIn(durable, t, w)
    BY DEF KeepsCompacted
<1>3. OverdueBy(t, w)
    BY <1>2 DEF SurvivalInv, BucketsInTime
<1>4. ASSUME Awaited(t, w), ~Awaited(t, w)' PROVE FALSE
    <2>1. snap >= w + Bucket[t] /\ t = T
        <3>1. PICK k \in tier..Len(Tiers) : Tiers[k] = t
            BY <1>4 DEF Awaited
        <3>2. k \notin (tier + 1)..Len(Tiers)
            BY <1>4, <3>1 DEF Awaited, Compacting
        <3>3. k = tier
            BY <3>1, <3>2, RollupAssumption
        <3> QED BY <1>4, <3>1, <3>3 DEF Awaited, T
    <2>2. w = W
        BY <1>2, <2>1, WindowLeft
    <2> QED BY <2>1, <2>2
<1>5. Slack' = Slack
    BY DEF Slack
<1>6. ~Awaited(t, w)' => ~Awaited(t, w)
    BY <1>4
<1> QED BY <1>3, <1>5, <1>6 DEF OverdueBy, MaxPeriod

LEMMA SkipTierSurvival ==
    ASSUME RollupsInv, SurvivalInv, SkipTier
    PROVE  SurvivalInv'
<1> USE DEF SkipTier, tables, counters
<1>1. KeepsCompacted
    BY CommitKeeps DEF SurvivalInv
<1>2. DurableKept' /\ TimerRuns' /\ Progress'
    BY DEF SurvivalInv, DurableKept, RowFor, TimerRuns, Compacting, Progress
<1>3. LastDone'
    BY <1>1, LastDoneKept, DelayFacts DEF RollupsInv, SurvivalInv
<1>4. Compacting /\ tier \in 1..Len(Tiers) /\ snap \in Start..now /\ T \in TierSet
    <2>1. Compacting /\ tier \in 1..Len(Tiers)
        BY RollupAssumption DEF RollupsInv, TypeOK, Compacting
    <2> QED BY <2>1, TierFacts DEF RollupsInv, Undisturbed
<1>5. PICK t \in TierSet, w \in Times : t = T /\ w = W
    BY <1>4, WindowFacts DEF RollupsInv
<1>6. last[T] = W
    <2>1. W + Bucket[T] <= Floor(snap, Bucket[Tiers[1]])
        BY <1>4, WindowElapsed DEF RollupsInv
    <2> QED BY <2>1 DEF Pending, W
<1>7. w >= now - Retention => CompactedIn(durable, t, w)'
    <2>1. w \in Nat
        BY DEF Times
    <2>2. w >= now - Retention => CompactedIn(durable, t, w)
        BY <1>5, <1>6, <2>1 DEF SurvivalInv, LastDone, NoWindow
    <2> QED BY <1>1, <2>2 DEF KeepsCompacted
<1>8. BucketsInTime'
    BY <1>1, <1>4, <1>5, <1>7, TierLeft
<1> QED BY <1>2, <1>3, <1>8 DEF SurvivalInv

LEMMA SelectIdsSurvival ==
    ASSUME RollupsInv, SurvivalInv, SelectIds
    PROVE  SurvivalInv'
<1> USE DEF SelectIds, tables, counters
<1>1. KeepsCompacted
    BY CommitKeeps DEF SurvivalInv
<1>2. DurableKept' /\ TimerRuns'
    BY DEF SurvivalInv, DurableKept, RowFor, TimerRuns, Compacting
<1>3. Progress'
    BY DEF Progress, HasResults, W, T
<1>4. LastDone'
    BY <1>1, LastDoneKept, DelayFacts DEF RollupsInv, SurvivalInv
<1>5. BucketsInTime'
    BY <1>1, InTimeKept DEF SurvivalInv, Awaited, Compacting
<1> QED BY <1>2, <1>3, <1>4, <1>5 DEF SurvivalInv

LEMMA SelectRowsSurvival ==
    ASSUME RollupsInv, SurvivalInv, NEW m \in Monitors, SelectRows(m)
    PROVE  SurvivalInv'
<1> DEFINE read == OfMonitor(InBucket(raw, W, Bucket[T]), m)
<1>1. /\ pc = "rows" /\ ids' = ids \ {m}
      /\ \/ read = {} /\ UNCHANGED <<cur, pc>>
         \/ cur' = <<m, read>> /\ pc' = "insert"
      /\ UNCHANGED <<now, monitors, gone, pending, tables, last, sinceEval, snap, tier, counters>>
    BY DEF SelectRows
<1> USE DEF tables, counters
<1> HIDE DEF read
<1>2. KeepsCompacted
    BY <1>1, CommitKeeps DEF SurvivalInv
<1>3. DurableKept' /\ TimerRuns'
    BY <1>1 DEF RollupsInv, Undisturbed, SurvivalInv, DurableKept, RowFor, TimerRuns, Compacting
<1>4. Progress'
    <2> SUFFICES ASSUME NEW n \in monitors, HasResults(T, n, W)
                 PROVE  n \in ids' \/ (pc' = "insert" /\ cur'[1] = n) \/ RowFor(rows, T, n, W)
        BY <1>1 DEF Progress, HasResults, RowFor, W, T
    <2>1. n \in ids \/ RowFor(rows, T, n, W)
        BY <1>1 DEF SurvivalInv, Progress
    <2>2. CASE n = m
        BY <1>1, <2>2 DEF HasResults, read
    <2>3. CASE n # m
        BY <1>1, <2>1, <2>3
    <2> QED BY <2>2, <2>3
<1>5. LastDone'
    BY <1>1, <1>2, LastDoneKept, DelayFacts DEF RollupsInv, SurvivalInv
<1>6. BucketsInTime'
    BY <1>1, <1>2, InTimeKept DEF SurvivalInv, Awaited, Compacting
<1> QED BY <1>3, <1>4, <1>5, <1>6 DEF SurvivalInv

LEMMA InsertRowSurvival ==
    ASSUME RollupsInv, SurvivalInv, InsertRow
    PROVE  SurvivalInv'
<1> DEFINE row == [tier |-> T, monitor |-> cur[1], window |-> W, results |-> cur[2]]
<1>1. /\ pc = "insert"
      /\ rows' = Replace(rows, row)
      /\ pc' = "rows"
      /\ UNCHANGED <<now, monitors, gone, pending, raw, durable, last, sinceEval, snap, tier, ids,
                     counters>>
    BY DEF InsertRow
<1> USE DEF counters
<1>2. row.tier = T /\ row.monitor = cur[1] /\ row.window = W
    OBVIOUS
<1> HIDE DEF row
<1>3. ASSUME NEW t, NEW m, NEW w, RowFor(rows, t, m, w)
      PROVE  RowFor(rows', t, m, w)
    <2>1. PICK r \in rows : r.tier = t /\ r.monitor = m /\ r.window = w
        BY <1>3 DEF RowFor
    <2>2. CASE r \in rows'
        BY <2>1, <2>2 DEF RowFor
    <2>3. CASE r \notin rows'
        <3>1. <<r.tier, r.monitor, r.window>> = <<row.tier, row.monitor, row.window>>
            BY <1>1, <2>3 DEF Replace
        <3>2. row \in rows'
            BY <1>1 DEF Replace
        <3> QED BY <2>1, <3>1, <3>2 DEF RowFor
    <2> QED BY <2>2, <2>3
<1>4. RowFor(rows', T, cur[1], W)
    BY <1>1, <1>2 DEF Replace, RowFor
<1>5. KeepsCompacted
    BY <1>1, CommitKeeps DEF SurvivalInv
<1>6. DurableKept'
    <2> SUFFICES ASSUME NEW r \in durable PROVE RowFor(rows', r.tier, r.monitor, r.window)
        BY <1>1 DEF DurableKept, RowFor
    <2> QED BY <1>3 DEF SurvivalInv, DurableKept
<1>7. TimerRuns'
    BY <1>1 DEF RollupsInv, Undisturbed, SurvivalInv, TimerRuns, Compacting
<1>8. Progress'
    <2> SUFFICES ASSUME NEW n \in monitors, HasResults(T, n, W)
                 PROVE  n \in ids \/ RowFor(rows', T, n, W)
        BY <1>1 DEF Progress, HasResults, RowFor, W, T
    <2> QED BY <1>1, <1>3, <1>4 DEF SurvivalInv, Progress
<1>9. LastDone'
    BY <1>1, <1>5, LastDoneKept, DelayFacts DEF RollupsInv, SurvivalInv
<1>10. BucketsInTime'
    BY <1>1, <1>5, InTimeKept DEF SurvivalInv, Awaited, Compacting
<1> QED BY <1>6, <1>7, <1>8, <1>9, <1>10 DEF SurvivalInv

\* A bucket that is long enough after a step was so before it.
LEMMA LongBefore ==
    ASSUME TypeOK, NEW t \in TierSet, Long(t)', aborts' = aborts + 1,
           faults' \in {faults, faults + 1}
    PROVE  Long(t)
<1>1. /\ aborts \in Nat /\ faults \in Nat /\ MaxPeriod \in Nat /\ Lateness \in Nat
      /\ Slack \in Nat /\ Bucket[t] \in Nat
    BY DelayFacts DEF TypeOK
<1>2. Slack' >= Slack + MaxPeriod
    BY <1>1, SlackGrows
<1>3. aborts' \in Nat /\ faults' \in Nat
    BY <1>1
<1>4. ASSUME NEW a \in Nat, NEW p \in Nat
      PROVE  a * p \in Nat /\ (a + 1) * p = a * p + p
    OBVIOUS
<1>5. /\ aborts' * MaxPeriod \in Nat /\ faults' * Lateness \in Nat
      /\ (aborts' + 1) * MaxPeriod = aborts' * MaxPeriod + MaxPeriod
    BY <1>1, <1>3, <1>4
<1>6. /\ Bucket[t] >= (aborts' + 1) * MaxPeriod + faults' * Lateness
      /\ Slack' = aborts' * MaxPeriod + faults' * Lateness
    BY DEF Long, Slack, MaxPeriod
<1>7. Bucket[t] >= Slack' + MaxPeriod
    <2> DEFINE x == aborts' * MaxPeriod
               y == faults' * Lateness
    <2>1. x \in Nat /\ y \in Nat /\ Slack' = x + y /\ Bucket[t] >= x + MaxPeriod + y
        BY <1>5, <1>6
    <2> HIDE DEF x, y
    <2> QED BY <1>1, <2>1
<1>8. Slack' \in Nat
    BY <1>5, <1>6
<1>9. Bucket[t] >= Slack + MaxPeriod
    BY <1>1, <1>2, <1>7, <1>8
<1> QED BY <1>9, DelayFacts

\* An evaluation cut short leaves its tiers for the next one, a period later.
LEMMA InsertFailsSurvival ==
    ASSUME RollupsInv, SurvivalInv, InsertFails
    PROVE  SurvivalInv'
<1> USE DEF InsertFails, tables
<1>1. KeepsCompacted
    BY CommitKeeps DEF SurvivalInv
<1>2. DurableKept' /\ Progress'
    BY DEF SurvivalInv, DurableKept, RowFor, Progress
<1>3. TimerRuns'
    BY DEF RollupsInv, Undisturbed, TimerRuns, Compacting
<1>4. LastDone'
    BY <1>1, LastDoneKept, DelayFacts DEF RollupsInv, SurvivalInv
<1>5. BucketsInTime'
    <2> SUFFICES ASSUME ~outage, NEW t \in TierSet, NEW w \in Times,
                        Long(t)', w % Bucket[t] = 0, w >= now - Retention,
                        ~CompactedIn(durable, t, w)'
                 PROVE  OverdueBy(t, w)'
        BY DEF BucketsInTime, Long
    <2>1. /\ w \in Nat /\ Bucket[t] \in Nat /\ now \in Nat
          /\ sinceEval \in Nat /\ MaxPeriod \in Nat /\ Slack \in Nat
          /\ Slack' = Slack + MaxPeriod
        BY DelayFacts, SlackGrows DEF RollupsInv
    <2>2. Long(t)
        BY LongBefore DEF RollupsInv
    <2>3. OverdueBy(t, w)
        BY <1>1, <2>2 DEF KeepsCompacted, SurvivalInv, BucketsInTime
    <2>4. now - (w + Bucket[t]) < sinceEval + Slack'
        BY <2>1, <2>3 DEF OverdueBy
    <2> QED BY <2>1, <2>4 DEF OverdueBy, MaxPeriod
<1> QED BY <1>2, <1>3, <1>4, <1>5 DEF SurvivalInv

\* What was committed covers the window: its monitors have their rows.
LEMMA FinishTierSurvival ==
    ASSUME RollupsInv, SurvivalInv, FinishTier
    PROVE  SurvivalInv'
<1> USE DEF FinishTier, counters
<1>1. KeepsCompacted
    BY CommitKeeps DEF SurvivalInv
<1>2. DurableKept' /\ TimerRuns' /\ Progress'
    BY DEF SurvivalInv, DurableKept, RowFor, TimerRuns, Compacting, Progress
<1>3. Compacting /\ tier \in 1..Len(Tiers) /\ snap \in Start..now /\ pending = {}
    BY DEF RollupsInv, AtTier, Undisturbed, Compacting
<1>4. PICK t \in TierSet, w \in Times : t = T /\ w = W
    BY <1>3, WindowFacts, TierFacts DEF RollupsInv
<1>5. w + Bucket[t] <= now
    <2>1. w + Bucket[t] <= snap
        BY <1>3, <1>4, WindowFacts DEF RollupsInv
    <2>2. w \in Nat /\ Bucket[t] \in Nat /\ snap \in Nat /\ now \in Nat
        BY DelayFacts DEF RollupsInv
    <2>3. snap <= now
        BY <1>3
    <2> QED BY <2>1, <2>2, <2>3
<1>6. CompactedIn(durable, t, w)'
    <2> SUFFICES ASSUME NEW m \in monitors, HasResults(t, m, w)
                 PROVE  RowFor(rows, t, m, w)
        BY DEF CompactedIn, RowFor, HasResults
    <2> QED BY <1>4 DEF SurvivalInv, Progress
<1>7. LastDone'
    <2> SUFFICES ASSUME NEW u \in TierSet, last'[u] # NoWindow
                 PROVE  /\ last'[u] + Bucket[u] <= now
                        /\ last'[u] >= now - Retention => CompactedIn(durable, u, last[u])'
        BY <1>3 DEF LastDone, CompactedIn, HasResults, InBucket, OfMonitor
    <2>1. last' = [last EXCEPT ![t] = w] /\ last \in [TierSet -> Times \union {NoWindow}]
        BY <1>4 DEF RollupsInv, TypeOK
    <2>2. CASE u = t
        BY <1>5, <1>6, <2>1, <2>2 DEF CompactedIn, HasResults, InBucket, OfMonitor
    <2>3. CASE u # t
        <3>1. last'[u] = last[u] /\ last[u] \in Times
            BY <2>1, <2>3
        <3>2. last[u] + Bucket[u] <= now /\ (last[u] >= now - Retention => CompactedIn(durable, u, last[u]))
            BY <3>1 DEF SurvivalInv, LastDone
        <3> QED BY <1>1, <3>1, <3>2 DEF KeepsCompacted, CompactedIn, HasResults, InBucket, OfMonitor
    <2> QED BY <2>2, <2>3
<1>8. BucketsInTime'
    BY <1>1, <1>3, <1>4, <1>6, TierLeft
<1> QED BY <1>2, <1>7, <1>8 DEF SurvivalInv

LEMMA FinishEvaluationSurvival ==
    ASSUME RollupsInv, SurvivalInv, FinishEvaluation
    PROVE  SurvivalInv'
<1> USE DEF FinishEvaluation, tables, counters
<1>1. KeepsCompacted
    BY CommitKeeps DEF SurvivalInv
<1>2. DurableKept' /\ TimerRuns' /\ Progress'
    BY DEF RollupsInv, Undisturbed, SurvivalInv, DurableKept, RowFor, TimerRuns, Compacting, Progress
<1>3. LastDone'
    BY <1>1, LastDoneKept, DelayFacts DEF RollupsInv, SurvivalInv
<1>4. \A t \in TierSet, w \in Times : ~Awaited(t, w)
    BY RollupAssumption DEF Awaited, RollupsInv, TypeOK
<1>5. BucketsInTime'
    BY <1>1, <1>4, InTimeKept DEF SurvivalInv
<1> QED BY <1>2, <1>3, <1>5 DEF SurvivalInv

LEMMA PurgeSurvival ==
    ASSUME RollupsInv, SurvivalInv, Purge
    PROVE  SurvivalInv'
<1> DEFINE cutoff == now - Retention
<1>1. /\ pc = "idle"
      /\ pending = {}
      /\ raw' = {r \in raw : r[2] >= cutoff}
      /\ rows' = {r \in rows : r.window >= cutoff}
      /\ durable' = rows'
      /\ UNCHANGED <<now, monitors, gone, pending, last, sinceEval, pc, locals, counters>>
    BY DEF Purge
<1> USE DEF locals, counters
<1>2. KeepsCompacted
    <2> SUFFICES ASSUME NEW t \in TierSet, NEW w \in Times, w >= cutoff, CompactedIn(durable, t, w),
                        NEW m \in monitors, HasResults(t, m, w)'
                 PROVE  RowFor(rows', t, m, w)
        BY <1>1 DEF KeepsCompacted, CompactedIn, RowFor
    <2>1. HasResults(t, m, w)
        BY <1>1 DEF HasResults, OfMonitor, InBucket
    <2>2. RowFor(durable, t, m, w)
        BY <2>1 DEF CompactedIn
    <2>3. RowFor(rows, t, m, w)
        BY <2>2 DEF SurvivalInv, DurableKept, RowFor
    <2> QED BY <1>1, <2>3 DEF RowFor
<1> HIDE DEF cutoff
<1>3. DurableKept' /\ TimerRuns' /\ Progress'
    BY <1>1 DEF SurvivalInv, DurableKept, RowFor, TimerRuns, Compacting, Progress
<1>4. LastDone'
    BY <1>1, <1>2, LastDoneKept, DelayFacts DEF RollupsInv, SurvivalInv
<1>5. BucketsInTime'
    BY <1>1, <1>2, InTimeKept DEF SurvivalInv, Awaited, Compacting
<1> QED BY <1>3, <1>4, <1>5 DEF SurvivalInv

\* A restart puts an evaluation off by a period, and by the lateness the timer forgets.
LEMMA CrashSurvival ==
    ASSUME RollupsInv, SurvivalInv, Crash
    PROVE  SurvivalInv'
<1> USE DEF Crash
<1>1. KeepsCompacted
    BY CommitKeeps DEF SurvivalInv
<1>2. DurableKept' /\ TimerRuns' /\ Progress' /\ LastDone'
    BY DEF DurableKept, RowFor, TimerRuns, Compacting, Progress, LastDone
<1>3. BucketsInTime'
    <2> SUFFICES ASSUME ~outage, NEW t \in TierSet, NEW w \in Times,
                        Long(t)', w % Bucket[t] = 0, w >= now - Retention,
                        ~CompactedIn(durable, t, w)'
                 PROVE  OverdueBy(t, w)'
        BY DEF BucketsInTime
    <2>1. /\ w \in Nat /\ Bucket[t] \in Nat /\ now \in Nat
          /\ sinceEval \in Nat /\ sinceEval <= MaxPeriod /\ MaxPeriod \in Nat /\ Slack \in Nat
          /\ Period \in Nat /\ Lateness \in Nat /\ MaxPeriod = Period + Lateness
          /\ Slack' = Slack + MaxPeriod + Lateness
        BY DelayFacts, SlackGrows DEF RollupsInv
    <2>2. Long(t)
        BY LongBefore DEF RollupsInv
    <2>3. now - (w + Bucket[t]) < sinceEval + Slack + MaxPeriod
        BY <1>1, <2>2 DEF KeepsCompacted, SurvivalInv, BucketsInTime, OverdueBy
    <2>4. now - (w + Bucket[t]) < Period + Slack'
        BY <2>1, <2>3
    <2>5. now - (w + Bucket[t]) < Period + Slack' + MaxPeriod
        BY <2>1, <2>4
    <2> QED BY <2>4, <2>5 DEF OverdueBy, MaxPeriod
<1> QED BY <1>2, <1>3 DEF SurvivalInv

LEMMA RestartSurvival ==
    ASSUME RollupsInv, SurvivalInv, Restart
    PROVE  SurvivalInv'
<1> USE DEF Restart, tables, locals, counters
<1>1. KeepsCompacted
    BY CommitKeeps DEF SurvivalInv
<1>2. DurableKept' /\ TimerRuns' /\ Progress'
    BY DEF SurvivalInv, DurableKept, RowFor, TimerRuns, Compacting, Progress
<1>3. LastDone'
    BY <1>1, LastDoneKept, DelayFacts DEF RollupsInv, SurvivalInv
<1>4. BucketsInTime'
    BY <1>1, InTimeKept DEF SurvivalInv, Awaited, Compacting
<1> QED BY <1>2, <1>3, <1>4 DEF SurvivalInv

LEMMA TimePassesSurvival ==
    ASSUME RollupsInv, SurvivalInv, TimePasses
    PROVE  SurvivalInv'
<1>1. /\ now' = now + 1
      /\ UNCHANGED <<monitors, gone, pending, tables, last, pc, locals, checks, faults, aborts>>
      /\ \/ pc = "down" /\ outage' = TRUE /\ UNCHANGED sinceEval
         \/ pc # "down" /\ sinceEval' = sinceEval + 1 /\ UNCHANGED outage
    BY DEF TimePasses
<1> USE DEF tables, locals
<1>2. now \in Nat /\ snap \in Nat /\ sinceEval \in Nat /\ Retention \in Nat
    BY DelayFacts DEF RollupsInv
<1>3. KeepsCompacted
    BY <1>1, CommitKeeps DEF SurvivalInv
<1>4. DurableKept' /\ Progress'
    BY <1>1 DEF SurvivalInv, DurableKept, RowFor, Progress, HasResults, T, W
<1>5. TimerRuns'
    <2>1. Compacting' => now' - snap' = sinceEval'
        BY <1>1, <1>2 DEF SurvivalInv, TimerRuns, Compacting
    <2>2. ASSUME NEW r \in pending' PROVE pc' = "idle" /\ now' - r[2] <= sinceEval'
        <3>1. r[2] \in Nat /\ pc = "idle" /\ now - r[2] <= sinceEval
            BY <1>1 DEF RollupsInv, TypeOK, Results, Times, SurvivalInv, TimerRuns
        <3> QED BY <1>1, <1>2, <3>1
    <2> QED BY <2>1, <2>2 DEF TimerRuns
<1>6. LastDone'
    BY <1>1, <1>2, <1>3, LastDoneKept DEF SurvivalInv
<1>7. BucketsInTime'
    <2> SUFFICES ASSUME ~outage', NEW t \in TierSet, NEW w \in Times,
                        Long(t)', w % Bucket[t] = 0, w >= now' - Retention,
                        ~CompactedIn(durable, t, w)'
                 PROVE  OverdueBy(t, w)'
        BY DEF BucketsInTime
    <2>1. w \in Nat /\ Bucket[t] \in Nat /\ Slack \in Nat /\ MaxPeriod \in Nat
        BY DelayFacts DEF RollupsInv
    <2>2. sinceEval' = sinceEval + 1 /\ ~outage
        BY <1>1
    <2>3. Long(t) /\ Slack' = Slack
        BY <1>1 DEF Long, Slack, MaxPeriod
    <2>4. w >= now - Retention
        BY <1>1, <1>2, <2>1
    <2>5. OverdueBy(t, w)
        BY <1>3, <2>2, <2>3, <2>4 DEF KeepsCompacted, SurvivalInv, BucketsInTime
    <2>6. Awaited(t, w)' <=> Awaited(t, w)
        BY <1>1 DEF Awaited, Compacting
    <2> QED BY <1>1, <1>2, <2>1, <2>2, <2>3, <2>5, <2>6 DEF OverdueBy, MaxPeriod
<1> QED BY <1>4, <1>5, <1>6, <1>7 DEF SurvivalInv

LEMMA SurvivalNext == RollupsInv /\ SurvivalInv /\ [Next]_vars => SurvivalInv'
<1> SUFFICES ASSUME RollupsInv, SurvivalInv, [Next]_vars PROVE SurvivalInv'
    OBVIOUS
<1>1. CASE \E m \in Monitors : Create(m) \/ Delete(m) \/ StampResult(m) \/ Archive(m)
    BY <1>1, CreateSurvival, DeleteSurvival, StampResultSurvival, ArchiveSurvival
<1>2. CASE \E r \in pending : SaveResult(r)
    BY <1>2, SaveResultSurvival
<1>3. CASE Compact
    BY <1>3, EvaluateSurvival, SkipTierSurvival, SelectIdsSurvival, SelectRowsSurvival,
       InsertRowSurvival, InsertFailsSurvival, FinishTierSurvival, FinishEvaluationSurvival
       DEF Compact
<1>4. CASE Purge \/ Crash \/ Restart \/ TimePasses
    BY <1>4, PurgeSurvival, CrashSurvival, RestartSurvival, TimePassesSurvival
<1>5. CASE UNCHANGED vars
    <2> USE <1>5 DEF vars
    <2>1. KeepsCompacted
        BY CommitKeeps DEF SurvivalInv
    <2>2. DurableKept' /\ TimerRuns' /\ Progress'
        BY DEF SurvivalInv, DurableKept, RowFor, TimerRuns, Compacting, Progress, HasResults, T, W
    <2>3. LastDone'
        BY <2>1, LastDoneKept, DelayFacts DEF RollupsInv, SurvivalInv
    <2>4. BucketsInTime'
        BY <2>1, InTimeKept DEF SurvivalInv, Awaited, Compacting
    <2> QED BY <2>2, <2>3, <2>4 DEF SurvivalInv
<1> QED BY <1>1, <1>2, <1>3, <1>4, <1>5 DEF Next

LEMMA SurvivalInvariance == Spec => [](RollupsInv /\ SurvivalInv)
<1> QED BY RollupsInvInit, RollupsInvNext, SurvivalInit, SurvivalNext, PTL DEF Spec

-----------------------------------------------------------------------------
(* The theorems. *)

\* Type correctness of the tables, the compaction's locals and the counters.
THEOREM RollupsTypeCorrect == Spec => []TypeOK
<1>1. RollupsInv => TypeOK
    BY DEF RollupsInv
<1> QED BY <1>1, RollupsInvariance, PTL

\* Every rollup row is the aggregate of exactly the results that the table holds for its
\* bucket, through late results, purges, deletions and restarts.
THEOREM RollupsAgree == Spec => []RollupsMatchRaw
<1>1. RollupsInv => RollupsMatchRaw
    BY DEF RollupsInv, RowsFinal, Matches, RollupsMatchRaw
<1> QED BY <1>1, RollupsInvariance, PTL

\* No rollup row outlives its monitor.
THEOREM RowsHaveMonitors == Spec => []NoOrphanRows
<1>1. RollupsInv => NoOrphanRows
    BY DEF RollupsInv, RowsFinal, NoOrphanRows
<1> QED BY <1>1, RollupsInvariance, PTL

\* A dashboard window over a rollup tier counts results of that window only.
THEOREM WindowsAreSound == Spec => []WindowIsSound
<1>1. RollupsInv => WindowIsSound
    <2> SUFFICES ASSUME RollupsInv, NEW m \in Monitors, NEW t \in TierSet, NEW window \in Times,
                        NEW row \in rows, row.monitor = m, row.window >= now - window,
                        NEW r \in row.results
                 PROVE  r \in OfMonitor(raw, m) /\ r[2] >= now - window
        BY DEF WindowIsSound, WindowChecks
    <2>1. row.results = OfMonitor(InBucket(raw, row.window, Bucket[row.tier]), m)
        BY DEF RollupsInv, RowsFinal, Matches
    <2>2. r \in raw /\ r[1] = m /\ row.window <= r[2]
        BY <2>1 DEF OfMonitor, InBucket
    <2>3. row.window \in Nat /\ now \in Nat /\ window \in Nat
        BY RowFacts DEF RollupsInv, TypeOK, Times
    <2>4. r[2] \in Nat
        BY <2>2 DEF RollupsInv, TypeOK, Results, Times
    <2> QED BY <2>2, <2>3, <2>4 DEF OfMonitor
<1> QED BY <1>1, RollupsInvariance, PTL

\* A bucket long enough for one evaluation more than were cut short is compacted by the time
\* its successor has elapsed, whatever was deleted, purged or restarted meanwhile.
THEOREM LongBucketsCompacted == Spec => []LongBucketsSurvive
<1>1. RollupsInv /\ SurvivalInv => LongBucketsSurvive
    <2> SUFFICES ASSUME RollupsInv, SurvivalInv, pc = "idle", ~outage, NEW t \in TierSet,
                        Bucket[t] >= (aborts + 1) * (Period + Lateness) + faults * Lateness,
                        NEW w \in Settled(t)
                 PROVE  Compacted(t, w)
        BY DEF LongBucketsSurvive
    <2>1. w \in Times /\ w % Bucket[t] = 0 /\ w + 2 * Bucket[t] <= now /\ w >= now - Retention
        BY DEF Settled
    <2>2. Long(t)
        BY DEF Long, MaxPeriod
    <2>3. CompactedIn(durable, t, w)
        <3> SUFFICES ASSUME ~CompactedIn(durable, t, w) PROVE FALSE
            OBVIOUS
        <3>1. OverdueBy(t, w)
            BY <2>1, <2>2 DEF SurvivalInv, BucketsInTime
        <3>2. now - (w + Bucket[t]) < sinceEval + Slack
            BY <3>1 DEF OverdueBy, Awaited, Compacting
        <3>3. /\ w \in Nat /\ Bucket[t] \in Nat /\ now \in Nat /\ sinceEval \in Nat
              /\ sinceEval <= MaxPeriod /\ MaxPeriod \in Nat /\ Slack \in Nat
              /\ Bucket[t] >= Slack + MaxPeriod
            BY <2>1, <2>2, DelayFacts DEF RollupsInv
        <3> QED BY <2>1, <3>2, <3>3
    <2> SUFFICES ASSUME NEW m \in monitors, HasResults(t, m, w)
                 PROVE  RowFor(rows, t, m, w)
        BY DEF Compacted, HasResults, RowFor
    <2>4. RowFor(durable, t, m, w)
        BY <2>3 DEF CompactedIn
    <2> QED BY <2>4 DEF SurvivalInv, DurableKept, RowFor
<1> QED BY <1>1, SurvivalInvariance, PTL

=============================================================================
