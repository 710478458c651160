--------------------------- MODULE MetricHistory ---------------------------
(***************************************************************************)
(* The resource curve of one node or instance: the agent samples at most   *)
(* every thirty seconds with a heartbeat, the control plane stores the     *)
(* points, and both stores keep 24 hours and answer with at most 2,880     *)
(* points (apps/api/src/store.ts, apps/agent/src/index.ts).  MemoryStore   *)
(* trims when it appends, PostgresStateStore when it answers; here both    *)
(* get the same points.  Three machines read three clocks: the agent dates *)
(* the points, the control plane asks for ranges and trims what it keeps   *)
(* in memory, PostgreSQL prunes its rows.  Time is told on the agent's     *)
(* clock and counts heartbeats; how far it is ahead of the others does not *)
(* change.                                                                 *)
(***************************************************************************)
EXTENDS Integers, Sequences, FiniteSets

CONSTANTS
  SAMPLE,        \* between two samples: 30 s
  WINDOW,        \* kept: 24 hours
  PRUNE,         \* between two deletions of old rows: 5 min
  LIMIT,         \* points of an answer: 2,880
  Usages,        \* what a point may say
  Leads,         \* by how much the agent's clock may be ahead of another
  MaxTime, MaxAgentRestarts

ASSUME MetricAssumption ==
  /\ {SAMPLE, WINDOW, PRUNE, LIMIT} \subseteq Nat \ {0}
  /\ {MaxTime, MaxAgentRestarts} \subseteq Nat
  /\ 0 \in Leads /\ Leads \subseteq Int

Points == [at : 0..MaxTime, usage : Usages]

VARIABLES
  lead,         \* the agent's clock is ahead of the control plane's by this much
  dbLead,       \* and of the database's by this much
  now,          \* Date.now() of the agent
  nextSample,   \* nextWorkloadSampleAt of the agent
  heartbeats,   \* samples on their way, in order
  points,       \* MemoryStore.metrics
  rows,         \* metric_points
  prunedAt,     \* lastMetricPruneAt, on the agent's clock
  newest,       \* history: the last point that was stored
  agentRestarts

stored == <<points, rows, prunedAt, newest>>
clocks == <<lead, dbLead>>
metricVars == <<clocks, now, nextSample, heartbeats, stored, agentRestarts>>

PanelNow == now - lead
DatabaseNow == now - dbLead

MetricInit ==
  /\ lead \in Leads /\ dbLead \in Leads
  /\ now = 0 /\ nextSample = 0 /\ heartbeats = <<>>
  /\ points = <<>> /\ rows = {} /\ prunedAt = 0 /\ newest = {}
  /\ agentRestarts = 0

\* A message takes some time.
ClockTicks ==
  /\ now < MaxTime /\ now' = now + 1
  /\ UNCHANGED <<clocks, nextSample, heartbeats, stored, agentRestarts>>

\* Mutant: every heartbeat carries a sample.
SampleAlways ==
  /\ now >= nextSample /\ Len(heartbeats) < 2
  /\ \E u \in Usages : heartbeats' = Append(heartbeats, [at |-> now, usage |-> u])
  /\ UNCHANGED <<clocks, now, nextSample, stored, agentRestarts>>

\* sendHeartbeat; a heartbeat without a sample stores nothing.
Sample ==
  /\ now >= nextSample /\ Len(heartbeats) < 2
  /\ nextSample' = now + SAMPLE
  /\ \E u \in Usages : heartbeats' = Append(heartbeats, [at |-> now, usage |-> u])
  /\ UNCHANGED <<clocks, now, stored, agentRestarts>>

\* A new process samples at once; what its connection carried may be lost.
AgentRestarts ==
  /\ agentRestarts < MaxAgentRestarts /\ agentRestarts' = agentRestarts + 1
  /\ nextSample' = 0 /\ heartbeats' \in {heartbeats, <<>>}
  /\ UNCHANGED <<clocks, now, stored>>

-----------------------------------------------------------------------------
LastOf(s, n) == SubSeq(s, Len(s) - n + 1, Len(s))
FirstOf(s, n) == SubSeq(s, 1, n)
Least(m, n) == IF m < n THEN m ELSE n

\* Mutant: the oldest points are kept.
TrimmedToOldest(s) == FirstOf(s, Least(LIMIT, Len(s)))
\* next.slice(-2_880)
Trimmed(s) == LastOf(s, Least(LIMIT, Len(s)))

\* points.filter: the elements of s in K, as they come.
Kept(s, K) ==
  LET kept[n \in 0..Len(s)] ==
        IF n = 0 THEN <<>>
        ELSE IF s[n] \in K THEN Append(kept[n - 1], s[n]) ELSE kept[n - 1]
  IN  kept[Len(s)]

Since(since) == {q \in Points : q.at >= since}

InMemory(p) ==
  Trimmed(Append(Kept(points, {q \in Since(PanelNow - WINDOW) : q.at # p.at}), p))

Upserted(p) == {q \in rows : q.at # p.at} \cup {p}

AppendMetrics(p) ==
  /\ points' = InMemory(p)
  /\ newest' = {p}
  /\ IF now - prunedAt >= PRUNE
     THEN prunedAt' = now /\ rows' = {q \in Upserted(p) : q.at >= DatabaseNow - WINDOW}
     ELSE prunedAt' = prunedAt /\ rows' = Upserted(p)

ReceiveSample ==
  /\ heartbeats # <<>> /\ now > Head(heartbeats).at
  /\ AppendMetrics(Head(heartbeats)) /\ heartbeats' = Tail(heartbeats)
  /\ UNCHANGED <<clocks, now, nextSample, agentRestarts>>

MetricNext == ClockTicks \/ Sample \/ AgentRestarts \/ ReceiveSample

MetricSpec == MetricInit /\ [][MetricNext]_metricVars

-----------------------------------------------------------------------------
(* getMetrics *)

MemoryCurve(since) == Kept(points, Since(since))

\* ORDER BY captured_at ASC
Ordered(S) ==
  [k \in 1..Cardinality(S) |-> CHOOSE p \in S : Cardinality({q \in S : q.at < p.at}) = k - 1]

RowsSince(since) == {q \in rows : q.at >= since}
\* LIMIT 2880
PostgresAnswer(since) ==
  {p \in RowsSince(since) : Cardinality({q \in RowsSince(since) : q.at < p.at}) < LIMIT}
PostgresCurve(since) == Ordered(PostgresAnswer(since))

\* The variables have their types (types.ts, MetricPoint).
MetricTypeOK ==
  /\ {lead, dbLead} \subseteq Leads
  /\ now \in 0..MaxTime /\ nextSample \in Nat /\ heartbeats \in Seq(Points)
  /\ points \in Seq(Points) /\ rows \subseteq Points /\ newest \subseteq Points
  /\ prunedAt \in 0..MaxTime /\ agentRestarts \in Nat

\* The oldest that may be asked for and that the database has not pruned.
Horizon == (IF lead < dbLead THEN PanelNow ELSE DatabaseNow) - WINDOW

\* The panel shows the same curve with either store, whatever range of what both keep is
\* asked for, as long as it holds no more points than an answer may have, and whatever
\* the three clocks say (store.ts:55-68, 133-186).
CurvesAgree ==
  \A since \in Horizon..now :
    Cardinality(RowsSince(since)) <= LIMIT => PostgresCurve(since) = MemoryCurve(since)

\* PostgreSQL's answer keeps the oldest points: the newest one is in it only because the
\* agent does not sample more often than every thirty seconds, which a restarted agent
\* does, and because the day that is asked for has room for no more than 2,880 samples.
\* It has room for exactly that many, so that the promise also ends as soon as the
\* agent's clock is ahead of the control plane's (store.ts:158, 171-172, index.ts:50-54,
\* 85, server.ts:703).
NewestPointServed ==
  agentRestarts = 0 /\ lead + WINDOW <= SAMPLE * LIMIT =>
    \A p \in newest : \A since \in Horizon..p.at : p \in PostgresAnswer(since)
=============================================================================
