-------------------------- MODULE Artifacts_proofs --------------------------
(***************************************************************************)
(* Theorems about Artifacts, GoldenFixture and the two hosts that use      *)
(* them.                                                                   *)
(*                                                                         *)
(* First what a run of ticks that all succeed leaves, that it can be cut   *)
(* in two, what a comparison that finds nothing says, and from these what  *)
(* recording, verifying and resuming return.  Then ReplayArtifact: that    *)
(* what verifies, resumes or is repeated is genuine is proved of every     *)
(* domain, plan and configuration and of everything storage does; that a   *)
(* recording can be read back, of the plans and domains of which the code  *)
(* needs it.  Then what a summary says of the parts of a fixture, and      *)
(* FixtureHost: all of it of every domain and plan.                        *)
(***************************************************************************)
EXTENDS ReplayArtifact, FixtureHost, NaturalSets_proofs

\* A sequence of whatever.
IsSequence(q) == Len(q) \in Nat /\ q = [i \in 1..Len(q) |-> q[i]]

LEMMA SequenceIn ==
  ASSUME NEW q, IsSequence(q)
  PROVE  q \in Seq({q[i] : i \in 1..Len(q)})
BY DEF IsSequence

LEMMA SeqIsSequence ==
  ASSUME NEW S, NEW q \in Seq(S)
  PROVE  IsSequence(q)
BY DEF IsSequence

LEMMA AppendIs ==
  ASSUME NEW q, IsSequence(q), NEW x
  PROVE  /\ IsSequence(Append(q, x))
         /\ Len(Append(q, x)) = Len(q) + 1
         /\ \A i \in 1..Len(q) : Append(q, x)[i] = q[i]
         /\ Append(q, x)[Len(q) + 1] = x
<1> DEFINE S == {q[i] : i \in 1..Len(q)} \cup {x}
<1>1. q \in Seq(S) /\ x \in S
  BY DEF IsSequence
<1> HIDE DEF S
<1>2. Append(q, x) \in Seq(S)
  BY <1>1
<1>3. IsSequence(Append(q, x))
  BY <1>2, SeqIsSequence
<1>4. Len(Append(q, x)) = Len(q) + 1 /\ Append(q, x)[Len(q) + 1] = x
  BY <1>1
<1>5. \A i \in 1..Len(q) : Append(q, x)[i] = q[i]
  BY <1>1
<1> QED
  BY <1>3, <1>4, <1>5

LEMMA ConcatIs ==
  ASSUME NEW p, NEW q, IsSequence(p), IsSequence(q)
  PROVE  /\ IsSequence(p \o q)
         /\ Len(p \o q) = Len(p) + Len(q)
         /\ \A i \in 1..Len(p) : (p \o q)[i] = p[i]
         /\ \A i \in 1..Len(q) : (p \o q)[Len(p) + i] = q[i]
<1> DEFINE S == {p[i] : i \in 1..Len(p)} \cup {q[i] : i \in 1..Len(q)}
<1>1. p \in Seq(S) /\ q \in Seq(S)
  BY DEF IsSequence
<1> HIDE DEF S
<1>2. p \o q \in Seq(S)
  BY <1>1
<1>3. IsSequence(p \o q)
  BY <1>2, SeqIsSequence
<1>4. Len(p \o q) = Len(p) + Len(q)
  BY <1>1
<1>5. ASSUME NEW i \in 1..Len(q)
      PROVE  (p \o q)[Len(p) + i] = q[i]
  BY <1>1
<1> QED
  BY <1>1, <1>3, <1>4, <1>5

\* Two sequences are the same if they have the same elements.
LEMMA SameSequence ==
  ASSUME NEW p, NEW q, IsSequence(p), IsSequence(q), Len(p) = Len(q),
         \A i \in 1..Len(p) : p[i] = q[i]
  PROVE  p = q
BY DEF IsSequence

LEMMA EmptyIs ==
  ASSUME NEW q, IsSequence(q)
  PROVE  q = <<>> <=> Len(q) = 0
<1>1. q \in Seq({q[i] : i \in 1..Len(q)})
  BY SequenceIn
<1> QED
  BY <1>1

-----------------------------------------------------------------------------
(***************************************************************************)
(* One tick.  The function Work of AtomicTick exists, and through all its  *)
(* phases the state stays at its tick and the digests in their order.      *)
(***************************************************************************)
\* How Work begins and goes on, and what a function must satisfy to be its first n + 1 values.
FirstWork(e, s, x) ==
  Validated([status |-> "Ok", state |-> s, phase_markers |-> <<>>, validation_summaries |-> <<>>],
            e.validation_policy, {"BeforeTickBegin"}, x.tick)

NextWork(e, x, i, w) == IF w.status = "Ok" THEN AfterPhase(w, e, i, x) ELSE w

Works(e, s, x, n, work) ==
  work = [i \in 0..n |-> IF i = 0 THEN FirstWork(e, s, x) ELSE NextWork(e, x, i, work[i - 1])]

WorkOf(e, s, x) == CHOOSE work : Works(e, s, x, Len(e.plan), work)

LEMMA WorksExist ==
  ASSUME NEW e, NEW s, NEW x, NEW n \in Nat
  PROVE  \E work : Works(e, s, x, n, work)
<1> DEFINE S == {m \in Nat : \E work : Works(e, s, x, m, work)}
<1>1. 0 \in S
  <2> DEFINE first == [i \in 0..0 |-> FirstWork(e, s, x)]
  <2>1. \A i \in 0..0 : i = 0
    OBVIOUS
  <2>2. first = [i \in 0..0 |-> IF i = 0 THEN FirstWork(e, s, x) ELSE NextWork(e, x, i, first[i - 1])]
    BY <2>1
  <2>3. Works(e, s, x, 0, first)
    BY <2>2 DEF Works
  <2> QED
    BY <2>3
<1>2. ASSUME NEW m \in Nat, m \in S
      PROVE  m + 1 \in S
  <2>1. PICK work : Works(e, s, x, m, work)
    BY <1>2
  <2>2. \A i \in 0..m : work[i] = IF i = 0 THEN FirstWork(e, s, x) ELSE NextWork(e, x, i, work[i - 1])
    BY <2>1 DEF Works
  <2> DEFINE more == [i \in 0..m + 1 |-> IF i \in 0..m THEN work[i] ELSE NextWork(e, x, i, work[i - 1])]
  <2>3. ASSUME NEW i \in 0..m + 1
        PROVE  more[i] = IF i = 0 THEN FirstWork(e, s, x) ELSE NextWork(e, x, i, more[i - 1])
    <3>1. i # 0 => i - 1 \in 0..m /\ more[i - 1] = work[i - 1]
      OBVIOUS
    <3>2. more[i] = IF i \in 0..m THEN work[i] ELSE NextWork(e, x, i, work[i - 1])
      OBVIOUS
    <3>3. 0 \in 0..m
      OBVIOUS
    <3> HIDE DEF more
    <3>4. CASE i = 0
      BY <2>2, <3>2, <3>3, <3>4
    <3>5. CASE i # 0
      BY <2>2, <3>1, <3>2, <3>5
    <3> QED
      BY <3>4, <3>5
  <2>4. Works(e, s, x, m + 1, more)
    BY <2>3 DEF Works
  <2> QED
    BY <2>4
<1> HIDE DEF S
<1>3. Nat \subseteq S
  BY <1>1, <1>2, SetInduction
<1> QED
  BY <1>3 DEF S

LEMMA WorkUnfolds ==
  ASSUME NEW e, NEW s, NEW x, Len(e.plan) \in Nat
  PROVE  /\ Work(e, s, x) = WorkOf(e, s, x)[Len(e.plan)]
         /\ WorkOf(e, s, x)[0] = FirstWork(e, s, x)
         /\ \A i \in 1..Len(e.plan) :
              WorkOf(e, s, x)[i] = NextWork(e, x, i, WorkOf(e, s, x)[i - 1])
<1>1. Works(e, s, x, Len(e.plan), WorkOf(e, s, x))
  BY WorksExist DEF WorkOf
<1>2. Work(e, s, x) = WorkOf(e, s, x)[Len(e.plan)]
  BY DEF Work, WorkOf, Works, FirstWork, NextWork
<1> QED
  BY <1>1, <1>2 DEF Works

\* Which checkpoint comes before the first phase, and after the i-th.
CheckpointsAt(p, i) == IF i = 0 THEN {"BeforeTickBegin"} ELSE CheckpointAfter(p, i)

\* No checkpoint of a plan comes twice or in another order than the readers'.
CheckpointsAscend(p) ==
  \A i, j \in 0..Len(p) : i < j =>
    \A c \in CheckpointsAt(p, i), d \in CheckpointsAt(p, j) : CheckpointOrder(c) < CheckpointOrder(d)

StateShape(s) == s = [tick |-> s.tick, data |-> s.data]

\* What holds of the work of a tick behind the i-th phase of p.
DigestsInOrder(p, s, i, w) ==
  LET vs == w.validation_summaries
  IN  /\ StateShape(w.state) /\ w.state.tick = s.tick
      /\ IsSequence(vs)
      /\ \A k \in 1..Len(vs) : vs[k].state_tick = s.tick /\ \E j \in 0..i : vs[k].checkpoint \in CheckpointsAt(p, j)
      /\ CheckpointsAscend(p) =>
           \A k \in 1..Len(vs) : k > 1 => CheckpointOrder(vs[k].checkpoint) > CheckpointOrder(vs[k - 1].checkpoint)

\* A checkpoint changes nothing but the status, or adds one digest.
LEMMA ValidatedIs ==
  ASSUME NEW s, NEW ms, NEW vs, NEW policy, NEW cs, NEW t
  PROVE  LET w == Validated([status |-> "Ok", state |-> s, phase_markers |-> ms, validation_summaries |-> vs],
                            policy, cs, t)
         IN  /\ w.state = s
             /\ \/ w.validation_summaries = vs
                \/ \E c \in cs : w.validation_summaries = Append(vs, Summary(c, s))
<1> DEFINE begun == [status |-> "Ok", state |-> s, phase_markers |-> ms, validation_summaries |-> vs]
           due   == {c \in cs : ShouldValidate(policy, c)}
           c0    == CHOOSE c \in due : TRUE
           w     == Validated(begun, policy, cs, t)
<1>1. w = IF \A c \in due : Accepts(c, t, s) THEN WithSummaries(begun, due, s)
          ELSE [begun EXCEPT !.status = "InvariantViolation"]
  BY DEF Validated
<1>2. WithSummaries(begun, due, s) =
        IF due = {} THEN begun ELSE [begun EXCEPT !.validation_summaries = Append(vs, Summary(c0, s))]
  BY DEF WithSummaries
<1>3. due # {} => c0 \in cs
  OBVIOUS
<1> SUFFICES w.state = s /\ (w.validation_summaries = vs \/ \E c \in cs : w.validation_summaries = Append(vs, Summary(c, s)))
  OBVIOUS
<1> HIDE DEF w, due, c0
<1>4. CASE ~ \A c \in due : Accepts(c, t, s)
  BY <1>1, <1>4
<1>5. CASE (\A c \in due : Accepts(c, t, s)) /\ due = {}
  BY <1>1, <1>2, <1>5
<1>6. CASE (\A c \in due : Accepts(c, t, s)) /\ due # {}
  <2>1. w = [begun EXCEPT !.validation_summaries = Append(vs, Summary(c0, s))]
    BY <1>1, <1>2, <1>6
  <2>2. w.state = s /\ w.validation_summaries = Append(vs, Summary(c0, s))
    BY <2>1
  <2> QED
    BY <1>3, <1>6, <2>2
<1> QED
  BY <1>4, <1>5, <1>6


LEMMA DigestAdded ==
  ASSUME NEW p, NEW s, NEW i \in Nat, NEW w, DigestsInOrder(p, s, i, w),
         NEW v, StateShape(v.state), v.state.tick = s.tick, i + 1 <= Len(p), Len(p) \in Nat,
         \/ v.validation_summaries = w.validation_summaries
         \/ \E c \in CheckpointsAt(p, i + 1) : v.validation_summaries = Append(w.validation_summaries, Summary(c, v.state))
  PROVE  DigestsInOrder(p, s, i + 1, v)
<1> DEFINE vs == w.validation_summaries
<1>1. /\ IsSequence(vs)
      /\ \A k \in 1..Len(vs) : vs[k].state_tick = s.tick /\ \E j \in 0..i : vs[k].checkpoint \in CheckpointsAt(p, j)
      /\ CheckpointsAscend(p) =>
           \A k \in 1..Len(vs) : k > 1 => CheckpointOrder(vs[k].checkpoint) > CheckpointOrder(vs[k - 1].checkpoint)
  BY DEF DigestsInOrder
<1>2. \A j \in 0..i : j \in 0..i + 1
  OBVIOUS
<1>3. CASE v.validation_summaries = vs
  BY <1>1, <1>2, <1>3 DEF DigestsInOrder
<1>4. CASE \E c \in CheckpointsAt(p, i + 1) : v.validation_summaries = Append(vs, Summary(c, v.state))
  <2>1. PICK c \in CheckpointsAt(p, i + 1) : v.validation_summaries = Append(vs, Summary(c, v.state))
    BY <1>4
  <2> DEFINE us == Append(vs, Summary(c, v.state))
             n == Len(vs)
  <2>2. /\ IsSequence(us) /\ Len(us) = n + 1 /\ n \in Nat
        /\ \A k \in 1..n : us[k] = vs[k]
        /\ us[n + 1] = Summary(c, v.state)
    BY <1>1, AppendIs DEF IsSequence
  <2>3. us[n + 1].checkpoint = c /\ us[n + 1].state_tick = s.tick
    BY <2>2 DEF Summary
  <2> HIDE DEF us, vs
  <2>4. ASSUME NEW k \in 1..Len(us)
        PROVE  us[k].state_tick = s.tick /\ \E j \in 0..i + 1 : us[k].checkpoint \in CheckpointsAt(p, j)
    <3>1. CASE k \in 1..n
      BY <1>1, <1>2, <2>2, <3>1
    <3>2. CASE k = n + 1
      BY <2>3, <3>2
    <3> QED
      BY <2>2, <3>1, <3>2
  <2>5. ASSUME CheckpointsAscend(p), NEW k \in 1..Len(us), k > 1
        PROVE  CheckpointOrder(us[k].checkpoint) > CheckpointOrder(us[k - 1].checkpoint)
    <3>1. CASE k \in 1..n
      <4>1. k - 1 \in 1..n
        BY <2>2, <2>5
      <4> QED
        BY <1>1, <2>2, <2>5, <3>1, <4>1
    <3>2. CASE k = n + 1
      <4>1. k - 1 \in 1..n /\ us[k - 1] = vs[k - 1]
        BY <2>2, <2>5, <3>2
      <4>2. PICK j \in 0..i : vs[k - 1].checkpoint \in CheckpointsAt(p, j)
        BY <1>1, <4>1
      <4>3. j \in 0..Len(p) /\ i + 1 \in 0..Len(p) /\ j < i + 1
        OBVIOUS
      <4>4. CheckpointOrder(vs[k - 1].checkpoint) < CheckpointOrder(c)
        BY <2>5, <4>2, <4>3 DEF CheckpointsAscend
      <4> DEFINE new == CheckpointOrder(c)
                 old == CheckpointOrder(vs[k - 1].checkpoint)
      <4>5. old < new => new > old
        BY DEF CheckpointOrder
      <4>6. new > old
        BY <4>4, <4>5
      <4> QED
        BY <2>3, <3>2, <4>1, <4>6
    <3> QED
      BY <2>2, <3>1, <3>2
  <2>6. v.validation_summaries = us
    BY <2>1 DEF us, vs
  <2> QED
    BY <2>2, <2>4, <2>5, <2>6 DEF DigestsInOrder
<1> QED
  BY <1>3, <1>4

LEMMA WorkKeepsTheTick ==
  ASSUME NEW e, NEW s, NEW x, Len(e.plan) \in Nat, StateShape(s)
  PROVE  DigestsInOrder(e.plan, s, Len(e.plan), Work(e, s, x))
<1> DEFINE p == e.plan
           w == WorkOf(e, s, x)
           S == {m \in Nat : m <= Len(p) => DigestsInOrder(p, s, m, w[m])}
<1>1. /\ Work(e, s, x) = w[Len(p)]
      /\ w[0] = FirstWork(e, s, x)
      /\ \A i \in 1..Len(p) : w[i] = NextWork(e, x, i, w[i - 1])
  BY WorkUnfolds
<1> HIDE DEF w
<1>2. 0 \in S
  <2>1. DigestsInOrder(p, s, 0, w[0])
    <3>1. w[0].state = s
      BY <1>1, ValidatedIs DEF FirstWork
    <3>2. \/ w[0].validation_summaries = <<>>
          \/ \E c \in {"BeforeTickBegin"} : w[0].validation_summaries = Append(<<>>, Summary(c, s))
      BY <1>1, ValidatedIs DEF FirstWork
    <3>3. CASE w[0].validation_summaries = <<>>
      <4>1. IsSequence(<<>>) /\ Len(<<>>) = 0
        BY DEF IsSequence
      <4> QED
        BY <3>1, <3>3, <4>1 DEF DigestsInOrder
    <3>4. CASE w[0].validation_summaries = Append(<<>>, Summary("BeforeTickBegin", s))
      <4> DEFINE us == w[0].validation_summaries
      <4>1. us = <<Summary("BeforeTickBegin", s)>>
        BY <3>4
      <4>2. IsSequence(us) /\ Len(us) = 1 /\ us[1] = Summary("BeforeTickBegin", s)
        BY <4>1 DEF IsSequence
      <4>3. us[1].state_tick = s.tick /\ us[1].checkpoint = "BeforeTickBegin"
        BY <4>2 DEF Summary
      <4>4. "BeforeTickBegin" \in CheckpointsAt(p, 0)
        BY DEF CheckpointsAt
      <4> HIDE DEF us
      <4>5. \A k \in 1..Len(us) : k = 1
        BY <4>2
      <4>6. \A k \in 1..Len(us) : us[k].state_tick = s.tick /\ \E j \in 0..0 : us[k].checkpoint \in CheckpointsAt(p, j)
        BY <4>3, <4>4, <4>5
      <4> QED
        BY <3>1, <4>2, <4>5, <4>6 DEF DigestsInOrder, us
    <3> QED
      BY <3>2, <3>3, <3>4
  <2> QED
    BY <2>1
<1>3. ASSUME NEW m \in Nat, m \in S
      PROVE  m + 1 \in S
  <2> SUFFICES ASSUME m + 1 <= Len(p)
               PROVE  DigestsInOrder(p, s, m + 1, w[m + 1])
    OBVIOUS
  <2>1. DigestsInOrder(p, s, m, w[m])
    BY <1>3
  <2>2. m + 1 \in 1..Len(p) /\ m + 1 - 1 = m
    OBVIOUS
  <2>3. w[m + 1] = NextWork(e, x, m + 1, w[m])
    BY <1>1, <2>2
  <2>4. StateShape(w[m].state) /\ w[m].state.tick = s.tick
    BY <2>1 DEF DigestsInOrder
  <2>5. CASE w[m].status # "Ok"
    <3>1. w[m + 1] = w[m]
      BY <2>3, <2>5 DEF NextWork
    <3> QED
      BY <2>1, <2>4, <3>1, DigestAdded
  <2>6. CASE w[m].status = "Ok"
    <3> DEFINE outcome == Step(p[m + 1].name, x, w[m].state)
               after   == [w[m].state EXCEPT !.data = outcome.data]
               markers == Append(w[m].phase_markers, p[m + 1])
               policy  == e.validation_policy
               cs      == CheckpointAfter(p, m + 1)
               vs      == w[m].validation_summaries
               run     == [status |-> "Ok", state |-> after, phase_markers |-> markers, validation_summaries |-> vs]
               v       == Validated(run, policy, cs, x.tick)
    <3>1. w[m + 1] = IF outcome.ok THEN v ELSE [run EXCEPT !.status = "PhaseFailed"]
      BY <2>3, <2>6 DEF NextWork, AfterPhase
    <3>2. StateShape(after) /\ after.tick = s.tick
      BY <2>4 DEF StateShape
    <3> HIDE DEF after, markers
    <3>3. /\ v.state = after
          /\ \/ v.validation_summaries = vs
             \/ \E c \in cs : v.validation_summaries = Append(vs, Summary(c, after))
      <4> HIDE DEF policy, cs, vs
      <4> QED
        BY ValidatedIs
    <3>4. CheckpointAfter(p, m + 1) = CheckpointsAt(p, m + 1)
      BY DEF CheckpointsAt
    <3> HIDE DEF v
    <3>5. CASE outcome.ok
      <4>1. w[m + 1] = v
        BY <3>1, <3>5
      <4> QED
        BY <2>1, <3>2, <3>3, <3>4, <4>1, DigestAdded
    <3>6. CASE ~outcome.ok
      <4>1. w[m + 1].state = after /\ w[m + 1].validation_summaries = w[m].validation_summaries
        BY <3>1, <3>6
      <4> QED
        BY <2>1, <3>2, <4>1, DigestAdded
    <3> QED
      BY <3>5, <3>6
  <2> QED
    BY <2>5, <2>6
<1>4. Nat \subseteq S
  <2> HIDE DEF S
  <2> QED
    BY <1>2, <1>3, SetInduction
<1>5. Len(p) \in S
  BY <1>4
<1> QED
  BY <1>1, <1>5

\* The record of a tick that succeeds.
Recording(e, s, f) == TickOutcome(e, s, f).records[1]

\* What a tick is told of itself.
ContextOf(e, s, f) ==
  [tick |-> TickSucc(s.tick), tick_seed |-> TickSeed(e.seed, TickSucc(s.tick)), command |-> f.command]

LEMMA TickSucceeds ==
  ASSUME NEW e, NEW s, NEW f, TickOutcome(e, s, f).status = "Ok"
  PROVE  LET w   == Work(e, s, ContextOf(e, s, f))
             end == [w.state EXCEPT !.tick = TickSucc(s.tick)]
         IN  /\ f.tick = TickSucc(s.tick)
             /\ TickOutcome(e, s, f).state = end
             /\ TickOutcome(e, s, f).records = <<Recording(e, s, f)>>
             /\ Recording(e, s, f) =
                  [tick                 |-> TickSucc(s.tick),
                   input                |-> f,
                   tick_seed            |-> TickSeed(e.seed, TickSucc(s.tick)),
                   phase_markers        |-> w.phase_markers,
                   validation_summaries |-> w.validation_summaries,
                   checksum             |-> end,
                   snapshot             |-> PolicySnapshot(e.snapshot_policy, w.state, end)]
<1> DEFINE w   == Work(e, s, ContextOf(e, s, f))
           end == [w.state EXCEPT !.tick = TickSucc(s.tick)]
           r   == [tick                 |-> TickSucc(s.tick),
                   input                |-> f,
                   tick_seed            |-> TickSeed(e.seed, TickSucc(s.tick)),
                   phase_markers        |-> w.phase_markers,
                   validation_summaries |-> w.validation_summaries,
                   checksum             |-> end,
                   snapshot             |-> PolicySnapshot(e.snapshot_policy, w.state, end)]
<1>1. f.tick = TickSucc(s.tick)
  BY DEF TickOutcome
<1>2. TickOutcome(e, s, f) = TickEnd(e, f, ContextOf(e, s, f), w)
  BY <1>1 DEF TickOutcome, ContextOf
<1>3. /\ ContextOf(e, s, f).tick = TickSucc(s.tick)
      /\ ContextOf(e, s, f).tick_seed = TickSeed(e.seed, TickSucc(s.tick))
  BY DEF ContextOf
<1> HIDE DEF w
<1>4. TickEnd(e, f, ContextOf(e, s, f), w) =
        IF w.status # "Ok" THEN [status |-> w.status, state |-> w.state, records |-> <<>>]
        ELSE [status |-> "Ok", state |-> end, records |-> <<r>>]
  BY <1>3 DEF TickEnd
<1> HIDE DEF r, end
<1>5. w.status = "Ok"
  BY <1>2, <1>4
<1>6. TickOutcome(e, s, f) = [status |-> "Ok", state |-> end, records |-> <<r>>]
  BY <1>2, <1>4, <1>5
<1>7. TickOutcome(e, s, f).state = end /\ TickOutcome(e, s, f).records = <<r>>
  BY <1>6
<1>8. Recording(e, s, f) = r
  BY <1>7 DEF Recording
<1> QED
  BY <1>1, <1>7, <1>8 DEF r, w, end

LEMMA TickRecords ==
  ASSUME NEW e, NEW s, NEW f, TickOutcome(e, s, f).status = "Ok"
  PROVE  TickOutcome(e, s, f).records = <<Recording(e, s, f)>>
<1> DEFINE w   == Work(e, s, ContextOf(e, s, f))
           end == [w.state EXCEPT !.tick = TickSucc(s.tick)]
<1>1. TickOutcome(e, s, f).state = end /\ TickOutcome(e, s, f).records = <<Recording(e, s, f)>>
  BY TickSucceeds
<1> QED
  BY <1>1

\* The tick goes up by one; record, checksum and snapshot are of the state it leaves.
LEMMA TickLeaves ==
  ASSUME NEW e, NEW s, NEW f, Len(e.plan) \in Nat, StateShape(s), TickOutcome(e, s, f).status = "Ok"
  PROVE  LET end == TickOutcome(e, s, f).state
             r   == Recording(e, s, f)
         IN  /\ StateShape(end) /\ end.tick = TickSucc(s.tick)
             /\ r.tick = end.tick /\ r.input = f /\ r.tick_seed = TickSeed(e.seed, r.tick)
             /\ r.checksum = end
             /\ r.snapshot = IF ShouldCapture(e.snapshot_policy, r.tick)
                             THEN Some(SnapshotRecord(PolicyInterval(e.snapshot_policy), end)) ELSE None
             /\ \E w : r.validation_summaries = w.validation_summaries /\ DigestsInOrder(e.plan, s, Len(e.plan), w)
<1> DEFINE w   == Work(e, s, ContextOf(e, s, f))
           end == [w.state EXCEPT !.tick = TickSucc(s.tick)]
           r   == Recording(e, s, f)
           t   == TickSucc(s.tick)
           sd  == TickSeed(e.seed, t)
<1>1. DigestsInOrder(e.plan, s, Len(e.plan), w)
  BY WorkKeepsTheTick
<1>2. TickOutcome(e, s, f).state = end
  BY TickSucceeds
<1>3. r = [tick                 |-> t,
           input                |-> f,
           tick_seed            |-> sd,
           phase_markers        |-> w.phase_markers,
           validation_summaries |-> w.validation_summaries,
           checksum             |-> end,
           snapshot             |-> PolicySnapshot(e.snapshot_policy, w.state, end)]
  BY TickSucceeds
<1>4. StateShape(w.state)
  BY <1>1 DEF DigestsInOrder
<1> HIDE DEF w, r, t, sd
<1>5. StateShape(end) /\ end.tick = t
  BY <1>4 DEF StateShape, t
<1> HIDE DEF end
<1>6. /\ r.tick = t /\ r.input = f /\ r.tick_seed = sd /\ r.checksum = end
      /\ r.validation_summaries = w.validation_summaries
      /\ r.snapshot = PolicySnapshot(e.snapshot_policy, w.state, end)
  BY <1>3
<1>7. r.snapshot = IF ShouldCapture(e.snapshot_policy, r.tick)
                   THEN Some(SnapshotRecord(PolicyInterval(e.snapshot_policy), end)) ELSE None
  BY <1>5, <1>6 DEF PolicySnapshot
<1> QED
  BY <1>1, <1>2, <1>5, <1>6, <1>7 DEF r, t, sd

-----------------------------------------------------------------------------
(***************************************************************************)
(* Runs of ticks.                                                          *)
(***************************************************************************)
FirstRun(s) == [status |-> "Ok", state |-> s, records |-> <<>>]

RunsTo(e, s, fs, n, run) ==
  run = [i \in 0..n |-> IF i = 0 THEN FirstRun(s) ELSE AfterTick(e, run[i - 1], fs[i])]

RunOf(e, s, fs) == CHOOSE run : RunsTo(e, s, fs, Len(fs), run)

LEMMA RunsExist ==
  ASSUME NEW e, NEW s, NEW fs, NEW n \in Nat
  PROVE  \E run : RunsTo(e, s, fs, n, run)
<1> DEFINE S == {m \in Nat : \E run : RunsTo(e, s, fs, m, run)}
<1>1. 0 \in S
  <2> DEFINE first == [i \in 0..0 |-> FirstRun(s)]
  <2>1. \A i \in 0..0 : i = 0
    OBVIOUS
  <2>2. first = [i \in 0..0 |-> IF i = 0 THEN FirstRun(s) ELSE AfterTick(e, first[i - 1], fs[i])]
    BY <2>1
  <2>3. RunsTo(e, s, fs, 0, first)
    BY <2>2 DEF RunsTo
  <2> QED
    BY <2>3
<1>2. ASSUME NEW m \in Nat, m \in S
      PROVE  m + 1 \in S
  <2>1. PICK run : RunsTo(e, s, fs, m, run)
    BY <1>2
  <2>2. \A i \in 0..m : run[i] = IF i = 0 THEN FirstRun(s) ELSE AfterTick(e, run[i - 1], fs[i])
    BY <2>1 DEF RunsTo
  <2> DEFINE more == [i \in 0..m + 1 |-> IF i \in 0..m THEN run[i] ELSE AfterTick(e, run[i - 1], fs[i])]
  <2>3. ASSUME NEW i \in 0..m + 1
        PROVE  more[i] = IF i = 0 THEN FirstRun(s) ELSE AfterTick(e, more[i - 1], fs[i])
    <3>1. i # 0 => i - 1 \in 0..m /\ more[i - 1] = run[i - 1]
      OBVIOUS
    <3>2. more[i] = IF i \in 0..m THEN run[i] ELSE AfterTick(e, run[i - 1], fs[i])
      OBVIOUS
    <3>3. 0 \in 0..m
      OBVIOUS
    <3> HIDE DEF more
    <3>4. CASE i = 0
      BY <2>2, <3>2, <3>3, <3>4
    <3>5. CASE i # 0
      BY <2>2, <3>1, <3>2, <3>5
    <3> QED
      BY <3>4, <3>5
  <2>4. RunsTo(e, s, fs, m + 1, more)
    BY <2>3 DEF RunsTo
  <2> QED
    BY <2>4
<1> HIDE DEF S
<1>3. Nat \subseteq S
  BY <1>1, <1>2, SetInduction
<1> QED
  BY <1>3 DEF S

LEMMA RunUnfolds ==
  ASSUME NEW e, NEW s, NEW fs, Len(fs) \in Nat
  PROVE  /\ RunFrames(e, s, fs) = RunOf(e, s, fs)[Len(fs)]
         /\ RunOf(e, s, fs)[0] = FirstRun(s)
         /\ \A i \in 1..Len(fs) : RunOf(e, s, fs)[i] = AfterTick(e, RunOf(e, s, fs)[i - 1], fs[i])
<1>1. RunsTo(e, s, fs, Len(fs), RunOf(e, s, fs))
  BY RunsExist DEF RunOf
<1>2. RunFrames(e, s, fs) = RunOf(e, s, fs)[Len(fs)]
  BY DEF RunFrames, RunOf, RunsTo, FirstRun
<1> QED
  BY <1>1, <1>2 DEF RunsTo

\* The ticks from one state to the next, all of which succeed.
Steps(e, s, fs, states) ==
  /\ states[0] = s
  /\ \A i \in 1..Len(fs) :
       TickOutcome(e, states[i - 1], fs[i]).status = "Ok" /\ states[i] = TickOutcome(e, states[i - 1], fs[i]).state

\* What they leave.
Done(e, fs, states) ==
  [status |-> "Ok", state |-> states[Len(fs)],
   records |-> [i \in 1..Len(fs) |-> Recording(e, states[i - 1], fs[i])]]


\* A run is what its ticks leave, if all of them succeed.
LEMMA RunIs ==
  ASSUME NEW e, NEW s, NEW fs, Len(fs) \in Nat, NEW states, Steps(e, s, fs, states)
  PROVE  RunFrames(e, s, fs) = Done(e, fs, states)
<1> DEFINE R    == RunOf(e, s, fs)
           n    == Len(fs)
           r(i) == Recording(e, states[i - 1], fs[i])
           D(m) == [status |-> "Ok", state |-> states[m], records |-> [i \in 1..m |-> r(i)]]
           S    == {m \in Nat : m <= n => R[m] = D(m)}
<1>1. RunFrames(e, s, fs) = R[n] /\ R[0] = FirstRun(s) /\ \A i \in 1..n : R[i] = AfterTick(e, R[i - 1], fs[i])
  BY RunUnfolds
<1> HIDE DEF R, r
<1>2. 0 \in S
  <2>1. [i \in 1..0 |-> r(i)] = <<>>
    OBVIOUS
  <2>2. D(0) = FirstRun(s)
    BY <2>1 DEF FirstRun, Steps
  <2> QED
    BY <1>1, <2>2
<1>3. ASSUME NEW m \in Nat, m \in S
      PROVE  m + 1 \in S
  <2> SUFFICES ASSUME m + 1 <= n
               PROVE  R[m + 1] = D(m + 1)
    OBVIOUS
  <2>1. R[m] = D(m)
    BY <1>3
  <2>2. m + 1 \in 1..n /\ m + 1 - 1 = m
    OBVIOUS
  <2> DEFINE o  == TickOutcome(e, states[m], fs[m + 1])
             rs == [i \in 1..m |-> r(i)]
  <2>3. o.status = "Ok" /\ states[m + 1] = o.state
    BY <2>2 DEF Steps
  <2>4. o.records = <<r(m + 1)>>
    <3>1. o.records = <<Recording(e, states[m], fs[m + 1])>>
      BY <2>3, TickRecords
    <3> QED
      BY <2>2, <3>1 DEF r
  <2>5. R[m + 1] = AfterTick(e, D(m), fs[m + 1])
    BY <1>1, <2>1, <2>2
  <2> HIDE DEF o
  <2>6. AfterTick(e, D(m), fs[m + 1]) = [status |-> o.status, state |-> o.state, records |-> rs \o o.records]
    BY DEF AfterTick, o
  <2>7. rs \o <<r(m + 1)>> = [i \in 1..m + 1 |-> r(i)]
    <3>1. IsSequence(rs) /\ Len(rs) = m
      BY DEF IsSequence
    <3>2. IsSequence(<<r(m + 1)>>) /\ Len(<<r(m + 1)>>) = 1 /\ <<r(m + 1)>>[1] = r(m + 1)
      BY DEF IsSequence
    <3> DEFINE both == rs \o <<r(m + 1)>>
               more == [i \in 1..m + 1 |-> r(i)]
    <3>3. /\ IsSequence(both) /\ Len(both) = m + 1
          /\ \A i \in 1..m : both[i] = rs[i]
          /\ \A i \in 1..1 : both[m + i] = <<r(m + 1)>>[i]
      BY <3>1, <3>2, ConcatIs
    <3>4. \A i \in 1..m : both[i] = r(i)
      BY <3>3
    <3>5. both[m + 1] = r(m + 1)
      BY <3>2, <3>3
    <3>6. IsSequence(more) /\ Len(more) = m + 1 /\ \A i \in 1..m + 1 : more[i] = r(i)
      BY DEF IsSequence
    <3> HIDE DEF both, more
    <3>7. ASSUME NEW i \in 1..m + 1
          PROVE  both[i] = more[i]
      <4>1. i \in 1..m \/ i = m + 1
        OBVIOUS
      <4> QED
        BY <3>4, <3>5, <3>6, <4>1
    <3>8. both = more
      BY <3>3, <3>6, <3>7, SameSequence
    <3> QED
      BY <3>8 DEF both, more
  <2> HIDE DEF rs
  <2>8. R[m + 1] = [status |-> "Ok", state |-> states[m + 1], records |-> [i \in 1..m + 1 |-> r(i)]]
    BY <2>3, <2>4, <2>5, <2>6, <2>7
  <2> QED
    BY <2>8
<1>4. Nat \subseteq S
  <2> HIDE DEF S
  <2> QED
    BY <1>2, <1>3, SetInduction
<1>5. n \in S
  BY <1>4
<1>6. R[n] = D(n)
  BY <1>5
<1>7. D(n) = Done(e, fs, states)
  BY DEF Done, r
<1> QED
  BY <1>1, <1>6, <1>7

LEMMA RunSucceeds ==
  ASSUME NEW e, NEW s, NEW fs, Len(fs) \in Nat, RunFrames(e, s, fs).status = "Ok"
  PROVE  \E states : Steps(e, s, fs, states)
<1> DEFINE R == RunOf(e, s, fs)
           n == Len(fs)
           S == {m \in Nat : m <= n => R[n - m].status = "Ok"}
<1>1. RunFrames(e, s, fs) = R[n] /\ R[0] = FirstRun(s) /\ \A i \in 1..n : R[i] = AfterTick(e, R[i - 1], fs[i])
  BY RunUnfolds
<1> HIDE DEF R
<1>2. ASSUME NEW i \in 1..n, R[i].status = "Ok"
      PROVE  LET o == TickOutcome(e, R[i - 1].state, fs[i])
             IN  R[i - 1].status = "Ok" /\ o.status = "Ok" /\ R[i].state = o.state
  <2> DEFINE o == TickOutcome(e, R[i - 1].state, fs[i])
             rs == R[i - 1].records \o o.records
  <2>1. R[i] = AfterTick(e, R[i - 1], fs[i])
    BY <1>1
  <2>2. AfterTick(e, R[i - 1], fs[i]) =
          IF R[i - 1].status # "Ok" THEN R[i - 1] ELSE [status |-> o.status, state |-> o.state, records |-> rs]
    BY DEF AfterTick
  <2> HIDE DEF o, rs
  <2>3. R[i - 1].status = "Ok"
    BY <1>2, <2>1, <2>2
  <2>4. R[i] = [status |-> o.status, state |-> o.state, records |-> rs]
    BY <2>1, <2>2, <2>3
  <2>5. o.status = "Ok" /\ R[i].state = o.state
    BY <1>2, <2>4
  <2> QED
    BY <2>3, <2>5 DEF o
<1>3. 0 \in S
  BY <1>1
<1>4. ASSUME NEW m \in Nat, m \in S
      PROVE  m + 1 \in S
  <2> SUFFICES ASSUME m + 1 <= n
               PROVE  R[n - (m + 1)].status = "Ok"
    OBVIOUS
  <2>1. n - m \in 1..n /\ n - m - 1 = n - (m + 1) /\ R[n - m].status = "Ok"
    BY <1>4
  <2>2. R[n - m - 1].status = "Ok"
    BY <1>2, <2>1
  <2> QED
    BY <2>1, <2>2
<1>5. Nat \subseteq S
  <2> HIDE DEF S
  <2> QED
    BY <1>3, <1>4, SetInduction
<1>6. ASSUME NEW i \in 0..n
      PROVE  R[i].status = "Ok"
  <2>1. n - i \in S /\ n - (n - i) = i /\ n - i <= n
    BY <1>5
  <2>2. R[n - (n - i)].status = "Ok"
    BY <2>1
  <2> QED
    BY <2>1, <2>2
<1> DEFINE states == [i \in 0..n |-> R[i].state]
<1>7. states[0] = s
  BY <1>1 DEF FirstRun
<1>8. ASSUME NEW i \in 1..n
      PROVE  TickOutcome(e, states[i - 1], fs[i]).status = "Ok" /\ states[i] = TickOutcome(e, states[i - 1], fs[i]).state
  <2>1. states[i - 1] = R[i - 1].state /\ states[i] = R[i].state
    OBVIOUS
  <2>2. R[i].status = "Ok"
    BY <1>6
  <2> HIDE DEF states
  <2> QED
    BY <1>2, <2>1, <2>2
<1>9. Steps(e, s, fs, states)
  BY <1>7, <1>8 DEF Steps
<1> QED
  BY <1>9

\* The state of a run has the shape it began with, and its tick counts the frames.
LEMMA StepsKeepShape ==
  ASSUME NEW e, Len(e.plan) \in Nat, NEW s, StateShape(s), NEW fs, Len(fs) \in Nat, NEW states, Steps(e, s, fs, states)
  PROVE  \A i \in 0..Len(fs) : StateShape(states[i])
<1> DEFINE S == {m \in Nat : m <= Len(fs) => StateShape(states[m])}
<1>1. 0 \in S
  BY DEF Steps
<1>2. ASSUME NEW m \in Nat, m \in S
      PROVE  m + 1 \in S
  <2> SUFFICES ASSUME m + 1 <= Len(fs)
               PROVE  StateShape(states[m + 1])
    OBVIOUS
  <2>1. StateShape(states[m]) /\ m + 1 \in 1..Len(fs) /\ m + 1 - 1 = m
    BY <1>2
  <2>2. TickOutcome(e, states[m], fs[m + 1]).status = "Ok" /\ states[m + 1] = TickOutcome(e, states[m], fs[m + 1]).state
    BY <2>1 DEF Steps
  <2> QED
    BY <2>1, <2>2, TickLeaves
<1>3. Nat \subseteq S
  <2> HIDE DEF S
  <2> QED
    BY <1>1, <1>2, SetInduction
<1> QED
  BY <1>3


\* Frames and states behind the k-th of others.
Behind(fs, states, k, gs, later) ==
  /\ k \in 0..Len(fs) /\ Len(gs) = Len(fs) - k
  /\ \A j \in 1..Len(gs) : gs[j] = fs[k + j]
  /\ \A j \in 0..Len(gs) : later[j] = states[k + j]

\* The end of a run of ticks is a run from where they begin.
LEMMA StepsSplit ==
  ASSUME NEW e, NEW s, NEW fs, Len(fs) \in Nat, NEW states, Steps(e, s, fs, states),
         NEW k, NEW gs, NEW later, Behind(fs, states, k, gs, later)
  PROVE  Steps(e, states[k], gs, later)
<1> USE DEF Behind
<1>1. Len(gs) \in Nat
  OBVIOUS
<1>2. later[0] = states[k]
  BY <1>1
<1>3. ASSUME NEW j \in 1..Len(gs)
      PROVE  TickOutcome(e, later[j - 1], gs[j]).status = "Ok" /\ later[j] = TickOutcome(e, later[j - 1], gs[j]).state
  <2>1. k + j \in 1..Len(fs) /\ k + j - 1 = k + (j - 1) /\ gs[j] = fs[k + j]
    OBVIOUS
  <2>2. later[j - 1] = states[k + j - 1] /\ later[j] = states[k + j]
    BY <2>1
  <2>3. /\ TickOutcome(e, states[k + j - 1], fs[k + j]).status = "Ok"
        /\ states[k + j] = TickOutcome(e, states[k + j - 1], fs[k + j]).state
    BY <2>1 DEF Steps
  <2> QED
    BY <2>1, <2>2, <2>3
<1> QED
  BY <1>2, <1>3 DEF Steps

-----------------------------------------------------------------------------
(***************************************************************************)
(* Records, and what comparing them says.                                  *)
(***************************************************************************)
SnapshotShape(s) == s = [metadata |-> s.metadata, reason |-> s.reason, payload |-> s.payload]

RecordShape(r) ==
  /\ r = [tick                 |-> r.tick,
          input                |-> r.input,
          tick_seed            |-> r.tick_seed,
          phase_markers        |-> r.phase_markers,
          validation_summaries |-> r.validation_summaries,
          checksum             |-> r.checksum,
          snapshot             |-> r.snapshot]
  /\ r.snapshot = None \/ (r.snapshot = Some(The(r.snapshot)) /\ SnapshotShape(The(r.snapshot)))

RecordsShape(rs) == IsSequence(rs) /\ \A i \in 1..Len(rs) : RecordShape(rs[i])

LEMMA RecordingShape ==
  ASSUME NEW e, NEW s, NEW f, TickOutcome(e, s, f).status = "Ok"
  PROVE  RecordShape(Recording(e, s, f))
<1> DEFINE w    == Work(e, s, ContextOf(e, s, f))
           end  == [w.state EXCEPT !.tick = TickSucc(s.tick)]
           r    == Recording(e, s, f)
           t    == TickSucc(s.tick)
           seed == TickSeed(e.seed, t)
           snap == PolicySnapshot(e.snapshot_policy, w.state, end)
<1>1. r = [tick                 |-> t,
           input                |-> f,
           tick_seed            |-> seed,
           phase_markers        |-> w.phase_markers,
           validation_summaries |-> w.validation_summaries,
           checksum             |-> end,
           snapshot             |-> snap]
  BY TickSucceeds
<1>2. snap = None \/ (snap = Some(The(snap)) /\ SnapshotShape(The(snap)))
  <2> HIDE DEF w, end
  <2> DEFINE reason == PolicyInterval(e.snapshot_policy)
             one    == SnapshotRecord(reason, end)
  <2>1. snap = None \/ snap = Some(one)
    BY DEF PolicySnapshot
  <2>2. SnapshotShape(one)
    <3> HIDE DEF reason
    <3> QED
      BY DEF SnapshotRecord, SnapshotShape
  <2>3. snap = Some(one) => The(snap) = one
    BY DEF Some, The
  <2> HIDE DEF snap, one
  <2> QED
    BY <2>1, <2>2, <2>3
<1> HIDE DEF w, end, t, seed, snap, r
<1>3. RecordShape(r)
  BY <1>1, <1>2 DEF RecordShape
<1> QED
  BY <1>3 DEF r

\* The records of a run: one for each frame, and each of the state it leaves.
LEMMA DoneRecords ==
  ASSUME NEW e, Len(e.plan) \in Nat, NEW s, StateShape(s), NEW fs, Len(fs) \in Nat,
         NEW states, Steps(e, s, fs, states)
  PROVE  LET rs == Done(e, fs, states).records
         IN  /\ RecordsShape(rs) /\ Len(rs) = Len(fs)
             /\ \A i \in 1..Len(fs) : rs[i] = Recording(e, states[i - 1], fs[i])
             /\ \A i \in 1..Len(fs) : rs[i].input = fs[i] /\ rs[i].checksum = states[i]
<1> DEFINE rs == [i \in 1..Len(fs) |-> Recording(e, states[i - 1], fs[i])]
<1>1. Done(e, fs, states).records = rs
  BY DEF Done
<1>2. IsSequence(rs) /\ Len(rs) = Len(fs)
  BY DEF IsSequence
<1>3. ASSUME NEW i \in 1..Len(fs)
      PROVE  rs[i] = Recording(e, states[i - 1], fs[i])
  OBVIOUS
<1> HIDE DEF rs
<1>4. ASSUME NEW i \in 1..Len(fs)
      PROVE  RecordShape(rs[i]) /\ rs[i].input = fs[i] /\ rs[i].checksum = states[i]
  <2>1. /\ TickOutcome(e, states[i - 1], fs[i]).status = "Ok"
        /\ states[i] = TickOutcome(e, states[i - 1], fs[i]).state
    BY DEF Steps
  <2>2. RecordShape(Recording(e, states[i - 1], fs[i]))
    BY <2>1, RecordingShape
  <2>3. i - 1 \in 0..Len(fs)
    OBVIOUS
  <2>4. StateShape(states[i - 1])
    BY <2>3, StepsKeepShape
  <2>5. Recording(e, states[i - 1], fs[i]).input = fs[i] /\ Recording(e, states[i - 1], fs[i]).checksum = states[i]
    BY <2>1, <2>4, TickLeaves
  <2> QED
    BY <1>3, <2>2, <2>5
<1> QED
  BY <1>1, <1>2, <1>3, <1>4 DEF RecordsShape

LEMMA SameRecord ==
  ASSUME NEW r, NEW q, RecordShape(r), RecordShape(q), Differences(r, q) = {}
  PROVE  r = q
<1>1. \A f \in {"tick", "input", "tick_seed", "phase_markers", "validation_summaries", "checksum"} : r[f] = q[f]
  BY DEF Differences
<1>2. /\ r.tick = q.tick /\ r.input = q.input /\ r.tick_seed = q.tick_seed
      /\ r.phase_markers = q.phase_markers /\ r.validation_summaries = q.validation_summaries
      /\ r.checksum = q.checksum
  BY <1>1
<1>3. SnapshotDifferences(r.snapshot, q.snapshot) = {}
  BY DEF Differences
<1>4. r.snapshot = q.snapshot
  <2> DEFINE x == r.snapshot
             y == q.snapshot
  <2>1. (x = None) <=> (y = None)
    BY <1>3 DEF SnapshotDifferences
  <2>2. CASE x = None
    BY <2>1, <2>2
  <2>3. CASE x # None
    <3>1. \A f \in {"reason", "metadata", "payload"} : The(x)[f] = The(y)[f]
      BY <1>3, <2>1, <2>3 DEF SnapshotDifferences
    <3>2. The(x).reason = The(y).reason /\ The(x).metadata = The(y).metadata /\ The(x).payload = The(y).payload
      BY <3>1
    <3>3. x = Some(The(x)) /\ y = Some(The(y)) /\ SnapshotShape(The(x)) /\ SnapshotShape(The(y))
      BY <2>1, <2>3 DEF RecordShape
    <3>4. The(x) = The(y)
      BY <3>2, <3>3 DEF SnapshotShape
    <3> QED
      BY <3>3, <3>4
  <2> QED
    BY <2>2, <2>3
<1> QED
  BY <1>2, <1>4 DEF RecordShape

\* Two traces in which no divergence is found are the same.
LEMMA SameTrace ==
  ASSUME NEW p, NEW q, RecordsShape(p), RecordsShape(q), Divergence(p, q) = None
  PROVE  p = q
<1> DEFINE shared  == IF Len(p) < Len(q) THEN Len(p) ELSE Len(q)
           differs == {i \in 1..shared : Differences(p[i], q[i]) # {}}
           first   == Min(differs)
           d1      == [index |-> first, field |-> FirstOf(Differences(p[first], q[first]))]
           d2      == [index |-> shared + 1, field |-> "TickCount"]
<1>1. Divergence(p, q) = IF differs # {} THEN Some(d1) ELSE IF Len(p) # Len(q) THEN Some(d2) ELSE None
  BY DEF Divergence
<1> HIDE DEF d1, d2
<1>2. Some(d1) # None /\ Some(d2) # None
  BY DEF Some, None
<1> HIDE DEF differs
<1>3. differs = {} /\ Len(p) = Len(q)
  BY <1>1, <1>2
<1>4. Len(p) \in Nat /\ shared = Len(p)
  BY <1>3 DEF RecordsShape, IsSequence
<1>5. ASSUME NEW i \in 1..Len(p)
      PROVE  p[i] = q[i]
  <2>1. Differences(p[i], q[i]) = {}
    BY <1>3, <1>4 DEF differs
  <2> QED
    BY <1>3, <2>1, SameRecord DEF RecordsShape
<1> QED
  BY <1>3, <1>5, SameSequence DEF RecordsShape

LEMMA NoDivergence ==
  ASSUME NEW p
  PROVE  Divergence(p, p) = None
<1>1. \A r : Differences(r, r) = {}
  BY DEF Differences, SnapshotDifferences
<1> QED
  BY <1>1 DEF Divergence


\* The snapshot of a record is as the policy says, and of the record's state.
LEMMA RecordingSnapshot ==
  ASSUME NEW e, NEW s, NEW f, Len(e.plan) \in Nat, StateShape(s), TickOutcome(e, s, f).status = "Ok"
  PROVE  LET r == Recording(e, s, f)
         IN  /\ SnapshotAsPolicy(e.snapshot_policy, r)
             /\ r.snapshot # None =>
                  LET c == The(r.snapshot)
                  IN  /\ c.payload = r.checksum
                      /\ c.metadata.source_tick = r.tick
                      /\ c.metadata.capture_checksum = r.checksum
                      /\ PayloadMatches(c.metadata, c.payload)
<1> DEFINE r      == Recording(e, s, f)
           end    == TickOutcome(e, s, f).state
           reason == PolicyInterval(e.snapshot_policy)
           one    == SnapshotRecord(reason, end)
           due    == ShouldCapture(e.snapshot_policy, r.tick)
<1>1. /\ r.tick = end.tick /\ r.checksum = end
      /\ r.snapshot = IF due THEN Some(one) ELSE None
  BY TickLeaves
<1> HIDE DEF r, end, due
<1>2. /\ one.reason = reason /\ one.payload = end
      /\ one.metadata.source_tick = end.tick /\ one.metadata.capture_checksum = end
  <2> HIDE DEF reason
  <2> QED
    BY DEF SnapshotRecord
<1> HIDE DEF one
<1>3. The(Some(one)) = one /\ Some(one) # None
  BY DEF The, Some, None
<1>4. SnapshotAsPolicy(e.snapshot_policy, r)
  <2>1. SnapshotAsPolicy(e.snapshot_policy, r) <=>
          IF due THEN r.snapshot # None /\ The(r.snapshot).reason = reason ELSE r.snapshot = None
    BY DEF SnapshotAsPolicy, due
  <2> QED
    BY <1>1, <1>2, <1>3, <2>1
<1>5. ASSUME r.snapshot # None
      PROVE  LET c == The(r.snapshot)
             IN  /\ c.payload = r.checksum
                 /\ c.metadata.source_tick = r.tick
                 /\ c.metadata.capture_checksum = r.checksum
                 /\ PayloadMatches(c.metadata, c.payload)
  <2>1. The(r.snapshot) = one
    BY <1>1, <1>3, <1>5
  <2> QED
    BY <1>1, <1>2, <2>1 DEF PayloadMatches
<1> QED
  BY <1>4, <1>5 DEF r

-----------------------------------------------------------------------------
(***************************************************************************)
(* Recording, verifying and resuming.                                      *)
(***************************************************************************)
ArtifactShape(a) ==
  /\ a = [format          |-> a.format,
          base_seed       |-> a.base_seed,
          config_identity |-> a.config_identity,
          snapshot_policy |-> a.snapshot_policy,
          total_ticks     |-> a.total_ticks,
          record_count    |-> a.record_count,
          records         |-> a.records]
  /\ RecordsShape(a.records)

\* The run that verifying an artifact repeats.
Rerun(config, a) == RunFrames(Build(config, a.base_seed), InitialState(config), InputsOf(a.records))

LEMMA BuildIs ==
  ASSUME NEW config, NEW seed
  PROVE  /\ Build(config, seed).plan = Plan /\ Len(Build(config, seed).plan) \in Nat
         /\ Build(config, seed).seed = seed
         /\ Build(config, seed).snapshot_policy = config.snapshot_policy
         /\ StateShape(InitialState(config)) /\ InitialState(config).tick = 0
<1>1. Build(config, seed).plan = Plan /\ Build(config, seed).seed = seed
      /\ Build(config, seed).snapshot_policy = config.snapshot_policy
  BY DEF Build
<1>2. Len(Plan) \in Nat
  BY PlanAssumption
<1>3. StateShape(InitialState(config)) /\ InitialState(config).tick = 0
  BY DEF StateShape, InitialState
<1> QED
  BY <1>1, <1>2, <1>3

LEMMA InputsAre ==
  ASSUME NEW rs, IsSequence(rs)
  PROVE  IsSequence(InputsOf(rs)) /\ Len(InputsOf(rs)) = Len(rs) /\ \A i \in 1..Len(rs) : InputsOf(rs)[i] = rs[i].input
BY DEF InputsOf, IsSequence

\* A replay that ends well: its run is the records, and the result is the one asked for.
LEMMA ReplayedIs ==
  ASSUME NEW e, NEW s, NEW rs, RecordsShape(rs), NEW success, Replayed(e, s, rs, success).status = "Ok"
  PROVE  /\ RunFrames(e, s, InputsOf(rs)).status = "Ok"
         /\ RunFrames(e, s, InputsOf(rs)).records = rs
         /\ Replayed(e, s, rs, success) = success
<1> DEFINE run == RunFrames(e, s, InputsOf(rs))
           f1  == Failure(run.status, Len(run.records))
           f2  == Failure("ReplayMismatch", The(Divergence(rs, run.records)).index)
<1>1. Replayed(e, s, rs, success) =
        IF run.status # "Ok" THEN f1 ELSE IF Divergence(rs, run.records) = None THEN success ELSE f2
  BY DEF Replayed, Compared
<1>2. f1.status = run.status /\ f2.status = "ReplayMismatch"
  BY DEF Failure
<1> HIDE DEF f1, f2, run
<1>3. run.status = "Ok"
  BY <1>1, <1>2
<1>4. Divergence(rs, run.records) = None /\ Replayed(e, s, rs, success) = success
  BY <1>1, <1>2, <1>3
<1>5. IsSequence(InputsOf(rs)) /\ Len(InputsOf(rs)) \in Nat
  BY InputsAre DEF RecordsShape, IsSequence
<1>6. PICK states : Steps(e, s, InputsOf(rs), states)
  BY <1>3, <1>5, RunSucceeds DEF run
<1>7. run = Done(e, InputsOf(rs), states)
  BY <1>5, <1>6, RunIs DEF run
<1>8. RecordsShape(run.records)
  <2> DEFINE fs     == InputsOf(rs)
             rec(i) == Recording(e, states[i - 1], fs[i])
  <2>1. run.records = [i \in 1..Len(fs) |-> rec(i)]
    BY <1>7 DEF Done
  <2>2. \A i \in 1..Len(fs) : RecordShape(rec(i))
    BY <1>6, RecordingShape DEF Steps
  <2> HIDE DEF rec, fs
  <2>3. Len(fs) \in Nat
    BY <1>5 DEF fs
  <2> QED
    BY <2>1, <2>2, <2>3 DEF RecordsShape, IsSequence
<1>9. run.records = rs
  BY <1>4, <1>8, SameTrace
<1> QED
  BY <1>3, <1>4, <1>9 DEF run


\* What a run records is as its engine's policy says.
LEMMA RunFollowsPolicy ==
  ASSUME NEW e, Len(e.plan) \in Nat, NEW s, StateShape(s), NEW fs, Len(fs) \in Nat,
         RunFrames(e, s, fs).status = "Ok", NEW i \in 1..Len(fs)
  PROVE  LET r == RunFrames(e, s, fs).records[i]
         IN  /\ SnapshotAsPolicy(e.snapshot_policy, r)
             /\ r.snapshot # None =>
                  LET c == The(r.snapshot)
                  IN  /\ c.payload = r.checksum
                      /\ c.metadata.source_tick = r.tick
                      /\ c.metadata.capture_checksum = r.checksum
                      /\ PayloadMatches(c.metadata, c.payload)
<1>1. PICK states : Steps(e, s, fs, states)
  BY RunSucceeds
<1>2. RunFrames(e, s, fs) = Done(e, fs, states)
  BY <1>1, RunIs
<1>3. RunFrames(e, s, fs).records[i] = Recording(e, states[i - 1], fs[i])
  BY <1>1, <1>2, DoneRecords
<1>4. i - 1 \in 0..Len(fs)
  OBVIOUS
<1>5. StateShape(states[i - 1])
  BY <1>1, <1>4, StepsKeepShape
<1>6. TickOutcome(e, states[i - 1], fs[i]).status = "Ok"
  BY <1>1 DEF Steps
<1> QED
  BY <1>3, <1>5, <1>6, RecordingSnapshot

LEMMA VerifiedIs ==
  ASSUME NEW config, NEW a, ArtifactShape(a), VerifyReplay(config, a).status = "Ok"
  PROVE  /\ ValidForState(a) /\ a.config_identity = config
         /\ Rerun(config, a).status = "Ok" /\ Rerun(config, a).records = a.records
         /\ VerifyReplay(config, a) = WholeReplay(a)
<1> DEFINE e == Build(config, a.base_seed)
           s == InitialState(config)
           replayed == Replayed(e, s, a.records, WholeReplay(a))
           refused  == Failure("Refused", 0)
<1>1. VerifyReplay(config, a) = IF ~ValidForState(a) \/ a.config_identity # config THEN refused ELSE replayed
  BY DEF VerifyReplay
<1>2. refused.status = "Refused"
  BY DEF Failure
<1> HIDE DEF replayed, refused
<1>3. ValidForState(a) /\ a.config_identity = config /\ VerifyReplay(config, a) = replayed /\ replayed.status = "Ok"
  BY <1>1, <1>2
<1>4. RecordsShape(a.records)
  BY DEF ArtifactShape
<1> HIDE DEF e, s
<1>5. /\ RunFrames(e, s, InputsOf(a.records)).status = "Ok"
      /\ RunFrames(e, s, InputsOf(a.records)).records = a.records
      /\ replayed = WholeReplay(a)
  BY <1>3, <1>4, ReplayedIs DEF replayed
<1> QED
  BY <1>3, <1>5 DEF Rerun, e, s

\* What recording returns when its run succeeds and can be read.
LEMMA RecordedIs ==
  ASSUME NEW config, NEW seed, NEW fs,
         LET run == RunFrames(Build(config, seed), InitialState(config), fs)
         IN  /\ run.status = "Ok"
             /\ RecordSequenceValid(seed, config.snapshot_policy, run.records)
             /\ AllRestorable(run.records)
  PROVE  RecordReplay(config, seed, fs) =
           WholeReplay(ArtifactOf(config, seed, RunFrames(Build(config, seed), InitialState(config), fs).records))
BY DEF RecordReplay, Recorded

\* The policy an artifact names is the one thing a verification does not look at.
LEMMA VerifiedIsGenuine ==
  ASSUME NEW config, NEW a, ArtifactShape(a), a.format = Current, AllRestorable(a.records),
         VerifyReplay(config, a).status = "Ok"
  PROVE  [VerifyReplay(config, a) EXCEPT !.artifact = Some([a EXCEPT !.snapshot_policy = config.snapshot_policy])]
           = RecordReplay(config, a.base_seed, InputsOf(a.records))
<1> DEFINE e    == Build(config, a.base_seed)
           s    == InitialState(config)
           fs   == InputsOf(a.records)
           rs   == a.records
           seed == a.base_seed
           p    == config.snapshot_policy
           b    == ArtifactOf(config, seed, rs)
<1>1. /\ ValidForState(a) /\ a.config_identity = config
      /\ RunFrames(e, s, fs).status = "Ok" /\ RunFrames(e, s, fs).records = rs
      /\ VerifyReplay(config, a) = WholeReplay(a)
  BY VerifiedIs DEF Rerun
<1>2. /\ RecordSequenceValid(seed, a.snapshot_policy, rs)
      /\ a.record_count = Len(rs) /\ a.total_ticks = LastTick(rs)
  BY <1>1 DEF ValidForState, ShapeValid
<1>3. IsSequence(rs) /\ IsSequence(fs) /\ Len(fs) = Len(rs) /\ Len(fs) \in Nat
  BY InputsAre DEF ArtifactShape, RecordsShape, IsSequence
<1> HIDE DEF fs
<1>4. Len(e.plan) \in Nat /\ StateShape(s) /\ e.snapshot_policy = p
  BY BuildIs
<1> HIDE DEF e, s
<1>5. ASSUME NEW i \in 1..Len(rs)
      PROVE  SnapshotAsPolicy(p, rs[i])
  BY <1>1, <1>3, <1>4, RunFollowsPolicy
<1>6. RecordSequenceValid(seed, p, rs)
  BY <1>2, <1>5 DEF RecordSequenceValid
<1>7. RecordReplay(config, seed, fs) = WholeReplay(b)
  BY <1>1, <1>6, RecordedIs DEF e, s
<1>8. b = [a EXCEPT !.snapshot_policy = p]
  <2> HIDE DEF rs, seed, p
  <2>1. a = [format          |-> Current,
             base_seed       |-> seed,
             config_identity |-> config,
             snapshot_policy |-> a.snapshot_policy,
             total_ticks     |-> LastTick(rs),
             record_count    |-> Len(rs),
             records         |-> rs]
    BY <1>1, <1>2 DEF ArtifactShape, seed, rs
  <2>2. b = [format          |-> Current,
             base_seed       |-> seed,
             config_identity |-> config,
             snapshot_policy |-> p,
             total_ticks     |-> LastTick(rs),
             record_count    |-> Len(rs),
             records         |-> rs]
    BY DEF ArtifactOf, p
  <2> QED
    BY <2>1, <2>2
<1>9. b.total_ticks = a.total_ticks /\ b.records = rs /\ b.base_seed = seed /\ b.config_identity = a.config_identity
  BY <1>8, <1>1, <1>2 DEF ArtifactOf
<1> HIDE DEF b
<1>10. FinalSnapshot(b, rs) = FinalSnapshot(a, rs)
  BY <1>9 DEF FinalSnapshot, SnapshotArtifact
<1> DEFINE tick == a.total_ticks
           sum  == LastChecksum(rs)
           snap == FinalSnapshot(a, rs)
<1>11. WholeReplay(a) = Success(a, tick, sum, snap)
  BY DEF WholeReplay
<1>12. WholeReplay(b) = Success(b, tick, sum, snap)
  BY <1>9, <1>10 DEF WholeReplay
<1> HIDE DEF tick, sum, snap
<1>13. [Success(a, tick, sum, snap) EXCEPT !.artifact = Some(b)] = Success(b, tick, sum, snap)
  BY DEF Success
<1> QED
  BY <1>1, <1>7, <1>8, <1>11, <1>12, <1>13 DEF fs


\* The greatest of some numbers up to n.
LEMMA MaxIs ==
  ASSUME NEW n \in Nat, NEW S \in SUBSET (1..n), NEW m \in S, \A k \in S : k <= m
  PROVE  Max(S) = m
<1>1. m \in S /\ \A k \in S : m >= k
  OBVIOUS
<1>2. Max(S) \in S /\ \A k \in S : Max(S) >= k
  BY <1>1 DEF Max
<1> DEFINE x == Max(S)
<1> HIDE DEF x
<1>3. x \in S /\ x >= m
  BY <1>2 DEF x
<1>4. x \in 1..n /\ m \in 1..n /\ x <= m
  BY <1>3
<1>5. x = m
  BY <1>3, <1>4
<1> QED
  BY <1>5 DEF x

LEMMA GreatestExists ==
  ASSUME NEW n \in Nat, NEW S \in SUBSET (1..n), S # {}
  PROVE  \E m \in S : \A k \in S : k <= m
<1> DEFINE T == {n - k : k \in S}
<1>1. T \in SUBSET Nat /\ T # {}
  <2>1. \A k \in S : k \in 1..n /\ n - k \in Nat
    OBVIOUS
  <2> QED
    BY <2>1
<1>2. PICK t \in T : \A u \in T : t <= u
  BY <1>1, LeastNatural
<1>3. PICK m \in S : t = n - m
  BY <1>2
<1>4. \A k \in S : k <= m
  <2>1. ASSUME NEW k \in S
        PROVE  k <= m
    <3>1. n - k \in T
      OBVIOUS
    <3>2. n - m <= n - k
      BY <1>2, <1>3, <3>1
    <3>3. k \in 1..n /\ m \in 1..n
      OBVIOUS
    <3> QED
      BY <3>2, <3>3
  <2> QED
    BY <2>1
<1> QED
  BY <1>4

\* What is left of a sequence behind its first n elements.
LEMMA RestIs ==
  ASSUME NEW q, IsSequence(q), NEW n \in 0..Len(q)
  PROVE  LET rest == SubSeq(q, n + 1, Len(q))
         IN  /\ IsSequence(rest) /\ Len(rest) = Len(q) - n
             /\ \A j \in 1..Len(q) - n : rest[j] = q[n + j]
<1> DEFINE S    == {q[i] : i \in 1..Len(q)}
           rest == SubSeq(q, n + 1, Len(q))
<1>1. q \in Seq(S) /\ Len(q) \in Nat
  BY SequenceIn DEF IsSequence
<1> HIDE DEF S
<1>2. rest \in Seq(S)
  BY <1>1
<1>3. Len(rest) = Len(q) - n
  BY <1>1
<1>4. ASSUME NEW j \in 1..Len(q) - n
      PROVE  rest[j] = q[n + j]
  BY <1>1
<1>5. IsSequence(rest)
  BY <1>2, SeqIsSequence
<1> QED
  BY <1>3, <1>4, <1>5


SnapshotArtifactShape(s) ==
  s = [format          |-> s.format,
       base_seed       |-> s.base_seed,
       config_identity |-> s.config_identity,
       capture_reason  |-> s.capture_reason,
       metadata        |-> s.metadata,
       payload         |-> s.payload]

\* The snapshot record a snapshot artifact was made of.
RecordOfSnapshot(s) == [metadata |-> s.metadata, reason |-> s.capture_reason, payload |-> s.payload]

\* A snapshot the replay has recorded is where its tick says, and the rest begins behind it.
LEMMA SeamIs ==
  ASSUME NEW rs, IsSequence(rs), NEW seed, NEW policy, RecordSequenceValid(seed, policy, rs),
         NEW s, RecordedIn(s, rs)
  PROVE  /\ s.metadata.source_tick \in 1..Len(rs)
         /\ rs[s.metadata.source_tick].snapshot = Some(RecordOfSnapshot(s))
         /\ Continuation(s, rs) = SubSeq(rs, s.metadata.source_tick + 1, Len(rs))
<1> DEFINE n == s.metadata.source_tick
           source == CHOOSE i \in 1..Len(rs) : rs[i].tick = n
<1>1. PICK i \in 1..Len(rs) : rs[i].tick = n /\ rs[i].snapshot = Some(RecordOfSnapshot(s))
  BY DEF RecordedIn, RecordOfSnapshot
<1>2. \A j \in 1..Len(rs) : rs[j].tick = j
  BY DEF RecordSequenceValid
<1>3. n = i
  BY <1>1, <1>2
<1>4. source \in 1..Len(rs) /\ rs[source].tick = n
  BY <1>1
<1>5. source = n
  BY <1>2, <1>4
<1>6. Continuation(s, rs) = SubSeq(rs, source + 1, Len(rs))
  BY DEF Continuation
<1> HIDE DEF source
<1> QED
  BY <1>1, <1>3, <1>5, <1>6

\* The last snapshot of a rest that has one is the last snapshot of the whole.
LEMMA LastSnapshotIs ==
  ASSUME NEW rs, IsSequence(rs), NEW n \in 1..Len(rs), rs[n].snapshot # None,
         NEW rest, IsSequence(rest), Len(rest) = Len(rs) - n, \A j \in 1..Len(rs) - n : rest[j] = rs[n + j]
  PROVE  /\ Captured(rs) # {}
         /\ Captured(rest) = {} => Max(Captured(rs)) = n
         /\ Captured(rest) # {} => rs[Max(Captured(rs))] = rest[Max(Captured(rest))]
<1> DEFINE C == Captured(rs)
           D == Captured(rest)
           l == Len(rs)
<1>1. l \in Nat /\ Len(rest) = l - n
  BY DEF IsSequence
<1>2. C = {i \in 1..l : rs[i].snapshot # None} /\ D = {j \in 1..l - n : rest[j].snapshot # None}
  BY <1>1 DEF Captured
<1>3. \A j \in 1..l - n : n + j \in 1..l /\ (j \in D <=> n + j \in C)
  BY <1>1, <1>2
<1>4. n \in C
  BY <1>2
<1> HIDE DEF C, D
<1>5. C \subseteq 1..l /\ D \subseteq 1..l - n
  BY <1>2
<1>6. \A i \in C : i > n => i - n \in D
  <2> SUFFICES ASSUME NEW i \in C, i > n
               PROVE  i - n \in D
    OBVIOUS
  <2>1. i \in 1..l
    BY <1>5
  <2>2. i - n \in 1..l - n /\ n + (i - n) = i
    BY <1>1, <2>1
  <2> QED
    BY <1>3, <2>2
<1>7. CASE D = {}
  <2>1. \A i \in C : i <= n
    BY <1>1, <1>5, <1>6, <1>7
  <2>2. Max(C) = n
    BY <1>1, <1>4, <1>5, <2>1, MaxIs
  <2> QED
    BY <1>4, <1>7, <2>2 DEF C, D
<1>8. CASE D # {}
  <2>1. l - n \in Nat
    BY <1>1
  <2>2. PICK m \in D : \A k \in D : k <= m
    BY <1>5, <1>8, <2>1, GreatestExists
  <2>3. m \in 1..l - n
    BY <1>5
  <2>4. Max(D) = m
    BY <1>5, <2>1, <2>2, MaxIs
  <2>5. n + m \in C
    BY <1>3, <2>3
  <2>6. ASSUME NEW i \in C
        PROVE  i <= n + m
    <3>1. i \in 1..l
      BY <1>5
    <3>2. CASE i > n
      <4>1. i - n \in D
        BY <1>6, <3>2
      <4>2. i - n <= m
        BY <2>2, <4>1
      <4> QED
        BY <2>3, <3>1, <4>2
    <3> QED
      BY <2>3, <3>1, <3>2
  <2>7. Max(C) = n + m
    BY <1>1, <1>5, <2>5, <2>6, MaxIs
  <2>8. rs[n + m] = rest[m]
    BY <2>3
  <2> QED
    BY <1>4, <1>8, <2>4, <2>7, <2>8 DEF C, D
<1> QED
  BY <1>7, <1>8

\* The rest of a replay behind one of its snapshots ends as the whole.
LEMMA RestIsWhole ==
  ASSUME NEW a, ArtifactShape(a), ValidForState(a),
         NEW s, SnapshotArtifactShape(s), s.format = Current, s.base_seed = a.base_seed,
         s.config_identity = a.config_identity, PayloadMatches(s.metadata, s.payload),
         NEW n \in 1..Len(a.records), n = s.metadata.source_tick,
         a.records[n].snapshot = Some(RecordOfSnapshot(s))
  PROVE  RestOfReplay(s, a, SubSeq(a.records, n + 1, Len(a.records))) = WholeReplay(a)
<1> DEFINE rs   == a.records
           rest == SubSeq(rs, n + 1, Len(rs))
           l    == Len(rs)
           sn   == RecordOfSnapshot(s)
<1>1. IsSequence(rs) /\ l \in Nat
  BY DEF ArtifactShape, RecordsShape, IsSequence
<1>2. IsSequence(rest) /\ Len(rest) = l - n /\ \A j \in 1..l - n : rest[j] = rs[n + j]
  <2>1. n \in 0..Len(rs)
    BY <1>1
  <2> HIDE DEF rs
  <2> QED
    BY <1>1, <2>1, RestIs
<1> HIDE DEF rest
<1>3. /\ RecordSequenceValid(a.base_seed, a.snapshot_policy, rs)
      /\ a.total_ticks = LastTick(rs)
  BY DEF ValidForState, ShapeValid
<1>4. /\ \A i \in 1..l : rs[i].tick = i
      /\ \A i \in 1..l : rs[i].snapshot # None => The(rs[i].snapshot).metadata.capture_checksum = rs[i].checksum
  BY <1>3 DEF RecordSequenceValid
<1>5. The(rs[n].snapshot) = sn /\ rs[n].snapshot # None
  BY DEF Some, The, None
<1>6. sn.metadata = s.metadata /\ sn.reason = s.capture_reason /\ sn.payload = s.payload
  BY DEF RecordOfSnapshot
<1> HIDE DEF sn
<1>7. SnapshotArtifact(a.base_seed, a.config_identity, sn) = s
  BY <1>6 DEF SnapshotArtifact, SnapshotArtifactShape
<1>8. s.metadata.capture_checksum = rs[n].checksum
  BY <1>4, <1>5, <1>6
<1>9. rs # <<>> /\ (rest = <<>> <=> l = n)
  BY <1>1, <1>2, EmptyIs
<1>10. LastTick(rs) = l /\ LastChecksum(rs) = Some(rs[l].checksum)
  BY <1>1, <1>4, <1>9 DEF LastTick, LastChecksum
<1> DEFINE C == Captured(rs)
           D == Captured(rest)
<1>11. /\ C # {}
       /\ D = {} => Max(C) = n
       /\ D # {} => rs[Max(C)] = rest[Max(D)]
  <2>1. n \in 1..Len(rs)
    OBVIOUS
  <2> HIDE DEF rs
  <2> QED
    BY <1>1, <1>2, <1>5, <2>1, LastSnapshotIs
<1>12. D = {} => The(rs[Max(C)].snapshot) = sn
  BY <1>5, <1>11
<1>13. D # {} => The(rs[Max(C)].snapshot) = The(rest[Max(D)].snapshot)
  BY <1>11
<1>14. FinalSnapshot(a, rs) = Some(SnapshotArtifact(a.base_seed, a.config_identity, The(rs[Max(Captured(rs))].snapshot)))
  BY <1>11 DEF FinalSnapshot
<1>15. Captured(rest) = {} => FinalSnapshot(a, rs) = Some(s)
  BY <1>7, <1>14, <1>12
<1>16. Captured(rest) # {} => FinalSnapshot(a, rest) = FinalSnapshot(a, rs)
  <2>1. Captured(rest) # {} => FinalSnapshot(a, rest) = Some(SnapshotArtifact(a.base_seed, a.config_identity, The(rest[Max(Captured(rest))].snapshot)))
    BY DEF FinalSnapshot
  <2> QED
    BY <1>14, <1>13, <2>1
<1>17. WholeReplay(a) = Success(a, l, Some(rs[l].checksum), FinalSnapshot(a, rs))
  BY <1>3, <1>10 DEF WholeReplay
<1>18. CASE rest = <<>>
  <2>1. RestOfReplay(s, a, rest) = Success(a, n, Some(s.metadata.capture_checksum), Some(s))
    BY <1>18 DEF RestOfReplay
  <2>2. n = l
    BY <1>9, <1>18
  <2>3. Captured(rest) = {}
    <3>1. Len(rest) = 0
      BY <1>2, <2>2
    <3> QED
      BY <3>1 DEF Captured
  <2> QED
    BY <1>8, <1>15, <1>17, <2>1, <2>2, <2>3 DEF rest
<1>19. CASE rest # <<>>
  <2>1. RestOfReplay(s, a, rest) = Success(a, LastTick(rest), LastChecksum(rest),
                                           IF Captured(rest) = {} THEN Some(s) ELSE FinalSnapshot(a, rest))
    BY <1>19 DEF RestOfReplay
  <2>2. l - n \in 1..l - n /\ n + (l - n) = l /\ l \in 1..l
    BY <1>1, <1>9, <1>19
  <2>3. rest[l - n] = rs[l]
    BY <1>2, <2>2
  <2>4. LastTick(rest) = l /\ LastChecksum(rest) = Some(rs[l].checksum)
    BY <1>2, <1>4, <1>19, <2>2, <2>3 DEF LastTick, LastChecksum
  <2>5. (IF Captured(rest) = {} THEN Some(s) ELSE FinalSnapshot(a, rest)) = FinalSnapshot(a, rs)
    BY <1>15, <1>16
  <2> QED
    BY <1>17, <2>1, <2>4, <2>5 DEF rest
<1> QED
  BY <1>18, <1>19


\* The state a run ends in is the one its last record is of.
LEMMA RunEnds ==
  ASSUME NEW e, NEW s, NEW fs, Len(fs) \in Nat, RunFrames(e, s, fs).status = "Ok"
  PROVE  RunFrames(e, s, fs).state =
           IF Len(fs) = 0 THEN s ELSE RunFrames(e, s, fs).records[Len(fs)].checksum
<1> DEFINE n == Len(fs)
<1>1. PICK states : Steps(e, s, fs, states)
  BY RunSucceeds
<1>2. RunFrames(e, s, fs) = Done(e, fs, states)
  BY <1>1, RunIs
<1>3. RunFrames(e, s, fs).state = states[n]
  BY <1>2 DEF Done
<1>4. CASE n = 0
  BY <1>1, <1>3, <1>4 DEF Steps
<1>5. CASE n # 0
  <2>1. n \in 1..n
    BY <1>5
  <2> DEFINE f    == fs[n]
             from == states[n - 1]
             w    == Work(e, from, ContextOf(e, from, f))
             end  == [w.state EXCEPT !.tick = TickSucc(from.tick)]
             rec(i) == Recording(e, states[i - 1], fs[i])
  <2>2. RunFrames(e, s, fs).records = [i \in 1..n |-> rec(i)]
    BY <1>2 DEF Done
  <2>3. RunFrames(e, s, fs).records[n] = Recording(e, from, f)
    BY <2>1, <2>2
  <2>4. TickOutcome(e, from, f).status = "Ok" /\ states[n] = TickOutcome(e, from, f).state
    BY <1>1, <2>1 DEF Steps
  <2> HIDE DEF from, f
  <2>5. /\ TickOutcome(e, from, f).state = end
        /\ Recording(e, from, f) =
             [tick                 |-> TickSucc(from.tick),
              input                |-> f,
              tick_seed            |-> TickSeed(e.seed, TickSucc(from.tick)),
              phase_markers        |-> w.phase_markers,
              validation_summaries |-> w.validation_summaries,
              checksum             |-> end,
              snapshot             |-> PolicySnapshot(e.snapshot_policy, w.state, end)]
    BY <2>4, TickSucceeds
  <2> HIDE DEF end, w
  <2>6. Recording(e, from, f).checksum = end
    BY <2>5
  <2> QED
    BY <1>3, <1>5, <2>3, <2>4, <2>5, <2>6
<1> QED
  BY <1>4, <1>5

\* The records behind a snapshot, and the run of their inputs from it.
RestOf(s, a) == SubSeq(a.records, s.payload.tick + 1, Len(a.records))

RunOfRest(config, s, a) == RunFrames(Build(config, a.base_seed), s.payload, InputsOf(RestOf(s, a)))

\* A resumed replay that ends well has run the rest of its inputs and nothing else.
LEMMA ResumedIsGenuine ==
  ASSUME NEW config, NEW a, ArtifactShape(a), a.format = Current, NEW s, SnapshotArtifactShape(s),
         ResumeReplay(config, s, a).status = "Ok"
  PROVE  /\ RunOfRest(config, s, a).status = "Ok"
         /\ RunOfRest(config, s, a).records = RestOf(s, a)
         /\ ResumeReplay(config, s, a) = WholeReplay(a)
         /\ ResumeReplay(config, s, a).checksum = Some(RunOfRest(config, s, a).state)
         /\ ResumeReplay(config, s, a).tick = Len(a.records)
<1> DEFINE rs   == a.records
           l    == Len(rs)
           n    == s.metadata.source_tick
           rest == SubSeq(rs, n + 1, l)
           e    == Build(config, a.base_seed)
           run  == RunFrames(e, s.payload, InputsOf(rest))
           refused  == Failure("Refused", 0)
           panicked == Failure("panicked", 0)
           replayed == Replayed(e, s.payload, Continuation(s, rs), RestOfReplay(s, a, Continuation(s, rs)))
<1>1. ResumeReplay(config, s, a) =
        IF ~Resumable(config, s, a) THEN refused ELSE IF ~Restorable(s.payload) THEN panicked ELSE replayed
  BY DEF ResumeReplay
<1>2. refused.status = "Refused" /\ panicked.status = "panicked"
  BY DEF Failure
<1> HIDE DEF replayed, refused, panicked
<1>3. Resumable(config, s, a) /\ ResumeReplay(config, s, a) = replayed /\ replayed.status = "Ok"
  BY <1>1, <1>2
<1>4. /\ s.format = Current /\ a.config_identity = config
      /\ s.base_seed = a.base_seed /\ s.config_identity = config /\ PayloadMatches(s.metadata, s.payload)
      /\ RecordedIn(s, rs) /\ ValidForState(a)
  BY <1>3 DEF Resumable, SnapshotArtifactValid
<1>5. /\ IsSequence(rs) /\ l \in Nat
      /\ RecordSequenceValid(a.base_seed, a.snapshot_policy, rs) /\ a.total_ticks = LastTick(rs)
  BY <1>4 DEF ArtifactShape, RecordsShape, IsSequence, ValidForState, ShapeValid
<1>6. n \in 1..l /\ rs[n].snapshot = Some(RecordOfSnapshot(s)) /\ Continuation(s, rs) = rest
  BY <1>4, <1>5, SeamIs
<1>7. s.payload.tick = n /\ s.metadata.capture_checksum = s.payload
  BY <1>4 DEF PayloadMatches
<1>8. RestOfReplay(s, a, rest) = WholeReplay(a)
  BY <1>4, <1>6, RestIsWhole
<1>9. IsSequence(rest) /\ Len(rest) = l - n /\ \A j \in 1..l - n : rest[j] = rs[n + j]
  <2>1. n \in 0..Len(rs)
    BY <1>6
  <2> HIDE DEF rs, n
  <2> QED
    BY <1>5, <2>1, RestIs
<1> HIDE DEF rest
<1>10. RecordsShape(rest)
  <2>1. \A j \in 1..l - n : n + j \in 1..l
    BY <1>5, <1>6
  <2>2. \A i \in 1..l : RecordShape(rs[i])
    BY DEF ArtifactShape, RecordsShape
  <2> QED
    BY <1>9, <2>1, <2>2 DEF RecordsShape
<1>11. run.status = "Ok" /\ run.records = rest /\ replayed = WholeReplay(a)
  <2>1. replayed = Replayed(e, s.payload, rest, WholeReplay(a))
    BY <1>6, <1>8 DEF replayed
  <2> HIDE DEF e
  <2> QED
    BY <1>3, <1>10, <2>1, ReplayedIs
<1>12. \A i \in 1..l : rs[i].tick = i
  BY <1>5 DEF RecordSequenceValid
<1>13. The(rs[n].snapshot) = RecordOfSnapshot(s) /\ rs[n].snapshot # None
  BY <1>6 DEF Some, The, None
<1>14. rs[n].checksum = s.payload
  <2>1. The(rs[n].snapshot).metadata.capture_checksum = rs[n].checksum
    BY <1>5, <1>6, <1>13 DEF RecordSequenceValid
  <2>2. RecordOfSnapshot(s).metadata = s.metadata
    BY DEF RecordOfSnapshot
  <2> QED
    BY <1>7, <1>13, <2>1, <2>2
<1>15. rs # <<>>
  BY <1>5, <1>6, EmptyIs
<1>16. LastTick(rs) = l /\ LastChecksum(rs) = Some(rs[l].checksum)
  BY <1>5, <1>6, <1>12, <1>15 DEF LastTick, LastChecksum
<1>17. run.state = rs[l].checksum
  <2> DEFINE fs == InputsOf(rest)
  <2>1. Len(fs) = l - n /\ Len(fs) \in Nat
    BY <1>5, <1>6, <1>9, InputsAre
  <2> HIDE DEF fs, e
  <2>2. RunFrames(e, s.payload, fs).state =
          IF Len(fs) = 0 THEN s.payload ELSE RunFrames(e, s.payload, fs).records[Len(fs)].checksum
    BY <1>11, <2>1, RunEnds DEF fs
  <2>3. CASE l = n
    BY <1>14, <2>1, <2>2, <2>3 DEF fs
  <2>4. CASE l # n
    <3>1. l - n \in 1..l - n /\ n + (l - n) = l
      <4>1. l \in Nat /\ n \in 1..l
        BY <1>5, <1>6
      <4> HIDE DEF l, n
      <4> QED
        BY <2>4, <4>1
    <3>2. rest[l - n] = rs[l]
      BY <1>9, <3>1
    <3> QED
      BY <1>11, <2>1, <2>2, <3>1, <3>2 DEF fs
  <2> QED
    BY <2>3, <2>4
<1>18. WholeReplay(a).checksum = Some(rs[l].checksum) /\ WholeReplay(a).tick = l
  BY <1>5, <1>16 DEF WholeReplay, Success
<1>19. s.payload.tick + 1 = n + 1
  BY <1>7
<1> HIDE DEF run, l, e, rs, n
<1>20. /\ run.status = "Ok" /\ run.records = rest
       /\ ResumeReplay(config, s, a) = WholeReplay(a)
       /\ ResumeReplay(config, s, a).checksum = Some(run.state)
       /\ ResumeReplay(config, s, a).tick = l
  BY <1>3, <1>11, <1>17, <1>18
<1>21. rest = RestOf(s, a) /\ run = RunOfRest(config, s, a)
  <2>1. rest = RestOf(s, a)
    BY <1>19 DEF RestOf, rest, l, rs
  <2> QED
    BY <2>1 DEF RunOfRest, run, e
<1> QED
  BY <1>20, <1>21 DEF l, rs

-----------------------------------------------------------------------------
(***************************************************************************)
(* What a recording yields, and that it repeats.                           *)
(***************************************************************************)
Original(config, seed, fs) == RunFrames(Build(config, seed), InitialState(config), fs)

\* A recording that ends well has run its frames to the end, and can be read.
LEMMA WhatIsRecorded ==
  ASSUME NEW config, NEW seed, NEW fs, IsSequence(fs), RecordReplay(config, seed, fs).status = "Ok"
  PROVE  LET rs == Original(config, seed, fs).records
             a  == ArtifactOf(config, seed, rs)
         IN  /\ Original(config, seed, fs).status = "Ok"
             /\ RecordReplay(config, seed, fs) = WholeReplay(a)
             /\ RecordsShape(rs) /\ Len(rs) = Len(fs) /\ InputsOf(rs) = fs
             /\ RecordSequenceValid(seed, config.snapshot_policy, rs)
             /\ AllRestorable(rs)
<1> DEFINE run == Original(config, seed, fs)
           e   == Build(config, seed)
           s   == InitialState(config)
           rs  == run.records
           a   == ArtifactOf(config, seed, rs)
           f1  == Failure(run.status, Len(rs))
           f2  == Failure("CorruptedArtifact", 0)
           f3  == Failure("SnapshotSerialization", 0)
<1>1. RecordReplay(config, seed, fs) =
        IF run.status # "Ok" THEN f1
        ELSE IF ~RecordSequenceValid(seed, config.snapshot_policy, rs) THEN f2
        ELSE IF ~AllRestorable(rs) THEN f3
        ELSE WholeReplay(a)
  BY DEF RecordReplay, Recorded, Original
<1>2. f1.status = run.status /\ f2.status = "CorruptedArtifact" /\ f3.status = "SnapshotSerialization"
  BY DEF Failure
<1> HIDE DEF f1, f2, f3, a
<1>3. /\ run.status = "Ok" /\ RecordReplay(config, seed, fs) = WholeReplay(a)
      /\ RecordSequenceValid(seed, config.snapshot_policy, rs) /\ AllRestorable(rs)
  BY <1>1, <1>2
<1>4. Len(fs) \in Nat
  BY DEF IsSequence
<1>5. Len(e.plan) \in Nat /\ StateShape(s)
  BY BuildIs
<1>6. run = RunFrames(e, s, fs)
  BY DEF Original
<1> HIDE DEF run, e, s
<1>7. PICK states : Steps(e, s, fs, states)
  BY <1>3, <1>4, <1>6, RunSucceeds
<1>8. run = Done(e, fs, states)
  BY <1>4, <1>6, <1>7, RunIs
<1> DEFINE done == Done(e, fs, states).records
<1>9. /\ RecordsShape(done) /\ Len(done) = Len(fs)
      /\ \A i \in 1..Len(fs) : done[i].input = fs[i]
  BY <1>4, <1>5, <1>7, DoneRecords
<1>10. rs = done
  BY <1>8
<1> HIDE DEF done, rs
<1>11. InputsOf(rs) = fs
  BY <1>9, <1>10 DEF InputsOf, IsSequence
<1> QED
  BY <1>3, <1>9, <1>10, <1>11 DEF run, rs, a

\* The artifact of such a recording is valid, and its snapshots are of their records.
LEMMA RecordedIsValid ==
  ASSUME NEW config, NEW seed, NEW fs, IsSequence(fs), RecordReplay(config, seed, fs).status = "Ok"
  PROVE  LET rs == Original(config, seed, fs).records
             a  == ArtifactOf(config, seed, rs)
         IN  /\ ArtifactShape(a) /\ ValidForState(a)
             /\ \A i \in Captured(rs) :
                  LET c == The(rs[i].snapshot)
                  IN  /\ rs[i].snapshot = Some(c) /\ SnapshotShape(c)
                      /\ c.payload = rs[i].checksum /\ c.metadata.source_tick = i
                      /\ PayloadMatches(c.metadata, c.payload)
<1> DEFINE e  == Build(config, seed)
           s  == InitialState(config)
           rs == RunFrames(e, s, fs).records
           a  == ArtifactOf(config, seed, rs)
<1>1. /\ RunFrames(e, s, fs).status = "Ok"
      /\ RecordsShape(rs) /\ Len(rs) = Len(fs)
      /\ RecordSequenceValid(seed, config.snapshot_policy, rs)
  BY WhatIsRecorded DEF Original
<1>2. Len(fs) \in Nat
  BY DEF IsSequence
<1>3. Len(e.plan) \in Nat /\ StateShape(s)
  BY BuildIs
<1> HIDE DEF e, s
<1>4. \A i \in 1..Len(fs) : rs[i].snapshot # None =>
        LET c == The(rs[i].snapshot)
        IN  /\ c.payload = rs[i].checksum
            /\ c.metadata.source_tick = rs[i].tick
            /\ PayloadMatches(c.metadata, c.payload)
  BY <1>1, <1>2, <1>3, RunFollowsPolicy
<1> HIDE DEF rs
<1>5. ASSUME NEW i \in Captured(rs)
      PROVE  LET c == The(rs[i].snapshot)
             IN  /\ rs[i].snapshot = Some(c) /\ SnapshotShape(c)
                 /\ c.payload = rs[i].checksum /\ c.metadata.source_tick = i
                 /\ PayloadMatches(c.metadata, c.payload)
  <2>1. i \in 1..Len(rs) /\ rs[i].snapshot # None
    BY DEF Captured
  <2>2. RecordShape(rs[i]) /\ rs[i].tick = i
    BY <1>1, <2>1 DEF RecordsShape, RecordSequenceValid
  <2> QED
    BY <1>1, <1>4, <2>1, <2>2 DEF RecordShape
<1>6. ArtifactShape(a)
  BY <1>1 DEF ArtifactShape, ArtifactOf
<1>7. /\ a.base_seed = seed /\ a.snapshot_policy = config.snapshot_policy /\ a.records = rs
      /\ a.record_count = Len(rs) /\ a.total_ticks = LastTick(rs)
  BY DEF ArtifactOf
<1> HIDE DEF a
<1>8. ShapeValid(a)
  BY <1>1, <1>7 DEF ShapeValid
<1>9. \A c \in SnapshotsOf(rs) : PayloadMatches(c.metadata, c.payload)
  BY <1>5 DEF SnapshotsOf
<1>10. ValidForState(a)
  BY <1>7, <1>8, <1>9 DEF ValidForState
<1>11. rs = Original(config, seed, fs).records
  BY DEF Original, e, s, rs
<1> QED
  BY <1>5, <1>6, <1>10, <1>11 DEF a

\* Verified as it was recorded, it yields what the recording did.
LEMMA RecordedVerifies ==
  ASSUME NEW config, NEW seed, NEW fs, IsSequence(fs), RecordReplay(config, seed, fs).status = "Ok"
  PROVE  LET a == ArtifactOf(config, seed, Original(config, seed, fs).records)
         IN  VerifyReplay(config, a) = RecordReplay(config, seed, fs)
<1> DEFINE run == Original(config, seed, fs)
           rs  == run.records
           a   == ArtifactOf(config, seed, rs)
           e   == Build(config, seed)
           s   == InitialState(config)
<1>1. run.status = "Ok" /\ RecordReplay(config, seed, fs) = WholeReplay(a) /\ InputsOf(rs) = fs
  BY WhatIsRecorded
<1>2. ValidForState(a)
  BY RecordedIsValid
<1>3. a.base_seed = seed /\ a.config_identity = config /\ a.records = rs
  BY DEF ArtifactOf
<1>4. run = RunFrames(e, s, fs)
  BY DEF Original
<1> HIDE DEF a, run
<1>5. Replayed(e, s, rs, WholeReplay(a)) = WholeReplay(a)
  <2> HIDE DEF e, s
  <2>1. Compared(rs, run, WholeReplay(a)) = WholeReplay(a)
    BY <1>1, NoDivergence DEF Compared
  <2> QED
    BY <1>1, <1>4, <2>1 DEF Replayed
<1>6. VerifyReplay(config, a) = Replayed(e, s, rs, WholeReplay(a))
  BY <1>2, <1>3 DEF VerifyReplay
<1> QED
  BY <1>1, <1>5, <1>6 DEF a, run

\* The states a run passes, up to one of them, and from there on.
LEMMA RunContinues ==
  ASSUME NEW e, Len(e.plan) \in Nat, NEW s, StateShape(s), NEW fs, IsSequence(fs),
         RunFrames(e, s, fs).status = "Ok",
         NEW n \in 1..Len(fs), NEW rest, IsSequence(rest), Len(rest) = Len(fs) - n,
         \A j \in 1..Len(fs) - n : rest[j] = RunFrames(e, s, fs).records[n + j],
         NEW from, from = RunFrames(e, s, fs).records[n].checksum
  PROVE  /\ RunFrames(e, from, InputsOf(rest)).status = "Ok"
         /\ RunFrames(e, from, InputsOf(rest)).records = rest
         /\ rest # <<>> => rest[1].tick = TickSucc(RunFrames(e, s, fs).records[n].tick)
<1> DEFINE rs == RunFrames(e, s, fs).records
           gs == InputsOf(rest)
<1>1. Len(fs) \in Nat
  BY DEF IsSequence
<1>2. PICK states : Steps(e, s, fs, states)
  BY <1>1, RunSucceeds
<1>3. RunFrames(e, s, fs) = Done(e, fs, states)
  BY <1>1, <1>2, RunIs
<1>4. \A i \in 1..Len(fs) :
        /\ rs[i] = Recording(e, states[i - 1], fs[i])
        /\ rs[i].input = fs[i] /\ rs[i].checksum = states[i]
  BY <1>1, <1>2, <1>3, DoneRecords
<1> HIDE DEF rs
<1>5. n \in 0..Len(fs) /\ from = states[n]
  BY <1>1, <1>4 DEF rs
<1>6. IsSequence(gs) /\ Len(gs) = Len(fs) - n /\ Len(gs) \in Nat /\ \A j \in 1..Len(gs) : gs[j] = rest[j].input
  <2>1. IsSequence(gs) /\ Len(gs) = Len(rest) /\ \A j \in 1..Len(rest) : gs[j] = rest[j].input
    BY InputsAre
  <2> HIDE DEF gs
  <2> QED
    BY <2>1 DEF IsSequence
<1> HIDE DEF gs
<1>7. ASSUME NEW j \in 1..Len(gs)
      PROVE  /\ n + j \in 1..Len(fs) /\ rest[j] = rs[n + j] /\ gs[j] = fs[n + j]
             /\ n + (j - 1) = (n + j) - 1
  <2>1. n + j \in 1..Len(fs) /\ j \in 1..Len(fs) - n /\ n + (j - 1) = (n + j) - 1
    BY <1>1, <1>6
  <2>2. rest[j] = rs[n + j]
    BY <2>1 DEF rs
  <2> QED
    BY <1>4, <1>6, <2>1, <2>2
<1> DEFINE more == [j \in 0..Len(gs) |-> states[n + j]]
<1>8. Steps(e, states[n], gs, more)
  <2>1. \A j \in 1..Len(gs) : gs[j] = fs[n + j]
    BY <1>7
  <2>2. \A j \in 0..Len(gs) : more[j] = states[n + j]
    OBVIOUS
  <2>3. n \in 0..Len(fs) /\ Len(gs) = Len(fs) - n
    BY <1>5, <1>6
  <2> HIDE DEF more
  <2>4. Behind(fs, states, n, gs, more)
    BY <2>1, <2>2, <2>3 DEF Behind
  <2> QED
    BY ONLY <1>1, <1>2, <2>4, StepsSplit
<1>9. RunFrames(e, from, gs) = Done(e, gs, more)
  BY <1>5, <1>6, <1>8, RunIs
<1>10. Done(e, gs, more).status = "Ok" /\ Done(e, gs, more).records = [j \in 1..Len(gs) |-> Recording(e, more[j - 1], gs[j])]
  BY DEF Done
<1>11. ASSUME NEW j \in 1..Len(gs)
       PROVE  Recording(e, more[j - 1], gs[j]) = rest[j]
  <2>1. j - 1 \in 0..Len(gs)
    BY <1>6
  <2>2. more[j - 1] = states[(n + j) - 1]
    BY <1>7, <2>1
  <2> QED
    BY <1>4, <1>7, <2>2
<1> HIDE DEF more
<1>12. Done(e, gs, more).records = rest
  BY <1>6, <1>10, <1>11 DEF IsSequence
<1>13. ASSUME rest # <<>>
       PROVE  rest[1].tick = TickSucc(rs[n].tick)
  <2>1. Len(gs) # 0
    BY <1>6, <1>13, EmptyIs
  <2>2. 1 \in 1..Len(gs)
    BY <1>6, <2>1
  <2>3. n + 1 \in 1..Len(fs) /\ rest[1] = rs[n + 1] /\ (n + 1) - 1 = n /\ n \in 1..Len(fs) /\ n - 1 \in 0..Len(fs)
    BY <1>1, <1>7, <2>2
  <2>4. /\ TickOutcome(e, states[n - 1], fs[n]).status = "Ok"
        /\ states[n] = TickOutcome(e, states[n - 1], fs[n]).state
    BY <1>2, <2>3 DEF Steps
  <2>5. TickOutcome(e, states[n], fs[n + 1]).status = "Ok"
    BY <1>2, <2>3 DEF Steps
  <2>6. StateShape(states[n - 1]) /\ StateShape(states[n])
    BY <1>1, <1>2, <1>5, <2>3, StepsKeepShape
  <2>7. rs[n].tick = states[n].tick
    BY <1>4, <2>3, <2>4, <2>6, TickLeaves
  <2>8. rs[n + 1].tick = TickSucc(states[n].tick)
    BY <1>4, <2>3, <2>5, <2>6, TickLeaves
  <2> QED
    BY <2>3, <2>7, <2>8
<1> QED
  BY <1>9, <1>10, <1>12, <1>13 DEF gs, rs

\* Resumed from one of its snapshots, it yields what the recording did.
LEMMA RecordedResumes ==
  ASSUME NEW config, NEW seed, NEW fs, IsSequence(fs), RecordReplay(config, seed, fs).status = "Ok",
         NEW c \in SnapshotsOf(Original(config, seed, fs).records)
  PROVE  LET a == ArtifactOf(config, seed, Original(config, seed, fs).records)
         IN  ResumeReplay(config, SnapshotArtifact(seed, config, c), a) = RecordReplay(config, seed, fs)
<1> DEFINE run == Original(config, seed, fs)
           rs  == run.records
           a   == ArtifactOf(config, seed, rs)
           e   == Build(config, seed)
           f   == InitialState(config)
           s   == SnapshotArtifact(seed, config, c)
           l   == Len(rs)
<1>1. /\ run.status = "Ok" /\ RecordReplay(config, seed, fs) = WholeReplay(a)
      /\ RecordsShape(rs) /\ l = Len(fs) /\ InputsOf(rs) = fs
      /\ RecordSequenceValid(seed, config.snapshot_policy, rs) /\ AllRestorable(rs)
  BY WhatIsRecorded
<1>2. ArtifactShape(a) /\ ValidForState(a)
  BY RecordedIsValid
<1>3. /\ a.base_seed = seed /\ a.config_identity = config /\ a.records = rs /\ a.format = Current
      /\ a.snapshot_policy = config.snapshot_policy
  BY DEF ArtifactOf
<1>4. PICK n \in Captured(rs) : c = The(rs[n].snapshot)
  BY DEF SnapshotsOf
<1>5. /\ rs[n].snapshot = Some(c) /\ SnapshotShape(c)
      /\ c.payload = rs[n].checksum /\ c.metadata.source_tick = n
      /\ PayloadMatches(c.metadata, c.payload)
  BY <1>4, RecordedIsValid
<1>6. /\ s.format = Current /\ s.base_seed = seed /\ s.config_identity = config
      /\ s.capture_reason = c.reason /\ s.metadata = c.metadata /\ s.payload = c.payload
      /\ SnapshotArtifactShape(s)
  BY DEF SnapshotArtifact, SnapshotArtifactShape
<1>7. run = RunFrames(e, f, fs)
  BY DEF Original
<1>8. Len(e.plan) \in Nat /\ StateShape(f)
  BY BuildIs
<1>9. n \in 1..l /\ rs[n].tick = n
  BY <1>1, <1>4 DEF Captured, RecordSequenceValid
<1>10. IsSequence(rs) /\ l \in Nat
  BY <1>1 DEF RecordsShape, IsSequence
<1> HIDE DEF a, run, e, f, s
<1>11. RecordOfSnapshot(s) = c
  BY <1>5, <1>6 DEF RecordOfSnapshot, SnapshotShape
<1>12. RecordedIn(s, rs)
  BY <1>5, <1>6, <1>9, <1>11 DEF RecordedIn, RecordOfSnapshot
<1> DEFINE rest == SubSeq(rs, n + 1, l)
<1>13. Continuation(s, rs) = rest
  BY <1>1, <1>5, <1>6, <1>10, <1>12, SeamIs
<1>14. IsSequence(rest) /\ Len(rest) = l - n /\ \A j \in 1..l - n : rest[j] = rs[n + j]
  <2>1. n \in 0..l
    BY <1>9
  <2> HIDE DEF rs
  <2> QED
    BY <1>10, <2>1, RestIs
<1>15. RestOfReplay(s, a, rest) = WholeReplay(a)
  BY <1>2, <1>3, <1>5, <1>6, <1>9, <1>11, RestIsWhole
<1> HIDE DEF rest
<1>16. /\ RunFrames(e, s.payload, InputsOf(rest)).status = "Ok"
       /\ RunFrames(e, s.payload, InputsOf(rest)).records = rest
       /\ rest # <<>> => rest[1].tick = TickSucc(n)
  <2> HIDE DEF rs
  <2>1. /\ n \in 1..Len(fs) /\ Len(rest) = Len(fs) - n
        /\ \A j \in 1..Len(fs) - n : rest[j] = rs[n + j]
    BY <1>1, <1>9, <1>14
  <2>2. rs = RunFrames(e, f, fs).records /\ s.payload = rs[n].checksum
    BY <1>5, <1>6, <1>7 DEF rs
  <2>3. /\ \A j \in 1..Len(fs) - n : rest[j] = RunFrames(e, f, fs).records[n + j]
        /\ s.payload = RunFrames(e, f, fs).records[n].checksum
        /\ RunFrames(e, f, fs).records[n].tick = n
        /\ RunFrames(e, f, fs).status = "Ok"
    BY <1>1, <1>7, <1>9, <2>1, <2>2
  <2> QED
    <3>1. IsSequence(rest) /\ IsSequence(fs)
      BY <1>14
    <3>2. /\ RunFrames(e, s.payload, InputsOf(rest)).status = "Ok"
          /\ RunFrames(e, s.payload, InputsOf(rest)).records = rest
          /\ rest # <<>> => rest[1].tick = TickSucc(RunFrames(e, f, fs).records[n].tick)
      BY ONLY <1>8, <2>1, <2>3, <3>1, RunContinues
    <3> QED
      BY <2>3, <3>2
<1> HIDE DEF rs
<1>17. Resumable(config, s, a)
  BY <1>2, <1>3, <1>5, <1>6, <1>12, <1>13, <1>16 DEF Resumable, SnapshotArtifactValid
<1>18. Restorable(s.payload)
  BY <1>1, <1>4, <1>6 DEF AllRestorable, SnapshotsOf
<1>19. ResumeReplay(config, s, a) = Replayed(e, s.payload, rest, WholeReplay(a))
  BY <1>3, <1>13, <1>15, <1>17, <1>18 DEF ResumeReplay, e
<1>20. Replayed(e, s.payload, rest, WholeReplay(a)) = WholeReplay(a)
  <2> DEFINE again == RunFrames(e, s.payload, InputsOf(rest))
  <2> HIDE DEF again
  <2>1. again.status = "Ok" /\ again.records = rest
    BY <1>16 DEF again
  <2>2. Compared(rest, again, WholeReplay(a)) = WholeReplay(a)
    BY <2>1, NoDivergence DEF Compared
  <2> QED
    BY <2>2 DEF Replayed, again
<1> QED
  BY <1>1, <1>19, <1>20 DEF a, s, run, rs

-----------------------------------------------------------------------------
(***************************************************************************)
(* Why a recording can be read: its ticks are numbered from 1, and each    *)
(* has its digests in the order of the checkpoints.                        *)
(***************************************************************************)
LEMMA GroupRanks ==
  /\ GroupRank("PreInput") = 1 /\ GroupRank("Input") = 2 /\ GroupRank("Simulation") = 3
  /\ GroupRank("PostSimulation") = 4 /\ GroupRank("Finalize") = 5
  /\ PhaseGroup = {"PreInput", "Input", "Simulation", "PostSimulation", "Finalize"}
<1>1. /\ AllGroups[1] = "PreInput" /\ AllGroups[2] = "Input" /\ AllGroups[3] = "Simulation"
      /\ AllGroups[4] = "PostSimulation" /\ AllGroups[5] = "Finalize"
  BY DEF AllGroups
<1>2. \A i \in 1..5 : i = 1 \/ i = 2 \/ i = 3 \/ i = 4 \/ i = 5
  OBVIOUS
<1>3. GroupRank("PreInput") = 1
  BY <1>1, <1>2 DEF GroupRank
<1>4. GroupRank("Input") = 2
  BY <1>1, <1>2 DEF GroupRank
<1>5. GroupRank("Simulation") = 3
  BY <1>1, <1>2 DEF GroupRank
<1>6. GroupRank("PostSimulation") = 4
  BY <1>1, <1>2 DEF GroupRank
<1>7. GroupRank("Finalize") = 5
  BY <1>1, <1>2 DEF GroupRank
<1>8. PhaseGroup = {"PreInput", "Input", "Simulation", "PostSimulation", "Finalize"}
  BY <1>1, <1>2 DEF PhaseGroup
<1> QED
  BY <1>3, <1>4, <1>5, <1>6, <1>7, <1>8

\* The checkpoints of a plan come in their order, as no two of its phases finalize.
LEMMA PlanCheckpoints ==
  ASSUME OneFinalizePhase
  PROVE  CheckpointsAscend(Plan)
<1> SUFFICES ASSUME NEW i \in 0..Len(Plan), NEW j \in 0..Len(Plan), i < j,
                    NEW c \in CheckpointsAt(Plan, i), NEW d \in CheckpointsAt(Plan, j)
             PROVE  CheckpointOrder(c) < CheckpointOrder(d)
  BY DEF CheckpointsAscend
<1> DEFINE g(k) == Plan[k].group
           n    == Len(Plan)
<1>1. n \in Nat /\ \A k \in 1..n : g(k) \in PhaseGroup
  <2> DEFINE S == [ordinal : Nat, group : PhaseGroup, name : STRING]
  <2>1. \A x \in S : x.group \in PhaseGroup
    OBVIOUS
  <2>2. Plan \in Seq(S)
    BY PlanAssumption
  <2> HIDE DEF S
  <2>3. n \in Nat /\ \A k \in 1..n : Plan[k] \in S
    BY <2>2
  <2> QED
    BY <2>1, <2>3
<1>2. \A k, l \in 1..n : k < l => GroupRank(g(k)) <= GroupRank(g(l))
  BY PlanAssumption
<1>3. /\ CheckpointOrder("BeforeTickBegin") = 0 /\ CheckpointOrder("AfterInputApplied") = 1
      /\ CheckpointOrder("AfterSimulationGroup") = 2 /\ CheckpointOrder("AfterFinalize") = 3
  BY DEF CheckpointOrder
<1>4. ASSUME NEW k \in 1..n, NEW b \in CheckpointAfter(Plan, k)
      PROVE  \/ g(k) = "Input" /\ b = "AfterInputApplied" /\ (k = n \/ g(k + 1) # g(k))
             \/ g(k) = "Simulation" /\ b = "AfterSimulationGroup" /\ (k = n \/ g(k + 1) # g(k))
             \/ g(k) = "Finalize" /\ b = "AfterFinalize"
  BY DEF CheckpointAfter
<1>5. j \in 1..n /\ d \in CheckpointAfter(Plan, j)
  BY <1>1 DEF CheckpointsAt
<1>6. CASE i = 0
  <2>1. c = "BeforeTickBegin"
    BY <1>6 DEF CheckpointsAt
  <2>2. d = "AfterInputApplied" \/ d = "AfterSimulationGroup" \/ d = "AfterFinalize"
    BY <1>4, <1>5
  <2> QED
    BY <1>3, <2>1, <2>2
<1>7. CASE i # 0
  <2>1. i \in 1..n /\ c \in CheckpointAfter(Plan, i) /\ i + 1 \in 1..n /\ i # n /\ (i + 1 = j \/ i + 1 < j) /\ i < i + 1
    BY <1>1, <1>7 DEF CheckpointsAt
  <2>2. g(i) \in PhaseGroup /\ g(i + 1) \in PhaseGroup /\ g(j) \in PhaseGroup
    BY <1>1, <1>5, <2>1
  <2>3. GroupRank(g(i)) <= GroupRank(g(i + 1)) /\ (i + 1 = j \/ GroupRank(g(i + 1)) <= GroupRank(g(j)))
    BY <1>2, <1>5, <2>1
  <2>4. ~(g(i) = "Finalize" /\ g(j) = "Finalize")
    BY <1>5, <2>1 DEF OneFinalizePhase
  <2>5. \/ g(i) = "Input" /\ c = "AfterInputApplied" /\ g(i + 1) # g(i)
        \/ g(i) = "Simulation" /\ c = "AfterSimulationGroup" /\ g(i + 1) # g(i)
        \/ g(i) = "Finalize" /\ c = "AfterFinalize"
    BY <1>4, <2>1
  <2>6. \/ g(j) = "Input" /\ d = "AfterInputApplied"
        \/ g(j) = "Simulation" /\ d = "AfterSimulationGroup"
        \/ g(j) = "Finalize" /\ d = "AfterFinalize"
    BY <1>4, <1>5
  <2> DEFINE gi == g(i)
             gn == g(i + 1)
             gj == g(j)
  <2>7. i + 1 = j => gn = gj
    OBVIOUS
  <2> HIDE DEF g
  <2>8. /\ gi \in PhaseGroup /\ gn \in PhaseGroup /\ gj \in PhaseGroup
        /\ GroupRank(gi) <= GroupRank(gn) /\ (gn = gj \/ GroupRank(gn) <= GroupRank(gj))
    BY <2>2, <2>3, <2>7
  <2> HIDE DEF gi, gn, gj
  <2>9. gi = "Input" /\ gn # gi => gj # "Input"
    BY <2>8, GroupRanks
  <2>10. gi = "Simulation" /\ gn # gi => gj # "Input" /\ gj # "Simulation"
    BY <2>8, GroupRanks
  <2>11. gi = "Finalize" => gj = "Finalize"
    BY <2>8, GroupRanks
  <2> QED
    BY <1>3, <2>4, <2>5, <2>6, <2>9, <2>10, <2>11 DEF gi, gn, gj
<1> QED
  BY <1>6, <1>7

\* A run from the initial state that is short of the last tick numbers its states.
LEMMA StepsCount ==
  ASSUME NEW e, Len(e.plan) \in Nat, NEW s, StateShape(s), s.tick = 0, NEW fs, Len(fs) \in Nat, Len(fs) <= MaxTick,
         NEW states, Steps(e, s, fs, states)
  PROVE  \A i \in 0..Len(fs) : states[i].tick = i
<1> DEFINE S == {m \in Nat : m <= Len(fs) => states[m].tick = m}
<1>1. 0 \in S
  BY DEF Steps
<1>2. ASSUME NEW m \in Nat, m \in S
      PROVE  m + 1 \in S
  <2> SUFFICES ASSUME m + 1 <= Len(fs)
               PROVE  states[m + 1].tick = m + 1
    OBVIOUS
  <2>1. states[m].tick = m /\ m \in 0..Len(fs) /\ m + 1 \in 1..Len(fs) /\ m + 1 - 1 = m /\ m < MaxTick
    BY <1>2, TickAssumption
  <2>2. TickOutcome(e, states[m], fs[m + 1]).status = "Ok" /\ states[m + 1] = TickOutcome(e, states[m], fs[m + 1]).state
    BY <2>1 DEF Steps
  <2>3. StateShape(states[m])
    BY <2>1, StepsKeepShape
  <2>4. states[m + 1].tick = TickSucc(states[m].tick)
    BY <2>2, <2>3, TickLeaves
  <2> QED
    BY <2>1, <2>4 DEF TickSucc
<1>3. Nat \subseteq S
  <2> HIDE DEF S
  <2> QED
    BY <1>1, <1>2, SetInduction
<1> QED
  BY <1>3

\* Such a run yields records an artifact can have.
LEMMA RunIsValid ==
  ASSUME NEW config, NEW seed, NEW fs, Len(fs) \in Nat, Len(fs) <= MaxTick, CheckpointsAscend(Plan),
         Original(config, seed, fs).status = "Ok"
  PROVE  RecordSequenceValid(seed, config.snapshot_policy, Original(config, seed, fs).records)
<1> DEFINE e  == Build(config, seed)
           s  == InitialState(config)
           rs == Original(config, seed, fs).records
<1>1. Len(e.plan) \in Nat /\ e.plan = Plan /\ e.seed = seed /\ e.snapshot_policy = config.snapshot_policy
      /\ StateShape(s) /\ s.tick = 0
  BY BuildIs
<1>2. Original(config, seed, fs) = RunFrames(e, s, fs)
  BY DEF Original
<1> HIDE DEF e, s
<1>3. PICK states : Steps(e, s, fs, states)
  BY <1>2, RunSucceeds
<1>4. RunFrames(e, s, fs) = Done(e, fs, states)
  BY <1>3, RunIs
<1>5. /\ Len(rs) = Len(fs)
      /\ \A i \in 1..Len(fs) : rs[i] = Recording(e, states[i - 1], fs[i])
  BY <1>1, <1>2, <1>3, <1>4, DoneRecords
<1> HIDE DEF rs
<1> SUFFICES ASSUME NEW i \in 1..Len(fs)
             PROVE  /\ rs[i].tick = i
                    /\ rs[i].input.tick = rs[i].tick
                    /\ rs[i].tick_seed = TickSeed(seed, rs[i].tick)
                    /\ SummariesValid(rs[i])
                    /\ SnapshotAsPolicy(config.snapshot_policy, rs[i])
                    /\ rs[i].snapshot # None =>
                         /\ The(rs[i].snapshot).metadata.source_tick = rs[i].tick
                         /\ The(rs[i].snapshot).metadata.capture_checksum = rs[i].checksum
  BY <1>5 DEF RecordSequenceValid, rs
<1> DEFINE from == states[i - 1]
           f    == fs[i]
           r    == rs[i]
<1>6. i - 1 \in 0..Len(fs) /\ i \in 0..Len(fs) /\ i > 0
  OBVIOUS
<1>7. StateShape(from) /\ from.tick = i - 1 /\ states[i].tick = i
  BY <1>1, <1>3, <1>6, StepsKeepShape, StepsCount
<1>8. TickOutcome(e, from, f).status = "Ok" /\ states[i] = TickOutcome(e, from, f).state
  BY <1>3 DEF Steps
<1>9. r = Recording(e, from, f)
  BY <1>5
<1> HIDE DEF from, f
<1>10. /\ r.tick = i /\ r.input = f /\ r.tick_seed = TickSeed(seed, r.tick)
       /\ \E w : r.validation_summaries = w.validation_summaries /\ DigestsInOrder(Plan, from, Len(Plan), w)
  BY <1>1, <1>7, <1>8, <1>9, TickLeaves
<1>11. f.tick = i
  <2>1. f.tick = TickSucc(from.tick)
    BY <1>8 DEF TickOutcome
  <2>2. TickOutcome(e, from, f).state.tick = TickSucc(from.tick)
    BY <1>1, <1>7, <1>8, TickLeaves
  <2> QED
    BY <1>7, <1>8, <2>1, <2>2
<1>12. /\ SnapshotAsPolicy(config.snapshot_policy, r)
       /\ r.snapshot # None =>
            /\ The(r.snapshot).metadata.source_tick = r.tick
            /\ The(r.snapshot).metadata.capture_checksum = r.checksum
  BY <1>1, <1>7, <1>8, <1>9, RecordingSnapshot
<1>13. SummariesValid(r)
  <2>1. PICK w : r.validation_summaries = w.validation_summaries /\ DigestsInOrder(Plan, from, Len(Plan), w)
    BY <1>10
  <2> DEFINE vs == r.validation_summaries
  <2>2. \A k \in 1..Len(vs) :
          vs[k].state_tick = i - 1 /\ (k > 1 => CheckpointOrder(vs[k].checkpoint) > CheckpointOrder(vs[k - 1].checkpoint))
    BY <1>7, <2>1 DEF DigestsInOrder
  <2> HIDE DEF r
  <2> QED
    BY <1>6, <1>10, <2>2 DEF SummariesValid
<1> QED
  BY <1>10, <1>11, <1>12, <1>13

\* The beginning of a run that succeeds is one.
LEMMA RunBegins ==
  ASSUME NEW e, Len(e.plan) \in Nat, NEW s, StateShape(s), NEW fs, IsSequence(fs),
         RunFrames(e, s, fs).status = "Ok", NEW n \in 0..Len(fs)
  PROVE  /\ RunFrames(e, s, SubSeq(fs, 1, n)).status = "Ok"
         /\ n # 0 => RunFrames(e, s, SubSeq(fs, 1, n)).state = RunFrames(e, s, fs).records[n].checksum
<1> DEFINE rs == RunFrames(e, s, fs).records
           gs == SubSeq(fs, 1, n)
<1>1. Len(fs) \in Nat
  BY DEF IsSequence
<1>2. PICK states : Steps(e, s, fs, states)
  BY <1>1, RunSucceeds
<1>3. RunFrames(e, s, fs) = Done(e, fs, states)
  BY <1>1, <1>2, RunIs
<1>4. \A i \in 1..Len(fs) : rs[i].checksum = states[i]
  BY <1>1, <1>2, <1>3, DoneRecords
<1> HIDE DEF rs
<1>5. Len(gs) = n /\ \A j \in 1..n : gs[j] = fs[j]
  <2>1. fs \in Seq({fs[i] : i \in 1..Len(fs)})
    BY SequenceIn
  <2> QED
    BY <1>1, <2>1
<1> HIDE DEF gs
<1>6. n \in Nat /\ (n # 0 => n \in 1..Len(fs)) /\ \A j \in 1..n : j \in 1..Len(fs)
  BY <1>1
<1>7. Steps(e, s, gs, states)
  BY <1>2, <1>5, <1>6 DEF Steps
<1>8. RunFrames(e, s, gs) = Done(e, gs, states)
  BY <1>5, <1>6, <1>7, RunIs
<1>9. RunFrames(e, s, gs).status = "Ok" /\ RunFrames(e, s, gs).state = states[n]
  BY <1>5, <1>8 DEF Done
<1> QED
  BY <1>4, <1>6, <1>9 DEF gs, rs

\* The domain accepts the state each beginning of a run ends in.
BeginningsRestorable(config, seed, fs) ==
  \A n \in 0..Len(fs) :
    Original(config, seed, SubSeq(fs, 1, n)).status = "Ok" => Restorable(Original(config, seed, SubSeq(fs, 1, n)).state)

\* Then it accepts every snapshot of the run.
LEMMA RunIsRestorable ==
  ASSUME NEW config, NEW seed, NEW fs, IsSequence(fs), Original(config, seed, fs).status = "Ok",
         BeginningsRestorable(config, seed, fs)
  PROVE  AllRestorable(Original(config, seed, fs).records)
<1> DEFINE e  == Build(config, seed)
           s  == InitialState(config)
           rs == Original(config, seed, fs).records
<1>1. Len(e.plan) \in Nat /\ StateShape(s) /\ Len(fs) \in Nat
  BY BuildIs DEF IsSequence
<1>2. Original(config, seed, fs) = RunFrames(e, s, fs)
  BY DEF Original
<1>3. \A n \in 0..Len(fs) :
        RunFrames(e, s, SubSeq(fs, 1, n)).status = "Ok" => Restorable(RunFrames(e, s, SubSeq(fs, 1, n)).state)
  BY DEF Original, BeginningsRestorable
<1> HIDE DEF e, s
<1>4. Len(rs) = Len(fs)
  <2>1. PICK states : Steps(e, s, fs, states)
    BY <1>1, <1>2, RunSucceeds
  <2> QED
    BY <1>1, <1>2, <2>1, RunIs, DoneRecords
<1>5. \A i \in 1..Len(fs) : rs[i].snapshot # None => The(rs[i].snapshot).payload = rs[i].checksum
  BY <1>1, <1>2, RunFollowsPolicy
<1>6. ASSUME NEW n \in 1..Len(fs)
      PROVE  Restorable(rs[n].checksum)
  <2>1. n \in 0..Len(fs) /\ n # 0
    BY <1>1
  <2>2. /\ RunFrames(e, s, SubSeq(fs, 1, n)).status = "Ok"
        /\ RunFrames(e, s, SubSeq(fs, 1, n)).state = rs[n].checksum
    BY <1>1, <1>2, <2>1, RunBegins
  <2> QED
    BY <1>3, <2>1, <2>2
<1> HIDE DEF rs
<1> QED
  BY <1>4, <1>5, <1>6 DEF AllRestorable, SnapshotsOf, Captured, rs

\* Then recording the run fails only where a tick of it does.
LEMMA RecordingEnds ==
  ASSUME NEW config, NEW seed, NEW fs, IsSequence(fs), Len(fs) <= MaxTick, OneFinalizePhase,
         BeginningsRestorable(config, seed, fs)
  PROVE  \/ /\ Original(config, seed, fs).status = "Ok"
            /\ RecordReplay(config, seed, fs).status = "Ok"
         \/ /\ Original(config, seed, fs).status # "Ok"
            /\ RecordReplay(config, seed, fs).status = Original(config, seed, fs).status
<1> DEFINE run == Original(config, seed, fs)
           a   == ArtifactOf(config, seed, run.records)
<1>1. Len(fs) \in Nat
  BY DEF IsSequence
<1>2. CASE run.status = "Ok"
  <2>1. RecordSequenceValid(seed, config.snapshot_policy, run.records)
    BY <1>1, <1>2, PlanCheckpoints, RunIsValid
  <2>2. AllRestorable(run.records)
    BY <1>2, RunIsRestorable
  <2>3. RecordReplay(config, seed, fs) = WholeReplay(a)
    BY <1>2, <2>1, <2>2, RecordedIs DEF Original
  <2> HIDE DEF a
  <2>4. WholeReplay(a).status = "Ok"
    BY DEF WholeReplay, Success
  <2> QED
    BY <1>2, <2>3, <2>4
<1>3. CASE run.status # "Ok"
  <2>1. RecordReplay(config, seed, fs) = Failure(run.status, Len(run.records))
    BY <1>3 DEF RecordReplay, Recorded, Original
  <2> HIDE DEF run
  <2>2. Failure(run.status, Len(run.records)).status = run.status
    BY DEF Failure
  <2> QED
    BY <1>3, <2>1, <2>2 DEF run
<1> QED
  BY <1>2, <1>3

\* The ways a tick, and so a run, can end.
TickStatuses == {"Ok", "UnexpectedInputTick", "PhaseFailed", "InvariantViolation"}

LEMMA ValidatedStatus ==
  ASSUME NEW w, w.status \in TickStatuses, NEW policy, NEW cs, NEW t
  PROVE  Validated(w, policy, cs, t).status \in TickStatuses
BY DEF Validated, WithSummaries, TickStatuses

LEMMA WorkStatus ==
  ASSUME NEW e, NEW s, NEW x, Len(e.plan) \in Nat
  PROVE  Work(e, s, x).status \in TickStatuses
<1> DEFINE W == WorkOf(e, s, x)
           n == Len(e.plan)
           S == {m \in Nat : m <= n => W[m].status \in TickStatuses}
<1>1. Work(e, s, x) = W[n] /\ W[0] = FirstWork(e, s, x) /\ \A i \in 1..n : W[i] = NextWork(e, x, i, W[i - 1])
  BY WorkUnfolds
<1> HIDE DEF W
<1>2. 0 \in S
  <2> DEFINE begun == [status |-> "Ok", state |-> s, phase_markers |-> <<>>, validation_summaries |-> <<>>]
  <2>1. begun.status \in TickStatuses
    BY DEF TickStatuses
  <2>2. FirstWork(e, s, x) = Validated(begun, e.validation_policy, {"BeforeTickBegin"}, x.tick)
    BY DEF FirstWork
  <2> HIDE DEF begun
  <2> QED
    BY <1>1, <2>1, <2>2, ValidatedStatus
<1>3. ASSUME NEW m \in Nat, m \in S
      PROVE  m + 1 \in S
  <2> SUFFICES ASSUME m + 1 <= n
               PROVE  W[m + 1].status \in TickStatuses
    OBVIOUS
  <2>1. W[m].status \in TickStatuses /\ m + 1 \in 1..n /\ m + 1 - 1 = m
    BY <1>3
  <2>2. W[m + 1] = NextWork(e, x, m + 1, W[m])
    BY <1>1, <2>1
  <2> DEFINE w == W[m]
             i == m + 1
             outcome == Step(e.plan[i].name, x, w.state)
             after   == [status               |-> "Ok",
                         state                |-> [w.state EXCEPT !.data = outcome.data],
                         phase_markers        |-> Append(w.phase_markers, e.plan[i]),
                         validation_summaries |-> w.validation_summaries]
             failed    == [after EXCEPT !.status = "PhaseFailed"]
             validated == Validated(after, e.validation_policy, CheckpointAfter(e.plan, i), x.tick)
  <2>3. NextWork(e, x, i, w) =
          IF w.status = "Ok" THEN (IF outcome.ok THEN validated ELSE failed) ELSE w
    BY DEF NextWork, AfterPhase
  <2>4. failed.status = "PhaseFailed" /\ after.status = "Ok"
    OBVIOUS
  <2> HIDE DEF after, outcome, w, i, failed
  <2>5. validated.status \in TickStatuses
    BY <2>4, ValidatedStatus DEF TickStatuses
  <2> HIDE DEF validated
  <2>6. failed.status \in TickStatuses
    BY <2>4 DEF TickStatuses
  <2>7. w.status \in TickStatuses
    BY <2>1 DEF w
  <2>8. NextWork(e, x, i, w).status \in TickStatuses
    BY <2>3, <2>5, <2>6, <2>7
  <2> QED
    BY <2>2, <2>8 DEF w, i
<1>4. Nat \subseteq S
  <2> HIDE DEF S
  <2> QED
    BY <1>2, <1>3, SetInduction
<1> QED
  BY <1>1, <1>4

LEMMA TickStatus ==
  ASSUME NEW e, NEW s, NEW f, Len(e.plan) \in Nat
  PROVE  TickOutcome(e, s, f).status \in TickStatuses
<1> DEFINE x == ContextOf(e, s, f)
           w == Work(e, s, x)
           refused == [status |-> "UnexpectedInputTick", state |-> s, records |-> <<>>]
<1>1. TickOutcome(e, s, f) = IF f.tick # TickSucc(s.tick) THEN refused ELSE TickEnd(e, f, x, w)
  BY DEF TickOutcome, ContextOf
<1>2. w.status \in TickStatuses
  BY WorkStatus
<1>3. refused.status \in TickStatuses
  BY DEF TickStatuses
<1> HIDE DEF w, x, refused
<1>4. TickEnd(e, f, x, w).status = w.status
  BY DEF TickEnd
<1> QED
  BY <1>1, <1>2, <1>3, <1>4

LEMMA RunStatus ==
  ASSUME NEW e, Len(e.plan) \in Nat, NEW s, NEW fs, Len(fs) \in Nat
  PROVE  RunFrames(e, s, fs).status \in TickStatuses
<1> DEFINE R == RunOf(e, s, fs)
           n == Len(fs)
           S == {m \in Nat : m <= n => R[m].status \in TickStatuses}
<1>1. RunFrames(e, s, fs) = R[n] /\ R[0] = FirstRun(s) /\ \A i \in 1..n : R[i] = AfterTick(e, R[i - 1], fs[i])
  BY RunUnfolds
<1> HIDE DEF R
<1>2. 0 \in S
  <2>1. FirstRun(s).status = "Ok"
    BY DEF FirstRun
  <2> QED
    BY <1>1, <2>1 DEF TickStatuses
<1>3. ASSUME NEW m \in Nat, m \in S
      PROVE  m + 1 \in S
  <2> SUFFICES ASSUME m + 1 <= n
               PROVE  R[m + 1].status \in TickStatuses
    OBVIOUS
  <2>1. R[m].status \in TickStatuses /\ m + 1 \in 1..n /\ m + 1 - 1 = m
    BY <1>3
  <2>2. R[m + 1] = AfterTick(e, R[m], fs[m + 1])
    BY <1>1, <2>1
  <2> DEFINE o == TickOutcome(e, R[m].state, fs[m + 1])
             next == [status |-> o.status, state |-> o.state, records |-> R[m].records \o o.records]
  <2>3. o.status \in TickStatuses
    BY TickStatus
  <2>4. AfterTick(e, R[m], fs[m + 1]) = IF R[m].status # "Ok" THEN R[m] ELSE next
    BY DEF AfterTick
  <2> HIDE DEF o
  <2>5. next.status = o.status
    OBVIOUS
  <2> HIDE DEF next
  <2> QED
    BY <2>1, <2>2, <2>3, <2>4, <2>5
<1>4. Nat \subseteq S
  <2> HIDE DEF S
  <2> QED
    BY <1>2, <1>3, SetInduction
<1> QED
  BY <1>1, <1>4

-----------------------------------------------------------------------------
(***************************************************************************)
(* The invariant of ReplayArtifact.                                        *)
(***************************************************************************)
\* A recorded artifact.
IsRecorded(o) ==
  \E config \in Configs, seed \in Seeds, frames \in Inputs :
    /\ RecordReplay(config, seed, frames).status = "Ok"
    /\ o = Some(ArtifactOf(config, seed, Original(config, seed, frames).records))

ArtifactInv ==
  artifact # None =>
    /\ artifact = Some(The(artifact)) /\ ArtifactShape(The(artifact))
    /\ Decodes(The(artifact)) /\ The(artifact).config_identity \in Configs

SnapshotInv ==
  snapshot # None =>
    /\ SnapshotArtifactShape(The(snapshot))
    /\ The(snapshot).format = Current /\ The(snapshot).config_identity \in Configs

RecordedInv ==
  /\ recorded = None => artifact = None
  /\ recorded # None => IsRecorded(recorded)

\* The report is of the last call, and of what the host still has.
ReportInv ==
  \/ report = NoReport
  \/ \E config \in Configs, seed \in Seeds, frames \in Inputs :
       report = Report("record", config, RecordReplay(config, seed, frames))
  \/ /\ artifact # None
     /\ \E config \in Configs : report = Report("verify", config, VerifyReplay(config, The(artifact)))
  \/ /\ artifact # None /\ snapshot # None
     /\ \E config \in Configs :
          report = Report("resume", config, ResumeReplay(config, The(snapshot), The(artifact)))

FaultsInv == faults \in 0..MaxFaults

Inv == ArtifactInv /\ SnapshotInv /\ RecordedInv /\ ReportInv /\ FaultsInv

-----------------------------------------------------------------------------
(***************************************************************************)
(* A record, an artifact or a snapshot of which one field has changed is   *)
(* one still.                                                              *)
(***************************************************************************)
\* A record with one field changed to any value but the snapshot.
FieldChanged(q, x) ==
  {[q EXCEPT !.tick = x], [q EXCEPT !.input = x], [q EXCEPT !.tick_seed = x], [q EXCEPT !.phase_markers = x],
   [q EXCEPT !.validation_summaries = x], [q EXCEPT !.checksum = x]}

LEMMA FieldChangedShape ==
  ASSUME NEW q, RecordShape(q), NEW x, NEW r \in FieldChanged(q, x)
  PROVE  RecordShape(r)
<1> DEFINE R(t, i, d, m, v, c, s) ==
             [tick |-> t, input |-> i, tick_seed |-> d, phase_markers |-> m, validation_summaries |-> v,
              checksum |-> c, snapshot |-> s]
<1>1. q = R(q.tick, q.input, q.tick_seed, q.phase_markers, q.validation_summaries, q.checksum, q.snapshot)
  BY DEF RecordShape
<1>2. q.snapshot = None \/ (q.snapshot = Some(The(q.snapshot)) /\ SnapshotShape(The(q.snapshot)))
  BY DEF RecordShape
<1>3. \A t, i, d, m, v, c, s :
        s = None \/ (s = Some(The(s)) /\ SnapshotShape(The(s))) => RecordShape(R(t, i, d, m, v, c, s))
  BY DEF RecordShape
<1>4. \E t, i, d, m, v, c : r = R(t, i, d, m, v, c, q.snapshot)
  <2>1. CASE r = [q EXCEPT !.tick = x]
    <3>1. r = R(x, q.input, q.tick_seed, q.phase_markers, q.validation_summaries, q.checksum, q.snapshot)
      BY <1>1, <2>1
    <3> QED
      BY <3>1
  <2>2. CASE r = [q EXCEPT !.input = x]
    <3>1. r = R(q.tick, x, q.tick_seed, q.phase_markers, q.validation_summaries, q.checksum, q.snapshot)
      BY <1>1, <2>2
    <3> QED
      BY <3>1
  <2>3. CASE r = [q EXCEPT !.tick_seed = x]
    <3>1. r = R(q.tick, q.input, x, q.phase_markers, q.validation_summaries, q.checksum, q.snapshot)
      BY <1>1, <2>3
    <3> QED
      BY <3>1
  <2>4. CASE r = [q EXCEPT !.phase_markers = x]
    <3>1. r = R(q.tick, q.input, q.tick_seed, x, q.validation_summaries, q.checksum, q.snapshot)
      BY <1>1, <2>4
    <3> QED
      BY <3>1
  <2>5. CASE r = [q EXCEPT !.validation_summaries = x]
    <3>1. r = R(q.tick, q.input, q.tick_seed, q.phase_markers, x, q.checksum, q.snapshot)
      BY <1>1, <2>5
    <3> QED
      BY <3>1
  <2>6. CASE r = [q EXCEPT !.checksum = x]
    <3>1. r = R(q.tick, q.input, q.tick_seed, q.phase_markers, q.validation_summaries, x, q.snapshot)
      BY <1>1, <2>6
    <3> QED
      BY <3>1
  <2> HIDE DEF R
  <2> QED
    BY <2>1, <2>2, <2>3, <2>4, <2>5, <2>6 DEF FieldChanged
<1> HIDE DEF R
<1> QED
  BY <1>2, <1>3, <1>4

\* A record with another snapshot, or none.
LEMMA SnapshotReplacedShape ==
  ASSUME NEW q, RecordShape(q), NEW o, o = None \/ (o = Some(The(o)) /\ SnapshotShape(The(o)))
  PROVE  RecordShape([q EXCEPT !.snapshot = o])
<1>1. [q EXCEPT !.snapshot = o] =
        [tick |-> q.tick, input |-> q.input, tick_seed |-> q.tick_seed, phase_markers |-> q.phase_markers,
         validation_summaries |-> q.validation_summaries, checksum |-> q.checksum, snapshot |-> o]
  BY DEF RecordShape
<1> QED
  BY <1>1 DEF RecordShape

LEMMA ChangedSnapshotShape ==
  ASSUME NEW s, SnapshotShape(s), NEW c \in SnapshotChanged(s)
  PROVE  SnapshotShape(c)
<1> DEFINE S(m, r, p) == [metadata |-> m, reason |-> r, payload |-> p]
<1>1. s = S(s.metadata, s.reason, s.payload)
  BY DEF SnapshotShape
<1>2. \A m, r, p : SnapshotShape(S(m, r, p))
  BY DEF SnapshotShape
<1>3. \E m, r, p : c = S(m, r, p)
  <2>1. \/ \E x : c = [s EXCEPT !.reason = x]
        \/ \E x : c = [s EXCEPT !.metadata = x]
        \/ \E x : c = [s EXCEPT !.payload = x]
    BY DEF SnapshotChanged
  <2>2. \A x : [s EXCEPT !.reason = x] = S(s.metadata, x, s.payload)
    BY <1>1
  <2>3. \A x : [s EXCEPT !.metadata = x] = S(x, s.reason, s.payload)
    BY <1>1
  <2>4. \A x : [s EXCEPT !.payload = x] = S(s.metadata, s.reason, x)
    BY <1>1
  <2> HIDE DEF S
  <2> QED
    BY <2>1, <2>2, <2>3, <2>4
<1> HIDE DEF S
<1> QED
  BY <1>2, <1>3

LEMMA ChangedRecordShape ==
  ASSUME NEW q, RecordShape(q), NEW r \in RecordChanged(q)
  PROVE  RecordShape(r)
<1>1. \/ \E x : r \in FieldChanged(q, x)
      \/ r = [q EXCEPT !.snapshot = None]
      \/ /\ q.snapshot # None
         /\ \E s \in SnapshotChanged(The(q.snapshot)) : r = [q EXCEPT !.snapshot = Some(s)]
  <2> DEFINE fields ==
               {[q EXCEPT !.tick = @ + 1],
                [q EXCEPT !.input = [@ EXCEPT !.tick = @ + 1]],
                [q EXCEPT !.tick_seed = TickSeed(0, q.tick)],
                [q EXCEPT !.phase_markers = Tail(@)],
                [q EXCEPT !.validation_summaries = Tail(@)],
                [q EXCEPT !.validation_summaries = [@ EXCEPT ![1] = [@ EXCEPT !.state_tick = @ + 1]]],
                [q EXCEPT !.snapshot = None]}
             inputs  == {[q EXCEPT !.input = [@ EXCEPT !.command = c]] : c \in Commands}
             digests == {[q EXCEPT !.validation_summaries = [@ EXCEPT ![1] = [@ EXCEPT !.state_digest = d]]] : d \in Data}
             sums    == {[q EXCEPT !.checksum = x] : x \in OtherStates(q.checksum)}
             snaps   == IF q.snapshot = None THEN {}
                        ELSE {[q EXCEPT !.snapshot = Some(s)] : s \in SnapshotChanged(The(q.snapshot))}
  <2>1. r \in fields \cup inputs \cup digests \cup sums \cup snaps
    BY DEF RecordChanged
  <2>2. CASE r \in fields
    BY <2>2 DEF FieldChanged
  <2>3. CASE r \in inputs
    BY <2>3 DEF FieldChanged
  <2>4. CASE r \in digests
    BY <2>4 DEF FieldChanged
  <2>5. CASE r \in sums
    BY <2>5 DEF FieldChanged
  <2>6. CASE r \in snaps
    BY <2>6
  <2> HIDE DEF fields, inputs, digests, sums, snaps
  <2> QED
    BY <2>1, <2>2, <2>3, <2>4, <2>5, <2>6
<1>2. CASE \E x : r \in FieldChanged(q, x)
  BY <1>2, FieldChangedShape
<1>3. CASE r = [q EXCEPT !.snapshot = None]
  BY <1>3, SnapshotReplacedShape
<1>4. ASSUME q.snapshot # None, NEW s \in SnapshotChanged(The(q.snapshot)), r = [q EXCEPT !.snapshot = Some(s)]
      PROVE  RecordShape(r)
  <2>1. SnapshotShape(The(q.snapshot))
    BY <1>4 DEF RecordShape
  <2>2. SnapshotShape(s)
    BY <2>1, ChangedSnapshotShape
  <2> DEFINE o == Some(s)
  <2>3. The(o) = s
    BY DEF Some, The
  <2> HIDE DEF o
  <2>4. o = Some(The(o)) /\ SnapshotShape(The(o))
    BY <2>2, <2>3 DEF o
  <2>5. RecordShape([q EXCEPT !.snapshot = o])
    BY <2>4, SnapshotReplacedShape
  <2> QED
    BY <1>4, <2>5 DEF o
<1> QED
  BY <1>1, <1>2, <1>3, <1>4

LEMMA ChangedArtifactShape ==
  ASSUME NEW a, ArtifactShape(a), NEW b \in ArtifactChanged(a)
  PROVE  ArtifactShape(b) /\ (b.config_identity = a.config_identity \/ b.config_identity \in Configs)
<1> DEFINE A(f, d, c, p, t, n, r) ==
             [format |-> f, base_seed |-> d, config_identity |-> c, snapshot_policy |-> p, total_ticks |-> t,
              record_count |-> n, records |-> r]
           rs == a.records
<1>1. a = A(a.format, a.base_seed, a.config_identity, a.snapshot_policy, a.total_ticks, a.record_count, rs)
  BY DEF ArtifactShape
<1>2. RecordsShape(rs)
  BY DEF ArtifactShape
<1>3. \A f, d, c, p, t, n, r : RecordsShape(r) => ArtifactShape(A(f, d, c, p, t, n, r))
  BY DEF ArtifactShape
<1>4. \A f, d, c, p, t, n, r : A(f, d, c, p, t, n, r).config_identity = c
  OBVIOUS
<1>5. \/ \E x : b = [a EXCEPT !.format = x] \/ b = [a EXCEPT !.total_ticks = x] \/ b = [a EXCEPT !.record_count = x]
                \/ b = [a EXCEPT !.base_seed = x] \/ b = [a EXCEPT !.snapshot_policy = x]
      \/ \E c \in Configs : b = [a EXCEPT !.config_identity = c]
      \/ \E i \in 1..Len(rs) : \E r \in RecordChanged(rs[i]) : b = [a EXCEPT !.records = [rs EXCEPT ![i] = r]]
  <2> DEFINE first  == {[a EXCEPT !.format = "other"], [a EXCEPT !.total_ticks = @ + 1], [a EXCEPT !.record_count = @ + 1]}
             seeds  == {[a EXCEPT !.base_seed = x] : x \in Seeds}
             config == {[a EXCEPT !.config_identity = c] : c \in Configs}
             policy == {[a EXCEPT !.snapshot_policy = c.snapshot_policy] : c \in Configs}
             record == UNION {{[a EXCEPT !.records = [@ EXCEPT ![i] = r]] : r \in RecordChanged(a.records[i])} : i \in 1..Len(a.records)}
  <2>1. b \in first \cup seeds \cup config \cup policy \cup record
    BY DEF ArtifactChanged
  <2>2. CASE b \in first
    BY <2>2
  <2>3. CASE b \in seeds
    BY <2>3
  <2>4. CASE b \in config
    BY <2>4
  <2>5. CASE b \in policy
    BY <2>5
  <2>6. CASE b \in record
    BY <2>6
  <2> HIDE DEF first, seeds, config, policy, record
  <2> QED
    BY <2>1, <2>2, <2>3, <2>4, <2>5, <2>6
<1>6. \A x : /\ [a EXCEPT !.format = x] = A(x, a.base_seed, a.config_identity, a.snapshot_policy, a.total_ticks, a.record_count, rs)
             /\ [a EXCEPT !.base_seed = x] = A(a.format, x, a.config_identity, a.snapshot_policy, a.total_ticks, a.record_count, rs)
             /\ [a EXCEPT !.snapshot_policy = x] = A(a.format, a.base_seed, a.config_identity, x, a.total_ticks, a.record_count, rs)
             /\ [a EXCEPT !.total_ticks = x] = A(a.format, a.base_seed, a.config_identity, a.snapshot_policy, x, a.record_count, rs)
             /\ [a EXCEPT !.record_count = x] = A(a.format, a.base_seed, a.config_identity, a.snapshot_policy, a.total_ticks, x, rs)
             /\ [a EXCEPT !.config_identity = x] = A(a.format, a.base_seed, x, a.snapshot_policy, a.total_ticks, a.record_count, rs)
             /\ [a EXCEPT !.records = x] = A(a.format, a.base_seed, a.config_identity, a.snapshot_policy, a.total_ticks, a.record_count, x)
  <2> DEFINE f == a.format
             d == a.base_seed
             c == a.config_identity
             p == a.snapshot_policy
             t == a.total_ticks
             n == a.record_count
  <2>1. a = A(f, d, c, p, t, n, rs)
    BY <1>1
  <2> HIDE DEF f, d, c, p, t, n, rs
  <2>2. \A x : [a EXCEPT !.format = x] = A(x, d, c, p, t, n, rs)
    BY <2>1
  <2>3. \A x : [a EXCEPT !.base_seed = x] = A(f, x, c, p, t, n, rs)
    BY <2>1
  <2>4. \A x : [a EXCEPT !.snapshot_policy = x] = A(f, d, c, x, t, n, rs)
    BY <2>1
  <2>5. \A x : [a EXCEPT !.total_ticks = x] = A(f, d, c, p, x, n, rs)
    BY <2>1
  <2>6. \A x : [a EXCEPT !.record_count = x] = A(f, d, c, p, t, x, rs)
    BY <2>1
  <2>7. \A x : [a EXCEPT !.config_identity = x] = A(f, d, x, p, t, n, rs)
    BY <2>1
  <2>8. \A x : [a EXCEPT !.records = x] = A(f, d, c, p, t, n, x)
    BY <2>1
  <2> HIDE DEF A
  <2> QED
    BY <2>2, <2>3, <2>4, <2>5, <2>6, <2>7, <2>8 DEF f, d, c, p, t, n
<1> HIDE DEF A
<1>7. ASSUME NEW i \in 1..Len(rs), NEW r \in RecordChanged(rs[i])
      PROVE  RecordsShape([rs EXCEPT ![i] = r])
  <2>1. RecordShape(r)
    BY <1>2, ChangedRecordShape DEF RecordsShape
  <2> HIDE DEF rs
  <2>2. Len(rs) \in Nat /\ rs = [k \in 1..Len(rs) |-> rs[k]] /\ \A k \in 1..Len(rs) : RecordShape(rs[k])
    BY <1>2 DEF RecordsShape, IsSequence
  <2> DEFINE new == [k \in 1..Len(rs) |-> IF k = i THEN r ELSE rs[k]]
  <2>3. [rs EXCEPT ![i] = r] = new
    BY <2>2
  <2>4. Len(new) = Len(rs) /\ new = [k \in 1..Len(new) |-> new[k]]
    BY <2>2
  <2>5. \A k \in 1..Len(rs) : RecordShape(new[k])
    BY <2>1, <2>2
  <2> HIDE DEF new
  <2> QED
    BY <2>2, <2>3, <2>4, <2>5 DEF RecordsShape, IsSequence
<1> HIDE DEF rs
<1>8. ASSUME NEW x, b = [a EXCEPT !.format = x]
      PROVE  ArtifactShape(b) /\ (b.config_identity = a.config_identity \/ b.config_identity \in Configs)
  <2>1. b = A(x, a.base_seed, a.config_identity, a.snapshot_policy, a.total_ticks, a.record_count, rs)
    BY <1>6, <1>8
  <2> QED
    BY <1>2, <1>3, <1>4, <1>8, <2>1
<1>9. ASSUME NEW x, b = [a EXCEPT !.base_seed = x]
      PROVE  ArtifactShape(b) /\ (b.config_identity = a.config_identity \/ b.config_identity \in Configs)
  <2>1. b = A(a.format, x, a.config_identity, a.snapshot_policy, a.total_ticks, a.record_count, rs)
    BY <1>6, <1>9
  <2> QED
    BY <1>2, <1>3, <1>4, <1>9, <2>1
<1>10. ASSUME NEW x, b = [a EXCEPT !.snapshot_policy = x]
      PROVE  ArtifactShape(b) /\ (b.config_identity = a.config_identity \/ b.config_identity \in Configs)
  <2>1. b = A(a.format, a.base_seed, a.config_identity, x, a.total_ticks, a.record_count, rs)
    BY <1>6, <1>10
  <2> QED
    BY <1>2, <1>3, <1>4, <1>10, <2>1
<1>11. ASSUME NEW x, b = [a EXCEPT !.total_ticks = x]
      PROVE  ArtifactShape(b) /\ (b.config_identity = a.config_identity \/ b.config_identity \in Configs)
  <2>1. b = A(a.format, a.base_seed, a.config_identity, a.snapshot_policy, x, a.record_count, rs)
    BY <1>6, <1>11
  <2> QED
    BY <1>2, <1>3, <1>4, <1>11, <2>1
<1>12. ASSUME NEW x, b = [a EXCEPT !.record_count = x]
      PROVE  ArtifactShape(b) /\ (b.config_identity = a.config_identity \/ b.config_identity \in Configs)
  <2>1. b = A(a.format, a.base_seed, a.config_identity, a.snapshot_policy, a.total_ticks, x, rs)
    BY <1>6, <1>12
  <2> QED
    BY <1>2, <1>3, <1>4, <1>12, <2>1
<1>13. ASSUME NEW c \in Configs, b = [a EXCEPT !.config_identity = c]
       PROVE  ArtifactShape(b) /\ (b.config_identity = a.config_identity \/ b.config_identity \in Configs)
  <2>1. b = A(a.format, a.base_seed, c, a.snapshot_policy, a.total_ticks, a.record_count, rs)
    BY <1>6, <1>13
  <2> QED
    BY <1>2, <1>3, <1>4, <1>13, <2>1
<1>14. ASSUME NEW x, RecordsShape(x), b = [a EXCEPT !.records = x]
       PROVE  ArtifactShape(b) /\ (b.config_identity = a.config_identity \/ b.config_identity \in Configs)
  <2>1. b = A(a.format, a.base_seed, a.config_identity, a.snapshot_policy, a.total_ticks, a.record_count, x)
    BY <1>6, <1>14
  <2> QED
    BY <1>2, <1>3, <1>4, <1>14, <2>1
<1> QED
  BY <1>5, <1>7, <1>8, <1>9, <1>10, <1>11, <1>12, <1>13, <1>14

LEMMA ChangedSnapshotArtifactShape ==
  ASSUME NEW s, SnapshotArtifactShape(s), NEW c \in SnapshotArtifactChanged(s)
  PROVE  SnapshotArtifactShape(c) /\ (c.config_identity = s.config_identity \/ c.config_identity \in Configs)
<1> DEFINE A(f, d, i, r, m, p) ==
             [format |-> f, base_seed |-> d, config_identity |-> i, capture_reason |-> r, metadata |-> m, payload |-> p]
           f == s.format
           d == s.base_seed
           i == s.config_identity
           r == s.capture_reason
           m == s.metadata
           p == s.payload
<1>1. s = A(f, d, i, r, m, p)
  BY DEF SnapshotArtifactShape
<1>2. \A v, w, x, y, z, u : SnapshotArtifactShape(A(v, w, x, y, z, u)) /\ A(v, w, x, y, z, u).config_identity = x
  BY DEF SnapshotArtifactShape
<1>3. \/ \E x : c = [s EXCEPT !.format = x] \/ c = [s EXCEPT !.capture_reason = x] \/ c = [s EXCEPT !.metadata = x]
                \/ c = [s EXCEPT !.base_seed = x] \/ c = [s EXCEPT !.payload = x]
      \/ \E x \in Configs : c = [s EXCEPT !.config_identity = x]
  <2> DEFINE first  == {[s EXCEPT !.format = "other"], [s EXCEPT !.capture_reason = Manual],
                        [s EXCEPT !.metadata = [@ EXCEPT !.source_tick = @ + 1]]}
             seeds  == {[s EXCEPT !.base_seed = x] : x \in Seeds}
             config == {[s EXCEPT !.config_identity = x] : x \in Configs}
             sums   == {[s EXCEPT !.metadata = [@ EXCEPT !.capture_checksum = x]] : x \in OtherStates(s.payload)}
             pays   == {[s EXCEPT !.payload = x] : x \in OtherStates(s.payload)}
  <2>1. c \in first \cup seeds \cup config \cup sums \cup pays
    BY DEF SnapshotArtifactChanged
  <2>2. CASE c \in first
    BY <2>2
  <2>3. CASE c \in seeds
    BY <2>3
  <2>4. CASE c \in config
    BY <2>4
  <2>5. CASE c \in sums
    BY <2>5
  <2>6. CASE c \in pays
    BY <2>6
  <2> HIDE DEF first, seeds, config, sums, pays
  <2> QED
    BY <2>1, <2>2, <2>3, <2>4, <2>5, <2>6
<1> HIDE DEF f, d, i, r, m, p
<1>4. \A x : [s EXCEPT !.format = x] = A(x, d, i, r, m, p)
  BY <1>1
<1>5. \A x : [s EXCEPT !.base_seed = x] = A(f, x, i, r, m, p)
  BY <1>1
<1>6. \A x : [s EXCEPT !.config_identity = x] = A(f, d, x, r, m, p)
  BY <1>1
<1>7. \A x : [s EXCEPT !.capture_reason = x] = A(f, d, i, x, m, p)
  BY <1>1
<1>8. \A x : [s EXCEPT !.metadata = x] = A(f, d, i, r, x, p)
  BY <1>1
<1>9. \A x : [s EXCEPT !.payload = x] = A(f, d, i, r, m, x)
  BY <1>1
<1> HIDE DEF A
<1>10. ASSUME NEW x, c = [s EXCEPT !.format = x]
       PROVE  SnapshotArtifactShape(c) /\ (c.config_identity = i \/ c.config_identity \in Configs)
  <2>1. c = A(x, d, i, r, m, p)
    BY <1>4, <1>10
  <2> QED
    BY <1>2, <2>1
<1>11. ASSUME NEW x, c = [s EXCEPT !.base_seed = x]
       PROVE  SnapshotArtifactShape(c) /\ (c.config_identity = i \/ c.config_identity \in Configs)
  <2>1. c = A(f, x, i, r, m, p)
    BY <1>5, <1>11
  <2> QED
    BY <1>2, <2>1
<1>12. ASSUME NEW x, c = [s EXCEPT !.capture_reason = x]
       PROVE  SnapshotArtifactShape(c) /\ (c.config_identity = i \/ c.config_identity \in Configs)
  <2>1. c = A(f, d, i, x, m, p)
    BY <1>7, <1>12
  <2> QED
    BY <1>2, <2>1
<1>13. ASSUME NEW x, c = [s EXCEPT !.metadata = x]
       PROVE  SnapshotArtifactShape(c) /\ (c.config_identity = i \/ c.config_identity \in Configs)
  <2>1. c = A(f, d, i, r, x, p)
    BY <1>8, <1>13
  <2> QED
    BY <1>2, <2>1
<1>14. ASSUME NEW x, c = [s EXCEPT !.payload = x]
       PROVE  SnapshotArtifactShape(c) /\ (c.config_identity = i \/ c.config_identity \in Configs)
  <2>1. c = A(f, d, i, r, m, x)
    BY <1>9, <1>14
  <2> QED
    BY <1>2, <2>1
<1>15. ASSUME NEW x \in Configs, c = [s EXCEPT !.config_identity = x]
       PROVE  SnapshotArtifactShape(c) /\ (c.config_identity = i \/ c.config_identity \in Configs)
  <2>1. c = A(f, d, x, r, m, p)
    BY <1>6, <1>15
  <2> QED
    BY <1>2, <1>15, <2>1
<1> QED
  BY <1>3, <1>10, <1>11, <1>12, <1>13, <1>14, <1>15 DEF i

-----------------------------------------------------------------------------
(***************************************************************************)
(* What the calls leave.                                                   *)
(***************************************************************************)
LEMMA InputsAreSequences ==
  ASSUME NEW frames \in Inputs
  PROVE  IsSequence(frames)
<1> DEFINE S == [tick : 0..MaxTick, command : Commands]
<1>1. frames \in Seq(S)
  BY InputsAssumption
<1> HIDE DEF S
<1> QED
  BY <1>1, SeqIsSequence

\* A recorded artifact can be stored, read back and repeated.
LEMMA RecordedFacts ==
  ASSUME NEW o, IsRecorded(o)
  PROVE  /\ o # None /\ o = Some(The(o)) /\ ArtifactShape(The(o)) /\ Decodes(The(o))
         /\ The(o).config_identity \in Configs
         /\ \E config \in Configs, seed \in Seeds, frames \in Inputs :
              /\ RecordReplay(config, seed, frames).status = "Ok"
              /\ The(o) = ArtifactOf(config, seed, Original(config, seed, frames).records)
<1>1. PICK config \in Configs, seed \in Seeds, frames \in Inputs :
        /\ RecordReplay(config, seed, frames).status = "Ok"
        /\ o = Some(ArtifactOf(config, seed, Original(config, seed, frames).records))
  BY DEF IsRecorded
<1> DEFINE rs == Original(config, seed, frames).records
           a  == ArtifactOf(config, seed, rs)
<1>2. IsSequence(frames)
  BY InputsAreSequences
<1>3. ArtifactShape(a) /\ ValidForState(a)
  BY <1>1, <1>2, RecordedIsValid
<1>4. AllRestorable(rs)
  BY <1>1, <1>2, WhatIsRecorded
<1>5. a.format = Current /\ a.config_identity = config /\ a.records = rs
  BY DEF ArtifactOf
<1>6. o = Some(a)
  BY <1>1
<1> HIDE DEF a
<1>7. The(o) = a /\ o # None
  BY <1>6 DEF Some, The, None
<1>8. Decodes(a)
  BY <1>3, <1>4, <1>5 DEF Decodes, ValidForState
<1> QED
  BY <1>1, <1>3, <1>5, <1>6, <1>7, <1>8 DEF a

\* Recording yields an artifact or nothing.
LEMMA RecordingYields ==
  ASSUME NEW config \in Configs, NEW seed \in Seeds, NEW frames \in Inputs
  PROVE  RecordReplay(config, seed, frames).artifact = None \/ IsRecorded(RecordReplay(config, seed, frames).artifact)
<1> DEFINE out == RecordReplay(config, seed, frames)
           run == Original(config, seed, frames)
           rs  == run.records
           a   == ArtifactOf(config, seed, rs)
           f1  == Failure(run.status, Len(rs))
           f2  == Failure("CorruptedArtifact", 0)
           f3  == Failure("SnapshotSerialization", 0)
<1>1. IsSequence(frames)
  BY InputsAreSequences
<1>2. out = f1 \/ out = f2 \/ out = f3 \/ out = WholeReplay(a)
  BY DEF RecordReplay, Recorded, Original
<1>3. f1.artifact = None /\ f2.artifact = None /\ f3.artifact = None
  BY DEF Failure
<1>4. WholeReplay(a).status = "Ok" /\ WholeReplay(a).artifact = Some(a)
  <2> HIDE DEF a
  <2> QED
    BY DEF WholeReplay, Success
<1> HIDE DEF out, f1, f2, f3
<1>5. CASE out = WholeReplay(a)
  <2>1. out.status = "Ok" /\ out.artifact = Some(a)
    BY <1>4, <1>5
  <2> QED
    BY <2>1 DEF IsRecorded, out
<1> QED
  BY <1>2, <1>3, <1>5 DEF out

LEMMA SnapshotArtifactIs ==
  ASSUME NEW seed, NEW config, NEW c
  PROVE  LET s == SnapshotArtifact(seed, config, c)
         IN  /\ SnapshotArtifactShape(s) /\ s.format = Current /\ s.config_identity = config
             /\ s.payload = c.payload /\ The(Some(s)) = s /\ Some(s) # None
<1>1. \A s : The(Some(s)) = s /\ Some(s) # None
  BY DEF The, Some, None
<1>2. /\ SnapshotArtifactShape(SnapshotArtifact(seed, config, c))
      /\ SnapshotArtifact(seed, config, c).format = Current
      /\ SnapshotArtifact(seed, config, c).config_identity = config
      /\ SnapshotArtifact(seed, config, c).payload = c.payload
  BY DEF SnapshotArtifact, SnapshotArtifactShape
<1> QED
  BY <1>1, <1>2

-----------------------------------------------------------------------------
(***************************************************************************)
(* The invariant.                                                          *)
(***************************************************************************)
LEMMA InitInv ==
  ASSUME Init
  PROVE  Inv
BY FaultsAssumption DEF Init, Inv, ArtifactInv, SnapshotInv, RecordedInv, ReportInv, FaultsInv

LEMMA RecordInv ==
  ASSUME Inv, NEW config \in Configs, NEW seed \in Seeds, NEW frames \in Inputs, Record(config, seed, frames)
  PROVE  Inv'
<1> DEFINE out == RecordReplay(config, seed, frames)
<1>1. /\ report' = Report("record", config, out) /\ artifact' = out.artifact /\ recorded' = out.artifact
      /\ snapshot' = snapshot /\ faults' = faults
  BY DEF Record
<1>2. out.artifact = None \/ IsRecorded(out.artifact)
  BY RecordingYields
<1>3. ReportInv'
  BY <1>1 DEF ReportInv
<1> HIDE DEF out
<1>4. RecordedInv'
  BY <1>1, <1>2 DEF RecordedInv, IsRecorded
<1>5. ArtifactInv'
  BY <1>1, <1>2, RecordedFacts DEF ArtifactInv
<1>6. SnapshotInv' /\ FaultsInv'
  BY <1>1 DEF Inv, SnapshotInv, FaultsInv
<1> QED
  BY <1>3, <1>4, <1>5, <1>6 DEF Inv

LEMMA VerifyInv ==
  ASSUME Inv, NEW config \in Configs, Verify(config)
  PROVE  Inv'
<1>1. /\ artifact # None /\ report' = Report("verify", config, VerifyReplay(config, The(artifact)))
      /\ artifact' = artifact /\ snapshot' = snapshot /\ recorded' = recorded /\ faults' = faults
  BY DEF Verify
<1>2. ReportInv'
  BY <1>1 DEF ReportInv
<1>3. ArtifactInv' /\ SnapshotInv' /\ RecordedInv' /\ FaultsInv'
  BY <1>1 DEF Inv, ArtifactInv, SnapshotInv, RecordedInv, FaultsInv, IsRecorded
<1> QED
  BY <1>2, <1>3 DEF Inv

LEMMA ResumeInv ==
  ASSUME Inv, NEW config \in Configs, Resume(config)
  PROVE  Inv'
<1>1. /\ artifact # None /\ snapshot # None
      /\ report' = Report("resume", config, ResumeReplay(config, The(snapshot), The(artifact)))
      /\ artifact' = artifact /\ snapshot' = snapshot /\ recorded' = recorded /\ faults' = faults
  BY DEF Resume
<1>2. ReportInv'
  BY <1>1 DEF ReportInv
<1>3. ArtifactInv' /\ SnapshotInv' /\ RecordedInv' /\ FaultsInv'
  BY <1>1 DEF Inv, ArtifactInv, SnapshotInv, RecordedInv, FaultsInv, IsRecorded
<1> QED
  BY <1>2, <1>3 DEF Inv

LEMMA ExtractInv ==
  ASSUME Inv, ExtractSnapshot
  PROVE  Inv'
<1>1. PICK s \in SnapshotsAt(The(artifact)) : snapshot' = Some(s)
  BY DEF ExtractSnapshot
<1>2. /\ artifact # None /\ report' = NoReport
      /\ artifact' = artifact /\ recorded' = recorded /\ faults' = faults
  BY DEF ExtractSnapshot
<1>3. PICK c \in SnapshotsOf(The(artifact).records) :
        s = SnapshotArtifact(The(artifact).base_seed, The(artifact).config_identity, c)
  BY DEF SnapshotsAt
<1>4. The(artifact).config_identity \in Configs
  BY <1>2 DEF Inv, ArtifactInv
<1>5. /\ SnapshotArtifactShape(s) /\ s.format = Current /\ s.config_identity \in Configs
      /\ The(Some(s)) = s
  BY <1>3, <1>4, SnapshotArtifactIs
<1>6. SnapshotInv'
  BY <1>1, <1>5 DEF SnapshotInv
<1>7. ArtifactInv' /\ RecordedInv' /\ FaultsInv' /\ ReportInv'
  BY <1>2 DEF Inv, ArtifactInv, RecordedInv, FaultsInv, IsRecorded, ReportInv
<1> QED
  BY <1>6, <1>7 DEF Inv

LEMMA ManualInv ==
  ASSUME Inv, recorded # None, NEW n \in 0..Len(The(recorded).records), ManualSnapshot(n)
  PROVE  Inv'
<1> DEFINE a   == The(recorded)
           run == RunFrames(Build(a.config_identity, a.base_seed), InitialState(a.config_identity),
                            SubSeq(InputsOf(a.records), 1, n))
           c   == SnapshotRecord(Manual, run.state)
           s   == SnapshotArtifact(a.base_seed, a.config_identity, c)
<1>1. snapshot' = Some(s) /\ report' = NoReport /\ artifact' = artifact /\ recorded' = recorded /\ faults' = faults
  BY DEF ManualSnapshot
<1> HIDE DEF c
<1>2. a.config_identity \in Configs
  BY RecordedFacts DEF Inv, RecordedInv
<1>3. /\ SnapshotArtifactShape(s) /\ s.format = Current /\ s.config_identity \in Configs
      /\ The(Some(s)) = s
  BY <1>2, SnapshotArtifactIs
<1> HIDE DEF s
<1>4. SnapshotInv'
  BY <1>1, <1>3 DEF SnapshotInv
<1>5. ArtifactInv' /\ RecordedInv' /\ FaultsInv' /\ ReportInv'
  BY <1>1 DEF Inv, ArtifactInv, RecordedInv, FaultsInv, IsRecorded, ReportInv
<1> QED
  BY <1>4, <1>5 DEF Inv

LEMMA StoreReplayInv ==
  ASSUME Inv, StoreReplay
  PROVE  Inv'
<1>1. PICK a \in ArtifactChanged(The(artifact)) : Decodes(a) /\ artifact' = Some(a) /\ faults' = faults + 1
  BY DEF StoreReplay
<1>2. artifact # None /\ faults < MaxFaults /\ report' = NoReport /\ snapshot' = snapshot /\ recorded' = recorded
  BY DEF StoreReplay
<1>3. ArtifactShape(The(artifact)) /\ The(artifact).config_identity \in Configs
  BY <1>2 DEF Inv, ArtifactInv
<1>4. ArtifactShape(a) /\ a.config_identity \in Configs
  BY <1>3, ChangedArtifactShape
<1>5. The(artifact') = a
  BY <1>1 DEF The, Some
<1>6. ArtifactInv'
  BY <1>1, <1>4, <1>5 DEF ArtifactInv
<1>7. FaultsInv'
  BY <1>1, <1>2, FaultsAssumption DEF Inv, FaultsInv
<1>8. RecordedInv'
  BY <1>2 DEF Inv, RecordedInv, IsRecorded
<1>9. SnapshotInv' /\ ReportInv'
  BY <1>2 DEF Inv, SnapshotInv, ReportInv
<1> QED
  BY <1>6, <1>7, <1>8, <1>9 DEF Inv

LEMMA StoreSnapshotInv ==
  ASSUME Inv, StoreSnapshot
  PROVE  Inv'
<1>1. PICK s \in SnapshotArtifactChanged(The(snapshot)) :
        SnapshotDecodes(s) /\ snapshot' = Some(s) /\ faults' = faults + 1
  BY DEF StoreSnapshot
<1>2. snapshot # None /\ faults < MaxFaults /\ report' = NoReport /\ artifact' = artifact /\ recorded' = recorded
  BY DEF StoreSnapshot
<1>3. SnapshotArtifactShape(The(snapshot)) /\ The(snapshot).config_identity \in Configs
  BY <1>2 DEF Inv, SnapshotInv
<1>4. SnapshotArtifactShape(s) /\ s.config_identity \in Configs
  BY <1>3, ChangedSnapshotArtifactShape
<1>5. The(snapshot') = s
  BY <1>1 DEF The, Some
<1>6. SnapshotInv'
  BY <1>1, <1>4, <1>5 DEF SnapshotInv, SnapshotDecodes
<1>7. FaultsInv'
  BY <1>1, <1>2, FaultsAssumption DEF Inv, FaultsInv
<1>8. ArtifactInv' /\ RecordedInv' /\ ReportInv'
  BY <1>2 DEF Inv, ArtifactInv, RecordedInv, IsRecorded, ReportInv
<1> QED
  BY <1>6, <1>7, <1>8 DEF Inv

LEMMA NextInv ==
  ASSUME Inv, [Next]_vars
  PROVE  Inv'
<1>1. CASE Next
  BY <1>1, RecordInv, VerifyInv, ResumeInv, ExtractInv, ManualInv, StoreReplayInv, StoreSnapshotInv DEF Next
<1>2. CASE UNCHANGED vars
  BY <1>2 DEF vars, Inv, ArtifactInv, SnapshotInv, RecordedInv, IsRecorded, ReportInv, FaultsInv
<1> QED
  BY <1>1, <1>2

LEMMA Invariance == Spec => []Inv
<1>1. Init => Inv
  BY InitInv
<1>2. Inv /\ [Next]_vars => Inv'
  BY NextInv
<1> QED
  BY <1>1, <1>2, PTL DEF Spec

-----------------------------------------------------------------------------
(***************************************************************************)
(* The theorems.                                                           *)
(***************************************************************************)
LEMMA ReportFields ==
  ASSUME NEW call, NEW config, NEW out
  PROVE  /\ Report(call, config, out).call = call /\ Report(call, config, out).config = config
         /\ Report(call, config, out).outcome = out
BY DEF Report

LEMMA NoReportCall == NoReport.call = "none"
BY DEF NoReport

\* What a report of one of the calls says.
LEMMA ReportIs ==
  ASSUME Inv
  PROVE  /\ report.call \in {"none", "record", "verify", "resume"}
         /\ report.call = "record" =>
              \E config \in Configs, seed \in Seeds, frames \in Inputs :
                report.config = config /\ report.outcome = RecordReplay(config, seed, frames)
         /\ report.call = "verify" =>
              /\ artifact # None /\ report.config \in Configs
              /\ report.outcome = VerifyReplay(report.config, The(artifact))
         /\ report.call = "resume" =>
              /\ artifact # None /\ snapshot # None /\ report.config \in Configs
              /\ report.outcome = ResumeReplay(report.config, The(snapshot), The(artifact))
<1>1. ReportInv
  BY DEF Inv
<1>2. CASE report = NoReport
  BY <1>2, NoReportCall
<1>3. ASSUME NEW config \in Configs, NEW seed \in Seeds, NEW frames \in Inputs,
             report = Report("record", config, RecordReplay(config, seed, frames))
      PROVE  report.call = "record" /\ report.config = config /\ report.outcome = RecordReplay(config, seed, frames)
  BY <1>3, ReportFields
<1>4. ASSUME artifact # None, NEW config \in Configs,
             report = Report("verify", config, VerifyReplay(config, The(artifact)))
      PROVE  report.call = "verify" /\ report.config = config /\ report.outcome = VerifyReplay(config, The(artifact))
  BY <1>4, ReportFields
<1>5. ASSUME artifact # None, snapshot # None, NEW config \in Configs,
             report = Report("resume", config, ResumeReplay(config, The(snapshot), The(artifact)))
      PROVE  /\ report.call = "resume" /\ report.config = config
             /\ report.outcome = ResumeReplay(config, The(snapshot), The(artifact))
  BY <1>5, ReportFields
<1> QED
  BY <1>1, <1>2, <1>3, <1>4, <1>5 DEF ReportInv

(***************************************************************************)
(* Of every domain, plan and storage fault: an artifact that verifies is   *)
(* the one that recording its inputs yields, but for the policy it names,  *)
(* and the result is the recording's (execute_replay_verify).              *)
(***************************************************************************)
THEOREM VerifiedAreGenuine == Spec => []VerifiedReplaysAreGenuine
<1>1. Inv => VerifiedReplaysAreGenuine
  <2> SUFFICES ASSUME Inv, report.call = "verify", report.outcome.status = "Ok"
               PROVE  LET a        == The(report.outcome.artifact)
                          original == RecordReplay(report.config, a.base_seed, InputsOf(a.records))
                      IN  [report.outcome EXCEPT
                             !.artifact = Some([a EXCEPT !.snapshot_policy = report.config.snapshot_policy])] = original
    BY DEF VerifiedReplaysAreGenuine
  <2> DEFINE a      == The(artifact)
             config == report.config
             out    == VerifyReplay(config, a)
  <2>1. artifact # None /\ report.outcome = out /\ out.status = "Ok"
    BY ReportIs
  <2>2. ArtifactShape(a) /\ a.format = Current /\ AllRestorable(a.records)
    BY <2>1 DEF Inv, ArtifactInv, Decodes
  <2>3. out = WholeReplay(a)
    BY <2>1, <2>2, VerifiedIs
  <2>4. [out EXCEPT !.artifact = Some([a EXCEPT !.snapshot_policy = config.snapshot_policy])]
          = RecordReplay(config, a.base_seed, InputsOf(a.records))
    BY <2>1, <2>2, VerifiedIsGenuine
  <2> HIDE DEF out, a, config
  <2>5. WholeReplay(a).artifact = Some(a)
    BY DEF WholeReplay, Success
  <2>6. The(report.outcome.artifact) = a
    BY <2>1, <2>3, <2>5 DEF The, Some
  <2> QED
    BY <2>1, <2>4, <2>6 DEF config
<1> QED
  BY <1>1, Invariance, PTL

(***************************************************************************)
(* Likewise, a resumed replay has run all inputs behind its snapshot, each *)
(* in its tick, and ends where they lead (execute_replay_from_snapshot).   *)
(***************************************************************************)
THEOREM ResumedAreGenuine == Spec => []ResumedReplaysAreGenuine
<1>1. Inv => ResumedReplaysAreGenuine
  <2> SUFFICES ASSUME Inv, report.call = "resume", report.outcome.status = "Ok"
               PROVE  LET a    == The(artifact)
                          s    == The(snapshot)
                          rest == SubSeq(a.records, s.payload.tick + 1, Len(a.records))
                          run  == RunFrames(Build(report.config, a.base_seed), s.payload, InputsOf(rest))
                          full == VerifyReplay(report.config, a)
                      IN  /\ run.status = "Ok"
                          /\ run.records = rest
                          /\ report.outcome.checksum = Some(run.state)
                          /\ report.outcome.tick = Len(a.records)
                          /\ full.status = "Ok" => report.outcome = full
    BY DEF ResumedReplaysAreGenuine
  <2> DEFINE a      == The(artifact)
             s      == The(snapshot)
             config == report.config
             out    == ResumeReplay(config, s, a)
             rest   == RestOf(s, a)
             run    == RunOfRest(config, s, a)
             full   == VerifyReplay(config, a)
  <2>1. artifact # None /\ snapshot # None /\ report.outcome = out /\ out.status = "Ok"
    BY ReportIs
  <2>2. ArtifactShape(a) /\ a.format = Current /\ SnapshotArtifactShape(s)
    BY <2>1 DEF Inv, ArtifactInv, SnapshotInv, Decodes
  <2>3. /\ run.status = "Ok" /\ run.records = rest
        /\ out = WholeReplay(a) /\ out.checksum = Some(run.state) /\ out.tick = Len(a.records)
    BY <2>1, <2>2, ResumedIsGenuine
  <2>4. full.status = "Ok" => full = WholeReplay(a)
    BY <2>2, VerifiedIs
  <2> HIDE DEF out, run, rest, full
  <2>5. /\ run.status = "Ok" /\ run.records = rest
        /\ report.outcome.checksum = Some(run.state) /\ report.outcome.tick = Len(a.records)
        /\ full.status = "Ok" => report.outcome = full
    BY <2>1, <2>3, <2>4
  <2> QED
    BY <2>5 DEF run, rest, full, RestOf, RunOfRest
<1> QED
  BY <1>1, Invariance, PTL

(***************************************************************************)
(* And what was recorded repeats: verified as it is, or resumed from any   *)
(* of its snapshots, it yields what the recording did.                     *)
(***************************************************************************)
THEOREM RecordedRepeat == Spec => []RecordedReplaysRepeat
<1>1. Inv => RecordedReplaysRepeat
  <2> SUFFICES ASSUME Inv,
                      \/ report.call = "verify"
                      \/ report.call = "resume" /\ The(snapshot) \in SnapshotsAt(The(recorded)),
                      artifact = recorded, report.config = The(recorded).config_identity
               PROVE  report.outcome =
                        RecordReplay(The(recorded).config_identity, The(recorded).base_seed,
                                     InputsOf(The(recorded).records))
    BY DEF RecordedReplaysRepeat
  <2>1. recorded # None
    BY ReportIs
  <2>2. PICK config \in Configs, seed \in Seeds, frames \in Inputs :
          /\ RecordReplay(config, seed, frames).status = "Ok"
          /\ The(recorded) = ArtifactOf(config, seed, Original(config, seed, frames).records)
    BY <2>1, RecordedFacts DEF Inv, RecordedInv
  <2> DEFINE rs == Original(config, seed, frames).records
             a  == ArtifactOf(config, seed, rs)
  <2>3. IsSequence(frames)
    BY InputsAreSequences
  <2>4. a.base_seed = seed /\ a.config_identity = config /\ a.records = rs /\ The(recorded) = a
    BY <2>2 DEF ArtifactOf
  <2>5. InputsOf(rs) = frames
    BY <2>2, <2>3, WhatIsRecorded
  <2>6. RecordReplay(The(recorded).config_identity, The(recorded).base_seed, InputsOf(The(recorded).records))
          = RecordReplay(config, seed, frames)
    BY <2>4, <2>5
  <2>7. VerifyReplay(config, a) = RecordReplay(config, seed, frames)
    BY <2>2, <2>3, RecordedVerifies
  <2>8. \A c \in SnapshotsOf(rs) :
          ResumeReplay(config, SnapshotArtifact(seed, config, c), a) = RecordReplay(config, seed, frames)
    BY <2>2, <2>3, RecordedResumes
  <2> HIDE DEF a, rs
  <2>9. CASE report.call = "verify"
    BY <2>4, <2>6, <2>7, <2>9, ReportIs
  <2>10. CASE report.call = "resume" /\ The(snapshot) \in SnapshotsAt(The(recorded))
    <3>1. PICK c \in SnapshotsOf(rs) : The(snapshot) = SnapshotArtifact(seed, config, c)
      BY <2>4, <2>10 DEF SnapshotsAt
    <3>2. report.outcome = ResumeReplay(config, The(snapshot), a)
      BY <2>4, <2>10, ReportIs
    <3> QED
      BY <2>6, <2>8, <3>1, <3>2
  <2> QED
    BY <2>9, <2>10
<1> QED
  BY <1>1, Invariance, PTL

-----------------------------------------------------------------------------
(***************************************************************************)
(* What also takes a domain whose snapshots of its runs are accepted.      *)
(***************************************************************************)
RestorableInv == snapshot # None => Restorable(The(snapshot).payload)

\* Which a domain accepts, at each beginning of the inputs.
LEMMA BeginningsAreRestorable ==
  ASSUME RunsAreRestorable, NEW config \in Configs, NEW seed \in Seeds, NEW frames \in Inputs
  PROVE  BeginningsRestorable(config, seed, frames)
BY DEF RunsAreRestorable, BeginningsRestorable, Original

\* The state of an engine that has some of the recorded inputs behind it.
LEMMA ManualIsRestorable ==
  ASSUME RunsAreRestorable, Inv, recorded # None, NEW n \in 0..Len(The(recorded).records), ManualSnapshot(n)
  PROVE  RestorableInv'
<1>1. PICK config \in Configs, seed \in Seeds, frames \in Inputs :
        /\ RecordReplay(config, seed, frames).status = "Ok"
        /\ The(recorded) = ArtifactOf(config, seed, Original(config, seed, frames).records)
  BY RecordedFacts DEF Inv, RecordedInv
<1> DEFINE rs  == Original(config, seed, frames).records
           a   == The(recorded)
           e   == Build(config, seed)
           i   == InitialState(config)
           run == RunFrames(e, i, SubSeq(frames, 1, n))
           c   == SnapshotRecord(Manual, run.state)
           s   == SnapshotArtifact(seed, config, c)
<1>2. a.base_seed = seed /\ a.config_identity = config /\ a.records = rs
  BY <1>1 DEF ArtifactOf
<1>3. IsSequence(frames)
  BY InputsAreSequences
<1>4. Len(rs) = Len(frames) /\ InputsOf(rs) = frames /\ Original(config, seed, frames).status = "Ok"
  BY <1>1, <1>3, WhatIsRecorded
<1>5. n \in 0..Len(frames)
  BY <1>2, <1>4
<1>6. run.status = "Ok"
  <2>1. Len(e.plan) \in Nat /\ StateShape(i)
    BY BuildIs
  <2>2. RunFrames(e, i, frames).status = "Ok"
    BY <1>4 DEF Original
  <2> HIDE DEF e, i
  <2> QED
    BY <1>3, <1>5, <2>1, <2>2, RunBegins
<1>7. Restorable(run.state)
  BY <1>5, <1>6, BeginningsAreRestorable DEF BeginningsRestorable, Original
<1>8. snapshot' = Some(s)
  BY <1>2, <1>4 DEF ManualSnapshot
<1>9. c.payload = run.state
  BY DEF SnapshotRecord
<1> HIDE DEF run, c
<1>10. s.payload = c.payload /\ The(Some(s)) = s
  BY SnapshotArtifactIs
<1> HIDE DEF s
<1> QED
  BY <1>7, <1>8, <1>9, <1>10 DEF RestorableInv

LEMMA NextRestorable ==
  ASSUME RunsAreRestorable, Inv, RestorableInv, [Next]_vars
  PROVE  RestorableInv'
<1>1. CASE UNCHANGED snapshot
  BY <1>1 DEF RestorableInv
<1>2. CASE ExtractSnapshot
  <2>1. PICK s \in SnapshotsAt(The(artifact)) : snapshot' = Some(s)
    BY <1>2 DEF ExtractSnapshot
  <2>2. PICK c \in SnapshotsOf(The(artifact).records) :
          s = SnapshotArtifact(The(artifact).base_seed, The(artifact).config_identity, c)
    BY DEF SnapshotsAt
  <2>3. Restorable(c.payload)
    BY <1>2 DEF ExtractSnapshot, Inv, ArtifactInv, Decodes, AllRestorable
  <2>4. s.payload = c.payload /\ The(Some(s)) = s
    BY <2>2, SnapshotArtifactIs
  <2> QED
    BY <2>1, <2>3, <2>4 DEF RestorableInv
<1>3. CASE recorded # None /\ \E n \in 0..Len(The(recorded).records) : ManualSnapshot(n)
  BY <1>3, ManualIsRestorable
<1>4. CASE StoreSnapshot
  <2>1. PICK s : SnapshotDecodes(s) /\ snapshot' = Some(s)
    BY <1>4 DEF StoreSnapshot
  <2>2. The(snapshot') = s
    BY <2>1 DEF The, Some
  <2> QED
    BY <2>1, <2>2 DEF RestorableInv, SnapshotDecodes
<1> QED
  BY <1>1, <1>2, <1>3, <1>4 DEF Next, Record, Verify, Resume, StoreReplay, vars

(***************************************************************************)
(* Then whatever the host has can be read back (the imports of the API).   *)
(***************************************************************************)
THEOREM TypeCorrect ==
  ASSUME RunsAreRestorable
  PROVE  Spec => []TypeOK
<1>1. Init => RestorableInv
  BY DEF Init, RestorableInv
<1>2. Inv /\ RestorableInv /\ [Next]_vars => RestorableInv'
  BY NextRestorable
<1>3. Inv /\ RestorableInv => TypeOK
  <2> SUFFICES ASSUME Inv, RestorableInv
               PROVE  TypeOK
    OBVIOUS
  <2>1. artifact # None => Decodes(The(artifact)) /\ The(artifact).config_identity \in Configs
    BY DEF Inv, ArtifactInv
  <2>2. snapshot # None => SnapshotDecodes(The(snapshot)) /\ The(snapshot).config_identity \in Configs
    BY DEF Inv, SnapshotInv, RestorableInv, SnapshotDecodes
  <2>3. report.call \in {"none", "record", "verify", "resume"}
    BY ReportIs
  <2> QED
    BY <2>1, <2>2, <2>3 DEF TypeOK, Inv, RecordedInv, FaultsInv
<1> QED
  BY <1>1, <1>2, <1>3, Invariance, PTL DEF Spec

(***************************************************************************)
(* And every run of ticks that all succeed yields an artifact, as the plan *)
(* finalizes at most once: the ticks, the checkpoints and the snapshots    *)
(* the engine has written are those record_replay's own checks ask for.    *)
(***************************************************************************)
THEOREM RecordingsCanBeRead ==
  ASSUME RunsAreRestorable, OneFinalizePhase, InputsEndInTime
  PROVE  Spec => []RecordModeEmits
<1>1. Inv => RecordModeEmits
  <2> SUFFICES ASSUME Inv, report.call = "record"
               PROVE  report.outcome.status \notin {"CorruptedArtifact", "SnapshotSerialization"}
    BY DEF RecordModeEmits
  <2>1. PICK config \in Configs, seed \in Seeds, frames \in Inputs :
          report.outcome = RecordReplay(config, seed, frames)
    BY ReportIs
  <2>2. IsSequence(frames) /\ Len(frames) <= MaxTick /\ Len(frames) \in Nat
    BY InputsAreSequences DEF InputsEndInTime, IsSequence
  <2>3. \/ RecordReplay(config, seed, frames).status = "Ok"
        \/ RecordReplay(config, seed, frames).status = Original(config, seed, frames).status
    BY <2>2, BeginningsAreRestorable, RecordingEnds
  <2>4. Original(config, seed, frames).status \in TickStatuses
    <3> DEFINE e == Build(config, seed)
               i == InitialState(config)
    <3>1. Len(e.plan) \in Nat
      BY BuildIs
    <3> HIDE DEF e, i
    <3>2. RunFrames(e, i, frames).status \in TickStatuses
      BY <2>2, <3>1, RunStatus
    <3> QED
      BY <3>2 DEF Original, e, i
  <2> QED
    BY <2>1, <2>3, <2>4 DEF TickStatuses
<1> QED
  BY <1>1, Invariance, PTL

-----------------------------------------------------------------------------
(***************************************************************************)
(* Summaries, scenarios and fixtures as records.                           *)
(***************************************************************************)
SummaryShape(y) ==
  y = [format          |-> y.format,
       base_seed       |-> y.base_seed,
       final_tick      |-> y.final_tick,
       final_checksum  |-> y.final_checksum,
       config_digest   |-> y.config_digest,
       replay_digest   |-> y.replay_digest,
       snapshot_digest |-> y.snapshot_digest,
       scenario_digest |-> y.scenario_digest]

ScenarioShape(s) ==
  /\ s = [config_artifact |-> s.config_artifact, base_seed |-> s.base_seed, frames |-> s.frames,
          expected_parity_summary |-> s.expected_parity_summary]
  /\ IsSequence(s.frames)

FixtureShape(f) ==
  /\ f = [config_artifact |-> f.config_artifact, scenario_artifact |-> f.scenario_artifact,
          replay_artifact |-> f.replay_artifact, snapshot_artifact |-> f.snapshot_artifact,
          summary |-> f.summary]
  /\ ArtifactShape(f.replay_artifact)
  /\ SummaryShape(f.summary)
  /\ f.scenario_artifact # None =>
       f.scenario_artifact = Some(The(f.scenario_artifact)) /\ ScenarioShape(The(f.scenario_artifact))

\* Two summaries agree in the fields that are compared.
Agree(y, z) ==
  /\ y.base_seed = z.base_seed /\ y.final_tick = z.final_tick /\ y.final_checksum = z.final_checksum
  /\ y.config_digest = z.config_digest /\ y.replay_digest = z.replay_digest
  /\ y.snapshot_digest = z.snapshot_digest /\ y.scenario_digest = z.scenario_digest

LEMMA ParityIs ==
  ASSUME NEW y, NEW z
  PROVE  CompareParity(y, z) = {} <=> Agree(y, z)
<1> DEFINE F == {"base_seed", "final_tick", "final_checksum", "config_digest",
                 "replay_digest", "snapshot_digest", "scenario_digest"}
<1>1. CompareParity(y, z) = {} <=> \A f \in F : y[f] = z[f]
  BY DEF CompareParity
<1>2. (\A f \in F : y[f] = z[f]) <=> Agree(y, z)
  BY DEF Agree
<1> QED
  BY <1>1, <1>2

LEMMA SomeIs ==
  ASSUME NEW x
  PROVE  The(Some(x)) = x /\ Some(x) # None /\ \A y : Some(x) = Some(y) => x = y
BY DEF The, Some, None

\* What the summary of a recording, and that of a fixture, says.
LEMMA SummaryIs ==
  ASSUME NEW a
  PROVE  LET y == SummaryOf(a)
         IN  /\ SummaryShape(y) /\ y.format = a.format /\ y.base_seed = a.base_seed
             /\ y.final_tick = a.total_ticks /\ y.final_checksum = LastChecksum(a.records)
             /\ y.config_digest = a.config_identity /\ y.replay_digest = a
             /\ y.snapshot_digest = FinalSnapshot(a, a.records) /\ y.scenario_digest = None
BY DEF SummaryOf, SummaryShape

LEMMA SummaryWithIs ==
  ASSUME NEW digest, NEW recording, NEW a, recording.artifact = Some(a)
  PROVE  LET y == SummaryWith(digest, recording)
         IN  /\ SummaryShape(y) /\ y.format = a.format /\ y.base_seed = a.base_seed
             /\ y.final_tick = a.total_ticks /\ y.final_checksum = LastChecksum(a.records)
             /\ y.config_digest = a.config_identity /\ y.replay_digest = a
             /\ y.snapshot_digest = FinalSnapshot(a, a.records) /\ y.scenario_digest = digest
<1> DEFINE z == SummaryOf(a)
<1>1. SummaryWith(digest, recording) = [z EXCEPT !.scenario_digest = digest]
  BY SomeIs DEF SummaryWith
<1>2. /\ SummaryShape(z) /\ z.format = a.format /\ z.base_seed = a.base_seed
      /\ z.final_tick = a.total_ticks /\ z.final_checksum = LastChecksum(a.records)
      /\ z.config_digest = a.config_identity /\ z.replay_digest = a
      /\ z.snapshot_digest = FinalSnapshot(a, a.records)
  BY SummaryIs
<1> HIDE DEF z
<1> QED
  BY <1>1, <1>2 DEF SummaryShape

\* A summary with one digest or the other replaced.
LEMMA DigestReplaced ==
  ASSUME NEW z, SummaryShape(z), NEW x
  PROVE  /\ [z EXCEPT !.snapshot_digest = x] =
              [format |-> z.format, base_seed |-> z.base_seed, final_tick |-> z.final_tick,
               final_checksum |-> z.final_checksum, config_digest |-> z.config_digest,
               replay_digest |-> z.replay_digest, snapshot_digest |-> x, scenario_digest |-> z.scenario_digest]
         /\ [z EXCEPT !.scenario_digest = x] =
              [format |-> z.format, base_seed |-> z.base_seed, final_tick |-> z.final_tick,
               final_checksum |-> z.final_checksum, config_digest |-> z.config_digest,
               replay_digest |-> z.replay_digest, snapshot_digest |-> z.snapshot_digest, scenario_digest |-> x]
<1> DEFINE Y(a, b, c, d, e, f, g, h) ==
             [format |-> a, base_seed |-> b, final_tick |-> c, final_checksum |-> d, config_digest |-> e,
              replay_digest |-> f, snapshot_digest |-> g, scenario_digest |-> h]
<1>1. \A a, b, c, d, e, f, g, h :
        /\ [Y(a, b, c, d, e, f, g, h) EXCEPT !.snapshot_digest = x] = Y(a, b, c, d, e, f, x, h)
        /\ [Y(a, b, c, d, e, f, g, h) EXCEPT !.scenario_digest = x] = Y(a, b, c, d, e, f, g, x)
  OBVIOUS
<1>2. z = Y(z.format, z.base_seed, z.final_tick, z.final_checksum, z.config_digest, z.replay_digest,
            z.snapshot_digest, z.scenario_digest)
  BY DEF SummaryShape
<1> HIDE DEF Y
<1>3. /\ [z EXCEPT !.snapshot_digest = x] =
           Y(z.format, z.base_seed, z.final_tick, z.final_checksum, z.config_digest, z.replay_digest,
             x, z.scenario_digest)
      /\ [z EXCEPT !.scenario_digest = x] =
           Y(z.format, z.base_seed, z.final_tick, z.final_checksum, z.config_digest, z.replay_digest,
             z.snapshot_digest, x)
  BY <1>1, <1>2
<1> QED
  BY <1>3 DEF Y

LEMMA FixtureSummaryIs ==
  ASSUME NEW with, NEW a, NEW x
  PROVE  LET y == FixtureSummary(with, a, x)
         IN  /\ SummaryShape(y) /\ y.format = a.format /\ y.base_seed = a.base_seed
             /\ y.final_tick = a.total_ticks /\ y.final_checksum = LastChecksum(a.records)
             /\ y.config_digest = a.config_identity /\ y.replay_digest = a
             /\ y.snapshot_digest = (IF x # None THEN x ELSE FinalSnapshot(a, a.records))
             /\ y.scenario_digest = ScenarioDigest(with)
<1> DEFINE z == SummaryOf(a)
           snap == IF x # None THEN x ELSE z.snapshot_digest
           scen == IF with # None THEN Some(Contract(The(with))) ELSE z.scenario_digest
           y == [z EXCEPT !.snapshot_digest = snap, !.scenario_digest = scen]
<1>1. FixtureSummary(with, a, x) = y
  BY DEF FixtureSummary
<1>2. /\ SummaryShape(z) /\ z.format = a.format /\ z.base_seed = a.base_seed
      /\ z.final_tick = a.total_ticks /\ z.final_checksum = LastChecksum(a.records)
      /\ z.config_digest = a.config_identity /\ z.replay_digest = a
      /\ z.snapshot_digest = FinalSnapshot(a, a.records) /\ z.scenario_digest = None
  BY SummaryIs
<1>3. snap = (IF x # None THEN x ELSE FinalSnapshot(a, a.records)) /\ scen = ScenarioDigest(with)
  BY <1>2 DEF ScenarioDigest
<1> HIDE DEF z, snap, scen
<1>4. /\ SummaryShape(y) /\ y.format = z.format /\ y.base_seed = z.base_seed
      /\ y.final_tick = z.final_tick /\ y.final_checksum = z.final_checksum
      /\ y.config_digest = z.config_digest /\ y.replay_digest = z.replay_digest
      /\ y.snapshot_digest = snap /\ y.scenario_digest = scen
  <2> DEFINE v == [z EXCEPT !.snapshot_digest = snap]
             u == [v EXCEPT !.scenario_digest = scen]
  <2>1. y = u
    OBVIOUS
  <2>2. /\ SummaryShape(v) /\ v.format = z.format /\ v.base_seed = z.base_seed
        /\ v.final_tick = z.final_tick /\ v.final_checksum = z.final_checksum
        /\ v.config_digest = z.config_digest /\ v.replay_digest = z.replay_digest
        /\ v.snapshot_digest = snap
    BY <1>2, DigestReplaced DEF SummaryShape
  <2> HIDE DEF v
  <2>3. /\ SummaryShape(u) /\ u.format = v.format /\ u.base_seed = v.base_seed
        /\ u.final_tick = v.final_tick /\ u.final_checksum = v.final_checksum
        /\ u.config_digest = v.config_digest /\ u.replay_digest = v.replay_digest
        /\ u.snapshot_digest = v.snapshot_digest /\ u.scenario_digest = scen
    BY <2>2, DigestReplaced DEF SummaryShape
  <2> HIDE DEF u, y
  <2> QED
    BY <2>1, <2>2, <2>3
<1> HIDE DEF y
<1> QED
  BY <1>1, <1>2, <1>3, <1>4

-----------------------------------------------------------------------------
(***************************************************************************)
(* What executing a scenario returns, and the fixture that is made of it.  *)
(***************************************************************************)
RecordedArtifact(config, seed, fs) == ArtifactOf(config, seed, Original(config, seed, fs).records)

LEMMA RecordingIs ==
  ASSUME NEW config, NEW seed, NEW fs, IsSequence(fs), RecordReplay(config, seed, fs).status = "Ok"
  PROVE  LET a == RecordedArtifact(config, seed, fs)
             r == RecordReplay(config, seed, fs)
         IN  /\ r = WholeReplay(a) /\ r.artifact = Some(a)
             /\ r.snapshot = FinalSnapshot(a, a.records) /\ r.checksum = LastChecksum(a.records)
             /\ ArtifactShape(a) /\ Decodes(a) /\ a.format = Current
             /\ a.base_seed = seed /\ a.config_identity = config /\ a.snapshot_policy = config.snapshot_policy
             /\ InputsOf(a.records) = fs
<1> DEFINE rs == Original(config, seed, fs).records
           a  == ArtifactOf(config, seed, rs)
<1>1. RecordReplay(config, seed, fs) = WholeReplay(a) /\ InputsOf(rs) = fs /\ AllRestorable(rs)
  BY WhatIsRecorded
<1>2. ArtifactShape(a) /\ ValidForState(a)
  BY RecordedIsValid
<1>3. /\ a.format = Current /\ a.base_seed = seed /\ a.config_identity = config
      /\ a.snapshot_policy = config.snapshot_policy /\ a.records = rs
  BY DEF ArtifactOf
<1> HIDE DEF a
<1>4. Decodes(a)
  BY <1>1, <1>2, <1>3 DEF Decodes, ValidForState
<1>5. /\ WholeReplay(a).artifact = Some(a) /\ WholeReplay(a).snapshot = FinalSnapshot(a, a.records)
      /\ WholeReplay(a).checksum = LastChecksum(a.records)
  BY DEF WholeReplay, Success
<1> QED
  BY <1>1, <1>2, <1>3, <1>4, <1>5 DEF RecordedArtifact, a

\* What an execution is, of a scenario whose run succeeds and of one whose does not.
LEMMA ExecutionIs ==
  ASSUME NEW s
  PROVE  LET r == RecordReplay(s.config_artifact, s.base_seed, s.frames)
             x == Execute(s)
         IN  /\ x.status = r.status
             /\ r.status # "Ok" => x.parity_summary = None
             /\ r.status = "Ok" => /\ x.replay = r.artifact /\ x.final_snapshot = r.snapshot
                                   /\ x.parity_summary = Some(SummaryWith(Some(Contract(s)), r))
<1> DEFINE r == RecordReplay(s.config_artifact, s.base_seed, s.frames)
           y == SummaryWith(Some(Contract(s)), r)
<1>1. Execute(s) = Executed(s, r)
  BY DEF Execute
<1> HIDE DEF r
<1>2. Executed(s, r) =
        IF r.status # "Ok"
        THEN [status |-> r.status, replay |-> None, final_snapshot |-> None, parity_summary |-> None]
        ELSE [status |-> "Ok", replay |-> r.artifact, final_snapshot |-> r.snapshot, parity_summary |-> Some(y)]
  BY DEF Executed
<1> HIDE DEF y
<1>3. CASE r.status # "Ok"
  BY <1>1, <1>2, <1>3 DEF r
<1>4. CASE r.status = "Ok"
  BY <1>1, <1>2, <1>4 DEF r, y
<1> QED
  BY <1>3, <1>4

\* The artifact a scenario records.
Replay(s) == RecordedArtifact(s.config_artifact, s.base_seed, s.frames)

LEMMA ExecutedIs ==
  ASSUME NEW s, ScenarioShape(s), Execute(s).status = "Ok"
  PROVE  LET a == Replay(s)
             x == Execute(s)
         IN  /\ RecordReplay(s.config_artifact, s.base_seed, s.frames).status = "Ok"
             /\ RecordReplay(s.config_artifact, s.base_seed, s.frames) = WholeReplay(a)
             /\ RecordReplay(s.config_artifact, s.base_seed, s.frames).artifact = Some(a)
             /\ RecordReplay(s.config_artifact, s.base_seed, s.frames).snapshot = FinalSnapshot(a, a.records)
             /\ x.replay = Some(a) /\ x.final_snapshot = FinalSnapshot(a, a.records)
             /\ x.parity_summary =
                  Some(SummaryWith(Some(Contract(s)), RecordReplay(s.config_artifact, s.base_seed, s.frames)))
             /\ ArtifactShape(a) /\ Decodes(a) /\ a.format = Current /\ a.base_seed = s.base_seed
             /\ a.config_identity = s.config_artifact /\ a.snapshot_policy = s.config_artifact.snapshot_policy
             /\ InputsOf(a.records) = s.frames
<1> DEFINE r == RecordReplay(s.config_artifact, s.base_seed, s.frames)
           a == Replay(s)
<1>1. r.status = "Ok" /\ IsSequence(s.frames)
  BY ExecutionIs DEF ScenarioShape
<1>2. /\ r = WholeReplay(a) /\ r.artifact = Some(a) /\ r.snapshot = FinalSnapshot(a, a.records)
      /\ ArtifactShape(a) /\ Decodes(a) /\ a.format = Current /\ a.base_seed = s.base_seed
      /\ a.config_identity = s.config_artifact /\ a.snapshot_policy = s.config_artifact.snapshot_policy
      /\ InputsOf(a.records) = s.frames
  BY <1>1, RecordingIs DEF Replay
<1>3. /\ Execute(s).replay = r.artifact /\ Execute(s).final_snapshot = r.snapshot
      /\ Execute(s).parity_summary = Some(SummaryWith(Some(Contract(s)), r))
  BY <1>1, ExecutionIs
<1> HIDE DEF r, a
<1> QED
  BY <1>1, <1>2, <1>3 DEF r, a

\* The last snapshot of an artifact, if there is one, is one of its snapshots.
LEMMA FinalSnapshotIs ==
  ASSUME NEW a, IsSequence(a.records)
  PROVE  \/ Captured(a.records) = {} /\ FinalSnapshot(a, a.records) = None
         \/ /\ Captured(a.records) # {}
            /\ \E c \in SnapshotsOf(a.records) :
                 FinalSnapshot(a, a.records) = Some(SnapshotArtifact(a.base_seed, a.config_identity, c))
<1> DEFINE C == Captured(a.records)
           c == The(a.records[Max(C)].snapshot)
<1>1. C = {i \in 1..Len(a.records) : a.records[i].snapshot # None} /\ Len(a.records) \in Nat
  BY DEF Captured, IsSequence
<1>2. FinalSnapshot(a, a.records) =
        IF C = {} THEN None ELSE Some(SnapshotArtifact(a.base_seed, a.config_identity, c))
  BY DEF FinalSnapshot
<1>3. CASE C # {}
  <2>1. C \in SUBSET (1..Len(a.records))
    BY <1>1
  <2> HIDE DEF C
  <2>2. PICK m \in C : \A k \in C : k <= m
    BY <1>1, <1>3, <2>1, GreatestExists
  <2>3. Max(C) = m
    BY <1>1, <2>1, <2>2, MaxIs
  <2>4. c \in SnapshotsOf(a.records)
    BY <2>2, <2>3 DEF SnapshotsOf, C
  <2> QED
    BY <1>2, <1>3, <2>4 DEF C
<1> QED
  BY <1>2, <1>3

\* It can be stored, and belongs to the artifact.
LEMMA FinalSnapshotBelongs ==
  ASSUME NEW a, ArtifactShape(a), Decodes(a), FinalSnapshot(a, a.records) # None
  PROVE  LET x == FinalSnapshot(a, a.records)
         IN  /\ SnapshotDecodes(The(x)) /\ Restorable(The(x).payload)
             /\ The(x).base_seed = a.base_seed /\ The(x).config_identity = a.config_identity
<1>1. IsSequence(a.records) /\ AllRestorable(a.records)
  BY DEF ArtifactShape, RecordsShape, Decodes
<1>2. PICK c \in SnapshotsOf(a.records) :
        FinalSnapshot(a, a.records) = Some(SnapshotArtifact(a.base_seed, a.config_identity, c))
  BY <1>1, FinalSnapshotIs
<1> DEFINE s == SnapshotArtifact(a.base_seed, a.config_identity, c)
<1>3. s.format = Current /\ s.payload = c.payload /\ s.base_seed = a.base_seed /\ s.config_identity = a.config_identity
  BY DEF SnapshotArtifact
<1>4. Restorable(c.payload)
  BY <1>1 DEF AllRestorable
<1> HIDE DEF s
<1>5. The(FinalSnapshot(a, a.records)) = s
  BY <1>2, SomeIs DEF s
<1> QED
  BY <1>3, <1>4, <1>5 DEF SnapshotDecodes

\* The artifact and its last snapshot can be exported.
LEMMA RecordedExports ==
  ASSUME NEW a, ArtifactShape(a), Decodes(a)
  PROVE  Exports(a, FinalSnapshot(a, a.records))
<1>1. RecordSequenceValid(a.base_seed, a.snapshot_policy, a.records) /\ AllRestorable(a.records)
  BY DEF Decodes, ShapeValid
<1>2. FinalSnapshot(a, a.records) # None => Restorable(The(FinalSnapshot(a, a.records)).payload)
  BY FinalSnapshotBelongs
<1> QED
  BY <1>1, <1>2 DEF Exports

\* The fixture generated of a scenario that is left out or included.
GeneratedOf(s, with) ==
  FixtureOf(s.config_artifact, with, Replay(s), FinalSnapshot(Replay(s), Replay(s).records))

LEMMA GeneratedIs ==
  ASSUME NEW s, ScenarioShape(s), NEW with \in {None, Some(s)}
  PROVE  GenerateFixture(s.config_artifact, with, Execute(s)) =
           IF Execute(s).status = "Ok" THEN Some(GeneratedOf(s, with)) ELSE None
<1> DEFINE a == Replay(s)
           x == FinalSnapshot(a, a.records)
<1>1. CASE Execute(s).status # "Ok"
  BY <1>1 DEF GenerateFixture
<1>2. CASE Execute(s).status = "Ok"
  <2>1. /\ Execute(s).replay = Some(a) /\ Execute(s).final_snapshot = x
        /\ ArtifactShape(a) /\ Decodes(a) /\ a.base_seed = s.base_seed /\ a.config_identity = s.config_artifact
        /\ a.snapshot_policy = s.config_artifact.snapshot_policy
    BY <1>2, ExecutedIs
  <2>2. Exports(a, x)
    BY <2>1, RecordedExports
  <2>3. x # None => The(x).base_seed = a.base_seed /\ The(x).config_identity = a.config_identity
    BY <2>1, FinalSnapshotBelongs
  <2>4. with # None => The(with).config_artifact = s.config_artifact
    BY SomeIs
  <2> HIDE DEF a, x
  <2>5. FixtureContract(s.config_artifact, with, a, x)
    BY <2>1, <2>3, <2>4 DEF FixtureContract
  <2>6. The(Execute(s).replay) = a
    BY <2>1, SomeIs
  <2>7. BuildFixture(s.config_artifact, with, a, x) = Some(FixtureOf(s.config_artifact, with, a, x))
    BY <2>2, <2>5 DEF BuildFixture
  <2> QED
    BY <1>2, <2>1, <2>6, <2>7 DEF GenerateFixture, GeneratedOf, a, x
<1> QED
  BY <1>1, <1>2

\* A fixture's parts.
LEMMA FixtureIs ==
  ASSUME NEW config, NEW with, NEW a, NEW x
  PROVE  LET f == FixtureOf(config, with, a, x)
         IN  /\ f.config_artifact = config /\ f.scenario_artifact = with /\ f.replay_artifact = a
             /\ f.snapshot_artifact = x /\ f.summary = FixtureSummary(with, a, x)
             /\ f = [config_artifact |-> f.config_artifact, scenario_artifact |-> f.scenario_artifact,
                     replay_artifact |-> f.replay_artifact, snapshot_artifact |-> f.snapshot_artifact,
                     summary |-> f.summary]
<1> DEFINE y == FixtureSummary(with, a, x)
<1> HIDE DEF y
<1>1. FixtureOf(config, with, a, x) =
        [config_artifact |-> config, scenario_artifact |-> with, replay_artifact |-> a,
         snapshot_artifact |-> x, summary |-> y]
  BY DEF FixtureOf, y
<1> QED
  BY <1>1 DEF y

\* What a fixture's summary says is what its parts say.
SummaryAgrees(f) ==
  Agree(FixtureSummary(f.scenario_artifact, f.replay_artifact, f.snapshot_artifact), f.summary)

LEMMA AgreesIs ==
  ASSUME NEW f
  PROVE  FixtureAgrees(f) <=>
           /\ FixtureContract(f.config_artifact, f.scenario_artifact, f.replay_artifact, f.snapshot_artifact)
           /\ ScenarioContract(f.scenario_artifact, f.replay_artifact)
           /\ SummaryAgrees(f)
BY ParityIs DEF FixtureAgrees, SummaryAgrees

\* Of a generated one, the parts belong together and the summary agrees.
LEMMA GeneratedAgrees ==
  ASSUME NEW s, ScenarioShape(s), Execute(s).status = "Ok", NEW with \in {None, Some(s)}
  PROVE  LET f == GeneratedOf(s, with)
         IN  /\ FixtureShape(f) /\ FixtureAgrees(f) /\ FixtureEncodes(f) /\ FixtureDecodes(f)
             /\ f.config_artifact = s.config_artifact /\ f.scenario_artifact = with
             /\ f.replay_artifact = Replay(s)
             /\ f.snapshot_artifact = FinalSnapshot(Replay(s), Replay(s).records)
             /\ f.summary = FixtureSummary(with, f.replay_artifact, f.snapshot_artifact)
<1> DEFINE a == Replay(s)
           x == FinalSnapshot(a, a.records)
           f == FixtureOf(s.config_artifact, with, a, x)
<1>1. /\ ArtifactShape(a) /\ Decodes(a) /\ a.base_seed = s.base_seed /\ a.config_identity = s.config_artifact
      /\ a.snapshot_policy = s.config_artifact.snapshot_policy /\ InputsOf(a.records) = s.frames
  BY ExecutedIs
<1>2. Exports(a, x)
  BY <1>1, RecordedExports
<1>3. x # None => /\ The(x).base_seed = a.base_seed /\ The(x).config_identity = a.config_identity
                  /\ SnapshotDecodes(The(x))
  BY <1>1, FinalSnapshotBelongs
<1>4. with # None => with = Some(The(with)) /\ The(with) = s
  BY SomeIs
<1> HIDE DEF a, x
<1>5. FixtureContract(s.config_artifact, with, a, x) /\ ScenarioContract(with, a)
  BY <1>1, <1>3, <1>4 DEF FixtureContract, ScenarioContract
<1>6. /\ f.config_artifact = s.config_artifact /\ f.scenario_artifact = with /\ f.replay_artifact = a
      /\ f.snapshot_artifact = x /\ f.summary = FixtureSummary(with, a, x)
      /\ f = [config_artifact |-> f.config_artifact, scenario_artifact |-> f.scenario_artifact,
              replay_artifact |-> f.replay_artifact, snapshot_artifact |-> f.snapshot_artifact,
              summary |-> f.summary]
  BY FixtureIs
<1> HIDE DEF f
<1>7. SummaryAgrees(f)
  BY <1>6 DEF SummaryAgrees, Agree
<1>8. FixtureAgrees(f)
  BY <1>5, <1>6, <1>7, AgreesIs
<1>9. FixtureShape(f)
  BY <1>1, <1>4, <1>6, FixtureSummaryIs DEF FixtureShape
<1>10. FixtureEncodes(f) /\ FixtureDecodes(f)
  BY <1>1, <1>2, <1>3, <1>6, <1>8 DEF FixtureEncodes, FixtureDecodes
<1> QED
  BY <1>6, <1>8, <1>9, <1>10 DEF GeneratedOf, f, a, x

-----------------------------------------------------------------------------
(***************************************************************************)
(* Verifying a fixture.                                                    *)
(***************************************************************************)
\* What passing says, part by part.
LEMMA PassedIs ==
  ASSUME NEW f, NEW config, NEW digest, NEW r
  PROVE  LET result == Compare(f, config, digest, r)
         IN  /\ result.status = r.status
             /\ Passed(result) <=>
                  /\ r.status = "Ok"
                  /\ ConfigContract(f, config, digest)
                  /\ ScenarioContract(f.scenario_artifact, f.replay_artifact)
                  /\ Agree(f.summary, SummaryWith(digest, r))
                  /\ Divergence(f.replay_artifact.records, The(r.artifact).records) = None
                  /\ SnapshotsAgree(f.snapshot_artifact, r.snapshot)
<1> DEFINE c1 == ConfigContract(f, config, digest)
           c2 == ScenarioContract(f.scenario_artifact, f.replay_artifact)
           c3 == CompareParity(f.summary, SummaryWith(digest, r)) = {}
           c4 == Divergence(f.replay_artifact.records, The(r.artifact).records) = None
           c5 == SnapshotsAgree(f.snapshot_artifact, r.snapshot)
           agrees == [config |-> c1, scenario |-> c2, summary |-> c3, replay |-> c4, snapshot |-> c5]
           bad == {part \in DOMAIN agrees : ~agrees[part]}
<1>1. Compare(f, config, digest, r) =
        IF r.status # "Ok" THEN [status |-> r.status, mismatches |-> {}]
        ELSE [status |-> "Ok", mismatches |-> bad]
  BY DEF Compare
<1>2. c3 <=> Agree(f.summary, SummaryWith(digest, r))
  BY ParityIs
<1> HIDE DEF c1, c2, c3, c4, c5
<1>3. bad = {} <=> c1 /\ c2 /\ c3 /\ c4 /\ c5
  <2>1. DOMAIN agrees = {"config", "scenario", "summary", "replay", "snapshot"}
    OBVIOUS
  <2>2. /\ agrees["config"] = c1 /\ agrees["scenario"] = c2 /\ agrees["summary"] = c3
        /\ agrees["replay"] = c4 /\ agrees["snapshot"] = c5
    OBVIOUS
  <2> HIDE DEF agrees
  <2> QED
    BY <2>1, <2>2
<1> HIDE DEF bad
<1>4. CASE r.status # "Ok"
  BY <1>1, <1>4 DEF Passed
<1>5. CASE r.status = "Ok"
  BY <1>1, <1>2, <1>3, <1>5 DEF Passed, c1, c2, c4, c5
<1> QED
  BY <1>4, <1>5

\* A generated fixture passes.
LEMMA GeneratedPasses ==
  ASSUME NEW s, ScenarioShape(s), Execute(s).status = "Ok", NEW with \in {None, Some(s)}
  PROVE  Passed(VerifyFixture(GeneratedOf(s, with)))
<1> DEFINE a == Replay(s)
           x == FinalSnapshot(a, a.records)
           f == GeneratedOf(s, with)
           r == RecordReplay(s.config_artifact, s.base_seed, s.frames)
           d == ScenarioDigest(with)
<1>1. /\ r.status = "Ok" /\ r.artifact = Some(a) /\ r.snapshot = x
      /\ a.base_seed = s.base_seed /\ a.config_identity = s.config_artifact
      /\ a.snapshot_policy = s.config_artifact.snapshot_policy /\ InputsOf(a.records) = s.frames
      /\ ArtifactShape(a) /\ Decodes(a)
  BY ExecutedIs
<1>2. /\ FixtureAgrees(f) /\ f.config_artifact = s.config_artifact /\ f.scenario_artifact = with
      /\ f.replay_artifact = a /\ f.snapshot_artifact = x /\ f.summary = FixtureSummary(with, a, x)
  BY GeneratedAgrees
<1>3. x # None => The(x).config_identity = a.config_identity
  BY <1>1, FinalSnapshotBelongs
<1>4. with # None => The(with) = s
  BY SomeIs
<1> HIDE DEF f, a, r
<1>5. /\ Effective(f).config_artifact = s.config_artifact /\ Effective(f).base_seed = s.base_seed
      /\ Effective(f).frames = s.frames
  BY <1>1, <1>2, <1>4 DEF Effective, ScenarioOf
<1>6. VerifyFixture(f) = Compare(f, s.config_artifact, d, r)
  BY <1>2, <1>5 DEF VerifyFixture, RecordingOf, r
<1> DEFINE y == FixtureSummary(with, a, x)
           z == SummaryWith(d, r)
<1> HIDE DEF d
<1>7. /\ y.config_digest = s.config_artifact /\ y.scenario_digest = d
      /\ y.base_seed = a.base_seed /\ y.final_tick = a.total_ticks /\ y.final_checksum = LastChecksum(a.records)
      /\ y.replay_digest = a /\ y.snapshot_digest = x
  BY <1>1, FixtureSummaryIs DEF d
<1>8. /\ z.config_digest = s.config_artifact /\ z.scenario_digest = d
      /\ z.base_seed = a.base_seed /\ z.final_tick = a.total_ticks /\ z.final_checksum = LastChecksum(a.records)
      /\ z.replay_digest = a /\ z.snapshot_digest = x
  BY <1>1, SummaryWithIs
<1> HIDE DEF y, z, x
<1>9. Agree(f.summary, z)
  BY <1>2, <1>7, <1>8 DEF Agree, y
<1>10. ConfigContract(f, s.config_artifact, d)
  BY <1>1, <1>2, <1>3, <1>7 DEF ConfigContract, y
<1>11. ScenarioContract(f.scenario_artifact, f.replay_artifact)
  BY <1>2, AgreesIs
<1>12. Divergence(f.replay_artifact.records, The(r.artifact).records) = None
  BY <1>1, <1>2, SomeIs, NoDivergence
<1>13. SnapshotsAgree(f.snapshot_artifact, r.snapshot)
  BY <1>1, <1>2 DEF SnapshotsAgree
<1> QED
  BY <1>1, <1>6, <1>9, <1>10, <1>11, <1>12, <1>13, PassedIs DEF f, z

\* What passes is what would be generated.
LEMMA PassedIsGenuine ==
  ASSUME NEW f, FixtureShape(f), SummaryAgrees(f), Passed(VerifyFixture(f))
  PROVE  Some([f EXCEPT !.summary.format = Current]) =
           GenerateFixture(Effective(f).config_artifact, f.scenario_artifact, Execute(Effective(f)))
<1> DEFINE s    == Effective(f)
           with == f.scenario_artifact
           r    == RecordReplay(s.config_artifact, s.base_seed, s.frames)
           a    == Replay(s)
           x    == FinalSnapshot(a, a.records)
           d    == ScenarioDigest(with)
           g    == GeneratedOf(s, with)
<1>1. ScenarioShape(s) /\ with \in {None, Some(s)}
  <2>1. CASE with # None
    BY <2>1 DEF FixtureShape, Effective
  <2>2. CASE with = None
    <3>1. s = ScenarioOf(f.config_artifact, f.replay_artifact.base_seed, InputsOf(f.replay_artifact.records), None)
      BY <2>2 DEF Effective
    <3>2. IsSequence(InputsOf(f.replay_artifact.records))
      BY InputsAre DEF FixtureShape, ArtifactShape, RecordsShape
    <3> HIDE DEF s
    <3>3. ScenarioShape(s)
      BY <3>1, <3>2 DEF ScenarioOf, ScenarioShape
    <3> QED
      BY <2>2, <3>3
  <2> QED
    BY <2>1, <2>2
<1>2. VerifyFixture(f) = Compare(f, s.config_artifact, d, r)
  BY DEF VerifyFixture, RecordingOf
<1> HIDE DEF s, r, d
<1>3. /\ r.status = "Ok" /\ ConfigContract(f, s.config_artifact, d)
      /\ Agree(f.summary, SummaryWith(d, r)) /\ SnapshotsAgree(f.snapshot_artifact, r.snapshot)
  BY <1>2, PassedIs
<1>4. Execute(s).status = "Ok"
  BY <1>3, ExecutionIs DEF r
<1>5. r.artifact = Some(a) /\ r.snapshot = x /\ a.format = Current
  BY <1>1, <1>4, ExecutedIs DEF r
<1>6. GenerateFixture(s.config_artifact, with, Execute(s)) = Some(g)
  BY <1>1, <1>4, GeneratedIs
<1>7. /\ g.config_artifact = s.config_artifact /\ g.scenario_artifact = with /\ g.replay_artifact = a
      /\ g.snapshot_artifact = x /\ g.summary = FixtureSummary(with, a, x) /\ FixtureShape(g)
  BY <1>1, <1>4, GeneratedAgrees
<1> HIDE DEF a, g, x
<1>8. f.snapshot_artifact = x /\ f.config_artifact = s.config_artifact
  BY <1>3, <1>5 DEF SnapshotsAgree, ConfigContract
<1> DEFINE z == SummaryWith(d, r)
           y == FixtureSummary(with, f.replay_artifact, f.snapshot_artifact)
<1>9. z.replay_digest = a
  BY <1>5, SummaryWithIs
<1>10. y.replay_digest = f.replay_artifact
  BY FixtureSummaryIs
<1>11. Agree(y, f.summary)
  BY DEF SummaryAgrees
<1>12. FixtureSummary(with, a, x).format = Current
  BY <1>5, FixtureSummaryIs
<1> HIDE DEF z
<1>13. f.replay_artifact = a
  <2> HIDE DEF y
  <2> QED
    BY <1>3, <1>9, <1>10, <1>11 DEF Agree, z
<1>14. y = g.summary
  BY <1>7, <1>8, <1>13
<1> HIDE DEF y, with
<1>15. [f.summary EXCEPT !.format = Current] = g.summary
  BY <1>7, <1>11, <1>12, <1>14 DEF Agree, FixtureShape, SummaryShape
<1>16. [f EXCEPT !.summary = g.summary] = g
  BY <1>7, <1>8, <1>13 DEF FixtureShape, with
<1>17. [f EXCEPT !.summary.format = Current] = g
  BY <1>15, <1>16
<1> QED
  BY <1>6, <1>17 DEF s, with

-----------------------------------------------------------------------------
(***************************************************************************)
(* What storage leaves: a summary, a scenario or a fixture of which one    *)
(* field has changed is one still.                                         *)
(***************************************************************************)
LEMMA ReplacedSummaryShape ==
  ASSUME NEW y, SummaryShape(y), NEW x
  PROVE  /\ SummaryShape([y EXCEPT !.format = x]) /\ SummaryShape([y EXCEPT !.base_seed = x])
         /\ SummaryShape([y EXCEPT !.final_tick = x]) /\ SummaryShape([y EXCEPT !.final_checksum = x])
         /\ SummaryShape([y EXCEPT !.config_digest = x]) /\ SummaryShape([y EXCEPT !.replay_digest = x])
         /\ SummaryShape([y EXCEPT !.snapshot_digest = x]) /\ SummaryShape([y EXCEPT !.scenario_digest = x])
<1> DEFINE Y(a, b, c, d, e, f, g, h) ==
             [format |-> a, base_seed |-> b, final_tick |-> c, final_checksum |-> d, config_digest |-> e,
              replay_digest |-> f, snapshot_digest |-> g, scenario_digest |-> h]
<1>1. \A a, b, c, d, e, f, g, h : SummaryShape(Y(a, b, c, d, e, f, g, h))
  BY DEF SummaryShape
<1>2. PICK a, b, c, d, e, f, g, h : y = Y(a, b, c, d, e, f, g, h)
  BY DEF SummaryShape
<1>3. /\ [y EXCEPT !.format = x] = Y(x, b, c, d, e, f, g, h)
      /\ [y EXCEPT !.base_seed = x] = Y(a, x, c, d, e, f, g, h)
      /\ [y EXCEPT !.final_tick = x] = Y(a, b, x, d, e, f, g, h)
      /\ [y EXCEPT !.final_checksum = x] = Y(a, b, c, x, e, f, g, h)
      /\ [y EXCEPT !.config_digest = x] = Y(a, b, c, d, x, f, g, h)
      /\ [y EXCEPT !.replay_digest = x] = Y(a, b, c, d, e, x, g, h)
      /\ [y EXCEPT !.snapshot_digest = x] = Y(a, b, c, d, e, f, x, h)
      /\ [y EXCEPT !.scenario_digest = x] = Y(a, b, c, d, e, f, g, x)
  BY <1>2
<1> HIDE DEF Y
<1> QED
  BY <1>1, <1>3

LEMMA ChangedSummaryShape ==
  ASSUME NEW y, SummaryShape(y), NEW z \in SummaryChanged(y)
  PROVE  SummaryShape(z)
<1>1. PICK x : \/ z = [y EXCEPT !.format = x] \/ z = [y EXCEPT !.base_seed = x]
             \/ z = [y EXCEPT !.final_tick = x] \/ z = [y EXCEPT !.final_checksum = x]
             \/ z = [y EXCEPT !.config_digest = x] \/ z = [y EXCEPT !.replay_digest = x]
             \/ z = [y EXCEPT !.snapshot_digest = x] \/ z = [y EXCEPT !.scenario_digest = x]
  <2> DEFINE fields == {[y EXCEPT !.format = "other"], [y EXCEPT !.final_tick = @ + 1],
                        [y EXCEPT !.final_checksum = None], [y EXCEPT !.replay_digest.total_ticks = @ + 1],
                        [y EXCEPT !.snapshot_digest = None], [y EXCEPT !.scenario_digest = None]}
             seeds   == {[y EXCEPT !.base_seed = x] : x \in Seeds}
             configs == {[y EXCEPT !.config_digest = c] : c \in Configs}
  <2>1. z \in fields \cup seeds \cup configs
    BY DEF SummaryChanged
  <2>2. CASE z \in fields
    BY <2>2
  <2>3. CASE z \in seeds
    BY <2>3
  <2>4. CASE z \in configs
    BY <2>4
  <2> HIDE DEF fields, seeds, configs
  <2> QED
    BY <2>1, <2>2, <2>3, <2>4
<1>2. /\ SummaryShape([y EXCEPT !.format = x]) /\ SummaryShape([y EXCEPT !.base_seed = x])
      /\ SummaryShape([y EXCEPT !.final_tick = x]) /\ SummaryShape([y EXCEPT !.final_checksum = x])
      /\ SummaryShape([y EXCEPT !.config_digest = x]) /\ SummaryShape([y EXCEPT !.replay_digest = x])
      /\ SummaryShape([y EXCEPT !.snapshot_digest = x]) /\ SummaryShape([y EXCEPT !.scenario_digest = x])
  BY ReplacedSummaryShape
<1> QED
  BY <1>1, <1>2

LEMMA ReplacedScenarioShape ==
  ASSUME NEW s, ScenarioShape(s), NEW x
  PROVE  /\ ScenarioShape([s EXCEPT !.config_artifact = x]) /\ ScenarioShape([s EXCEPT !.base_seed = x])
         /\ ScenarioShape([s EXCEPT !.expected_parity_summary = x])
         /\ IsSequence(x) => ScenarioShape([s EXCEPT !.frames = x])
         /\ [s EXCEPT !.config_artifact = x].expected_parity_summary = s.expected_parity_summary
         /\ [s EXCEPT !.base_seed = x].expected_parity_summary = s.expected_parity_summary
         /\ [s EXCEPT !.frames = x].expected_parity_summary = s.expected_parity_summary
         /\ [s EXCEPT !.expected_parity_summary = x].expected_parity_summary = x
<1> DEFINE Y(a, b, c, d) ==
             [config_artifact |-> a, base_seed |-> b, frames |-> c, expected_parity_summary |-> d]
<1>1. \A a, b, c, d : /\ IsSequence(c) => ScenarioShape(Y(a, b, c, d))
                      /\ Y(a, b, c, d).expected_parity_summary = d
  BY DEF ScenarioShape
<1>2. PICK a, b, c, d : s = Y(a, b, c, d) /\ IsSequence(c)
  BY DEF ScenarioShape
<1>3. /\ [s EXCEPT !.config_artifact = x] = Y(x, b, c, d)
      /\ [s EXCEPT !.base_seed = x] = Y(a, x, c, d)
      /\ [s EXCEPT !.frames = x] = Y(a, b, x, d)
      /\ [s EXCEPT !.expected_parity_summary = x] = Y(a, b, c, x)
  BY <1>2
<1> HIDE DEF Y
<1> QED
  BY <1>1, <1>2, <1>3

LEMMA ReplacedElement ==
  ASSUME NEW q, IsSequence(q), NEW i \in 1..Len(q), NEW x
  PROVE  IsSequence([q EXCEPT ![i] = x])
<1> DEFINE S == {q[j] : j \in 1..Len(q)} \cup {x}
<1>1. q \in Seq(S) /\ x \in S
  BY DEF IsSequence
<1> HIDE DEF S
<1>2. [q EXCEPT ![i] = x] \in Seq(S)
  BY <1>1
<1> QED
  BY <1>2, SeqIsSequence

\* The part of a scenario that is run may change, what it expects does not.
LEMMA ChangedContractShape ==
  ASSUME NEW s, ScenarioShape(s), NEW t \in ContractChanged(s)
  PROVE  ScenarioShape(t) /\ t.expected_parity_summary = s.expected_parity_summary
<1>1. \/ \E x : t = [s EXCEPT !.base_seed = x] \/ t = [s EXCEPT !.config_artifact = x]
      \/ \E i \in 1..Len(s.frames) : \E x : t = [s EXCEPT !.frames = [s.frames EXCEPT ![i] = x]]
  <2> DEFINE seeds   == {[s EXCEPT !.base_seed = x] : x \in Seeds}
             configs == {[s EXCEPT !.config_artifact = c] : c \in Configs}
             Frames(i) == {[s EXCEPT !.frames[i].tick = @ + 1]}
                          \cup {[s EXCEPT !.frames[i].command = c] : c \in Commands}
             frames  == UNION {Frames(i) : i \in 1..Len(s.frames)}
  <2>1. t \in seeds \cup configs \cup frames
    BY DEF ContractChanged
  <2>2. CASE t \in seeds
    BY <2>2
  <2>3. CASE t \in configs
    BY <2>3
  <2>4. CASE t \in frames
    <3>1. PICK i \in 1..Len(s.frames) : t \in Frames(i)
      BY <2>4
    <3>2. CASE t = [s EXCEPT !.frames[i].tick = @ + 1]
      BY <3>2
    <3>3. CASE \E c \in Commands : t = [s EXCEPT !.frames[i].command = c]
      BY <3>3
    <3> QED
      BY <3>1, <3>2, <3>3
  <2> HIDE DEF seeds, configs, frames
  <2> QED
    BY <2>1, <2>2, <2>3, <2>4
<1>2. ASSUME NEW i \in 1..Len(s.frames), NEW x, t = [s EXCEPT !.frames = [s.frames EXCEPT ![i] = x]]
      PROVE  ScenarioShape(t) /\ t.expected_parity_summary = s.expected_parity_summary
  <2> DEFINE q == [s.frames EXCEPT ![i] = x]
  <2>1. IsSequence(q)
    BY ReplacedElement DEF ScenarioShape
  <2>2. t = [s EXCEPT !.frames = q]
    BY <1>2
  <2> HIDE DEF q
  <2> QED
    BY <2>1, <2>2, ReplacedScenarioShape
<1>3. ASSUME NEW x, t = [s EXCEPT !.base_seed = x] \/ t = [s EXCEPT !.config_artifact = x]
      PROVE  ScenarioShape(t) /\ t.expected_parity_summary = s.expected_parity_summary
  <2>1. /\ ScenarioShape([s EXCEPT !.config_artifact = x]) /\ ScenarioShape([s EXCEPT !.base_seed = x])
        /\ [s EXCEPT !.config_artifact = x].expected_parity_summary = s.expected_parity_summary
        /\ [s EXCEPT !.base_seed = x].expected_parity_summary = s.expected_parity_summary
    BY ReplacedScenarioShape
  <2> QED
    BY <1>3, <2>1
<1> QED
  BY <1>1, <1>2, <1>3

LEMMA ChangedScenarioShape ==
  ASSUME NEW s, ScenarioShape(s), NEW t \in ScenarioChanged(s)
  PROVE  ScenarioShape(t)
<1>1. t \in ContractChanged(s) \/ \E x : t = [s EXCEPT !.expected_parity_summary = x]
  BY DEF ScenarioChanged
<1>2. ASSUME NEW x, t = [s EXCEPT !.expected_parity_summary = x]
      PROVE  ScenarioShape(t)
  <2>1. ScenarioShape([s EXCEPT !.expected_parity_summary = x])
    BY ReplacedScenarioShape
  <2> QED
    BY <1>2, <2>1
<1> QED
  BY <1>1, <1>2, ChangedContractShape

\* What a fixture needs of its parts.
PartsShape(with, a, y) ==
  /\ ArtifactShape(a) /\ SummaryShape(y)
  /\ with # None => with = Some(The(with)) /\ ScenarioShape(The(with))

LEMMA ChangedFixtureShape ==
  ASSUME NEW g, FixtureShape(g), NEW f \in FixtureChanged(g)
  PROVE  /\ FixtureShape(f)
         /\ \/ f.summary = g.summary
            \/ /\ f.config_artifact = g.config_artifact /\ f.scenario_artifact = g.scenario_artifact
               /\ f.replay_artifact = g.replay_artifact /\ f.snapshot_artifact = g.snapshot_artifact
<1> DEFINE F(c, w, a, x, y) ==
             [config_artifact |-> c, scenario_artifact |-> w, replay_artifact |-> a, snapshot_artifact |-> x,
              summary |-> y]
           Good(h) == /\ FixtureShape(h)
                      /\ \/ h.summary = g.summary
                         \/ /\ h.config_artifact = g.config_artifact /\ h.scenario_artifact = g.scenario_artifact
                            /\ h.replay_artifact = g.replay_artifact /\ h.snapshot_artifact = g.snapshot_artifact
<1>1. \A c, w, a, x, y :
        /\ PartsShape(w, a, y) => FixtureShape(F(c, w, a, x, y))
        /\ F(c, w, a, x, y).config_artifact = c /\ F(c, w, a, x, y).scenario_artifact = w
        /\ F(c, w, a, x, y).replay_artifact = a /\ F(c, w, a, x, y).snapshot_artifact = x
        /\ F(c, w, a, x, y).summary = y
  BY DEF FixtureShape, PartsShape
<1>2. PICK c, w, a, x, y : g = F(c, w, a, x, y)
  BY DEF FixtureShape
<1>3. PartsShape(w, a, y)
  BY <1>2 DEF FixtureShape, PartsShape
<1>4. \A v : /\ [g EXCEPT !.config_artifact = v] = F(v, w, a, x, y)
             /\ [g EXCEPT !.scenario_artifact = v] = F(c, v, a, x, y)
             /\ [g EXCEPT !.replay_artifact = v] = F(c, w, v, x, y)
             /\ [g EXCEPT !.snapshot_artifact = v] = F(c, w, a, v, y)
             /\ [g EXCEPT !.summary = v] = F(c, w, a, x, v)
  BY <1>2
<1> HIDE DEF F
<1>5. /\ g.config_artifact = c /\ g.scenario_artifact = w /\ g.replay_artifact = a
      /\ g.snapshot_artifact = x /\ g.summary = y
  BY <1>1, <1>2
<1>6. \/ \E v : f = [g EXCEPT !.config_artifact = v] \/ f = [g EXCEPT !.snapshot_artifact = v]
      \/ f = [g EXCEPT !.scenario_artifact = None]
      \/ w # None /\ \E s \in ScenarioChanged(The(w)) : f = [g EXCEPT !.scenario_artifact = Some(s)]
      \/ \E v \in ArtifactChanged(a) : f = [g EXCEPT !.replay_artifact = v]
      \/ \E v \in SummaryChanged(y) : f = [g EXCEPT !.summary = v]
  <2> DEFINE lost      == {[g EXCEPT !.scenario_artifact = None], [g EXCEPT !.snapshot_artifact = None]}
             summaries == {[g EXCEPT !.summary = v] : v \in SummaryChanged(y)}
             configs   == {[g EXCEPT !.config_artifact = v] : v \in Configs}
             replays   == {[g EXCEPT !.replay_artifact = v] : v \in ArtifactChanged(a)}
             snapshots == {[g EXCEPT !.snapshot_artifact = Some(v)] : v \in
                             SnapshotsAt(a) \cup (IF x = None THEN {} ELSE SnapshotArtifactChanged(The(x)))}
             scenarios == IF w = None THEN {}
                          ELSE {[g EXCEPT !.scenario_artifact = Some(s)] : s \in ScenarioChanged(The(w))}
  <2>1. f \in lost \cup summaries \cup configs \cup replays \cup snapshots \cup scenarios
    BY <1>5 DEF FixtureChanged
  <2>2. CASE f \in lost
    BY <2>2
  <2>3. CASE f \in summaries
    BY <2>3
  <2>4. CASE f \in configs
    BY <2>4
  <2>5. CASE f \in replays
    BY <2>5
  <2>6. CASE f \in snapshots
    BY <2>6
  <2>7. CASE f \in scenarios
    BY <2>7
  <2> HIDE DEF lost, summaries, configs, replays, snapshots, scenarios
  <2> QED
    BY <2>1, <2>2, <2>3, <2>4, <2>5, <2>6, <2>7
<1> SUFFICES Good(f)
  OBVIOUS
<1>7. ASSUME NEW v, f = F(v, w, a, x, y) \/ f = F(c, w, a, v, y)
      PROVE  Good(f)
  BY <1>1, <1>3, <1>5, <1>7
<1>8. ASSUME NEW v, v # None => v = Some(The(v)) /\ ScenarioShape(The(v)), f = F(c, v, a, x, y)
      PROVE  Good(f)
  <2>1. PartsShape(v, a, y)
    BY <1>3, <1>8 DEF PartsShape
  <2> QED
    BY <1>1, <1>5, <1>8, <2>1
<1>9. ASSUME NEW v \in ArtifactChanged(a), f = F(c, w, v, x, y)
      PROVE  Good(f)
  <2>1. PartsShape(w, v, y)
    BY <1>3, ChangedArtifactShape DEF PartsShape
  <2> QED
    BY <1>1, <1>5, <1>9, <2>1
<1>10. ASSUME NEW v \in SummaryChanged(y), f = F(c, w, a, x, v)
       PROVE  Good(f)
  <2>1. PartsShape(w, a, v)
    BY <1>3, ChangedSummaryShape DEF PartsShape
  <2> QED
    BY <1>1, <1>5, <1>10, <2>1
<1> HIDE DEF Good
<1>11. ASSUME w # None, NEW s \in ScenarioChanged(The(w)), f = F(c, Some(s), a, x, y)
       PROVE  Good(f)
  <2>1. ScenarioShape(s)
    BY <1>3, <1>11, ChangedScenarioShape DEF PartsShape
  <2> QED
    BY <1>8, <1>11, <2>1, SomeIs
<1>12. f = F(c, None, a, x, y) => Good(f)
  BY <1>8
<1> QED
  BY <1>4, <1>6, <1>7, <1>9, <1>10, <1>11, <1>12

-----------------------------------------------------------------------------
(***************************************************************************)
(* Two fixtures whose summaries agree with their parts, and with each      *)
(* other, are the same but for what neither covers.                        *)
(***************************************************************************)
\* A scenario option without its expectation.
Unexpecting(w) == IF w = None THEN None ELSE Some([The(w) EXCEPT !.expected_parity_summary = None])

LEMMA CoveredIs ==
  ASSUME NEW f, FixtureShape(f)
  PROVE  Covered(f) =
           [config_artifact |-> f.config_artifact, scenario_artifact |-> Unexpecting(f.scenario_artifact),
            replay_artifact |-> f.replay_artifact, snapshot_artifact |-> f.snapshot_artifact,
            summary |-> [f.summary EXCEPT !.format = Current]]
<1> DEFINE F(c, w, a, x, y) ==
             [config_artifact |-> c, scenario_artifact |-> w, replay_artifact |-> a, snapshot_artifact |-> x,
              summary |-> y]
           z == [f.summary EXCEPT !.format = Current]
           u == Unexpecting(f.scenario_artifact)
           h == [f EXCEPT !.summary = z]
<1>1. f = F(f.config_artifact, f.scenario_artifact, f.replay_artifact, f.snapshot_artifact, f.summary)
  BY DEF FixtureShape
<1>2. \A c, w, a, x, y, v : /\ [F(c, w, a, x, y) EXCEPT !.summary = v] = F(c, w, a, x, v)
                            /\ [F(c, w, a, x, y) EXCEPT !.scenario_artifact = v] = F(c, v, a, x, y)
  OBVIOUS
<1>3. Covered(f) = [f EXCEPT !.summary = z, !.scenario_artifact = u]
  BY DEF Covered, Unexpecting
<1> HIDE DEF z, u
<1>4. [f EXCEPT !.summary = z, !.scenario_artifact = u] = [h EXCEPT !.scenario_artifact = u]
  OBVIOUS
<1> HIDE DEF F
<1>5. h = F(f.config_artifact, f.scenario_artifact, f.replay_artifact, f.snapshot_artifact, z)
  BY <1>1, <1>2
<1> HIDE DEF h
<1>6. [h EXCEPT !.scenario_artifact = u] = F(f.config_artifact, u, f.replay_artifact, f.snapshot_artifact, z)
  BY <1>2, <1>5
<1> QED
  BY <1>3, <1>4, <1>6 DEF F, z, u

LEMMA AgreeingSummaries ==
  ASSUME NEW y, NEW z, SummaryShape(y), SummaryShape(z), Agree(y, z)
  PROVE  [y EXCEPT !.format = Current] = [z EXCEPT !.format = Current]
BY DEF SummaryShape, Agree

LEMMA AgreeingScenarios ==
  ASSUME NEW v, NEW w, ScenarioDigest(v) = ScenarioDigest(w),
         v # None => ScenarioShape(The(v)), w # None => ScenarioShape(The(w))
  PROVE  Unexpecting(v) = Unexpecting(w)
<1>1. (v = None) <=> (w = None)
  BY SomeIs DEF ScenarioDigest
<1>2. CASE v # None
  <2> DEFINE s == The(v)
             t == The(w)
  <2>1. Some(Contract(s)) = Some(Contract(t)) /\ w # None
    BY <1>1, <1>2 DEF ScenarioDigest
  <2>2. Contract(s) = Contract(t)
    BY <2>1, SomeIs
  <2>3. ScenarioShape(s) /\ ScenarioShape(t)
    BY <1>2, <2>1
  <2> HIDE DEF s, t
  <2>4. s.config_artifact = t.config_artifact /\ s.base_seed = t.base_seed /\ s.frames = t.frames
    BY <2>2 DEF Contract
  <2>5. [s EXCEPT !.expected_parity_summary = None] = [t EXCEPT !.expected_parity_summary = None]
    BY <2>3, <2>4 DEF ScenarioShape
  <2> QED
    BY <1>2, <2>1, <2>5 DEF Unexpecting, s, t
<1>3. CASE v = None
  BY <1>1, <1>3 DEF Unexpecting
<1> QED
  BY <1>2, <1>3

LEMMA AgreeingFixtures ==
  ASSUME NEW f, FixtureShape(f), SummaryAgrees(f), f.config_artifact = f.replay_artifact.config_identity,
         NEW g, FixtureShape(g), SummaryAgrees(g), g.config_artifact = g.replay_artifact.config_identity,
         g.snapshot_artifact = FinalSnapshot(g.replay_artifact, g.replay_artifact.records),
         Agree(f.summary, g.summary)
  PROVE  Covered(f) = Covered(g) \/ Covered(f) = [Covered(g) EXCEPT !.snapshot_artifact = None]
<1> DEFINE y == FixtureSummary(f.scenario_artifact, f.replay_artifact, f.snapshot_artifact)
           z == FixtureSummary(g.scenario_artifact, g.replay_artifact, g.snapshot_artifact)
           x == FinalSnapshot(f.replay_artifact, f.replay_artifact.records)
<1>1. /\ y.replay_digest = f.replay_artifact /\ y.scenario_digest = ScenarioDigest(f.scenario_artifact)
      /\ y.snapshot_digest = (IF f.snapshot_artifact # None THEN f.snapshot_artifact ELSE x)
  BY FixtureSummaryIs
<1>2. /\ z.replay_digest = g.replay_artifact /\ z.scenario_digest = ScenarioDigest(g.scenario_artifact)
      /\ z.snapshot_digest = g.snapshot_artifact
  BY FixtureSummaryIs
<1>3. Agree(y, f.summary) /\ Agree(z, g.summary)
  BY DEF SummaryAgrees
<1> HIDE DEF y, z, x
<1>4. /\ f.replay_artifact = g.replay_artifact
      /\ ScenarioDigest(f.scenario_artifact) = ScenarioDigest(g.scenario_artifact)
      /\ y.snapshot_digest = g.snapshot_artifact
  BY <1>1, <1>2, <1>3 DEF Agree
<1>5. f.snapshot_artifact = None \/ f.snapshot_artifact = g.snapshot_artifact
  BY <1>1, <1>4
<1>6. f.config_artifact = g.config_artifact
  BY <1>4
<1>7. Unexpecting(f.scenario_artifact) = Unexpecting(g.scenario_artifact)
  BY <1>4, AgreeingScenarios DEF FixtureShape
<1>8. [f.summary EXCEPT !.format = Current] = [g.summary EXCEPT !.format = Current]
  BY AgreeingSummaries DEF FixtureShape
<1> DEFINE F(c, w, a, s, u) ==
             [config_artifact |-> c, scenario_artifact |-> w, replay_artifact |-> a, snapshot_artifact |-> s,
              summary |-> u]
           is  == F(f.config_artifact, Unexpecting(f.scenario_artifact), f.replay_artifact, f.snapshot_artifact,
                    [f.summary EXCEPT !.format = Current])
           was == F(g.config_artifact, Unexpecting(g.scenario_artifact), g.replay_artifact, g.snapshot_artifact,
                    [g.summary EXCEPT !.format = Current])
<1>9. Covered(f) = is /\ Covered(g) = was
  BY CoveredIs
<1>10. \A c, w, a, s, u : [F(c, w, a, s, u) EXCEPT !.snapshot_artifact = None] = F(c, w, a, None, u)
  OBVIOUS
<1> HIDE DEF F
<1> QED
  BY <1>4, <1>5, <1>6, <1>7, <1>8, <1>9, <1>10

-----------------------------------------------------------------------------
(***************************************************************************)
(* What a scenario can be given to expect.                                 *)
(***************************************************************************)
\* An expectation, and the run it was taken from: the seed was that of the scenario or another.
TakenFrom(b, e) ==
  \/ b = None /\ e = None
  \/ \E s : /\ ScenarioShape(s) /\ Execute(s).status = "Ok"
            /\ b = Some(WhatIsRun(s)) /\ e = Execute(s).parity_summary

LEMMA ExpectationsAre ==
  ASSUME NEW s, ScenarioShape(s), NEW e \in Expectations(s)
  PROVE  TakenFrom(e.basis, e.summary)
<1> DEFINE nothing == [basis |-> None, summary |-> None]
           runs    == {[s EXCEPT !.base_seed = seed] : seed \in Seeds}
           taken   == {[basis |-> Some(WhatIsRun(run)), summary |-> Execute(run).parity_summary] : run \in runs}
<1>1. e = nothing \/ (e \in taken /\ e.summary # None)
  BY DEF Expectations
<1>2. CASE e = nothing
  BY <1>2 DEF TakenFrom
<1>3. CASE e \in taken /\ e.summary # None
  <2>1. PICK run \in runs : e = [basis |-> Some(WhatIsRun(run)), summary |-> Execute(run).parity_summary]
    BY <1>3
  <2>2. ScenarioShape(run)
    <3>1. PICK seed \in Seeds : run = [s EXCEPT !.base_seed = seed]
      OBVIOUS
    <3>2. ScenarioShape([s EXCEPT !.base_seed = seed])
      BY ReplacedScenarioShape
    <3> QED
      BY <3>1, <3>2
  <2> HIDE DEF runs
  <2>3. e.basis = Some(WhatIsRun(run)) /\ e.summary = Execute(run).parity_summary
    BY <2>1
  <2>4. Execute(run).status = "Ok"
    BY <1>3, <2>3, ExecutionIs
  <2> QED
    BY <2>2, <2>3, <2>4 DEF TakenFrom
<1> QED
  BY <1>1, <1>2, <1>3

\* A scenario passes if its expectation, where it has one, is of the run it stands for, and only then.
LEMMA ExpectationIsMet ==
  ASSUME NEW s, ScenarioShape(s), NEW b, TakenFrom(b, s.expected_parity_summary), Execute(s).status = "Ok"
  PROVE  /\ VerifyScenario(s, Execute(s)).status = "Ok"
         /\ VerifyScenario(s, Execute(s)).passed <=> b = None \/ b = Some(WhatIsRun(s))
<1> DEFINE e == s.expected_parity_summary
           x == Execute(s)
           v == VerifyScenario(s, x)
<1>1. v.status = x.status /\ (v.passed <=> e = None \/ CompareParity(The(e), The(x.parity_summary)) = {})
  BY DEF VerifyScenario
<1> DEFINE r == RecordReplay(s.config_artifact, s.base_seed, s.frames)
           y == SummaryWith(Some(Contract(s)), r)
<1>2. x.parity_summary = Some(y) /\ r.artifact = Some(Replay(s))
  BY ExecutedIs
<1>3. y.scenario_digest = Some(Contract(s))
  BY <1>2, SummaryWithIs
<1>4. The(x.parity_summary) = y
  BY <1>2, SomeIs
<1> HIDE DEF e, x, v, r, y
<1>5. CASE b = None /\ e = None
  BY <1>1, <1>5 DEF v, x
<1>6. ASSUME NEW t, ScenarioShape(t), Execute(t).status = "Ok", b = Some(WhatIsRun(t)),
             e = Execute(t).parity_summary
      PROVE  v.passed <=> b = Some(WhatIsRun(s))
  <2> DEFINE q == RecordReplay(t.config_artifact, t.base_seed, t.frames)
             z == SummaryWith(Some(Contract(t)), q)
  <2>1. e = Some(z) /\ q.artifact = Some(Replay(t))
    BY <1>6, ExecutedIs
  <2>2. z.scenario_digest = Some(Contract(t))
    BY <2>1, SummaryWithIs
  <2>3. The(e) = z /\ e # None
    BY <2>1, SomeIs
  <2>4. v.passed <=> Agree(z, y)
    BY <1>1, <1>4, <2>3, ParityIs
  <2>5. ASSUME Agree(z, y)
        PROVE  WhatIsRun(t) = WhatIsRun(s)
    <3> HIDE DEF z
    <3>1. Some(Contract(t)) = Some(Contract(s))
      BY <1>3, <2>2, <2>5 DEF Agree
    <3>2. Contract(t) = Contract(s)
      BY <3>1, SomeIs
    <3> QED
      BY <3>2 DEF Contract, WhatIsRun
  <2>6. ASSUME WhatIsRun(t) = WhatIsRun(s)
        PROVE  Agree(z, y)
    <3>1. t.config_artifact = s.config_artifact /\ t.base_seed = s.base_seed /\ t.frames = s.frames
      BY <2>6 DEF WhatIsRun
    <3>2. z = y
      BY <3>1 DEF y, r, Contract
    <3> QED
      BY <3>2 DEF Agree
  <2>7. b = Some(WhatIsRun(s)) <=> WhatIsRun(t) = WhatIsRun(s)
    BY <1>6, SomeIs
  <2> HIDE DEF z
  <2> QED
    BY <2>4, <2>5, <2>6, <2>7
<1>7. \A t : Some(WhatIsRun(t)) # None
  BY SomeIs
<1> QED
  BY <1>1, <1>5, <1>6, <1>7 DEF TakenFrom, e, v, x

-----------------------------------------------------------------------------
(***************************************************************************)
(* The catalog.                                                            *)
(***************************************************************************)
LEMMA FirstSnapshotIs ==
  ASSUME NEW a, IsSequence(a.records), Captured(a.records) # {}
  PROVE  /\ a.records # <<>>
         /\ \E c \in SnapshotsOf(a.records) :
              FirstSnapshot(a) = SnapshotArtifact(a.base_seed, a.config_identity, c)
<1> DEFINE C == Captured(a.records)
<1>1. C \in SUBSET Nat /\ (C # {} => Len(a.records) # 0) /\ C \in SUBSET (1..Len(a.records))
  BY DEF Captured, IsSequence
<1>2. PICK m \in C : \A n \in C : m <= n
  BY <1>1, LeastNatural
<1>3. Min(C) \in C
  BY <1>2 DEF Min
<1>4. The(a.records[Min(C)].snapshot) \in SnapshotsOf(a.records)
  BY <1>3 DEF SnapshotsOf
<1>5. a.records # <<>>
  BY <1>1, EmptyIs
<1> QED
  BY <1>4, <1>5 DEF FirstSnapshot

LEMMA CatalogHolds ==
  ASSUME NEW s, ScenarioShape(s), NEW expected
  PROVE  LET entry  == CatalogEntry(s, expected, Execute(s),
                                    GenerateFixture(s.config_artifact, Some(s), Execute(s)))
             bundle == ScenarioBundle(Execute(s))
         IN  IF bundle.status = "Ok" /\ bundle.run_summary.final_data = expected
             THEN entry = [status |-> "Ok", rerun_parity_match |-> TRUE, replay_verification_match |-> TRUE,
                           resume_from_snapshot_match |-> TRUE, fixture_verification_passed |-> TRUE]
             ELSE entry.status # "Ok"
<1> DEFINE x      == Execute(s)
           made   == GenerateFixture(s.config_artifact, Some(s), x)
           bundle == ScenarioBundle(x)
           entry  == CatalogEntry(s, expected, x, made)
           clean  == [status |-> "Ok", rerun_parity_match |-> TRUE, replay_verification_match |-> TRUE,
                      resume_from_snapshot_match |-> TRUE, fixture_verification_passed |-> TRUE]
           a      == Replay(s)
           g      == GeneratedOf(s, Some(s))
           verified == VerifyReplay(s.config_artifact, The(x.replay))
           resumed  == ResumeReplay(s.config_artifact, FirstSnapshot(The(x.replay)), The(x.replay))
<1> SUFFICES IF bundle.status = "Ok" /\ bundle.run_summary.final_data = expected
             THEN entry = clean ELSE entry.status # "Ok"
  OBVIOUS
<1>1. entry = IF bundle.status # "Ok" THEN [status |-> bundle.status]
              ELSE IF made = None THEN [status |-> "Refused"]
              ELSE CatalogReport(expected, bundle, x, verified, resumed, made, VerifyFixture(The(made)))
  BY DEF CatalogEntry
<1>2. CASE bundle.status # "Ok"
  BY <1>1, <1>2
<1>3. CASE bundle.status = "Ok"
  <2> DEFINE run  == RunSummary(x.final_snapshot)
             full == [status |-> "Ok", parity_summary |-> The(x.parity_summary), run_summary |-> The(run)]
             r    == RecordReplay(s.config_artifact, s.base_seed, s.frames)
             y    == SummaryWith(Some(Contract(s)), r)
  <2>1. x.status = "Ok" /\ run # None /\ bundle = full
    <3>1. bundle = IF x.status # "Ok" THEN [status |-> x.status]
                   ELSE IF ~Exports(The(x.replay), x.final_snapshot) \/ run = None
                   THEN [status |-> "Refused"]
                   ELSE full
      BY DEF ScenarioBundle
    <3> HIDE DEF bundle, x, run, full
    <3> QED
      BY <1>3, <3>1
  <2>2. /\ r = WholeReplay(a) /\ r.status = "Ok" /\ r.artifact = Some(a)
        /\ x.replay = Some(a) /\ x.final_snapshot = FinalSnapshot(a, a.records) /\ x.parity_summary = Some(y)
        /\ ArtifactShape(a) /\ a.base_seed = s.base_seed /\ a.config_identity = s.config_artifact
    BY <2>1, ExecutedIs
  <2>3. Some(s) \in {None, Some(s)}
    OBVIOUS
  <2>4. made = Some(g) /\ The(made) = g /\ made # None
    BY <2>1, <2>3, GeneratedIs, SomeIs
  <2>5. Passed(VerifyFixture(g)) /\ FixtureEncodes(g) /\ g.snapshot_artifact = FinalSnapshot(a, a.records)
    BY <2>1, <2>3, GeneratedAgrees, GeneratedPasses
  <2>6. IsSequence(a.records) /\ Captured(a.records) # {}
    <3>1. x.final_snapshot # None
      BY <2>1 DEF RunSummary
    <3> QED
      BY <2>2, <3>1, FinalSnapshotIs DEF ArtifactShape, RecordsShape
  <2>7. PICK c \in SnapshotsOf(a.records) :
          FirstSnapshot(a) = SnapshotArtifact(a.base_seed, a.config_identity, c)
    BY <2>6, FirstSnapshotIs
  <2>8. /\ a = ArtifactOf(s.config_artifact, s.base_seed, Original(s.config_artifact, s.base_seed, s.frames).records)
        /\ a.records = Original(s.config_artifact, s.base_seed, s.frames).records
    BY DEF Replay, RecordedArtifact, ArtifactOf
  <2>9. The(x.replay) = a
    BY <2>2, SomeIs
  <2>10. IsSequence(s.frames)
    BY DEF ScenarioShape
  <2> HIDE DEF a
  <2>11. VerifyReplay(s.config_artifact, a) = r
    BY <2>2, <2>8, <2>10, RecordedVerifies
  <2>12. ResumeReplay(s.config_artifact, FirstSnapshot(a), a) = r
    BY <2>2, <2>7, <2>8, <2>10, RecordedResumes
  <2>13. verified = r /\ resumed = r
    BY <2>9, <2>11, <2>12
  <2> HIDE DEF r, x, made, verified, resumed, g
  <2> DEFINE v == a.records[Len(a.records)].checksum
  <2>14. LastChecksum(a.records) = Some(v)
    BY <2>6, FirstSnapshotIs DEF LastChecksum
  <2> HIDE DEF v
  <2>15. r.checksum = Some(v)
    BY <2>2, <2>14 DEF WholeReplay, Success
  <2>16. y.final_checksum = Some(v)
    BY <2>2, <2>14, SummaryWithIs
  <2> HIDE DEF y
  <2>17. /\ bundle.parity_summary = y /\ The(x.parity_summary) = y /\ bundle.run_summary = The(run)
         /\ The(bundle.parity_summary.final_checksum) = v
    BY <2>1, <2>2, <2>16, SomeIs
  <2>18. CompareParity(y, y) = {}
    BY ParityIs DEF Agree
  <2>19. FixtureBundle(g)
    BY <2>1, <2>2, <2>5 DEF FixtureBundle
  <2>20. VerifyFixture(g).status = "Ok"
    BY <2>5 DEF Passed
  <2>24. bundle.status = "Ok"
    BY <1>3
  <2> HIDE DEF bundle, run, full, entry
  <2> DEFINE rep == CatalogReport(expected, bundle, x, verified, resumed, made, VerifyFixture(The(made)))
  <2>21. rep = IF bundle.run_summary.final_data # expected THEN [status |-> "Refused"] ELSE clean
    <3> DEFINE checksum == The(bundle.parity_summary.final_checksum)
               ends == [status |-> "Ok",
                        rerun_parity_match          |-> CompareParity(bundle.parity_summary, The(x.parity_summary)) = {},
                        replay_verification_match   |-> verified.checksum = Some(checksum),
                        resume_from_snapshot_match  |-> resumed.checksum = Some(checksum),
                        fixture_verification_passed |-> Passed(VerifyFixture(The(made)))]
    <3>1. rep = IF \/ verified.status # "Ok"
                   \/ resumed.status # "Ok"
                   \/ ~FixtureBundle(The(made))
                   \/ VerifyFixture(The(made)).status # "Ok"
                   \/ ~ExpectationMet(expected, bundle.run_summary)
                THEN [status |-> "Refused"] ELSE ends
      BY DEF CatalogReport
    <3>2. /\ (CompareParity(bundle.parity_summary, The(x.parity_summary)) = {}) = TRUE
          /\ (verified.checksum = Some(checksum)) = TRUE /\ (resumed.checksum = Some(checksum)) = TRUE
          /\ Passed(VerifyFixture(The(made))) = TRUE
      <4>1. Passed(VerifyFixture(g))
        BY <2>5
      <4>2. Passed(VerifyFixture(g)) \in BOOLEAN
        BY DEF Passed
      <4> QED
        BY <2>4, <2>13, <2>15, <2>17, <2>18, <4>1, <4>2
    <3>3. ends = clean
      BY <3>2
    <3> HIDE DEF ends, clean
    <3>4. ExpectationMet(expected, bundle.run_summary) <=> bundle.run_summary.final_data = expected
      BY DEF ExpectationMet
    <3> QED
      BY <2>2, <2>4, <2>13, <2>19, <2>20, <3>1, <3>3, <3>4
  <2>22. entry = rep
    BY <1>1, <1>3, <2>4 DEF entry
  <2> HIDE DEF rep, clean
  <2>23. [status |-> "Refused"].status # "Ok"
    OBVIOUS
  <2> QED
    BY <2>21, <2>22, <2>23, <2>24
<1> QED
  BY <1>2, <1>3

-----------------------------------------------------------------------------
(***************************************************************************)
(* The invariant of FixtureHost.                                           *)
(***************************************************************************)
ScenarioInv ==
  scenario # None =>
    /\ scenario = Some(The(scenario)) /\ ScenarioShape(The(scenario))
    /\ TakenFrom(basis, The(scenario).expected_parity_summary)

\* A fixture's summary agrees with its parts, whatever they are.
GoodFixture(f) ==
  FixtureShape(f) /\ SummaryAgrees(f) /\ f.config_artifact = f.replay_artifact.config_identity

FixtureInv == fixture # None => fixture = Some(The(fixture)) /\ GoodFixture(The(fixture))

\* A fixture as the host generates it, of some scenario that is part of it or is not.
IsGenerated(o) ==
  \E s : /\ ScenarioShape(s) /\ Execute(s).status = "Ok"
         /\ \E with \in {None, Some(s)} : o = Some(GeneratedOf(s, with))

\* What is left of it agrees with it.
GeneratedInv ==
  generated # None =>
    /\ IsGenerated(generated)
    /\ fixture # None /\ Agree(The(fixture).summary, The(generated).summary)

CatalogOf(s, expected) ==
  CatalogEntry(s, expected, Execute(s), GenerateFixture(s.config_artifact, Some(s), Execute(s)))

\* The answer is that of the last call, and of what the host still has.
AnswerInv ==
  \/ answer = NoAnswer
  \/ /\ scenario # None
     /\ \/ answer = Answer("verify", VerifyScenario(The(scenario), Execute(The(scenario))))
        \/ answer = Answer("bundle", ScenarioBundle(Execute(The(scenario))))
        \/ \E expected \in Data :
             answer = Answer("catalog", [expected |-> expected, entry |-> CatalogOf(The(scenario), expected)])
  \/ fixture # None /\ answer = Answer("fixture", VerifyFixture(The(fixture)))

HostInv == ScenarioInv /\ FixtureInv /\ GeneratedInv /\ AnswerInv

LEMMA GeneratedFacts ==
  ASSUME NEW o, IsGenerated(o)
  PROVE  /\ o # None /\ o = Some(The(o)) /\ GoodFixture(The(o))
         /\ FixtureEncodes(The(o)) /\ FixtureDecodes(The(o)) /\ Passed(VerifyFixture(The(o)))
         /\ The(o).snapshot_artifact = FinalSnapshot(The(o).replay_artifact, The(o).replay_artifact.records)
<1>1. PICK s : /\ ScenarioShape(s) /\ Execute(s).status = "Ok"
               /\ \E with \in {None, Some(s)} : o = Some(GeneratedOf(s, with))
  BY DEF IsGenerated
<1>2. PICK with \in {None, Some(s)} : o = Some(GeneratedOf(s, with))
  BY <1>1
<1> DEFINE g == GeneratedOf(s, with)
<1>3. /\ FixtureShape(g) /\ FixtureAgrees(g) /\ FixtureEncodes(g) /\ FixtureDecodes(g) /\ Passed(VerifyFixture(g))
      /\ g.snapshot_artifact = FinalSnapshot(g.replay_artifact, g.replay_artifact.records)
  BY <1>1, GeneratedAgrees, GeneratedPasses
<1> HIDE DEF g
<1>4. GoodFixture(g)
  BY <1>3, AgreesIs DEF GoodFixture, FixtureContract
<1>5. o # None /\ The(o) = g /\ o = Some(g)
  BY <1>2, SomeIs DEF g
<1> QED
  BY <1>3, <1>4, <1>5

LEMMA HostInitInv ==
  ASSUME HostInit
  PROVE  HostInv
BY DEF HostInit, HostInv, ScenarioInv, FixtureInv, GeneratedInv, AnswerInv

LEMMA BuildScenarioInv ==
  ASSUME HostInv, NEW config \in Configs, NEW seed \in Seeds, NEW frames \in Inputs,
         BuildScenario(config, seed, frames)
  PROVE  HostInv'
<1>1. /\ scenario = None /\ fixture' = fixture /\ generated' = generated /\ answer' = answer
  BY DEF BuildScenario
<1>2. PICK e \in Expectations(ScenarioOf(config, seed, frames, None)) :
        scenario' = Some(ScenarioOf(config, seed, frames, e.summary)) /\ basis' = e.basis
  BY DEF BuildScenario
<1>3. IsSequence(frames)
  BY InputsAreSequences
<1>4. \A x : /\ ScenarioShape(ScenarioOf(config, seed, frames, x))
             /\ ScenarioOf(config, seed, frames, x).expected_parity_summary = x
  BY <1>3 DEF ScenarioOf, ScenarioShape
<1>5. TakenFrom(e.basis, e.summary)
  BY <1>4, ExpectationsAre
<1>6. ScenarioInv'
  BY <1>2, <1>4, <1>5, SomeIs DEF ScenarioInv
<1>7. FixtureInv' /\ GeneratedInv'
  BY <1>1 DEF HostInv, FixtureInv, GeneratedInv
<1>8. AnswerInv'
  BY <1>1 DEF HostInv, AnswerInv
<1> QED
  BY <1>6, <1>7, <1>8 DEF HostInv

\* The calls that return an answer change nothing.
LEMMA AnswersInv ==
  ASSUME HostInv,
         \/ VerifyTheScenario \/ Bundle \/ (\E expected \in Data : Catalog(expected)) \/ VerifyTheFixture
  PROVE  HostInv'
<1>1. scenario' = scenario /\ basis' = basis /\ fixture' = fixture /\ generated' = generated
  BY DEF VerifyTheScenario, Bundle, Catalog, VerifyTheFixture
<1>2. ScenarioInv' /\ FixtureInv' /\ GeneratedInv'
  BY <1>1 DEF HostInv, ScenarioInv, FixtureInv, GeneratedInv
<1>3. ASSUME VerifyTheScenario PROVE AnswerInv'
  BY <1>1, <1>3 DEF VerifyTheScenario, AnswerInv
<1>4. ASSUME Bundle PROVE AnswerInv'
  BY <1>1, <1>4 DEF Bundle, AnswerInv
<1>5. ASSUME NEW expected \in Data, Catalog(expected)
      PROVE  AnswerInv'
  <2>1. scenario # None /\ scenario = Some(The(scenario))
    BY <1>5 DEF Catalog, HostInv, ScenarioInv
  <2> DEFINE s == The(scenario)
  <2>2. answer' = Answer("catalog", [expected |-> expected,
                                     entry |-> CatalogEntry(s, expected, Execute(s),
                                                            GenerateFixture(s.config_artifact, scenario, Execute(s)))])
    BY <1>5 DEF Catalog
  <2>3. answer' = Answer("catalog", [expected |-> expected, entry |-> CatalogOf(s, expected)])
    BY <2>1, <2>2 DEF CatalogOf
  <2> QED
    BY <1>1, <2>1, <2>3 DEF AnswerInv
<1>6. ASSUME VerifyTheFixture PROVE AnswerInv'
  BY <1>1, <1>6 DEF VerifyTheFixture, AnswerInv
<1> QED
  BY <1>2, <1>3, <1>4, <1>5, <1>6 DEF HostInv

LEMMA GenerateInv ==
  ASSUME HostInv, Generate
  PROVE  HostInv'
<1>1. scenario' = scenario /\ basis' = basis /\ answer' = NoAnswer /\ scenario # None /\ fixture = None
  BY DEF Generate
<1> DEFINE s == The(scenario)
<1>2. scenario = Some(s) /\ ScenarioShape(s)
  BY <1>1 DEF HostInv, ScenarioInv
<1>3. PICK with \in {None, scenario} :
        LET f == GenerateFixture(s.config_artifact, with, Execute(s)) IN fixture' = f /\ generated' = f
  BY DEF Generate
<1>4. with \in {None, Some(s)}
  BY <1>2, <1>3
<1>5. ScenarioInv' /\ AnswerInv'
  BY <1>1 DEF HostInv, ScenarioInv, AnswerInv
<1> HIDE DEF s
<1>6. GenerateFixture(s.config_artifact, with, Execute(s)) =
        IF Execute(s).status = "Ok" THEN Some(GeneratedOf(s, with)) ELSE None
  BY <1>2, <1>4, GeneratedIs
<1>7. CASE Execute(s).status # "Ok"
  <2>1. fixture' = None /\ generated' = None
    BY <1>3, <1>6, <1>7
  <2> QED
    BY <1>5, <2>1 DEF HostInv, FixtureInv, GeneratedInv
<1>8. CASE Execute(s).status = "Ok"
  <2>1. fixture' = generated' /\ IsGenerated(generated')
    BY <1>2, <1>3, <1>4, <1>6, <1>8 DEF IsGenerated
  <2>2. FixtureInv'
    BY <2>1, GeneratedFacts DEF FixtureInv
  <2>3. GeneratedInv'
    BY <2>1, GeneratedFacts DEF GeneratedInv, Agree, IsGenerated
  <2> QED
    BY <1>5, <2>2, <2>3 DEF HostInv
<1> QED
  BY <1>7, <1>8

LEMMA BuildFromPartsInv ==
  ASSUME HostInv, BuildFromParts
  PROVE  HostInv'
<1>1. /\ scenario' = scenario /\ basis' = basis /\ generated' = generated /\ answer' = NoAnswer
      /\ scenario # None /\ fixture = None
  BY DEF BuildFromParts
<1> DEFINE s      == The(scenario)
           replay == The(Execute(s).replay)
<1>2. ScenarioShape(s) /\ scenario = Some(s)
  BY <1>1 DEF HostInv, ScenarioInv
<1>3. PICK a \in ArtifactChanged(replay) \cup {replay},
           x \in {None} \cup {Some(y) : y \in SnapshotsAt(replay)},
           part \in {None, scenario} : fixture' = BuildFixture(s.config_artifact, part, a, x)
  BY DEF BuildFromParts
<1>5. fixture' # None /\ Execute(s).status = "Ok"
  BY DEF BuildFromParts
<1>6. replay = Replay(s) /\ ArtifactShape(Replay(s))
  BY <1>2, <1>5, ExecutedIs, SomeIs
<1>7. ArtifactShape(a)
  BY <1>6, ChangedArtifactShape
<1> DEFINE f == FixtureOf(s.config_artifact, part, a, x)
<1>8. fixture' = Some(f) /\ FixtureContract(s.config_artifact, part, a, x)
  BY <1>3, <1>5 DEF BuildFixture
<1>9. /\ f.config_artifact = s.config_artifact /\ f.scenario_artifact = part /\ f.replay_artifact = a
      /\ f.snapshot_artifact = x /\ f.summary = FixtureSummary(part, a, x)
      /\ f = [config_artifact |-> f.config_artifact, scenario_artifact |-> f.scenario_artifact,
              replay_artifact |-> f.replay_artifact, snapshot_artifact |-> f.snapshot_artifact,
              summary |-> f.summary]
  BY FixtureIs
<1>10. part # None => part = Some(The(part)) /\ ScenarioShape(The(part))
  BY <1>2
<1> HIDE DEF f, s
<1>11. FixtureShape(f)
  BY <1>7, <1>9, <1>10, FixtureSummaryIs DEF FixtureShape
<1>12. GoodFixture(f)
  BY <1>8, <1>9, <1>11 DEF GoodFixture, SummaryAgrees, Agree, FixtureContract
<1>13. FixtureInv'
  BY <1>8, <1>12, SomeIs DEF FixtureInv
<1>14. ScenarioInv' /\ AnswerInv'
  BY <1>1 DEF HostInv, ScenarioInv, AnswerInv
<1>15. GeneratedInv'
  BY <1>1 DEF HostInv, GeneratedInv
<1> QED
  BY <1>13, <1>14, <1>15 DEF HostInv

LEMMA StoreScenarioInv ==
  ASSUME HostInv, StoreScenario
  PROVE  HostInv'
<1>1. /\ fixture' = fixture /\ generated' = generated /\ answer' = NoAnswer /\ scenario # None
  BY DEF StoreScenario
<1> DEFINE s == The(scenario)
<1>2. ScenarioShape(s) /\ TakenFrom(basis, s.expected_parity_summary)
  BY <1>1 DEF HostInv, ScenarioInv
<1>3. FixtureInv' /\ GeneratedInv' /\ AnswerInv'
  BY <1>1 DEF HostInv, FixtureInv, GeneratedInv, AnswerInv
<1>4. CASE /\ \E t \in ContractChanged(s) \ {s} : scenario' = Some(t)
           /\ UNCHANGED basis
  <2>1. PICK t \in ContractChanged(s) : scenario' = Some(t)
    BY <1>4
  <2>2. ScenarioShape(t) /\ t.expected_parity_summary = s.expected_parity_summary
    BY <1>2, ChangedContractShape
  <2> HIDE DEF s
  <2>3. ScenarioInv'
    BY <1>2, <1>4, <2>1, <2>2, SomeIs DEF ScenarioInv
  <2> QED
    BY <1>3, <2>3 DEF HostInv
<1>5. CASE \E e \in Expectations(s) :
             scenario' = Some([s EXCEPT !.expected_parity_summary = e.summary]) /\ basis' = e.basis
  <2>1. PICK e \in Expectations(s) :
          scenario' = Some([s EXCEPT !.expected_parity_summary = e.summary]) /\ basis' = e.basis
    BY <1>5
  <2> DEFINE t == [s EXCEPT !.expected_parity_summary = e.summary]
  <2>2. ScenarioShape(t) /\ t.expected_parity_summary = e.summary
    BY <1>2, ReplacedScenarioShape
  <2>3. TakenFrom(e.basis, e.summary)
    BY <1>2, ExpectationsAre
  <2> HIDE DEF t
  <2>4. scenario' = Some(t)
    BY <2>1 DEF t
  <2>5. ScenarioInv'
    BY <2>1, <2>2, <2>3, <2>4, SomeIs DEF ScenarioInv
  <2> QED
    BY <1>3, <2>5 DEF HostInv
<1> QED
  BY <1>4, <1>5 DEF StoreScenario

LEMMA StoreFixtureInv ==
  ASSUME HostInv, StoreFixture
  PROVE  HostInv'
<1>1. /\ scenario' = scenario /\ basis' = basis /\ generated' = generated /\ answer' = NoAnswer
      /\ fixture # None
  BY DEF StoreFixture
<1> DEFINE g == The(fixture)
<1>2. GoodFixture(g)
  BY <1>1 DEF HostInv, FixtureInv
<1>3. PICK f \in FixtureChanged(g) : FixtureDecodes(f) /\ fixture' = Some(f)
  BY DEF StoreFixture
<1> HIDE DEF g
<1>4. /\ FixtureShape(f)
      /\ \/ f.summary = g.summary
         \/ /\ f.config_artifact = g.config_artifact /\ f.scenario_artifact = g.scenario_artifact
            /\ f.replay_artifact = g.replay_artifact /\ f.snapshot_artifact = g.snapshot_artifact
  BY <1>2, ChangedFixtureShape DEF GoodFixture
<1>5. SummaryAgrees(f) /\ f.config_artifact = f.replay_artifact.config_identity
  BY <1>3, AgreesIs DEF FixtureDecodes, FixtureContract
<1>6. GoodFixture(f)
  BY <1>4, <1>5 DEF GoodFixture
<1>7. Agree(f.summary, g.summary)
  <2>1. CASE f.summary = g.summary
    BY <2>1 DEF Agree
  <2>2. CASE /\ f.config_artifact = g.config_artifact /\ f.scenario_artifact = g.scenario_artifact
             /\ f.replay_artifact = g.replay_artifact /\ f.snapshot_artifact = g.snapshot_artifact
    <3> DEFINE y == FixtureSummary(g.scenario_artifact, g.replay_artifact, g.snapshot_artifact)
    <3>1. Agree(y, f.summary) /\ Agree(y, g.summary)
      BY <1>2, <1>5, <2>2 DEF GoodFixture, SummaryAgrees
    <3> HIDE DEF y
    <3> QED
      BY <3>1 DEF Agree
  <2> QED
    BY <1>4, <2>1, <2>2
<1>8. FixtureInv'
  BY <1>3, <1>6, SomeIs DEF FixtureInv
<1>9. GeneratedInv'
  <2> SUFFICES ASSUME generated # None
               PROVE  /\ IsGenerated(generated)
                      /\ fixture' # None /\ Agree(The(fixture').summary, The(generated).summary)
    BY <1>1 DEF GeneratedInv, IsGenerated
  <2>1. IsGenerated(generated) /\ Agree(g.summary, The(generated).summary)
    BY DEF HostInv, GeneratedInv, g
  <2>2. fixture' # None /\ The(fixture') = f
    BY <1>3, SomeIs
  <2> QED
    BY <1>7, <2>1, <2>2 DEF Agree
<1>10. ScenarioInv' /\ AnswerInv'
  BY <1>1 DEF HostInv, ScenarioInv, AnswerInv
<1> QED
  BY <1>8, <1>9, <1>10 DEF HostInv

LEMMA HostNextInv ==
  ASSUME HostInv, [HostNext]_host
  PROVE  HostInv'
<1>1. CASE UNCHANGED host
  BY <1>1 DEF host, HostInv, ScenarioInv, FixtureInv, GeneratedInv, AnswerInv
<1>2. CASE HostNext
  BY <1>2, BuildScenarioInv, AnswersInv, GenerateInv, BuildFromPartsInv, StoreScenarioInv, StoreFixtureInv
     DEF HostNext
<1> QED
  BY <1>1, <1>2

LEMMA HostInvariance == HostSpec => []HostInv
<1>1. HostInit => HostInv
  BY HostInitInv
<1>2. HostInv /\ [HostNext]_host => HostInv'
  BY HostNextInv
<1> QED
  BY <1>1, <1>2, PTL DEF HostSpec

-----------------------------------------------------------------------------
(***************************************************************************)
(* The theorems about FixtureHost.                                         *)
(***************************************************************************)
LEMMA AnswerIs ==
  ASSUME HostInv
  PROVE  /\ answer.call = "verify" =>
              /\ scenario # None
              /\ answer.result = VerifyScenario(The(scenario), Execute(The(scenario)))
         /\ answer.call = "catalog" =>
              /\ scenario # None
              /\ answer.result.entry = CatalogOf(The(scenario), answer.result.expected)
         /\ answer.call = "fixture" =>
              fixture # None /\ answer.result = VerifyFixture(The(fixture))
<1>1. \A call, result : Answer(call, result).call = call /\ Answer(call, result).result = result
  BY DEF Answer
<1>2. NoAnswer.call = "none"
  BY DEF NoAnswer
<1>3. ASSUME NEW expected, NEW entry,
             answer = Answer("catalog", [expected |-> expected, entry |-> entry])
      PROVE  answer.call = "catalog" /\ answer.result.expected = expected /\ answer.result.entry = entry
  BY <1>1, <1>3
<1>4. AnswerInv
  BY DEF HostInv
<1>5. CASE answer = NoAnswer
  BY <1>2, <1>5
<1>6. CASE scenario # None /\ answer = Answer("verify", VerifyScenario(The(scenario), Execute(The(scenario))))
  BY <1>1, <1>6
<1>7. CASE answer = Answer("bundle", ScenarioBundle(Execute(The(scenario))))
  BY <1>1, <1>7
<1>8. ASSUME scenario # None, NEW expected \in Data,
             answer = Answer("catalog", [expected |-> expected, entry |-> CatalogOf(The(scenario), expected)])
      PROVE  answer.call = "catalog" /\ answer.result.entry = CatalogOf(The(scenario), answer.result.expected)
  BY <1>3, <1>8
<1>9. CASE fixture # None /\ answer = Answer("fixture", VerifyFixture(The(fixture)))
  BY <1>1, <1>9
<1> QED
  BY <1>4, <1>5, <1>6, <1>7, <1>8, <1>9 DEF AnswerInv

(***************************************************************************)
(* Of every domain, plan and configuration, a scenario that is executed    *)
(* passes if and only if its expectation, where it has one, was taken from *)
(* a run of the same configuration, seed and frames (verify of             *)
(* scenario/mod.rs).                                                       *)
(***************************************************************************)
THEOREM ExpectationsTellTheRun == HostSpec => []ExpectationTellsTheRun
<1>1. HostInv => ExpectationTellsTheRun
  <2> SUFFICES ASSUME HostInv, answer.call = "verify", answer.result.status = "Ok"
               PROVE  answer.result.passed <=> basis = None \/ basis = Some(WhatIsRun(The(scenario)))
    BY DEF ExpectationTellsTheRun
  <2> DEFINE s == The(scenario)
             v == VerifyScenario(s, Execute(s))
  <2>1. scenario # None /\ answer.result = v
    BY AnswerIs
  <2>2. ScenarioShape(s) /\ TakenFrom(basis, s.expected_parity_summary)
    BY <2>1 DEF HostInv, ScenarioInv
  <2>3. Execute(s).status = "Ok"
    <3>1. v.status = Execute(s).status
      BY DEF VerifyScenario
    <3> HIDE DEF v
    <3> QED
      BY <2>1, <3>1
  <2>4. v.passed <=> basis = None \/ basis = Some(WhatIsRun(s))
    BY <2>2, <2>3, ExpectationIsMet
  <2> HIDE DEF v
  <2> QED
    BY <2>1, <2>4
<1> QED
  BY <1>1, HostInvariance, PTL

(***************************************************************************)
(* A generated fixture can be stored and read back, and passes when it is  *)
(* verified, with its scenario or without (encode, decode and              *)
(* verify_fixture of fixture/mod.rs).                                      *)
(***************************************************************************)
THEOREM GeneratedHold == HostSpec => []GeneratedFixturesHold
<1>1. HostInv => GeneratedFixturesHold
  <2> SUFFICES ASSUME HostInv, generated # None
               PROVE  /\ FixtureEncodes(The(generated)) /\ FixtureDecodes(The(generated))
                      /\ answer.call = "fixture" /\ fixture = generated => Passed(answer.result)
    BY DEF GeneratedFixturesHold
  <2>1. /\ FixtureEncodes(The(generated)) /\ FixtureDecodes(The(generated))
        /\ Passed(VerifyFixture(The(generated)))
    BY GeneratedFacts DEF HostInv, GeneratedInv
  <2>2. answer.call = "fixture" => answer.result = VerifyFixture(The(fixture))
    BY AnswerIs
  <2> QED
    BY <2>1, <2>2
<1> QED
  BY <1>1, HostInvariance, PTL

(***************************************************************************)
(* However many fields of a generated fixture have changed, as long as     *)
(* each time it could be read back: no more than what neither a digest nor *)
(* a comparison covers, and the snapshot it may have lost (decode of       *)
(* fixture/mod.rs).                                                        *)
(***************************************************************************)
THEOREM NoticedChanges == HostSpec => []ChangesAreNoticed
<1>1. HostInv => ChangesAreNoticed
  <2> SUFFICES ASSUME HostInv, generated # None
               PROVE  \/ Covered(The(fixture)) = Covered(The(generated))
                      \/ Covered(The(fixture)) = [Covered(The(generated)) EXCEPT !.snapshot_artifact = None]
    BY DEF ChangesAreNoticed
  <2> DEFINE f == The(fixture)
             g == The(generated)
  <2>1. /\ GoodFixture(g)
        /\ g.snapshot_artifact = FinalSnapshot(g.replay_artifact, g.replay_artifact.records)
    BY GeneratedFacts DEF HostInv, GeneratedInv
  <2>2. GoodFixture(f) /\ Agree(f.summary, g.summary)
    BY DEF HostInv, GeneratedInv, FixtureInv
  <2> HIDE DEF f, g
  <2>3. Covered(f) = Covered(g) \/ Covered(f) = [Covered(g) EXCEPT !.snapshot_artifact = None]
    BY <2>1, <2>2, AgreeingFixtures DEF GoodFixture
  <2> QED
    BY <2>3 DEF f, g
<1> QED
  BY <1>1, HostInvariance, PTL

(***************************************************************************)
(* A fixture that passes is the one that would be generated from its       *)
(* scenario, or from the inputs of its replay, whatever parts it was built *)
(* of and whatever storage has done to it (verify_fixture).                *)
(***************************************************************************)
THEOREM PassedAreGenuine == HostSpec => []PassedFixturesAreGenuine
<1>1. HostInv => PassedFixturesAreGenuine
  <2> SUFFICES ASSUME HostInv, answer.call = "fixture", Passed(answer.result)
               PROVE  LET f == The(fixture)
                      IN  Some([f EXCEPT !.summary.format = Current]) =
                            GenerateFixture(Effective(f).config_artifact, f.scenario_artifact, Execute(Effective(f)))
    BY DEF PassedFixturesAreGenuine
  <2>1. fixture # None /\ Passed(VerifyFixture(The(fixture)))
    BY AnswerIs
  <2>2. FixtureShape(The(fixture)) /\ SummaryAgrees(The(fixture))
    BY <2>1 DEF HostInv, FixtureInv, GoodFixture
  <2> QED
    BY <2>1, <2>2, PassedIsGenuine
<1> QED
  BY <1>1, HostInvariance, PTL

(***************************************************************************)
(* In the catalog, whatever runs, has a snapshot and is expected rightly   *)
(* has an entry in which everything agrees, and nothing else has one       *)
(* (build_settlement_demo_catalog).                                        *)
(***************************************************************************)
THEOREM CatalogsAreClean == HostSpec => []CatalogIsClean
<1>1. HostInv => CatalogIsClean
  <2> SUFFICES ASSUME HostInv, answer.call = "catalog"
               PROVE  LET entry  == answer.result.entry
                          bundle == ScenarioBundle(Execute(The(scenario)))
                      IN  IF bundle.status = "Ok" /\ bundle.run_summary.final_data = answer.result.expected
                          THEN entry = [status |-> "Ok", rerun_parity_match |-> TRUE,
                                        replay_verification_match |-> TRUE, resume_from_snapshot_match |-> TRUE,
                                        fixture_verification_passed |-> TRUE]
                          ELSE entry.status # "Ok"
    BY DEF CatalogIsClean
  <2>1. scenario # None /\ answer.result.entry = CatalogOf(The(scenario), answer.result.expected)
    BY AnswerIs
  <2>2. ScenarioShape(The(scenario))
    BY <2>1 DEF HostInv, ScenarioInv
  <2> QED
    BY <2>1, <2>2, CatalogHolds DEF CatalogOf
<1> QED
  BY <1>1, HostInvariance, PTL
=============================================================================
