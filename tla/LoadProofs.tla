------------------------------ MODULE LoadProofs ------------------------------
(***************************************************************************)
(* Proofs about LoadGen, for any threads, numbers of requests and sessions, *)
(* and send times.                                                          *)
(***************************************************************************)
EXTENDS LoadGen, FunctionTheorems, FiniteSetTheorems, TLAPS

\* The constants' types, in the form the provers use.
LEMMA ConstantTypes ==
    /\ Count \in Nat /\ Count > 0 /\ Period \in Nat /\ Rounds \in Nat
    /\ Rounds > 1 /\ DropLimit \in Nat /\ Horizon \in Nat
    /\ 0 \in Slots /\ 0 \in Sessions /\ 0 \in 0 .. Horizon
    /\ Workers # {}
  BY LoadAssumption DEF Slots, Sessions

\* The threads and the clock at the start of a session are well typed.
LEMMA FreshTypes ==
    /\ Idle \in Worker
    /\ [w \in Workers |-> Idle] \in [Workers -> Worker]
    /\ [w \in Workers |-> {}] \in [Workers -> SUBSET Sample]
    /\ NoStall \in [from : 0 .. Horizon, to : 0 .. Horizon]
    /\ IsFiniteSet({})
  BY ConstantTypes, FS_EmptySet DEF Idle, Worker, NoStall

\* Every state begins well typed.
LEMMA LoadTypeInit == Init => TypeOK
  <1> SUFFICES ASSUME Init PROVE TypeOK
    OBVIOUS
  <1>1. /\ worker \in [Workers -> Worker]
        /\ local \in [Workers -> SUBSET Sample]
        /\ stall \in [from : 0 .. Horizon, to : 0 .. Horizon]
        /\ IsFiniteSet(out) /\ \A w \in Workers : IsFiniteSet(local[w])
    BY FreshTypes DEF Init
  <1>2. /\ servers \in
              [Sessions -> {"none", "starting", "up", "stalled", "dead"}]
        /\ dropped \in [Sides -> Nat] /\ sess \in Sessions
        /\ now \in 0 .. Horizon
    BY ConstantTypes DEF Init
  <1> QED
    BY <1>1, <1>2 DEF Init, TypeOK, Stages

\* What a session leaves behind is well typed.
LEMMA KeepResultsType ==
    ASSUME TypeOK, KeepResults
    PROVE  /\ stage' \in Stages /\ sess' \in Sessions
           /\ line' \in {"none", "READY", "other", "eof"}
           /\ next' \in Nat /\ worker' \in [Workers -> Worker]
           /\ local' \in [Workers -> SUBSET Sample] /\ out' \in SUBSET Sample
           /\ IsFiniteSet(out') /\ \A w \in Workers : IsFiniteSet(local'[w])
           /\ dropped' \in [Sides -> Nat] /\ empty' \in BOOLEAN
           /\ now' \in 0 .. Horizon
           /\ stall' \in [from : 0 .. Horizon, to : 0 .. Horizon]
  <1> USE DEF KeepResults, TypeOK
  <1>1. IsFiniteSet(Lost)
    BY FS_Subset DEF Lost
  <1>2. Cardinality(Lost) \in Nat
    BY <1>1, FS_CardinalityType
  <1>3. dropped' \in [Sides -> Nat]
    <2> DEFINE c == Cardinality(Lost)
    <2>1. c \in Nat /\ dropped' = [dropped EXCEPT ![Side(sess)] = @ + c]
      BY <1>2
    <2>2. Side(sess) \in Sides /\ dropped \in [Sides -> Nat]
      BY DEF Side, Sides
    <2> HIDE DEF c, KeepResults, TypeOK
    <2>3. dropped[Side(sess)] + c \in Nat
      BY <2>1, <2>2
    <2> QED
      BY <2>1, <2>2, <2>3
  <1>4. stage' \in Stages /\ sess' \in Sessions
    BY DEF Stages
  <1>5. /\ next' \in Nat /\ now' \in 0 .. Horizon /\ out' \in SUBSET Sample
        /\ line' \in {"none", "READY", "other", "eof"}
    BY ConstantTypes
  <1>6. /\ worker' \in [Workers -> Worker]
        /\ local' \in [Workers -> SUBSET Sample]
        /\ stall' \in [from : 0 .. Horizon, to : 0 .. Horizon]
    BY FreshTypes
  <1>7. IsFiniteSet(out') /\ \A w \in Workers : IsFiniteSet(local'[w])
    BY FreshTypes
  <1>8. empty' \in BOOLEAN
    OBVIOUS
  <1> QED
    BY <1>3, <1>4, <1>5, <1>6, <1>7, <1>8

\* A request's outcome is a sample, and it joins the thread's own list.
LEMMA FinishType ==
    ASSUME TypeOK, NEW w \in Workers, NEW pc \in {"sent", "refused"},
           NEW result \in {"answered", "cut", "lost"}, Finish(w, pc, result)
    PROVE  /\ worker' \in [Workers -> Worker]
           /\ local' \in [Workers -> SUBSET Sample]
           /\ \A v \in Workers : IsFiniteSet(local'[v])
  <1> DEFINE new == [slot |-> worker[w].slot, by |-> w, result |-> result,
                     latency |-> Latency(w)]
  <1>1. Latency(w) \in Int
    BY ConstantTypes DEF Latency, Target, TypeOK, Worker, Slots
  <1>2. new \in Sample
    BY <1>1 DEF TypeOK, Worker, Sample
  <1>3. local' = [local EXCEPT ![w] = @ \cup {new}]
    BY DEF Finish
  <1>4. IsFiniteSet(local[w] \cup {new})
    BY FS_AddElement DEF TypeOK
  <1> HIDE DEF new
  <1>5. local' \in [Workers -> SUBSET Sample]
    BY <1>2, <1>3 DEF TypeOK
  <1>6. \A v \in Workers : IsFiniteSet(local'[v])
    BY <1>3, <1>4 DEF TypeOK
  <1>7. worker' \in [Workers -> Worker]
    BY DEF Finish, Goto, TypeOK, Worker
  <1> QED
    BY <1>5, <1>6, <1>7

\* A thread that has sent, or been refused, is a thread still.
LEMMA SentType ==
    ASSUME NEW f \in [Workers -> Worker], NEW w \in Workers,
           NEW p \in {"sent", "refused"}, NEW t \in 0 .. Horizon
    PROVE  [f EXCEPT ![w].pc = p, ![w].sentAt = t] \in [Workers -> Worker]
  <1>1. [f[w] EXCEPT !.pc = p, !.sentAt = t] \in Worker
    BY DEF Worker
  <1> QED
    BY <1>1

\* Types are preserved by every step.
LEMMA LoadTypeStep ==
    ASSUME TypeOK, [Next]_vars
    PROVE  TypeOK'
  <1> USE DEF session, Stages
  <1>1. CASE Announce \/ Die \/ Stall \/ Recover \/ Tick
    <2>1. CASE Announce
      BY <2>1 DEF Announce, Become, TypeOK
    <2>2. CASE Die
      BY <2>2 DEF Die, Become, TypeOK
    <2>3. CASE Stall
      BY <2>3 DEF Stall, Become, TypeOK
    <2>4. CASE Recover
      BY <2>4 DEF Recover, Become, TypeOK
    <2>5. CASE Tick
      BY <2>5, ConstantTypes DEF Tick, TypeOK
    <2> QED
      BY <1>1, <2>1, <2>2, <2>3, <2>4, <2>5
  <1>2. CASE SpawnServer \/ Handshake \/ Report
    <2>1. CASE SpawnServer
      BY <2>1 DEF SpawnServer, Become, TypeOK
    <2>2. CASE Handshake
      BY <2>2 DEF Handshake, TypeOK
    <2>3. CASE Report
      BY <2>3 DEF Report, TypeOK
    <2> QED
      BY <1>2, <2>1, <2>2, <2>3
  <1>3. CASE Stop
    <2>1. servers' \in
             [Sessions -> {"none", "starting", "up", "stalled", "dead"}]
      BY <1>3 DEF Stop, TypeOK
    <2> QED
      BY <1>3, <2>1, KeepResultsType DEF Stop, TypeOK
  <1>4. ASSUME NEW w \in Workers, WorkerStep(w)
        PROVE  TypeOK'
    <2>1. CASE Claim(w)
      BY <2>1, ConstantTypes DEF Claim, Goto, TypeOK, Worker, Slots
    <2>2. CASE Send(w)
      <3> DEFINE p == IF servers[sess] = "dead" THEN "refused" ELSE "sent"
      <3>1. /\ worker' = [worker EXCEPT ![w].pc = p, ![w].sentAt = now]
            /\ UNCHANGED <<stage, sess, servers, line, next, local, out, now,
                           stall, dropped, empty>>
        BY <2>2 DEF Send
      <3>2. p \in {"sent", "refused"}
        OBVIOUS
      <3>3. worker \in [Workers -> Worker] /\ now \in 0 .. Horizon
        BY DEF TypeOK
      <3> HIDE DEF p
      <3>4. worker' \in [Workers -> Worker]
        BY <3>1, <3>2, <3>3, SentType
      <3> QED
        BY <3>1, <3>4 DEF TypeOK
    <2>3. CASE Answer(w) \/ CutOff(w) \/ Lose(w) \/ Refused(w)
      BY <2>3, FinishType DEF Answer, CutOff, Lose, Refused, Finish, TypeOK
    <2>4. CASE Merge(w)
      <3>1. IsFiniteSet(out') /\ \A v \in Workers : IsFiniteSet(local'[v])
        BY <2>4, FS_Union, FS_EmptySet DEF Merge, TypeOK
      <3>2. worker' \in [Workers -> Worker]
        BY <2>4 DEF Merge, Goto, TypeOK, Worker
      <3> QED
        BY <2>4, <3>1, <3>2 DEF Merge, TypeOK
    <2> QED
      BY <1>4, <2>1, <2>2, <2>3, <2>4 DEF WorkerStep
  <1>5. CASE UNCHANGED vars
    BY <1>5 DEF vars, TypeOK
  <1> QED
    BY <1>1, <1>2, <1>3, <1>4, <1>5 DEF Next

\* Every reachable state of the load generator is well typed.
THEOREM LoadTypeCorrect == Spec => []TypeOK
  BY LoadTypeInit, LoadTypeStep, PTL DEF Spec

(***************************************************************************)
(* Every request counts once.                                               *)
(***************************************************************************)

\* A finished request adds one sample, with the slot the thread held.
LEMMA SamplesFinish ==
    ASSUME TypeOK, NEW w \in Workers, NEW pc \in {"sent", "refused"},
           NEW result \in {"answered", "cut", "lost"}, Finish(w, pc, result)
    PROVE  \E new : /\ new.slot = worker[w].slot /\ new.by = w
                    /\ new.result = result /\ new.latency = Latency(w)
                    /\ Samples' = Samples \cup {new}
  <1> DEFINE new == [slot |-> worker[w].slot, by |-> w, result |-> result,
                     latency |-> Latency(w)]
  <1>1. /\ new.slot = worker[w].slot /\ new.by = w
        /\ new.result = result /\ new.latency = Latency(w)
    OBVIOUS
  <1>2. local' = [local EXCEPT ![w] = @ \cup {new}] /\ out' = out
    BY DEF Finish
  <1> HIDE DEF new
  <1>3. \A v \in Workers :
           local'[v] = IF v = w THEN local[w] \cup {new} ELSE local[v]
    BY <1>2 DEF TypeOK
  <1>4. Samples' = Samples \cup {new}
    <2>1. ASSUME NEW r \in Samples' PROVE r \in Samples \cup {new}
      BY <1>2, <1>3, <2>1 DEF Samples
    <2>2. ASSUME NEW r \in Samples \cup {new} PROVE r \in Samples'
      BY <1>2, <1>3, <2>2 DEF Samples
    <2> QED
      BY <2>1, <2>2
  <1> QED
    BY <1>1, <1>4

\* Merging moves samples, and loses none.
LEMMA SamplesMerge ==
    ASSUME TypeOK, NEW w \in Workers, Merge(w)
    PROVE  Samples' = Samples
  <1>1. /\ out' = out \cup local[w]
        /\ \A v \in Workers : local'[v] = IF v = w THEN {} ELSE local[v]
    BY DEF Merge, TypeOK
  <1>2. ASSUME NEW r \in Samples' PROVE r \in Samples
    BY <1>1, <1>2 DEF Samples
  <1>3. ASSUME NEW r \in Samples PROVE r \in Samples'
    BY <1>1, <1>3 DEF Samples
  <1> QED
    BY <1>2, <1>3

\* A session begins without samples, with every thread idle.
LEMMA SamplesFresh ==
    /\ Init => Samples = {} /\ \A w \in Workers : worker[w] = Idle
    /\ KeepResults => Samples' = {} /\ \A w \in Workers : worker'[w] = Idle
  BY DEF Init, KeepResults, Samples

\* The invariant holds when no thread has begun.
LEMMA CountInvInit == Init => CountInv
  <1> SUFFICES ASSUME Init PROVE CountInv
    OBVIOUS
  <1>1. Samples = {} /\ next = 0 /\ \A w \in Workers : worker[w].pc = "idle"
    BY SamplesFresh DEF Init, Idle
  <1> QED
    BY <1>1, LoadTypeInit
    DEF CountInv, HeldOnce, Claimed, MeasuredOnce, Leaving, Holding, Slots

\* A thread takes the next slot, or finds none left.
LEMMA ClaimStep ==
    ASSUME CountInv, NEW w \in Workers, Claim(w)
    PROVE  HeldOnce' /\ Claimed' /\ MeasuredOnce' /\ Leaving'
  <1> USE DEF CountInv
  <1>1. /\ Samples' = Samples /\ next' = next + 1 /\ next \in Nat
        /\ worker[w].pc = "idle" /\ local' = local
    BY DEF Claim, At, Samples, TypeOK
  <1>2. MeasuredOnce'
    BY <1>1 DEF MeasuredOnce
  <1>3. CASE next < Count
    <2>1. /\ worker'[w].pc = "claimed" /\ worker'[w].slot = next
          /\ \A v \in Workers \ {w} : worker'[v] = worker[v]
      BY <1>3 DEF Claim, TypeOK, Worker
    <2>2. next \in Slots
      BY <1>1, <1>3, ConstantTypes DEF Slots
    <2>3. \A r \in Samples : r.slot # next
      BY <1>1, <2>2 DEF Claimed
    <2>4. \A v \in Workers \ {w} : Holding(v) => worker[v].slot # next
      BY <1>1 DEF HeldOnce
    <2>5. HeldOnce'
      BY <1>1, <2>1, <2>3, <2>4 DEF HeldOnce, Holding, TypeOK, Worker, Slots
    <2>6. Claimed'
      <3>1. ASSUME NEW s \in Slots, s < next'
            PROVE  \/ \E v \in Workers : Holding(v)' /\ worker'[v].slot = s
                   \/ \E r \in Samples' : r.slot = s
        <4>1. CASE s = next
          BY <2>1, <4>1 DEF Holding
        <4>2. CASE s # next
          <5>1. s < next
            BY <1>1, <3>1, <4>2 DEF Slots
          <5> QED
            BY <1>1, <2>1, <5>1 DEF Claimed, Holding
        <4> QED
          BY <4>1, <4>2
      <3>2. ASSUME NEW s \in Slots, s >= next'
            PROVE  \A r \in Samples' : r.slot # s
        BY <1>1, <3>2 DEF Claimed, Slots
      <3> QED
        BY <3>1, <3>2 DEF Claimed
    <2>7. Leaving'
      BY <1>1, <1>3, <2>1, ConstantTypes DEF Leaving
    <2> QED
      BY <1>2, <2>5, <2>6, <2>7
  <1>4. CASE ~(next < Count)
    <2>1. /\ worker'[w].pc = "merging"
          /\ \A v \in Workers \ {w} : worker'[v] = worker[v]
      BY <1>4 DEF Claim, Goto, TypeOK, Worker
    <2>2. HeldOnce'
      BY <1>1, <2>1 DEF HeldOnce, Holding, TypeOK, Worker, Slots
    <2>3. Claimed'
      <3>1. ASSUME NEW s \in Slots PROVE s < next /\ s < next'
        BY <1>1, <1>4, ConstantTypes DEF Slots
      <3>2. ASSUME NEW s \in Slots
            PROVE  \/ \E v \in Workers : Holding(v)' /\ worker'[v].slot = s
                   \/ \E r \in Samples' : r.slot = s
        BY <1>1, <2>1, <3>1 DEF Claimed, Holding
      <3> QED
        BY <1>1, <3>1, <3>2 DEF Claimed, Slots
    <2>4. Leaving'
      BY <1>1, <1>4, <2>1, ConstantTypes DEF Leaving
    <2> QED
      BY <1>2, <2>2, <2>3, <2>4
  <1> QED
    BY <1>3, <1>4

\* The slot a thread held becomes a sample.
LEMMA FinishStep ==
    ASSUME CountInv, NEW w \in Workers, NEW pc \in {"sent", "refused"},
           NEW result \in {"answered", "cut", "lost"}, Finish(w, pc, result)
    PROVE  HeldOnce' /\ Claimed' /\ MeasuredOnce' /\ Leaving'
  <1> USE DEF CountInv
  <1>1. PICK new : /\ new.slot = worker[w].slot
                   /\ Samples' = Samples \cup {new}
    BY SamplesFinish
  <1>2. /\ worker[w].pc = pc /\ next' = next
        /\ worker'[w].pc = "idle"
        /\ \A v \in Workers \ {w} : worker'[v] = worker[v]
        /\ \A v \in Workers \ {w} : local'[v] = local[v]
    BY DEF Finish, At, Goto, TypeOK, Worker
  <1>3. Holding(w) /\ worker[w].slot < next
    BY <1>2 DEF HeldOnce, Holding
  <1>4. \A v \in Workers \ {w} : Holding(v) => worker[v].slot # new.slot
    BY <1>1, <1>3 DEF HeldOnce
  <1>5. HeldOnce'
    BY <1>1, <1>2, <1>4 DEF HeldOnce, Holding
  <1>6. Claimed'
    <2>1. ASSUME NEW s \in Slots, s < next'
          PROVE  \/ \E v \in Workers : Holding(v)' /\ worker'[v].slot = s
                 \/ \E r \in Samples' : r.slot = s
      <3>1. CASE s = new.slot
        BY <1>1, <3>1
      <3>2. CASE s # new.slot
        BY <1>1, <1>2, <2>1, <3>2 DEF Claimed, Holding
      <3> QED
        BY <3>1, <3>2
    <2>2. ASSUME NEW s \in Slots, s >= next'
          PROVE  \A r \in Samples' : r.slot # s
      <3>1. worker[w].slot # s
        BY <1>2, <1>3, <2>2 DEF TypeOK, Worker, Slots
      <3> QED
        BY <1>1, <1>2, <2>2, <3>1 DEF Claimed
    <2> QED
      BY <2>1, <2>2 DEF Claimed
  <1>7. MeasuredOnce'
    BY <1>1, <1>3 DEF MeasuredOnce, HeldOnce
  <1>8. Leaving'
    BY <1>2 DEF Leaving
  <1> QED
    BY <1>5, <1>6, <1>7, <1>8

\* Every step keeps the books.
LEMMA CountInvStep ==
    ASSUME CountInv, [Next]_vars
    PROVE  CountInv'
  <1> USE DEF CountInv
  <1>1. TypeOK'
    BY LoadTypeStep
  <1>2. ASSUME UNCHANGED <<next, worker, local, out>>
        PROVE  HeldOnce' /\ Claimed' /\ MeasuredOnce' /\ Leaving'
    <2>1. Samples' = Samples
      BY <1>2 DEF Samples
    <2> QED
      BY <1>2, <2>1 DEF HeldOnce, Claimed, MeasuredOnce, Leaving, Holding
  <1>3. CASE Announce \/ Die \/ Stall \/ Recover \/ Tick \/ SpawnServer
               \/ Handshake \/ Report \/ UNCHANGED vars
    BY <1>1, <1>2, <1>3 DEF Announce, Die, Stall, Recover, Tick, SpawnServer,
       Handshake, Report, vars, session
  <1>4. CASE Stop
    <2>1. /\ Samples' = {} /\ next' = 0
          /\ \A w \in Workers : worker'[w].pc = "idle"
      BY <1>4, SamplesFresh DEF Stop, KeepResults, Idle
    <2> QED
      BY <1>1, <2>1
      DEF HeldOnce, Claimed, MeasuredOnce, Leaving, Holding, Slots
  <1>5. ASSUME NEW w \in Workers, WorkerStep(w)
        PROVE  HeldOnce' /\ Claimed' /\ MeasuredOnce' /\ Leaving'
    <2>1. CASE Claim(w)
      BY <2>1, ClaimStep
    <2>2. CASE Send(w)
      <3>1. /\ Samples' = Samples /\ next' = next /\ local' = local
            /\ worker[w].pc = "claimed"
            /\ worker'[w].pc \in {"sent", "refused"}
            /\ worker'[w].slot = worker[w].slot
            /\ \A v \in Workers \ {w} : worker'[v] = worker[v]
        BY <2>2 DEF Send, At, Samples, TypeOK, Worker
      <3>2. \A v \in Workers : /\ Holding(v)' <=> Holding(v)
                               /\ worker'[v].slot = worker[v].slot
        BY <3>1 DEF Holding
      <3>3. Leaving'
        BY <3>1 DEF Leaving
      <3> QED
        BY <3>1, <3>2, <3>3 DEF HeldOnce, Claimed, MeasuredOnce
    <2>3. CASE Answer(w) \/ CutOff(w) \/ Lose(w) \/ Refused(w)
      BY <2>3, FinishStep DEF Answer, CutOff, Lose, Refused
    <2>4. CASE Merge(w)
      <3>1. /\ next' = next /\ worker[w].pc = "merging"
            /\ worker'[w].pc = "joined" /\ local'[w] = {}
            /\ \A v \in Workers \ {w} :
                  worker'[v] = worker[v] /\ local'[v] = local[v]
        BY <2>4 DEF Merge, At, Goto, TypeOK, Worker
      <3>2. Samples' = Samples
        BY <2>4, SamplesMerge
      <3>3. HeldOnce' /\ MeasuredOnce'
        BY <3>1, <3>2 DEF HeldOnce, MeasuredOnce, Holding
      <3>4. Claimed'
        BY <3>1, <3>2 DEF Claimed, Holding
      <3>5. Leaving'
        BY <3>1 DEF Leaving
      <3> QED
        BY <3>3, <3>4, <3>5
    <2> QED
      BY <1>5, <2>1, <2>2, <2>3, <2>4 DEF WorkerStep
  <1> QED
    BY <1>1, <1>3, <1>4, <1>5 DEF Next

\* The books are kept in every reachable state.
LEMMA CountInvHolds == Spec => []CountInv
  BY CountInvInit, CountInvStep, PTL DEF Spec

\* When the threads have been joined, each request has been sent by one of
\* them and has one outcome (service.rs 229-246).
THEOREM RequestsCountOnce == Spec => []EveryRequestCountsOnce
  <1>1. ASSUME CountInv PROVE EveryRequestCountsOnce
    <2> SUFFICES ASSUME AllJoined, NEW s \in Slots
                 PROVE  \E r \in out :
                           r.slot = s /\ \A q \in out : q.slot = s => q = r
      BY DEF EveryRequestCountsOnce
    <2>1. Samples = out
      BY <1>1 DEF AllJoined, CountInv, Leaving, Samples
    <2>2. s < next
      BY <1>1, ConstantTypes DEF AllJoined, CountInv, TypeOK, Leaving, Slots
    <2>3. \A w \in Workers : ~Holding(w)
      BY DEF AllJoined, Holding
    <2>4. PICK r \in out : r.slot = s
      BY <1>1, <2>1, <2>2, <2>3 DEF CountInv, Claimed
    <2> QED
      BY <1>1, <2>1, <2>4 DEF CountInv, MeasuredOnce
  <1> QED
    BY <1>1, CountInvHolds, PTL

\* The drop rate is a share of the requests there were: it is computed over
\* rounds * count * 2 (service.rs 86-87), which nobody has counted, and when
\* a session's threads have been joined its drops and latencies are as many.
THEOREM DropsAndLatenciesAddUp ==
    Spec => [](AllJoined => Cardinality(Lost) + Cardinality(Measured) = Count)
  <1>1. ASSUME CountInv, EveryRequestCountsOnce, AllJoined
        PROVE  Cardinality(Lost) + Cardinality(Measured) = Count
    <2>1. IsFiniteSet(out) /\ Lost \subseteq out /\ out \subseteq Sample
      BY <1>1 DEF CountInv, TypeOK, Lost
    <2>2. /\ Cardinality(Measured) = Cardinality(out) - Cardinality(Lost)
          /\ Cardinality(Lost) \in Nat /\ Cardinality(out) \in Nat
      <3>1. IsFiniteSet(Lost) /\ out \cap Lost = Lost
        BY <2>1, FS_Subset
      <3> QED
        BY <2>1, <3>1, FS_Difference, FS_CardinalityType DEF Measured
    <2>3. Cardinality(out) = Count
      <3> DEFINE f == [r \in out |-> r.slot]
      <3>1. \A r \in out : r.slot \in Slots
        BY <2>1 DEF Sample
      <3>2. f \in [out -> Slots] /\ \A r \in out : f[r] = r.slot
        BY <3>1
      <3> HIDE DEF f
      <3>3. \A r, q \in out : f[r] = f[q] => r = q
        BY <1>1, <3>2 DEF CountInv, MeasuredOnce, Samples
      <3>4. \A s \in Slots : \E r \in out : f[r] = s
        BY <1>1, <3>2 DEF EveryRequestCountsOnce
      <3>5. f \in Bijection(out, Slots)
        BY <3>2, <3>3, <3>4, Fun_IsBij
      <3>6. Cardinality(Slots) = Cardinality(out)
        BY <2>1, <3>5, FS_Bijection DEF ExistsBijection
      <3>7. Cardinality(Slots) = Count
        BY ConstantTypes, FS_Interval DEF Slots
      <3> QED
        BY <3>6, <3>7
    <2> QED
      BY <2>2, <2>3, ConstantTypes
  <1> QED
    BY <1>1, CountInvHolds, RequestsCountOnce, PTL

(***************************************************************************)
(* Nothing is omitted.                                                      *)
(***************************************************************************)

LEMMA TargetType == \A s \in Slots : Target(s) \in Nat
  BY ConstantTypes DEF Target, Slots

\* What a request's time of measurement and its latency have in common.
LEMMA LatencyType ==
    ASSUME TypeOK, NEW w \in Workers
    PROVE  /\ Latency(w) = now - Target(worker[w].slot)
           /\ Target(worker[w].slot) \in Nat /\ now \in Nat
  BY TargetType DEF Latency, TypeOK, Worker

\* The stall's bounds and every sample's target are numbers.
LEMMA StallTypes ==
    ASSUME TypeOK
    PROVE  /\ stall.from \in Nat /\ stall.to \in Nat /\ now \in Nat
           /\ stall = [from |-> stall.from, to |-> stall.to]
           /\ \A r \in Samples : Target(r.slot) \in Nat /\ r.latency \in Int
  BY TargetType, ConstantTypes DEF TypeOK, Samples, Sample

\* No session begins with a stall.
LEMMA StallInvInit == Init => StallInv
  <1> SUFFICES ASSUME Init PROVE StallInv
    OBVIOUS
  <1>1. Samples = {} /\ \A w \in Workers : worker[w].pc = "idle"
    BY SamplesFresh DEF Idle
  <1>2. stall.from = 0 /\ stall.to = 0 /\ now = 0
    BY DEF Init, NoStall
  <1> QED
    BY <1>1, <1>2, LoadTypeInit DEF StallInv, NothingOmitted

\* A request measured now has at least the delay that a past stall caused.
LEMMA StallFinish ==
    ASSUME StallInv, NEW w \in Workers, NEW pc \in {"sent", "refused"},
           NEW result \in {"answered", "cut", "lost"}, Finish(w, pc, result),
           result = "answered" => servers[sess] # "stalled"
    PROVE  /\ servers'[sess'] = "stalled" =>
                  \A r \in Samples' :
                      r.result = "answered" => Target(r.slot) <= stall'.from
           /\ \A v \in Workers :
                  worker'[v].pc \in {"sent", "refused"} =>
                      Target(worker'[v].slot) <= now'
           /\ \A r \in Samples' : Target(r.slot) <= now'
           /\ NothingOmitted'
  <1> USE DEF StallInv
  <1>1. PICK new : /\ new.slot = worker[w].slot
                   /\ new.result = result /\ new.latency = Latency(w)
                   /\ Samples' = Samples \cup {new}
    BY SamplesFinish
  <1>2. UNCHANGED <<servers, sess, stall, now>>
    BY DEF Finish
  <1>3. Target(new.slot) <= now
    BY <1>1 DEF Finish, At
  <1>4. new.latency = now - Target(new.slot)
    BY <1>1, LatencyType
  <1>5. servers'[sess'] = "stalled" =>
            \A r \in Samples' :
                r.result = "answered" => Target(r.slot) <= stall'.from
    BY <1>1, <1>2
  <1>6. \A v \in Workers :
            worker'[v].pc \in {"sent", "refused"} =>
                Target(worker'[v].slot) <= now'
    BY <1>2 DEF Finish, Goto, TypeOK, Worker
  <1>7. \A r \in Samples' : Target(r.slot) <= now'
    BY <1>1, <1>2, <1>3
  <1>8. NothingOmitted'
    <2>1. new.latency >= stall.to - Target(new.slot)
      BY <1>1, <1>4, LatencyType, StallTypes
    <2> QED
      BY <1>1, <1>2, <2>1 DEF NothingOmitted
  <1> QED
    BY <1>5, <1>6, <1>7, <1>8

\* Every step keeps what is known of the stall.
LEMMA StallInvStep ==
    ASSUME StallInv, [Next]_vars
    PROVE  StallInv'
  <1> USE DEF StallInv
  <1>1. TypeOK'
    BY LoadTypeStep
  <1>2. ASSUME UNCHANGED <<worker, local, out, now, stall>>,
               servers'[sess'] = "stalled" => servers[sess] = "stalled"
        PROVE  StallInv'
    <2>1. Samples' = Samples
      BY <1>2 DEF Samples
    <2> QED
      BY <1>1, <1>2, <2>1 DEF NothingOmitted
  <1>3. CASE Announce \/ Die \/ SpawnServer \/ Handshake \/ Report
               \/ UNCHANGED vars
    BY <1>2, <1>3 DEF Announce, Die, SpawnServer, Handshake, Report, Become,
       vars, session, TypeOK
  <1>4. CASE Stall
    <2>1. /\ stall'.from = now /\ stall'.to = now /\ now' = now
          /\ Samples' = Samples /\ worker' = worker
      BY <1>4 DEF Stall, Samples
    <2>2. NothingOmitted'
      BY <2>1, StallTypes DEF NothingOmitted
    <2> QED
      BY <1>1, <2>1, <2>2, StallTypes
  <1>5. CASE Recover
    <2>1. /\ servers[sess] = "stalled" /\ servers'[sess'] # "stalled"
          /\ Samples' = Samples /\ now' = now /\ worker' = worker
      BY <1>5 DEF Recover, Become, Samples, TypeOK
    <2>2. stall'.from = stall.from /\ stall'.to = now
      BY <1>5, StallTypes DEF Recover
    <2>3. NothingOmitted'
      BY <2>1, <2>2, StallTypes DEF NothingOmitted
    <2> QED
      BY <1>1, <2>1, <2>2, <2>3, StallTypes
  <1>6. CASE Tick
    <2>1. /\ now' = now + 1 /\ Samples' = Samples
          /\ UNCHANGED <<worker, stall, servers, sess>>
      BY <1>6 DEF Tick, Samples
    <2>2. NothingOmitted'
      BY <2>1 DEF NothingOmitted
    <2>3. \A w \in Workers :
              worker'[w].pc \in {"sent", "refused"} =>
                  Target(worker'[w].slot) <= now'
      BY <2>1, LatencyType
    <2> QED
      BY <1>1, <2>1, <2>2, <2>3, StallTypes
  <1>7. CASE Stop
    <2>1. /\ Samples' = {} /\ now' = 0 /\ stall' = NoStall
          /\ \A w \in Workers : worker'[w].pc = "idle"
      BY <1>7, SamplesFresh DEF Stop, KeepResults, Idle
    <2> QED
      BY <1>1, <2>1 DEF NothingOmitted, NoStall
  <1>8. ASSUME NEW w \in Workers, WorkerStep(w)
        PROVE  StallInv'
    <2>1. CASE Claim(w)
      <3>1. /\ Samples' = Samples /\ UNCHANGED <<servers, sess, stall, now>>
            /\ worker'[w].pc \notin {"sent", "refused"}
            /\ \A v \in Workers \ {w} : worker'[v] = worker[v]
        BY <2>1 DEF Claim, Goto, Samples, TypeOK, Worker
      <3> QED
        BY <1>1, <3>1 DEF NothingOmitted
    <2>2. CASE Send(w)
      <3>1. /\ Samples' = Samples /\ UNCHANGED <<servers, sess, stall, now>>
            /\ worker'[w].slot = worker[w].slot
            /\ \A v \in Workers \ {w} : worker'[v] = worker[v]
            /\ Target(worker[w].slot) <= now
        BY <2>2, LatencyType DEF Send, Samples, TypeOK, Worker
      <3> QED
        BY <1>1, <3>1 DEF NothingOmitted
    <2>3. CASE Answer(w) \/ CutOff(w) \/ Lose(w) \/ Refused(w)
      <3>1. \E pc \in {"sent", "refused"},
                result \in {"answered", "cut", "lost"} :
               /\ Finish(w, pc, result)
               /\ result = "answered" => servers[sess] # "stalled"
        BY <2>3 DEF Answer, CutOff, Lose, Refused
      <3>2. UNCHANGED <<stall, now>>
        BY <3>1 DEF Finish
      <3> QED
        BY <1>1, <3>1, <3>2, StallFinish
    <2>4. CASE Merge(w)
      <3>1. /\ Samples' = Samples /\ UNCHANGED <<servers, sess, stall, now>>
            /\ worker'[w].pc \notin {"sent", "refused"}
            /\ \A v \in Workers \ {w} : worker'[v] = worker[v]
        BY <2>4, SamplesMerge DEF Merge, Goto, TypeOK, Worker
      <3> QED
        BY <1>1, <3>1 DEF NothingOmitted
    <2> QED
      BY <1>8, <2>1, <2>2, <2>3, <2>4 DEF WorkerStep
  <1> QED
    BY <1>3, <1>4, <1>5, <1>6, <1>7, <1>8 DEF Next

\* A request due while the server was stalled carries the delay until the
\* stall's end, in every reachable state (service.rs 1-9, 229-241).
THEOREM NothingIsOmitted == Spec => []NothingOmitted
  <1>1. StallInv => NothingOmitted
    BY DEF StallInv
  <1> QED
    BY <1>1, StallInvInit, StallInvStep, PTL DEF Spec

(***************************************************************************)
(* A dead server.                                                           *)
(***************************************************************************)

\* What a request adds to what is known of a dead server.
LEMMA DeathFinish ==
    ASSUME DeathInv, NEW w \in Workers, NEW pc \in {"sent", "refused"},
           NEW result \in {"answered", "cut", "lost"}, Finish(w, pc, result),
           result = "cut" => servers[sess] = "dead",
           pc = "refused" => result = "lost"
    PROVE  DeathInv'
  <1> USE DEF DeathInv
  <1>1. PICK new : /\ new.slot = worker[w].slot /\ new.by = w
                   /\ new.result = result
                   /\ Samples' = Samples \cup {new}
    BY SamplesFinish
  <1>2. /\ UNCHANGED <<servers, sess, stage, next>>
        /\ stage = "load"
        /\ worker[w].pc = pc /\ worker'[w].pc = "idle"
        /\ \A v \in Workers \ {w} : worker'[v] = worker[v]
    BY DEF Finish, At, Goto, TypeOK, Worker
  <1>3. TypeOK'
    BY FinishType DEF Finish, TypeOK
  <1>4. Holding(w) /\ ~Holding(w)'
    BY <1>2 DEF Holding
  <1>5. \A r \in Samples : r.by = w => r.slot < new.slot
    BY <1>1, <1>4
  <1>6. DeathShowsAsDrops'
    <2> SUFFICES ASSUME NEW r \in Samples', NEW q \in Samples',
                        r.result = "cut", q.by = r.by, q.slot > r.slot
                 PROVE  q.result = "lost"
      BY DEF DeathShowsAsDrops
    <2>1. CASE r \in Samples /\ q \in Samples
      BY <2>1 DEF DeathShowsAsDrops
    <2>2. CASE q = new /\ r \in Samples
      <3>1. pc = "refused"
        BY <1>1, <1>2, <2>2
      <3> QED
        BY <1>1, <2>2, <3>1
    <2>3. CASE r = new
      <3>1. q # new
        BY <1>1, <2>3 DEF TypeOK, Worker, Slots
      <3>2. q \in Samples /\ q.slot < r.slot
        BY <1>1, <1>5, <2>3, <3>1
      <3>3. q.slot \in Int /\ r.slot \in Int
        BY <1>1, <2>3, <3>2 DEF Samples, Sample, TypeOK, Worker, Slots
      <3> QED
        BY <3>2, <3>3
    <2> QED
      BY <1>1, <2>1, <2>2, <2>3
  <1>7. \A v \in Workers, r \in Samples' : r.by = v =>
            /\ r.slot < next'
            /\ Holding(v)' => r.slot < worker'[v].slot
            /\ r.result = "cut" => worker'[v].pc # "sent"
    BY <1>1, <1>2, <1>4 DEF Holding
  <1>8. \A v \in Workers : Holding(v)' => worker'[v].slot < next'
    BY <1>2, <1>4 DEF Holding
  <1> QED
    BY <1>1, <1>2, <1>3, <1>6, <1>7, <1>8

\* Every step keeps what is known of a dead server.
LEMMA DeathInvStep ==
    ASSUME DeathInv, [Next]_vars
    PROVE  DeathInv'
  <1> USE DEF DeathInv
  <1>1. TypeOK'
    BY LoadTypeStep
  <1>2. ASSUME UNCHANGED <<next, worker, local, out>>,
               stage' # "load" => stage # "load",
               servers[sess] = "dead" => servers'[sess'] = "dead"
        PROVE  DeathInv'
    <2>1. Samples' = Samples
      BY <1>2 DEF Samples
    <2> QED
      BY <1>1, <1>2, <2>1 DEF DeathShowsAsDrops, Holding
  <1>3. CASE Announce \/ Die \/ Stall \/ Recover \/ Tick \/ UNCHANGED vars
    BY <1>2, <1>3 DEF Announce, Die, Stall, Recover, Tick, Become, vars,
       session, TypeOK
  <1>4. CASE SpawnServer \/ Handshake \/ Report
    <2>1. Samples' = Samples /\ Samples = {}
      BY <1>4 DEF SpawnServer, Handshake, Report, session, Samples
    <2>2. UNCHANGED <<next, worker>>
      BY <1>4 DEF SpawnServer, Handshake, Report, session
    <2> QED
      BY <1>1, <2>1, <2>2 DEF DeathShowsAsDrops, Holding
  <1>5. CASE Stop
    <2>1. Samples' = {} /\ \A w \in Workers : worker'[w].pc = "idle"
      BY <1>5, SamplesFresh DEF Stop, KeepResults, Idle
    <2> QED
      BY <1>1, <2>1 DEF DeathShowsAsDrops, Holding
  <1>6. ASSUME NEW w \in Workers, WorkerStep(w)
        PROVE  DeathInv'
    <2>1. CASE Claim(w)
      <3>1. /\ Samples' = Samples /\ UNCHANGED <<servers, sess, stage>>
            /\ stage = "load"
            /\ next \in Nat /\ next' = next + 1
            /\ worker'[w].pc # "sent"
            /\ Holding(w)' => worker'[w].slot = next
            /\ \A v \in Workers \ {w} : worker'[v] = worker[v]
        BY <2>1 DEF Claim, At, Goto, Samples, TypeOK, Worker, Holding
      <3>2. /\ \A r \in Samples : r.slot \in Int
            /\ \A v \in Workers : worker[v].slot \in Int
        BY DEF Samples, Sample, TypeOK, Worker, Slots
      <3>3. \A v \in Workers, r \in Samples' : r.by = v =>
                /\ r.slot < next'
                /\ Holding(v)' => r.slot < worker'[v].slot
                /\ r.result = "cut" => worker'[v].pc # "sent"
        BY <3>1, <3>2 DEF Holding
      <3>4. \A v \in Workers : Holding(v)' => worker'[v].slot < next'
        BY <3>1, <3>2 DEF Holding
      <3> QED
        BY <1>1, <3>1, <3>3, <3>4 DEF DeathShowsAsDrops
    <2>2. CASE Send(w)
      <3>1. /\ Samples' = Samples /\ UNCHANGED <<servers, sess, stage, next>>
            /\ stage = "load"
            /\ worker'[w].slot = worker[w].slot
            /\ Holding(w) /\ Holding(w)'
            /\ worker'[w].pc = "sent" => servers[sess] # "dead"
            /\ \A v \in Workers \ {w} : worker'[v] = worker[v]
        BY <2>2 DEF Send, At, Samples, TypeOK, Worker, Holding
      <3>2. \A v \in Workers, r \in Samples' : r.by = v =>
                /\ r.slot < next'
                /\ Holding(v)' => r.slot < worker'[v].slot
                /\ r.result = "cut" => worker'[v].pc # "sent"
        BY <3>1 DEF Holding
      <3>3. \A v \in Workers : Holding(v)' => worker'[v].slot < next'
        BY <3>1 DEF Holding
      <3> QED
        BY <1>1, <3>1, <3>2, <3>3 DEF DeathShowsAsDrops
    <2>3. CASE Answer(w) \/ CutOff(w) \/ Lose(w) \/ Refused(w)
      BY <2>3, DeathFinish DEF Answer, CutOff, Lose, Refused
    <2>4. CASE Merge(w)
      <3>1. /\ Samples' = Samples /\ UNCHANGED <<servers, sess, stage, next>>
            /\ stage = "load"
            /\ worker'[w].pc = "joined" /\ ~Holding(w)'
            /\ \A v \in Workers \ {w} : worker'[v] = worker[v]
        BY <2>4, SamplesMerge DEF Merge, At, Goto, TypeOK, Worker, Holding
      <3> QED
        BY <1>1, <3>1 DEF DeathShowsAsDrops, Holding
    <2> QED
      BY <1>6, <2>1, <2>2, <2>3, <2>4 DEF WorkerStep
  <1> QED
    BY <1>3, <1>4, <1>5, <1>6 DEF Next

\* A server's death reaches the drop counts: of what a thread has sent at most
\* one request is cut off and counted as an answer, and all later ones are
\* lost, for any number of threads and requests (service.rs 181-197, 229-242).
THEOREM DeathIsSeen == Spec => []DeathShowsAsDrops
  <1>1. ASSUME Init PROVE DeathInv
    <2>1. Samples = {} /\ \A w \in Workers : worker[w].pc = "idle"
      BY <1>1, SamplesFresh DEF Idle
    <2> QED
      BY <1>1, <2>1, LoadTypeInit DEF DeathInv, DeathShowsAsDrops, Holding
  <1>2. DeathInv => DeathShowsAsDrops
    BY DEF DeathInv
  <1> QED
    BY <1>1, <1>2, DeathInvStep, PTL DEF Spec

\* The requests of a session that were cut off and passed for answers.
CutShort == {r \in Samples : r.result = "cut"}

\* Whatever the load, a server's death passes for speed on no more requests
\* than there are threads (service.rs 181-197).
THEOREM FewAreCutShort ==
    ASSUME IsFiniteSet(Workers)
    PROVE  Spec => [](Cardinality(CutShort) <= Cardinality(Workers))
  <1>1. ASSUME CountInv, DeathShowsAsDrops
        PROVE  Cardinality(CutShort) <= Cardinality(Workers)
    <2> DEFINE f == [r \in CutShort |-> r.by]
    <2>1. \A r \in CutShort :
             r \in Samples /\ r.result = "cut" /\ r.by \in Workers
                 /\ r.slot \in Int
      BY <1>1, ConstantTypes
      DEF CutShort, Samples, CountInv, TypeOK, Sample, Slots
    <2>2. f \in [CutShort -> Workers] /\ \A r \in CutShort : f[r] = r.by
      BY <2>1
    <2> HIDE DEF f
    <2>3. \A r, q \in CutShort : r.by = q.by => r = q
      <3> SUFFICES ASSUME NEW r \in CutShort, NEW q \in CutShort,
                          r.by = q.by
                   PROVE  r.slot = q.slot
        BY <1>1, <2>1 DEF CountInv, MeasuredOnce
      <3>1. ~(r.slot < q.slot) /\ ~(q.slot < r.slot)
        BY <1>1, <2>1 DEF DeathShowsAsDrops
      <3> QED
        BY <2>1, <3>1
    <2>4. f \in Injection(CutShort, Workers)
      BY <2>2, <2>3, Fun_IsInj
    <2> QED
      BY <2>4, FS_Injection
  <1> QED
    BY <1>1, CountInvHolds, DeathIsSeen, PTL

(***************************************************************************)
(* One server at a time.                                                    *)
(***************************************************************************)

\* Every step keeps the servers in order.
LEMMA ServersStep ==
    ASSUME ServersInOrder, [Next]_vars
    PROVE  ServersInOrder'
  <1> USE DEF ServersInOrder
  <1>1. TypeOK'
    BY LoadTypeStep
  <1>2. CASE Stop
    <2>1. servers' = [servers EXCEPT ![sess] = "dead"]
      BY <1>2 DEF Stop
    <2>2. CASE sess + 1 \in Sessions
      <3>1. sess' = sess + 1 /\ stage' = "spawn"
        BY <1>2, <2>2 DEF Stop, KeepResults
      <3> QED
        BY <1>1, <2>1, <2>2, <3>1 DEF TypeOK, Sessions
    <2>3. CASE sess + 1 \notin Sessions
      <3>1. sess' = sess /\ stage' = "report"
        BY <1>2, <2>3 DEF Stop, KeepResults
      <3> QED
        BY <1>1, <2>1, <3>1 DEF TypeOK, Sessions
    <2> QED
      BY <2>2, <2>3
  <1>3. CASE Announce \/ Die \/ Stall \/ Recover
    BY <1>1, <1>3 DEF Announce, Die, Stall, Recover, Become, TypeOK, Sessions
  <1>4. CASE SpawnServer
    BY <1>1, <1>4 DEF SpawnServer, Become, TypeOK, Sessions
  <1>5. CASE Handshake \/ Report \/ Tick
    BY <1>1, <1>5 DEF Handshake, Report, Tick
  <1>6. ASSUME NEW w \in Workers, WorkerStep(w)
        PROVE  UNCHANGED <<stage, sess, servers>>
    BY <1>6 DEF WorkerStep, Claim, Send, Answer, CutOff, Lose, Refused, Finish,
           Merge
  <1>7. CASE UNCHANGED <<stage, sess, servers>>
    BY <1>1, <1>7
  <1> QED
    BY <1>2, <1>3, <1>4, <1>5, <1>6, <1>7 DEF Next, vars

\* No server runs beside the one that is measured (service.rs 68-70).
THEOREM ServersAlone == Spec => []OneServer
  <1>1. Init => ServersInOrder
    BY LoadTypeInit, ConstantTypes DEF Init, ServersInOrder, Sessions
  <1>2. ServersInOrder => OneServer
    BY DEF ServersInOrder, OneServer, TypeOK, Stages, Sessions
  <1> QED
    BY <1>1, <1>2, ServersStep, PTL DEF Spec

(***************************************************************************)
(* The drop limit.                                                          *)
(***************************************************************************)

\* What the report was decided on does not change after it.
LEMMA ReportStep ==
    ASSUME TypeOK, ReportHolds, [Next]_vars
    PROVE  ReportHolds'
  <1>1. CASE Report
    BY <1>1 DEF Report, ReportHolds, TooManyDropped
  <1>2. CASE Stop \/ SpawnServer \/ Handshake
    BY <1>2 DEF Stop, KeepResults, SpawnServer, Handshake, ReportHolds
  <1>3. ASSUME UNCHANGED <<stage, empty, dropped>>
        PROVE  ReportHolds'
    BY <1>3 DEF ReportHolds, TooManyDropped
  <1>4. CASE Announce \/ Die \/ Stall \/ Recover \/ Tick \/ UNCHANGED vars
    BY <1>3, <1>4 DEF Announce, Die, Stall, Recover, Tick, vars
  <1>5. ASSUME NEW w \in Workers, WorkerStep(w)
        PROVE  ReportHolds'
    BY <1>3, <1>5
    DEF WorkerStep, Claim, Send, Answer, CutOff, Lose, Refused, Finish,
           Merge
  <1> QED
    BY <1>1, <1>2, <1>4, <1>5 DEF Next

\* A number is reported only when every session has measured something and
\* neither side has lost more than twice the limit (main.rs 183-191).
THEOREM ReportsAreTrusted == Spec => []ReportIsTrusted
  <1>1. Init => ReportHolds
    BY DEF Init, ReportHolds
  <1>2. ASSUME TypeOK, ReportHolds PROVE ReportIsTrusted
    <2> SUFFICES ASSUME stage = "reported", NEW s \in Sides
                 PROVE  ~empty /\ dropped[s] * DropLimit < 2 * (Rounds * Count)
      <3>1. Sides # {}
        BY DEF Sides
      <3> QED
        BY <3>1, Zenon DEF ReportIsTrusted
    <2> DEFINE b == dropped["baseline"]
               c == dropped["candidate"]
               limit == 2 * Rounds * Count
    <2>1. b \in Nat /\ c \in Nat /\ DropLimit \in Nat
      BY <1>2, ConstantTypes DEF TypeOK, Sides
    <2>2. limit \in Nat /\ limit = 2 * (Rounds * Count)
      BY ConstantTypes
    <2>3. ~empty /\ ~((b + c) * DropLimit >= limit)
      BY <1>2 DEF ReportHolds, TooManyDropped
    <2> HIDE DEF b, c, limit
    <2>4. /\ (b + c) * DropLimit = b * DropLimit + c * DropLimit
          /\ b * DropLimit \in Nat /\ c * DropLimit \in Nat
      BY <2>1
    <2>5. b * DropLimit < limit /\ c * DropLimit < limit
      BY <2>2, <2>3, <2>4
    <2>6. dropped[s] = b \/ dropped[s] = c
      BY DEF b, c, Sides
    <2> QED
      BY <2>2, <2>3, <2>5, <2>6
  <1> QED
    BY <1>1, <1>2, LoadTypeInit, LoadTypeStep, ReportStep, PTL DEF Spec

==============================================================================
