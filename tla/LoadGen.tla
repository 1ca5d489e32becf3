-------------------------------- MODULE LoadGen --------------------------------
(***************************************************************************)
(* Service mode of the bench runner (crates/bench-runner/src/service.rs):   *)
(* sessions that alternate between the two servers, and in each session     *)
(* worker threads that take requests from one shared counter and send them  *)
(* at fixed intended times.  Session 2k is the baseline's k-th, session     *)
(* 2k + 1 the candidate's.                                                  *)
(*                                                                          *)
(* Time is a clock of ticks.  Servers are external (targets/cjson/service.c *)
(* is one): they announce themselves or do not, stall, and die.             *)
(***************************************************************************)
EXTENDS Integers, FiniteSets

CONSTANTS Workers,
          Count,      \* requests of a session
          Period,     \* ticks between two intended send times
          Rounds,     \* sessions of each side
          DropLimit,  \* 1 / 0.005: one request in DropLimit may be dropped
          Horizon     \* bound on the clock of a session

\* run_session refuses a session without requests or workers, or a rate that
\* is not positive; the bootstrap refuses less than two sessions a side.
ASSUME LoadAssumption ==
    /\ Workers # {}
    /\ Count \in Nat \ {0} /\ Period \in Nat /\ Rounds \in Nat \ {0, 1}
    /\ DropLimit \in Nat /\ Horizon \in Nat /\ Horizon >= (Count - 1) * Period

VARIABLES stage,    \* what run_compare is doing
          sess,     \* the session it is in
          servers,  \* the server process of each session
          line,     \* what the current one has written to its pipe
          next,     \* idx: the shared request counter
          worker,   \* the threads
          local,    \* what each thread has measured
          out,      \* what they have merged
          dropped,  \* requests lost in the sessions so far, by side
          empty,    \* some session measured nothing
          now,      \* ticks since the session's start
          stall     \* history: the session's last stall

session == <<next, worker, local, out, now, stall>>
vars == <<stage, sess, servers, line, session, dropped, empty>>

Slots    == 0 .. Count - 1
Sessions == 0 .. 2 * Rounds - 1
Sides    == {"baseline", "candidate"}
Side(k)  == IF k % 2 = 0 THEN "baseline" ELSE "candidate"
Stages   == {"spawn", "handshake", "load", "report", "reported", "refused",
             "error"}

Worker == [pc : {"idle", "claimed", "sent", "refused", "merging", "joined"},
           slot : Slots, sentAt : 0 .. Horizon]

\* One request's outcome: answered in full, cut off by the server's end
\* (which reads as an answer), or lost.
Sample == [slot : Slots, by : Workers, result : {"answered", "cut", "lost"},
           latency : Int]

\* A stall that has ended; [0, 0) when there was none.
NoStall == [from |-> 0, to |-> 0]
Idle    == [pc |-> "idle", slot |-> 0, sentAt |-> 0]

\* The intended send time of a request.
Target(slot) == slot * Period

Init ==
    /\ stage = "spawn"
    /\ sess = 0
    /\ servers = [k \in Sessions |-> "none"]
    /\ line = "none"
    /\ next = 0
    /\ worker = [w \in Workers |-> Idle]
    /\ local = [w \in Workers |-> {}]
    /\ out = {}
    /\ dropped = [s \in Sides |-> 0]
    /\ empty = FALSE
    /\ now = 0
    /\ stall = NoStall

(***************************************************************************)
(* The servers and the clock.                                               *)
(***************************************************************************)
Become(from, to) ==
    /\ servers[sess] \in from
    /\ servers' = [servers EXCEPT ![sess] = to]

\* It prints READY, or something else, and goes on running.
Announce ==
    /\ Become({"starting"}, "up")
    /\ line' \in {"READY", "other"}
    /\ UNCHANGED <<stage, sess, session, dropped, empty>>

Die ==
    /\ Become({"starting", "up", "stalled"}, "dead")
    /\ line' = IF line = "none" THEN "eof" ELSE line
    /\ UNCHANGED <<stage, sess, session, dropped, empty>>

\* It stops answering; at most once in a session.
Stall ==
    /\ stage = "load" /\ stall = NoStall
    /\ Become({"up"}, "stalled")
    /\ stall' = [from |-> now, to |-> now]
    /\ UNCHANGED <<stage, sess, line, next, worker, local, out, now, dropped,
                   empty>>

Recover ==
    /\ Become({"stalled"}, "up")
    /\ stall' = [stall EXCEPT !.to = now]
    /\ UNCHANGED <<stage, sess, line, next, worker, local, out, now, dropped,
                   empty>>

Tick ==
    /\ stage = "load" /\ now < Horizon
    /\ now' = now + 1
    /\ UNCHANGED <<stage, sess, servers, line, next, worker, local, out, stall,
                   dropped, empty>>

(***************************************************************************)
(* The beginning of a session.                                              *)
(***************************************************************************)

\* Picking a port and starting the process; either may fail.
SpawnServer ==
    /\ stage = "spawn"
    /\ \/ Become({"none"}, "starting") /\ stage' = "handshake"
       \/ UNCHANGED servers /\ stage' = "error"
    /\ UNCHANGED <<sess, line, session, dropped, empty>>

\* Blocks until a line or the end of the pipe.  On anything but READY the
\* process handle is dropped, and the server is neither killed nor awaited.
\* The untimed warm-up requests that follow have no effect here.
Handshake ==
    /\ stage = "handshake" /\ line # "none"
    /\ stage' = IF line = "READY" THEN "load" ELSE "error"
    /\ UNCHANGED <<sess, servers, line, session, dropped, empty>>

(***************************************************************************)
(* A worker thread.                                                         *)
(***************************************************************************)
At(w, pc) == stage = "load" /\ worker[w].pc = pc

Goto(w, pc) == worker' = [worker EXCEPT ![w].pc = pc]

\* One slot too many.
ClaimPastTheEnd(w) ==
    /\ At(w, "idle")
    /\ next' = next + 1
    /\ IF next <= Count
       THEN worker' = [worker EXCEPT ![w].pc = "claimed", ![w].slot = next]
       ELSE Goto(w, "merging")
    /\ UNCHANGED <<stage, sess, servers, line, local, out, now, stall, dropped,
                   empty>>

\* A read and a write in place of fetch_add: an update can be lost.
ClaimInTwoSteps(w) ==
    /\ At(w, "idle")
    /\ next' \in {next, next + 1}
    /\ IF next < Count
       THEN worker' = [worker EXCEPT ![w].pc = "claimed", ![w].slot = next]
       ELSE Goto(w, "merging")
    /\ UNCHANGED <<stage, sess, servers, line, local, out, now, stall, dropped,
                   empty>>

Claim(w) ==
    /\ At(w, "idle")
    /\ next' = next + 1
    /\ IF next < Count
       THEN worker' = [worker EXCEPT ![w].pc = "claimed", ![w].slot = next]
       ELSE Goto(w, "merging")
    /\ UNCHANGED <<stage, sess, servers, line, local, out, now, stall, dropped,
                   empty>>

\* One connection for all requests of a thread: a dead server is not noticed
\* when the next one is written to it.
SendOnOpenConnection(w) ==
    /\ At(w, "claimed")
    /\ now >= Target(worker[w].slot)
    /\ worker' = [worker EXCEPT ![w].pc = "sent", ![w].sentAt = now]
    /\ UNCHANGED <<stage, sess, servers, line, next, local, out, now, stall,
                   dropped, empty>>

\* Sleeps until the intended time, if that is still ahead, and connects.  A
\* server that is dead by then refuses.
Send(w) ==
    /\ At(w, "claimed")
    /\ now >= Target(worker[w].slot)
    /\ worker' = [worker EXCEPT
           ![w].pc = IF servers[sess] = "dead" THEN "refused" ELSE "sent",
           ![w].sentAt = now]
    /\ UNCHANGED <<stage, sess, servers, line, next, local, out, now, stall,
                   dropped, empty>>

\* From the time the request was really sent.
LatencySinceSent(w) == now - worker[w].sentAt

\* From the intended send time.
Latency(w) == now - Target(worker[w].slot)

Finish(w, pc, result) ==
    /\ At(w, pc)
    /\ Goto(w, "idle")
    /\ local' = [local EXCEPT ![w] = @ \cup
           {[slot |-> worker[w].slot, by |-> w, result |-> result,
             latency |-> Latency(w)]}]
    /\ UNCHANGED <<stage, sess, servers, line, next, out, now, stall, dropped,
                   empty>>

Answer(w) == servers[sess] = "up" /\ Finish(w, "sent", "answered")

\* The server dies while it serves the request: the read ends without an
\* error, and the thread does not look at what it has read.
CutOff(w) == servers[sess] = "dead" /\ Finish(w, "sent", "cut")

\* The connection is reset, or could not be made.
Lose(w) == Finish(w, "sent", "lost")

Refused(w) == Finish(w, "refused", "lost")

Merge(w) ==
    /\ At(w, "merging")
    /\ Goto(w, "joined")
    /\ out' = out \cup local[w]
    /\ local' = [local EXCEPT ![w] = {}]
    /\ UNCHANGED <<stage, sess, servers, line, next, now, stall, dropped,
                   empty>>

(***************************************************************************)
(* The end of a session, and of the comparison.                             *)
(***************************************************************************)
AllJoined == \A w \in Workers : worker[w].pc = "joined"

Lost     == {r \in out : r.result = "lost"}
Measured == out \ Lost

\* What is kept of a session: the next one starts from nothing.
KeepResults ==
    /\ AllJoined
    /\ dropped' = [dropped EXCEPT ![Side(sess)] = @ + Cardinality(Lost)]
    /\ empty' = (empty \/ Measured = {})
    /\ IF sess + 1 \in Sessions
       THEN sess' = sess + 1 /\ stage' = "spawn"
       ELSE sess' = sess /\ stage' = "report"
    /\ line' = "none" /\ next' = 0 /\ out' = {} /\ now' = 0 /\ stall' = NoStall
    /\ worker' = [w \in Workers |-> Idle]
    /\ local' = [w \in Workers |-> {}]

\* The server is left running.
StopWithoutKill ==
    stage = "load" /\ KeepResults /\ UNCHANGED servers

\* Waits for a measurement of every request.
StopWhenAllMeasured ==
    /\ stage = "load"
    /\ Lost = {}
    /\ servers' = [servers EXCEPT ![sess] = "dead"]
    /\ KeepResults

\* Joins the threads, kills the server and waits for it.
Stop ==
    /\ stage = "load"
    /\ servers' = [servers EXCEPT ![sess] = "dead"]
    /\ KeepResults

\* Only the baseline's drops.
TooManyDroppedOnBaseline ==
    dropped["baseline"] * DropLimit >= 2 * Rounds * Count

\* The bootstrap panics on the percentile of a session without samples;
\* then the drop rate over both sides decides whether a number is reported.
TooManyDropped ==
    (dropped["baseline"] + dropped["candidate"]) * DropLimit
        >= 2 * Rounds * Count

Report ==
    /\ stage = "report"
    /\ stage' = IF empty THEN "error"
                ELSE IF TooManyDropped THEN "refused" ELSE "reported"
    /\ UNCHANGED <<sess, servers, line, session, dropped, empty>>

WorkerStep(w) ==
    \/ Claim(w) \/ Send(w) \/ Merge(w)
    \/ Answer(w) \/ CutOff(w) \/ Lose(w) \/ Refused(w)

Next ==
    \/ Announce \/ Die \/ Stall \/ Recover \/ Tick
    \/ SpawnServer \/ Handshake \/ Stop \/ Report
    \/ \E w \in Workers : WorkerStep(w)

Spec == Init /\ [][Next]_vars

\* The threads run and the clock goes on; a server says something or ends, a
\* stall passes, and a request gets an answer or, from a dead server, an end.
FairSpec ==
    /\ Spec
    /\ WF_vars(SpawnServer) /\ WF_vars(Handshake) /\ WF_vars(Stop)
    /\ WF_vars(Report) /\ WF_vars(Tick)
    /\ WF_vars(Announce) /\ WF_vars(Recover)
    /\ \A w \in Workers :
          /\ WF_vars(Claim(w)) /\ WF_vars(Send(w)) /\ WF_vars(Merge(w))
          /\ WF_vars(Answer(w) \/ CutOff(w) \/ Refused(w))

(***************************************************************************)
(* Properties.                                                              *)
(***************************************************************************)

\* Every variable stays in its type.
TypeOK ==
    /\ stage \in Stages
    /\ sess \in Sessions
    /\ servers \in [Sessions -> {"none", "starting", "up", "stalled", "dead"}]
    /\ line \in {"none", "READY", "other", "eof"}
    /\ next \in Nat
    /\ worker \in [Workers -> Worker]
    /\ local \in [Workers -> SUBSET Sample]
    /\ out \in SUBSET Sample
    /\ IsFiniteSet(out) /\ \A w \in Workers : IsFiniteSet(local[w])
    /\ dropped \in [Sides -> Nat]
    /\ empty \in BOOLEAN
    /\ now \in 0 .. Horizon
    /\ stall \in [from : 0 .. Horizon, to : 0 .. Horizon]

\* When a session's threads have been joined, each of its requests has been
\* sent by one of them and has one outcome, a latency or a drop
\* (service.rs 229-246): percentiles and drop rate are of the same requests.
EveryRequestCountsOnce ==
    AllJoined =>
        \A s \in Slots :
            \E r \in out : r.slot = s /\ \A q \in out : q.slot = s => q = r

Samples == out \cup UNION {local[w] : w \in Workers}

\* Coordinated omission (service.rs 1-9): a request that a client would have
\* sent while the server was stalled is measured with all of the delay until
\* the stall ended, however late a thread came to it.
NothingOmitted ==
    \A r \in Samples :
        r.result = "answered"
            /\ stall.from < Target(r.slot) /\ Target(r.slot) < stall.to
        => r.latency >= stall.to - Target(r.slot)

\* A server that dies under load costs a thread one request at most that is
\* cut off and counts as an answer: all it sends after that count as drops,
\* however the others' requests fall in between (service.rs 181-197, 229-242).
DeathShowsAsDrops ==
    \A r, q \in Samples :
        r.result = "cut" /\ q.by = r.by /\ q.slot > r.slot
            => q.result = "lost"

\* A percentile is reported (main.rs 183-191) only when every session measured
\* something and, the limit being on both sides together, when neither side
\* alone has lost more than twice that share of its own requests.
ReportIsTrusted ==
    stage = "reported" =>
        /\ ~empty
        /\ \A s \in Sides : dropped[s] * DropLimit < 2 * (Rounds * Count)

\* No server runs beside the one that is measured, and none outlives the
\* comparison, unless it failed the handshake (service.rs 68-70, 252-253).
OneServer ==
    \A k \in Sessions :
        servers[k] \notin {"none", "dead"} =>
            k = sess /\ stage \in {"handshake", "load", "error"}

\* The comparison ends, with a number, a refusal or an error.
CompareEnds == <>(stage \in {"reported", "refused", "error"})

(***************************************************************************)
(* The inductive invariants.                                                *)
(***************************************************************************)
Holding(w) == worker[w].pc \in {"claimed", "sent", "refused"}

\* What a thread holds is its own, and nobody has measured it yet.
HeldOnce ==
    \A w \in Workers : Holding(w) =>
        /\ worker[w].slot < next
        /\ \A r \in Samples : r.slot # worker[w].slot
        /\ \A v \in Workers : Holding(v) /\ worker[v].slot = worker[w].slot
                => v = w

\* A slot below the counter is held or measured, one above is neither.
Claimed ==
    \A s \in Slots :
        /\ s < next => \/ \E w \in Workers : Holding(w) /\ worker[w].slot = s
                       \/ \E r \in Samples : r.slot = s
        /\ s >= next => \A r \in Samples : r.slot # s

MeasuredOnce ==
    \A r, q \in Samples : r.slot = q.slot => r = q

\* A thread that has stopped claiming has left nothing to claim, and one that
\* has been joined nothing in its own list.
Leaving ==
    \A w \in Workers :
        /\ worker[w].pc \in {"merging", "joined"} => next >= Count
        /\ worker[w].pc = "joined" => local[w] = {}

CountInv == TypeOK /\ HeldOnce /\ Claimed /\ MeasuredOnce /\ Leaving

\* Until a stall is over, everything answered was due before it began.
StallInv ==
    /\ TypeOK
    /\ stall.from <= stall.to /\ stall.to <= now
    /\ servers[sess] = "stalled" =>
           \A r \in Samples :
               r.result = "answered" => Target(r.slot) <= stall.from
    /\ \A w \in Workers :
           worker[w].pc \in {"sent", "refused"} =>
               Target(worker[w].slot) <= now
    /\ \A r \in Samples : Target(r.slot) <= now
    /\ NothingOmitted

\* A thread whose request was cut off knows a dead server only: what it holds
\* comes after what it has measured, and has not been sent to a live one.
DeathInv ==
    /\ TypeOK
    /\ stage # "load" => Samples = {}
    /\ \A r \in Samples : r.result = "cut" => servers[sess] = "dead"
    /\ \A w \in Workers, r \in Samples : r.by = w =>
           /\ r.slot < next
           /\ Holding(w) => r.slot < worker[w].slot
           /\ r.result = "cut" => worker[w].pc # "sent"
    /\ \A w \in Workers : Holding(w) => worker[w].slot < next
    /\ DeathShowsAsDrops

\* The servers come one after another.
ServersInOrder ==
    /\ TypeOK
    /\ \A k \in Sessions : /\ k < sess => servers[k] = "dead"
                           /\ k > sess => servers[k] = "none"
    /\ stage = "spawn" => servers[sess] = "none"
    /\ stage \in {"report", "reported", "refused"} => servers[sess] = "dead"

\* What was decided when the number was reported still holds.
ReportHolds == stage = "reported" => ~empty /\ ~TooManyDropped

==============================================================================
