----------------------------- MODULE ServingProofs -----------------------------
(***************************************************************************)
(* Proofs about Serving, for any number of launches, daemons and requests.  *)
(***************************************************************************)
EXTENDS Serving, TLAPS

(***************************************************************************)
(* The inductive invariant: TypeOK, and what follows.                       *)
(***************************************************************************)
\* A connection that exists leads to a daemon; a launch that has not come to
\* one of its connections has not made it.
Untouched ==
    /\ \A k \in Conns : conn[k].daemon \in Daemons \/ conn[k] = NoConn
    /\ \A l \in Launchers :
          /\ at[l] = "probe" => conn[<<l, "probe">>] = NoConn
          /\ at[l] \in {"probe", "probing", "remove", "start",
                        "second probe"} => conn[<<l, "second probe">>] = NoConn
          /\ at[l] \in {"probe", "probing", "remove", "start",
                        "second probe", "probing again", "launch"} =>
                conn[Agent(l)] = NoConn

\* A thread has a request from reading it until it has answered, and one that
\* handles a request which is not read_verdict holds the lock of its daemon.
LockHeld ==
    \A k \in Conns :
        /\ conn[k].thread \in {"locking", "handling", "writing"}
              <=> conn[k].call # NoCall
        /\ At(k, "locking") => conn[k].call.op = "other"
        /\ At(k, "handling") /\ conn[k].call.op = "other" =>
              holder[conn[k].daemon] = {k}

\* Where the last request of an agent is, and how often it was carried out.
InOnePlace(l) ==
    LET c == conn[Agent(l)]
    IN  /\ c.sent # NoCall =>
              /\ c.sent.n = calls[l] /\ c.call = NoCall /\ c.reply = 0
              /\ performed[l][calls[l]] = 0
        /\ c.call # NoCall =>
              /\ c.call.n = calls[l] /\ c.reply = 0
              /\ performed[l][calls[l]] = IF c.thread = "writing" THEN 1 ELSE 0
        /\ c.reply # 0 =>
              c.reply = calls[l] /\ performed[l][calls[l]] = 1
        /\ c.sent # NoCall \/ c.call # NoCall => calls[l] >= 1
        /\ at[l] = "idle" =>
              c.sent = NoCall /\ c.call = NoCall /\ c.reply = 0
        /\ at[l] \in {"probe", "probing", "remove", "start", "second probe",
                      "probing again", "launch"} => calls[l] = 0

Numbered ==
    \A l \in Launchers :
        /\ InOnePlace(l)
        /\ \A n \in 1 .. MaxCalls[l] :
              /\ performed[l][n] <= 1
              /\ n > calls[l] => performed[l][n] = 0

Answered ==
    \A a \in answers :
        /\ a.got = a.asked /\ a.asked \in 1 .. calls[a.agent]
        /\ performed[a.agent][a.asked] = 1

\* A thread ends because its client has gone, because it failed, or with its
\* daemon; and only an ended one breaks its client.
EndsForCause ==
    /\ \A k \in Conns : At(k, "ended") =>
          ~conn[k].open \/ server[conn[k].daemon] = "dead"
    /\ \A l \in Launchers :
          /\ at[l] \in {"idle", "waiting", "broken"} => conn[Agent(l)].open
          /\ at[l] = "broken" => Ended(Agent(l))

ServingInv ==
    TypeOK /\ Untouched /\ LockHeld /\ Numbered /\ Answered /\ EndsForCause

\* The constants' types, in the form the provers use.
LEMMA Bounds ==
    /\ MaxDaemons \in Nat /\ 1 \in Daemons
    /\ \A l \in Launchers : MaxCalls[l] \in Nat
    /\ NoCall \notin Call
  BY ServingAssumption DEF ServingAssumption, Daemons, Call

\* Connections of different purposes differ.
LEMMA ConnNames ==
    /\ \A l \in Launchers :
          /\ Agent(l) \in Conns /\ <<l, "probe">> \in Conns
          /\ <<l, "second probe">> \in Conns /\ ProbeOf(l) \in Conns
          /\ <<l, "probe">> # <<l, "second probe">>
          /\ Agent(l) # <<l, "probe">> /\ Agent(l) # <<l, "second probe">>
          /\ \A m \in Launchers : /\ Agent(l) = Agent(m) => l = m
                                  /\ Agent(l) # ProbeOf(m)
    /\ NoConn \in Conn
  BY DEF Conns, Agent, ProbeOf, NoConn, Conn, Threads

\* A connection that nobody has made.
LEMMA Unmade ==
    /\ NoConn.daemon \notin Daemons /\ ~NoConn.open
    /\ NoConn.thread = "none" /\ NoConn.reply = 0
    /\ NoConn.sent = NoCall /\ NoConn.call = NoCall
  BY DEF NoConn, NoDaemon, Daemons

\* A thread belongs to a daemon.
LEMMA Served ==
    ASSUME Untouched, NEW k \in Conns, ~At(k, "none")
    PROVE  conn[k].daemon \in Daemons
  BY Unmade DEF Untouched, At

\* How an action changes one connection at most.
LEMMA OneConnType ==
    ASSUME conn \in [Conns -> Conn],
           NEW k \in Conns, NEW r \in Conn, conn' = [conn EXCEPT ![k] = r]
    PROVE  conn' \in [Conns -> Conn]
  OBVIOUS

\* Ending threads keeps every connection well typed.
LEMMA EndType ==
    ASSUME conn \in [Conns -> Conn],
           NEW ks, NEW pc \in {"ended", "failed"}, End(ks, pc)
    PROVE  /\ conn' \in [Conns -> Conn]
           /\ \A k \in Conns :
                 /\ conn'[k].daemon = conn[k].daemon
                 /\ conn'[k].open = conn[k].open
                 /\ conn'[k].sent = conn[k].sent
                 /\ conn'[k].reply = conn[k].reply
                 /\ k \in ks => conn'[k].thread = pc /\ conn'[k].call = NoCall
                 /\ k \notin ks => conn'[k] = conn[k]
  <1>1. \A k \in Conns :
           [conn[k] EXCEPT !.thread = pc, !.call = NoCall] \in Conn
    BY DEF Conn, Threads
  <1> QED
    BY <1>1 DEF End, Conn

\* A change of the thread's place keeps the connection well typed.
LEMMA GotoType ==
    ASSUME conn \in [Conns -> Conn],
           NEW k \in Conns, NEW pc \in Threads, Goto(k, pc)
    PROVE  /\ conn' \in [Conns -> Conn]
           /\ conn'[k].daemon = conn[k].daemon /\ conn'[k].open = conn[k].open
           /\ conn'[k].sent = conn[k].sent /\ conn'[k].reply = conn[k].reply
           /\ conn'[k].call = conn[k].call /\ conn'[k].thread = pc
           /\ \A j \in Conns : j # k => conn'[j] = conn[j]
  BY DEF Goto, Conn

\* A closed connection stays well typed.
LEMMA CloseType ==
    ASSUME conn \in [Conns -> Conn], NEW k \in Conns, Close(k)
    PROVE  /\ conn' \in [Conns -> Conn]
           /\ conn'[k].daemon = conn[k].daemon /\ ~conn'[k].open
           /\ conn'[k].sent = conn[k].sent /\ conn'[k].reply = 0
           /\ conn'[k].call = conn[k].call
           /\ conn'[k].thread = conn[k].thread
           /\ \A j \in Conns : j # k => conn'[j] = conn[j]
  BY DEF Close, Conn

\* A new connection is well typed.
LEMMA ConnectType ==
    ASSUME conn \in [Conns -> Conn], path \in Daemons \cup {NoDaemon},
           NEW k \in Conns, NEW c \in Call \cup {NoCall}, Connect(k, c)
    PROVE  /\ conn' \in [Conns -> Conn]
           /\ conn'[k].daemon = path /\ conn'[k].open
           /\ conn'[k].sent = c /\ conn'[k].reply = 0
           /\ conn'[k].call = NoCall /\ conn'[k].thread = "backlog"
           /\ \A j \in Conns : j # k => conn'[j] = conn[j]
  BY DEF Connect, NoConn, Conn, Threads

\* Counting at one place of a function, which may be outside its domain.
LEMMA CountOne ==
    ASSUME NEW m \in Nat, NEW f \in [1 .. m -> Nat], NEW i
    PROVE  LET g == [f EXCEPT ![i] = @ + 1]
           IN  /\ g \in [1 .. m -> Nat]
               /\ \A n \in 1 .. m : g[n] = IF n = i THEN f[n] + 1 ELSE f[n]
  <1>1. CASE i \in 1 .. m
    BY <1>1
  <1>2. CASE i \notin 1 .. m
    BY <1>2
  <1> QED
    BY <1>1, <1>2

\* Before the first request.
LEMMA CountNone ==
    ASSUME NEW m \in Nat
    PROVE  LET f == [n \in 1 .. m |-> 0]
           IN  /\ f \in [1 .. m -> Nat]
               /\ \A n \in 1 .. m : f[n] <= 1 /\ f[n] = 0
  OBVIOUS

\* Performing counts for the agents among the connections, and for no other.
LEMMA PerformType ==
    ASSUME TypeOK, NEW ks, Perform(ks)
    PROVE  /\ DOMAIN performed' = Launchers
           /\ \A l \in Launchers :
                 /\ performed'[l] \in [1 .. MaxCalls[l] -> Nat]
                 /\ Agent(l) \notin ks => performed'[l] = performed[l]
                 /\ Agent(l) \in ks => \A n \in 1 .. MaxCalls[l] :
                       performed'[l][n] = IF n = conn[Agent(l)].call.n
                                          THEN performed[l][n] + 1
                                          ELSE performed[l][n]
  <1>1. DOMAIN performed' = Launchers
    BY DEF Perform
  <1>2. ASSUME NEW l \in Launchers, Agent(l) \notin ks
        PROVE  performed'[l] = performed[l]
    BY <1>2 DEF Perform, AgentsOf
  <1>3. ASSUME NEW l \in Launchers, Agent(l) \in ks
        PROVE  /\ performed'[l] \in [1 .. MaxCalls[l] -> Nat]
               /\ \A n \in 1 .. MaxCalls[l] :
                     performed'[l][n] = IF n = conn[Agent(l)].call.n
                                        THEN performed[l][n] + 1
                                        ELSE performed[l][n]
    <2> DEFINE i == conn[Agent(l)].call.n
               f == performed[l]
               g == performed'[l]
               m == MaxCalls[l]
    <2>1. g = [f EXCEPT ![i] = @ + 1]
      BY <1>3 DEF Perform, AgentsOf
    <2>2. f \in [1 .. m -> Nat] /\ m \in Nat
      BY Bounds DEF TypeOK
    <2>3. /\ g \in [1 .. m -> Nat]
          /\ \A n \in 1 .. m : g[n] = IF n = i THEN f[n] + 1 ELSE f[n]
      <3> HIDE DEF i, f, g, m
      <3> QED
        BY <2>1, <2>2, CountOne
    <2> QED
      BY <2>3
  <1> QED
    BY <1>1, <1>2, <1>3 DEF TypeOK

\* What an action leaves alone at an agent stays in its place.
LEMMA SameAgent ==
    ASSUME Numbered, NEW l \in Launchers,
           conn'[Agent(l)] = conn[Agent(l)], performed'[l] = performed[l],
           calls'[l] = calls[l], at'[l] = at[l]
    PROVE  /\ InOnePlace(l)'
           /\ \A n \in 1 .. MaxCalls[l] :
                 /\ performed'[l][n] <= 1
                 /\ n > calls'[l] => performed'[l][n] = 0
  <1>1. /\ InOnePlace(l)
        /\ \A n \in 1 .. MaxCalls[l] :
              /\ performed[l][n] <= 1
              /\ n > calls[l] => performed[l][n] = 0
    BY DEF Numbered
  <1>2. InOnePlace(l)'
    BY <1>1, Zenon DEF InOnePlace
  <1> QED
    BY <1>1, <1>2

\* An answered request stays carried out once.
LEMMA AnsweredStays ==
    ASSUME TypeOK, Answered, UNCHANGED <<answers, calls>>,
           \A l \in Launchers : \A n \in 1 .. MaxCalls[l] :
              performed[l][n] = 1 => performed'[l][n] = 1
    PROVE  Answered'
  <1> SUFFICES ASSUME NEW a \in answers
               PROVE  performed'[a.agent][a.asked] = 1
    BY DEF Answered
  <1>1. a.agent \in Launchers /\ a.asked \in 1 .. calls[a.agent]
    BY DEF Answered, TypeOK
  <1>2. a.asked \in 1 .. MaxCalls[a.agent]
    BY <1>1, Bounds DEF TypeOK
  <1> QED
    BY <1>1, <1>2 DEF Answered

\* The initial states.
LEMMA ServingInit == Init => ServingInv
  <1> SUFFICES ASSUME Init PROVE ServingInv
    OBVIOUS
  <1>1. TypeOK
    <2>1. /\ path \in Daemons \cup {NoDaemon}
          /\ server \in
                [Daemons ->
                    {"unborn", "started", "unlinked", "serving", "dead"}]
          /\ holder \in [Daemons -> SUBSET Conns]
          /\ \A d \in Daemons : holder[d] = {}
      BY Bounds DEF Init
    <2>2. conn \in [Conns -> Conn] /\ at \in [Launchers -> Places]
      BY ConnNames DEF Init, Places
    <2>3. /\ calls \in [Launchers -> Nat] /\ DOMAIN performed = Launchers
          /\ answers = {}
      BY DEF Init
    <2>4. ASSUME NEW l \in Launchers
          PROVE  /\ calls[l] <= MaxCalls[l]
                 /\ performed[l] \in [1 .. MaxCalls[l] -> Nat]
      <3>1. MaxCalls[l] \in Nat /\ calls[l] = 0
        BY Bounds DEF Init
      <3>2. performed[l] = [n \in 1 .. MaxCalls[l] |-> 0]
        BY DEF Init
      <3>3. performed[l] \in [1 .. MaxCalls[l] -> Nat]
        BY <3>1, <3>2, CountNone
      <3>4. calls[l] <= MaxCalls[l]
        BY <3>1
      <3> QED
        BY <3>3, <3>4
    <2> QED
      BY <2>1, <2>2, <2>3, <2>4 DEF TypeOK
  <1>2. Untouched /\ LockHeld /\ Answered /\ EndsForCause
    BY Unmade, ConnNames
      DEF Init, Untouched, LockHeld, Answered, EndsForCause, At, Ended
  <1>3. ASSUME NEW l \in Launchers
        PROVE  /\ InOnePlace(l)
               /\ \A n \in 1 .. MaxCalls[l] :
                     /\ performed[l][n] <= 1
                     /\ n > calls[l] => performed[l][n] = 0
    <2>1. conn[Agent(l)] = NoConn /\ calls[l] = 0
      BY ConnNames DEF Init
    <2>2. performed[l] = [n \in 1 .. MaxCalls[l] |-> 0]
      BY DEF Init
    <2>3. \A n \in 1 .. MaxCalls[l] :
             /\ performed[l][n] <= 1
             /\ n > calls[l] => performed[l][n] = 0
      BY <2>2, Bounds, CountNone
    <2>4. InOnePlace(l)
      BY <2>1, Unmade DEF InOnePlace
    <2> QED
      BY <2>3, <2>4
  <1> QED
    BY <1>1, <1>2, <1>3 DEF ServingInv, Numbered

\* A daemon that comes up touches the path and its own state.
LEMMA UnlinkInv ==
    ASSUME ServingInv, NEW d \in Daemons, Unlink(d) \/ Bind(d)
    PROVE  ServingInv'
  <1> USE DEF ServingInv, history
  <1>1. UNCHANGED <<holder, conn, at, calls, performed, answers>>
    BY DEF Unlink, Bind
  <1>2. TypeOK'
    BY <1>1 DEF TypeOK, Unlink, Bind, At
  <1>3. Untouched' /\ LockHeld' /\ Numbered' /\ Answered'
    BY <1>1 DEF Untouched, LockHeld, Numbered, InOnePlace, Answered, At
  <1>4. \A e \in Daemons : server[e] = "dead" => server'[e] = "dead"
    BY DEF Unlink, Bind, TypeOK
  <1>5. EndsForCause'
    BY <1>1, <1>4, Served DEF EndsForCause, At, Ended
  <1> QED
    BY <1>2, <1>3, <1>5

\* A daemon that dies.
LEMMA DieInv ==
    ASSUME ServingInv, NEW d \in Daemons, Die(d)
    PROVE  ServingInv'
  <1> USE DEF ServingInv
  <1> DEFINE mine == {k \in Conns : conn[k].daemon = d}
  <1>1. PICK ks \in SUBSET {k \in Conns : conn[k].daemon = d
                                             /\ At(k, "handling")} :
           Perform(ks)
    BY DEF Die
  <1>2. /\ conn' \in [Conns -> Conn]
        /\ \A k \in Conns :
              /\ conn'[k].daemon = conn[k].daemon
              /\ conn'[k].open = conn[k].open
              /\ conn'[k].sent = conn[k].sent
              /\ conn'[k].reply = conn[k].reply
              /\ k \in mine =>
                    conn'[k].thread = "ended" /\ conn'[k].call = NoCall
              /\ k \notin mine => conn'[k] = conn[k]
    BY EndType DEF Die, TypeOK
  <1>3. /\ UNCHANGED <<path, at, calls, answers>>
        /\ server' = [server EXCEPT ![d] = "dead"]
        /\ holder' = [holder EXCEPT ![d] = {}]
    BY DEF Die
  <1>4. TypeOK'
    <2>1. \A e \in Daemons, k \in Conns :
             k \in holder'[e] => conn'[k].daemon = e /\ At(k, "handling")'
      BY <1>2, <1>3 DEF TypeOK, At
    <2>2. holder' \in [Daemons -> SUBSET Conns]
      BY <1>3 DEF TypeOK
    <2>3. server' \in [Daemons ->
                          {"unborn", "started", "unlinked", "serving", "dead"}]
      BY <1>3 DEF TypeOK
    <2>4. /\ DOMAIN performed' = Launchers
          /\ \A l \in Launchers :
                performed'[l] \in [1 .. MaxCalls[l] -> Nat]
      BY <1>1, PerformType
    <2> QED
      BY <1>2, <1>3, <2>1, <2>2, <2>3, <2>4 DEF TypeOK
  <1>5. Untouched'
    <2>1. \A k \in Conns : conn[k] = NoConn => conn'[k] = NoConn
      BY <1>2, Unmade
    <2> QED
      BY <1>2, <1>3, <2>1, ConnNames DEF Untouched
  <1>6. LockHeld'
    <2>1. \A k \in Conns : ~At(k, "none") /\ k \notin mine =>
             holder'[conn[k].daemon] = holder[conn[k].daemon]
      BY <1>3, Served DEF TypeOK
    <2> QED
      BY <1>2, <2>1 DEF LockHeld, At
  <1>7. Numbered' /\ Answered'
    <2>1. ASSUME NEW l \in Launchers, Agent(l) \in ks
          PROVE  /\ Agent(l) \in mine
                 /\ conn[Agent(l)].call.n = calls[l]
                 /\ performed[l][calls[l]] = 0 /\ calls[l] >= 1
                 /\ calls[l] \in 1 .. MaxCalls[l]
                 /\ conn[Agent(l)].sent = NoCall
                 /\ conn[Agent(l)].reply = 0
      <3>1. /\ Agent(l) \in mine /\ conn[Agent(l)].thread = "handling"
            /\ conn[Agent(l)].call # NoCall
        BY <2>1 DEF LockHeld, At
      <3>2. InOnePlace(l) /\ calls[l] \in Nat /\ calls[l] <= MaxCalls[l]
        BY DEF Numbered, TypeOK
      <3>3. MaxCalls[l] \in Nat
        BY Bounds
      <3>4. /\ conn[Agent(l)].call.n = calls[l] /\ calls[l] >= 1
            /\ performed[l][calls[l]] = 0 /\ conn[Agent(l)].reply = 0
            /\ conn[Agent(l)].sent = NoCall
        BY <3>1, <3>2 DEF InOnePlace
      <3>5. calls[l] \in 1 .. MaxCalls[l]
        BY <3>2, <3>3, <3>4
      <3> QED
        BY <3>1, <3>4, <3>5
    <2>2. ASSUME NEW l \in Launchers
          PROVE  /\ InOnePlace(l)'
                 /\ \A n \in 1 .. MaxCalls[l] :
                       /\ performed'[l][n] <= 1
                       /\ n > calls'[l] => performed'[l][n] = 0
                       /\ performed[l][n] = 1 => performed'[l][n] = 1
      <3>1. CASE Agent(l) \notin mine
        <4>1. conn'[Agent(l)] = conn[Agent(l)] /\ Agent(l) \notin ks
          BY <1>1, <1>2, <3>1, ConnNames
        <4>2. performed'[l] = performed[l]
          BY <1>1, <4>1, PerformType
        <4>3. calls'[l] = calls[l] /\ at'[l] = at[l]
          BY <1>3
        <4> QED
          BY <4>1, <4>2, <4>3, SameAgent
      <3>2. CASE Agent(l) \in mine
        <4> DEFINE c == conn[Agent(l)]
        <4>1. /\ conn'[Agent(l)].sent = c.sent
              /\ conn'[Agent(l)].reply = c.reply
              /\ conn'[Agent(l)].call = NoCall
              /\ calls'[l] = calls[l] /\ at'[l] = at[l]
          BY <1>2, <1>3, <3>2, ConnNames
        <4>2. /\ InOnePlace(l)
              /\ \A n \in 1 .. MaxCalls[l] :
                    /\ performed[l][n] <= 1
                    /\ n > calls[l] => performed[l][n] = 0
          BY DEF Numbered
        <4>3. CASE Agent(l) \notin ks
          <5>1. performed'[l] = performed[l]
            BY <1>1, <4>3, PerformType
          <5> QED
            BY <4>1, <4>2, <5>1 DEF InOnePlace
        <4>4. CASE Agent(l) \in ks
          <5>1. \A n \in 1 .. MaxCalls[l] :
                   performed'[l][n] = IF n = calls[l] THEN performed[l][n] + 1
                                      ELSE performed[l][n]
            BY <1>1, <2>1, <4>4, PerformType
          <5>2. performed[l][calls[l]] = 0 /\ calls[l] \in 1 .. MaxCalls[l]
            BY <2>1, <4>4
          <5>3. c.sent = NoCall /\ c.reply = 0 /\ calls[l] >= 1
            BY <2>1, <4>4
          <5>4. InOnePlace(l)'
            BY <4>1, <4>2, <5>3 DEF InOnePlace
          <5>5. calls[l] \in Nat
            BY DEF TypeOK
          <5>6. \A n \in 1 .. MaxCalls[l] :
                   /\ performed'[l][n] <= 1
                   /\ n > calls[l] => performed'[l][n] = 0
                   /\ performed[l][n] = 1 => performed'[l][n] = 1
            BY <4>2, <5>1, <5>2, <5>5
          <5> QED
            BY <4>1, <5>4, <5>6
        <4> QED
          BY <4>3, <4>4
      <3> QED
        BY <3>1, <3>2
    <2>3. Answered'
      BY <1>3, <2>2, AnsweredStays
    <2> QED
      BY <1>3, <2>2, <2>3 DEF Numbered
  <1>8. EndsForCause'
    <2>1. \A k \in Conns : ~At(k, "none") =>
             /\ k \in mine => server'[conn[k].daemon] = "dead"
             /\ k \notin mine =>
                   server'[conn[k].daemon] = server[conn[k].daemon]
      BY <1>3, Served DEF TypeOK
    <2>2. \A k \in Conns : At(k, "ended")' =>
             ~conn'[k].open \/ server'[conn'[k].daemon] = "dead"
      <3> SUFFICES ASSUME NEW k \in Conns, conn'[k].thread = "ended"
                   PROVE  ~conn'[k].open \/ server'[conn'[k].daemon] = "dead"
        BY DEF At
      <3>1. CASE k \in mine
        <4>1. conn'[k].daemon = d /\ server'[d] = "dead"
          BY <1>2, <1>3, <3>1 DEF TypeOK
        <4> QED
          BY <4>1
      <3>2. CASE k \notin mine
        <4>1. conn'[k] = conn[k]
          BY <1>2, <3>2
        <4>2. server'[conn[k].daemon] = server[conn[k].daemon]
          BY <2>1, <3>2, <4>1 DEF At
        <4> QED
          BY <4>1, <4>2 DEF EndsForCause, At
      <3> QED
        BY <3>1, <3>2
    <2> QED
      BY <1>2, <1>3, <2>2, ConnNames DEF EndsForCause, Ended
  <1> QED
    BY <1>4, <1>5, <1>6, <1>7, <1>8

(***************************************************************************)
(* The thread of a connection.                                              *)
(***************************************************************************)
\* How the locks may change while the thread of k takes a step.
LocksMove(k) ==
    /\ holder' \in [Daemons -> SUBSET Conns]
    /\ \A e \in Daemons, j \in Conns :
          j \in holder'[e] =>
              conn'[j].daemon = e /\ conn'[j].thread = "handling"
    /\ conn'[k].thread \in {"locking", "handling", "writing"}
          <=> conn'[k].call # NoCall
    /\ conn'[k].thread = "locking" => conn'[k].call.op = "other"
    /\ conn'[k].thread = "handling" /\ conn'[k].call.op = "other" =>
          holder'[conn[k].daemon] = {k}
    /\ \A j \in Conns \ {k} :
          At(j, "handling") /\ conn[j].call.op = "other" =>
              holder'[conn[j].daemon] = holder[conn[j].daemon]

\* What it may do to the counts, if the connection is an agent's.
CountsMove(k) ==
    /\ DOMAIN performed' = Launchers
    /\ \A l \in Launchers :
          /\ performed'[l] \in [1 .. MaxCalls[l] -> Nat]
          /\ Agent(l) # k => performed'[l] = performed[l]
          /\ Agent(l) = k =>
                /\ InOnePlace(l)'
                /\ \A n \in 1 .. MaxCalls[l] :
                      /\ performed'[l][n] <= 1
                      /\ n > calls[l] => performed'[l][n] = 0
                      /\ performed[l][n] = 1 => performed'[l][n] = 1

\* A request stays in its place while its thread moves about.
LEMMA SamePlace ==
    ASSUME Numbered, NEW k \in Conns, UNCHANGED <<at, calls, performed>>,
           conn'[k].sent = conn[k].sent, conn'[k].reply = conn[k].reply,
           conn'[k].call = conn[k].call,
           \/ conn[k].call = NoCall
           \/ conn[k].thread # "writing" /\ conn'[k].thread # "writing"
    PROVE  \A l \in Launchers : Agent(l) = k => InOnePlace(l)'
  <1> SUFFICES ASSUME NEW l \in Launchers, Agent(l) = k
               PROVE  InOnePlace(l)'
    OBVIOUS
  <1>1. InOnePlace(l) /\ at'[l] = at[l] /\ calls'[l] = calls[l]
    BY DEF Numbered
  <1>2. conn'[k].call # NoCall => conn'[k].thread # "writing"
    OBVIOUS
  <1> QED
    BY <1>1, <1>2 DEF InOnePlace

\* A step of a thread that keeps to this keeps the invariant.
LEMMA ThreadFrame ==
    ASSUME ServingInv, NEW k \in Conns, ~At(k, "none"), ~Ended(k),
           UNCHANGED <<path, server, at, calls, answers>>,
           conn' \in [Conns -> Conn],
           conn'[k].daemon = conn[k].daemon, conn'[k].open = conn[k].open,
           \A j \in Conns : j # k => conn'[j] = conn[j],
           conn'[k].thread = "ended" => ~conn[k].open,
           LocksMove(k), CountsMove(k)
    PROVE  ServingInv'
  <1> USE DEF ServingInv
  <1>1. TypeOK'
    BY DEF TypeOK, LocksMove, CountsMove, At
  <1>2. Untouched'
    <2>1. conn[k] # NoConn /\ conn[k].daemon \in Daemons
      BY Served, Unmade DEF At
    <2> QED
      BY <2>1, ConnNames DEF Untouched
  <1>3. LockHeld'
    <2>1. \A j \in Conns \ {k} : conn'[j] = conn[j]
      OBVIOUS
    <2> QED
      BY <2>1 DEF LockHeld, LocksMove, At
  <1>4. ASSUME NEW l \in Launchers
        PROVE  /\ InOnePlace(l)'
               /\ \A n \in 1 .. MaxCalls[l] :
                     /\ performed'[l][n] <= 1
                     /\ n > calls'[l] => performed'[l][n] = 0
                     /\ performed[l][n] = 1 => performed'[l][n] = 1
    <2>1. CASE Agent(l) = k
      BY <2>1 DEF CountsMove
    <2>2. CASE Agent(l) # k
      <3>1. /\ conn'[Agent(l)] = conn[Agent(l)]
            /\ performed'[l] = performed[l]
            /\ calls'[l] = calls[l] /\ at'[l] = at[l]
        BY <2>2, ConnNames DEF CountsMove
      <3> QED
        BY <3>1, SameAgent
    <2> QED
      BY <2>1, <2>2
  <1>5. Numbered'
    BY <1>4 DEF Numbered
  <1>6. Answered'
    BY <1>4, AnsweredStays
  <1>7. EndsForCause'
    <2>1. ASSUME NEW j \in Conns, At(j, "ended")'
          PROVE  ~conn'[j].open \/ server'[conn'[j].daemon] = "dead"
      <3>1. CASE j = k
        BY <2>1, <3>1 DEF At
      <3>2. CASE j # k
        BY <2>1, <3>2 DEF At, EndsForCause
      <3> QED
        BY <3>1, <3>2
    <2>2. ASSUME NEW l \in Launchers
          PROVE  /\ at'[l] \in {"idle", "waiting", "broken"} =>
                       conn'[Agent(l)].open
                 /\ at'[l] = "broken" => Ended(Agent(l))'
      <3>1. CASE Agent(l) = k
        BY <3>1 DEF EndsForCause
      <3>2. CASE Agent(l) # k
        BY <3>2, ConnNames DEF EndsForCause, Ended
      <3> QED
        BY <3>1, <3>2
    <2> QED
      BY <2>1, <2>2 DEF EndsForCause
  <1> QED
    BY <1>1, <1>2, <1>3, <1>5, <1>6, <1>7

\* The counts while nothing is performed.
LEMMA CountsStand ==
    ASSUME ServingInv, NEW k \in Conns, performed' = performed,
           UNCHANGED <<calls, at>>,
           \A l \in Launchers : Agent(l) = k => InOnePlace(l)'
    PROVE  CountsMove(k)
  <1>1. ASSUME NEW l \in Launchers, NEW n \in 1 .. MaxCalls[l]
        PROVE  /\ performed'[l][n] <= 1
               /\ n > calls[l] => performed'[l][n] = 0
    BY DEF ServingInv, Numbered
  <1> QED
    BY <1>1 DEF CountsMove, ServingInv, TypeOK

\* The locks while a thread that does not handle a request takes a step.
LEMMA LocksStand ==
    ASSUME ServingInv, NEW k \in Conns, ~At(k, "handling"), holder' = holder,
           \A j \in Conns : j # k => conn'[j] = conn[j],
           conn'[k].thread \in {"locking", "handling", "writing"}
               <=> conn'[k].call # NoCall,
           conn'[k].thread = "locking" => conn'[k].call.op = "other",
           conn'[k].thread = "handling" => conn'[k].call.op # "other"
    PROVE  LocksMove(k)
  <1>1. \A e \in Daemons, j \in Conns :
           j \in holder[e] =>
               /\ j # k /\ conn[j].daemon = e /\ conn[j].thread = "handling"
    BY DEF ServingInv, TypeOK, At
  <1> QED
    BY <1>1 DEF LocksMove, ServingInv, TypeOK

\* The locks when a thread that handled a request lets go of its lock.
LEMMA LocksDrop ==
    ASSUME ServingInv, NEW k \in Conns, At(k, "handling"), Release(k),
           \A j \in Conns : j # k => conn'[j] = conn[j],
           conn'[k].thread \in {"locking", "handling", "writing"}
               <=> conn'[k].call # NoCall,
           conn'[k].thread \notin {"locking", "handling"}
    PROVE  LocksMove(k)
  <1> USE DEF ServingInv
  <1> DEFINE d == conn[k].daemon
  <1>1. d \in Daemons
    BY Served DEF At
  <1>2. /\ holder' = [holder EXCEPT ![d] = @ \ {k}]
        /\ holder \in [Daemons -> SUBSET Conns]
    BY DEF Release, TypeOK
  <1>3. \A e \in Daemons, j \in Conns :
           j \in holder[e] => conn[j].daemon = e /\ conn[j].thread = "handling"
    BY DEF TypeOK, At
  <1>4. holder' \in [Daemons -> SUBSET Conns]
    BY <1>1, <1>2
  <1>5. ASSUME NEW e \in Daemons, NEW j \in holder'[e]
        PROVE  j # k /\ j \in holder[e]
    <2>1. CASE e = d
      BY <1>1, <1>2, <1>5, <2>1
    <2>2. CASE e # d
      BY <1>1, <1>2, <1>3, <1>5, <2>2
    <2> QED
      BY <2>1, <2>2
  <1>6. ASSUME NEW j \in Conns \ {k}, At(j, "handling"),
               conn[j].call.op = "other"
        PROVE  holder'[conn[j].daemon] = holder[conn[j].daemon]
    <2>1. conn[j].daemon \in Daemons /\ holder[conn[j].daemon] = {j}
      BY <1>6, Served DEF LockHeld, At
    <2> QED
      BY <1>1, <1>2, <1>6, <2>1
  <1> QED
    BY <1>3, <1>4, <1>5, <1>6 DEF LocksMove

\* A thread that begins, or gives up, has no request yet.
LEMMA AcceptInv ==
    ASSUME ServingInv, NEW k \in Conns, Accept(k)
    PROVE  ServingInv'
  <1> USE DEF ServingInv
  <1>1. UNCHANGED <<path, server, holder, at, calls, performed, answers>>
    BY DEF Accept, history
  <1>2. conn[k].thread = "backlog" /\ conn[k].call = NoCall
    BY DEF Accept, At, LockHeld
  <1>3. /\ conn' \in [Conns -> Conn]
        /\ conn'[k].daemon = conn[k].daemon /\ conn'[k].open = conn[k].open
        /\ conn'[k].sent = conn[k].sent /\ conn'[k].reply = conn[k].reply
        /\ conn'[k].call = NoCall
        /\ conn'[k].thread \in {"reading", "failed"}
        /\ \A j \in Conns : j # k => conn'[j] = conn[j]
    <2>1. conn \in [Conns -> Conn]
      BY DEF TypeOK
    <2>2. CASE Goto(k, "reading")
      BY <1>2, <2>1, <2>2, GotoType DEF Threads
    <2>3. CASE End({k}, "failed")
      BY <1>2, <2>1, <2>3, EndType
    <2> QED
      BY <2>2, <2>3 DEF Accept
  <1>4. \A l \in Launchers : Agent(l) = k => InOnePlace(l)'
    BY <1>1, <1>2, <1>3, SamePlace
  <1>5. LocksMove(k)
    BY <1>1, <1>2, <1>3, LocksStand DEF At
  <1>6. CountsMove(k)
    BY <1>1, <1>4, CountsStand
  <1> QED
    BY <1>1, <1>2, <1>3, <1>5, <1>6, ThreadFrame DEF At, Ended

\* A thread whose client has gone ends without a lock.
LEMMA EndOfInputInv ==
    ASSUME ServingInv, NEW k \in Conns, EndOfInput(k)
    PROVE  ServingInv'
  <1> USE DEF ServingInv
  <1>1. UNCHANGED <<path, server, holder, at, calls, performed, answers>>
    BY DEF EndOfInput, history
  <1>2. conn[k].thread = "reading" /\ conn[k].call = NoCall /\ ~conn[k].open
    BY DEF EndOfInput, At, LockHeld
  <1>3. /\ conn' \in [Conns -> Conn]
        /\ conn'[k].daemon = conn[k].daemon /\ conn'[k].open = conn[k].open
        /\ conn'[k].sent = conn[k].sent /\ conn'[k].reply = conn[k].reply
        /\ conn'[k].call = NoCall /\ conn'[k].thread = "ended"
        /\ \A j \in Conns : j # k => conn'[j] = conn[j]
    BY EndType DEF EndOfInput, TypeOK
  <1>4. \A l \in Launchers : Agent(l) = k => InOnePlace(l)'
    BY <1>1, <1>2, <1>3, SamePlace
  <1>5. LocksMove(k)
    BY <1>1, <1>2, <1>3, LocksStand DEF At
  <1>6. CountsMove(k)
    BY <1>1, <1>4, CountsStand
  <1> QED
    BY <1>1, <1>2, <1>3, <1>5, <1>6, ThreadFrame DEF At, Ended

\* A thread reads its request and decides about the lock.
LEMMA ReadLineInv ==
    ASSUME ServingInv, NEW k \in Conns, ReadLine(k)
    PROVE  ServingInv'
  <1> USE DEF ServingInv
  <1>1. UNCHANGED <<path, server, holder, at, calls, performed, answers>>
    BY DEF ReadLine, history
  <1>2. /\ conn[k].thread = "reading" /\ conn[k].call = NoCall
        /\ conn[k].sent # NoCall
    BY DEF ReadLine, At, LockHeld
  <1> DEFINE c  == conn[k].sent
             pc == IF Locks(c.op) THEN "locking" ELSE "handling"
  <1>3. /\ c \in Call /\ conn \in [Conns -> Conn]
        /\ c.op \in {"read_verdict", "other"}
    BY <1>2 DEF TypeOK, Conn, Call
  <1>4. /\ conn' \in [Conns -> Conn]
        /\ conn'[k].daemon = conn[k].daemon /\ conn'[k].open = conn[k].open
        /\ conn'[k].sent = NoCall /\ conn'[k].reply = conn[k].reply
        /\ conn'[k].call = c /\ conn'[k].thread = pc
        /\ \A j \in Conns : j # k => conn'[j] = conn[j]
    <2>1. conn' = [conn EXCEPT ![k].sent = NoCall, ![k].call = c,
                               ![k].thread = pc]
      BY DEF ReadLine
    <2>2. pc \in Threads
      BY DEF Threads
    <2> HIDE DEF pc
    <2> QED
      BY <1>3, <2>1, <2>2 DEF Conn
  <1>5. /\ pc \in {"locking", "handling"}
        /\ pc = "locking" => c.op = "other"
        /\ pc = "handling" => c.op # "other"
    BY <1>3 DEF Locks
  <1> HIDE DEF pc
  <1>6. ASSUME NEW l \in Launchers, Agent(l) = k
        PROVE  InOnePlace(l)'
    <2>1. /\ InOnePlace(l) /\ at'[l] = at[l] /\ calls'[l] = calls[l]
          /\ performed'[l] = performed[l]
      BY <1>1 DEF Numbered
    <2>2. /\ c.n = calls[l] /\ conn[k].reply = 0 /\ calls[l] >= 1
          /\ performed[l][calls[l]] = 0 /\ at[l] # "idle"
      BY <1>2, <1>6, <2>1 DEF InOnePlace
    <2>3. pc # "writing"
      BY <1>5
    <2> HIDE DEF c
    <2> QED
      BY <1>4, <1>6, <2>1, <2>2, <2>3 DEF InOnePlace
  <1>7. LocksMove(k)
    BY <1>1, <1>2, <1>4, <1>5, LocksStand DEF At
  <1>8. CountsMove(k)
    BY <1>1, <1>6, CountsStand
  <1> QED
    BY <1>1, <1>2, <1>4, <1>5, <1>7, <1>8, ThreadFrame DEF At, Ended

\* A thread answers and is ready for the next request.
LEMMA WriteAnswerInv ==
    ASSUME ServingInv, NEW k \in Conns, WriteAnswer(k)
    PROVE  ServingInv'
  <1> USE DEF ServingInv
  <1>1. UNCHANGED <<path, server, holder, at, calls, performed, answers>>
    BY DEF WriteAnswer, history
  <1>2. conn[k].thread = "writing" /\ conn[k].call # NoCall
    BY DEF WriteAnswer, At, LockHeld
  <1>3. conn \in [Conns -> Conn] /\ conn[k].call.n \in Nat
    BY <1>2 DEF TypeOK, Conn, Call
  <1>4. /\ conn' \in [Conns -> Conn]
        /\ conn'[k].daemon = conn[k].daemon /\ conn'[k].open = conn[k].open
        /\ conn'[k].sent = conn[k].sent /\ conn'[k].call = NoCall
        /\ \/ conn'[k].reply = conn[k].call.n /\ conn'[k].thread = "reading"
           \/ /\ conn'[k].reply = conn[k].reply /\ conn'[k].thread = "ended"
              /\ ~conn[k].open
        /\ \A j \in Conns : j # k => conn'[j] = conn[j]
    <2>1. CASE conn[k].open
      <3>1. conn' = [conn EXCEPT ![k].thread = "reading", ![k].call = NoCall,
                                 ![k].reply = conn[k].call.n]
        BY <2>1 DEF WriteAnswer
      <3>2. [conn[k] EXCEPT !.thread = "reading", !.call = NoCall,
                            !.reply = conn[k].call.n] \in Conn
        BY <1>3 DEF Conn, Threads
      <3>3. conn' \in [Conns -> Conn]
        BY <1>3, <3>1, <3>2
      <3>4. /\ conn'[k].daemon = conn[k].daemon
            /\ conn'[k].open = conn[k].open /\ conn'[k].sent = conn[k].sent
            /\ conn'[k].call = NoCall /\ conn'[k].reply = conn[k].call.n
            /\ conn'[k].thread = "reading"
            /\ \A j \in Conns : j # k => conn'[j] = conn[j]
        BY <1>3, <3>1 DEF Conn
      <3> QED
        BY <3>3, <3>4
    <2>2. CASE ~conn[k].open
      BY <1>3, <2>2, EndType DEF WriteAnswer
    <2> QED
      BY <2>1, <2>2
  <1>5. \A l \in Launchers : Agent(l) = k => InOnePlace(l)'
    <2> SUFFICES ASSUME NEW l \in Launchers, Agent(l) = k
                 PROVE  InOnePlace(l)'
      OBVIOUS
    <2>1. InOnePlace(l)
      BY DEF Numbered
    <2>2. /\ conn[k].call.n = calls[l] /\ conn[k].sent = NoCall
          /\ conn[k].reply = 0 /\ performed[l][calls[l]] = 1
          /\ calls[l] >= 1 /\ at[l] # "idle"
          /\ at[l] \notin {"probe", "probing", "remove", "start",
                           "second probe", "probing again", "launch"}
      <3>1. /\ conn[k].call.n = calls[l] /\ conn[k].reply = 0
            /\ performed[l][calls[l]] = 1
            /\ calls[l] >= 1 /\ at[l] # "idle"
        BY <1>2, <2>1 DEF InOnePlace
      <3>2. conn[k].sent = NoCall
        BY <1>2, <2>1, Zenon DEF InOnePlace
      <3>3. calls[l] # 0
        BY <3>1
      <3>4. at[l] \notin {"probe", "probing", "remove", "start",
                         "second probe", "probing again", "launch"}
        BY <2>1, <3>3, Zenon DEF InOnePlace
      <3> QED
        BY <3>1, <3>2, <3>4
    <2>3. /\ conn'[k].sent = NoCall /\ conn'[k].call = NoCall
          /\ conn'[k].reply \in {0, calls[l]}
      BY <1>4, <2>2
    <2> QED
      BY <1>1, <2>2, <2>3 DEF InOnePlace
  <1>6. LocksMove(k)
    BY <1>1, <1>2, <1>4, LocksStand DEF At
  <1>7. CountsMove(k)
    BY <1>1, <1>5, CountsStand
  <1> QED
    BY <1>1, <1>2, <1>4, <1>6, <1>7, ThreadFrame DEF At, Ended

\* A thread takes a lock that nobody holds.
LEMMA TakeLockInv ==
    ASSUME ServingInv, NEW k \in Conns, TakeLock(k)
    PROVE  ServingInv'
  <1> USE DEF ServingInv
  <1> DEFINE d == conn[k].daemon
  <1>1. UNCHANGED <<path, server, at, calls, performed, answers>>
    BY DEF TakeLock, history
  <1>2. /\ conn[k].thread = "locking" /\ conn[k].call # NoCall
        /\ conn[k].call.op = "other" /\ holder[d] = {}
    BY DEF TakeLock, At, LockHeld
  <1>3. /\ conn' \in [Conns -> Conn]
        /\ conn'[k].daemon = conn[k].daemon /\ conn'[k].open = conn[k].open
        /\ conn'[k].sent = conn[k].sent /\ conn'[k].reply = conn[k].reply
        /\ conn'[k].call = conn[k].call /\ conn'[k].thread = "handling"
        /\ \A j \in Conns : j # k => conn'[j] = conn[j]
    BY GotoType DEF TakeLock, TypeOK, Threads
  <1>4. d \in Daemons
    BY <1>2, Served DEF At
  <1>5. LocksMove(k)
    <2>1. /\ holder' = [holder EXCEPT ![d] = {k}]
          /\ holder \in [Daemons -> SUBSET Conns]
      BY DEF TakeLock, TypeOK
    <2>2. holder' \in [Daemons -> SUBSET Conns] /\ holder'[d] = {k}
      BY <1>4, <2>1
    <2>3. ASSUME NEW e \in Daemons, NEW j \in Conns, j \in holder'[e]
          PROVE  conn'[j].daemon = e /\ conn'[j].thread = "handling"
      <3>1. CASE e = d
        BY <1>3, <2>2, <2>3, <3>1
      <3>2. CASE e # d
        BY <1>2, <1>3, <2>1, <2>3, <3>2 DEF TypeOK, At
      <3> QED
        BY <3>1, <3>2
    <2>4. ASSUME NEW j \in Conns \ {k}, At(j, "handling"),
                 conn[j].call.op = "other"
          PROVE  holder'[conn[j].daemon] = holder[conn[j].daemon]
      <3>1. conn[j].daemon # d
        BY <1>2, <2>4 DEF LockHeld
      <3> QED
        BY <2>1, <2>4, <3>1, Served DEF At
    <2> QED
      BY <1>2, <1>3, <2>2, <2>3, <2>4 DEF LocksMove
  <1>6. \A l \in Launchers : Agent(l) = k => InOnePlace(l)'
    BY <1>1, <1>2, <1>3, SamePlace
  <1>7. CountsMove(k)
    BY <1>1, <1>6, CountsStand
  <1> QED
    BY <1>1, <1>2, <1>3, <1>5, <1>7, ThreadFrame DEF At, Ended

\* The counts when a request that is being handled has been carried out, or
\* has not, and its thread goes on to write the answer, or fails.
LEMMA CountsHandled ==
    ASSUME ServingInv, NEW k \in Conns, At(k, "handling"),
           NEW ks \in {{}, {k}}, Perform(ks), UNCHANGED <<calls, at>>,
           conn'[k].sent = conn[k].sent, conn'[k].reply = conn[k].reply,
           \/ conn'[k].call = NoCall
           \/ /\ ks = {k} /\ conn'[k].call = conn[k].call
              /\ conn'[k].thread = "writing"
    PROVE  CountsMove(k)
  <1> USE DEF ServingInv
  <1>1. ASSUME NEW l \in Launchers, Agent(l) = k
        PROVE  /\ InOnePlace(l)'
               /\ \A n \in 1 .. MaxCalls[l] :
                     /\ performed'[l][n] <= 1
                     /\ n > calls[l] => performed'[l][n] = 0
                     /\ performed[l][n] = 1 => performed'[l][n] = 1
    <2>1. conn[k].call # NoCall /\ conn[k].thread = "handling"
      BY DEF LockHeld, At
    <2>2. /\ InOnePlace(l) /\ at'[l] = at[l] /\ calls'[l] = calls[l]
          /\ calls[l] \in Nat /\ calls[l] <= MaxCalls[l]
          /\ MaxCalls[l] \in Nat
      BY Bounds DEF Numbered, TypeOK
    <2>3. /\ conn[k].call.n = calls[l] /\ conn[k].reply = 0
          /\ conn[k].sent = NoCall /\ calls[l] >= 1
          /\ performed[l][calls[l]] = 0 /\ at[l] # "idle"
      BY <1>1, <2>1, <2>2 DEF InOnePlace
    <2>4. calls[l] \in 1 .. MaxCalls[l]
      BY <2>2, <2>3
    <2>5. \A n \in 1 .. MaxCalls[l] :
             performed'[l][n] = IF ks = {k} /\ n = calls[l] THEN 1
                                ELSE performed[l][n]
      <3>1. CASE ks = {}
        <4>1. performed'[l] = performed[l]
          BY <3>1, PerformType
        <4>2. ks # {k}
          BY <3>1
        <4> QED
          BY <4>1, <4>2
      <3>2. CASE ks = {k}
        BY <1>1, <2>3, <2>4, <3>2, PerformType
      <3> QED
        BY <3>1, <3>2
    <2>6. \A n \in 1 .. MaxCalls[l] :
             performed[l][n] <= 1 /\ (n > calls[l] => performed[l][n] = 0)
      BY DEF Numbered
    <2>7. \A n \in 1 .. MaxCalls[l] :
             /\ performed'[l][n] <= 1
             /\ n > calls[l] => performed'[l][n] = 0
             /\ performed[l][n] = 1 => performed'[l][n] = 1
      BY <2>2, <2>3, <2>5, <2>6
    <2>8. InOnePlace(l)'
      <3>1. CASE conn'[k].call = NoCall
        BY <1>1, <2>2, <2>3, <3>1 DEF InOnePlace
      <3>2. CASE /\ ks = {k} /\ conn'[k].call = conn[k].call
                 /\ conn'[k].thread = "writing"
        <4>1. performed'[l][calls[l]] = 1
          BY <2>4, <2>5, <3>2
        <4> QED
          BY <1>1, <2>2, <2>3, <3>2, <4>1 DEF InOnePlace
      <3> QED
        BY <3>1, <3>2
    <2> QED
      BY <2>7, <2>8
  <1> QED
    BY <1>1, PerformType DEF CountsMove

\* A request is carried out, and the lock released.
LEMMA HandleInv ==
    ASSUME ServingInv, NEW k \in Conns, Handle(k)
    PROVE  ServingInv'
  <1> USE DEF ServingInv
  <1>1. UNCHANGED <<path, server, at, calls, answers>>
    BY DEF Handle
  <1>2. conn[k].thread = "handling" /\ conn[k].call # NoCall
    BY DEF Handle, At, LockHeld
  <1>3. /\ conn' \in [Conns -> Conn]
        /\ conn'[k].daemon = conn[k].daemon /\ conn'[k].open = conn[k].open
        /\ conn'[k].sent = conn[k].sent /\ conn'[k].reply = conn[k].reply
        /\ conn'[k].call = conn[k].call /\ conn'[k].thread = "writing"
        /\ \A j \in Conns : j # k => conn'[j] = conn[j]
    BY GotoType DEF Handle, TypeOK, Threads
  <1>4. LocksMove(k)
    BY <1>2, <1>3, LocksDrop DEF Handle, At
  <1>5. CountsMove(k)
    BY <1>1, <1>2, <1>3, CountsHandled DEF Handle, At
  <1> QED
    BY <1>1, <1>2, <1>3, <1>4, <1>5, ThreadFrame DEF At, Ended

\* A panic releases the lock, done or not done.
LEMMA PanicInv ==
    ASSUME ServingInv, NEW k \in Conns, Panic(k)
    PROVE  ServingInv'
  <1> USE DEF ServingInv
  <1>1. UNCHANGED <<path, server, at, calls, answers>>
    BY DEF Panic
  <1>2. conn[k].thread = "handling" /\ conn[k].call # NoCall
    BY DEF Panic, At, LockHeld
  <1>3. /\ conn' \in [Conns -> Conn]
        /\ conn'[k].daemon = conn[k].daemon /\ conn'[k].open = conn[k].open
        /\ conn'[k].sent = conn[k].sent /\ conn'[k].reply = conn[k].reply
        /\ conn'[k].call = NoCall /\ conn'[k].thread = "failed"
        /\ \A j \in Conns : j # k => conn'[j] = conn[j]
    BY EndType DEF Panic, TypeOK
  <1>4. LocksMove(k)
    BY <1>2, <1>3, LocksDrop DEF Panic, At
  <1>5. PICK ks \in {{}, {k}} : Perform(ks)
    BY DEF Panic
  <1>6. CountsMove(k)
    BY <1>1, <1>2, <1>3, <1>5, CountsHandled DEF At
  <1> QED
    BY <1>1, <1>2, <1>3, <1>4, <1>6, ThreadFrame DEF At, Ended

(***************************************************************************)
(* The launch script and the agent.                                         *)
(***************************************************************************)
\* The places before an agent has its connection.
Launching == {"probe", "probing", "remove", "start", "second probe",
              "probing again", "launch"}

\* RemoveSocket and StartDaemon make no connection and send nothing.
LEMMA StartInv ==
    ASSUME ServingInv, NEW l \in Launchers, RemoveSocket(l) \/ StartDaemon(l)
    PROVE  ServingInv'
  <1> USE DEF ServingInv
  <1>1. UNCHANGED <<holder, conn, calls, performed, answers>>
    BY DEF RemoveSocket, StartDaemon, history
  <1>2. /\ at \in [Launchers -> Places]
        /\ \/ at[l] = "remove" /\ at' = [at EXCEPT ![l] = "start"]
           \/ at[l] = "start" /\ at' = [at EXCEPT ![l] = "second probe"]
    BY DEF RemoveSocket, StartDaemon, Move, TypeOK
  <1>3. /\ path' \in Daemons \cup {NoDaemon}
        /\ server' \in [Daemons ->
                           {"unborn", "started", "unlinked", "serving", "dead"}]
        /\ \A d \in Daemons : server[d] = "dead" => server'[d] = "dead"
    <2>1. CASE RemoveSocket(l)
      BY <2>1 DEF RemoveSocket, TypeOK
    <2>2. CASE StartDaemon(l)
      <3>1. PICK d \in Daemons :
               /\ \A e \in Daemons : server[e] = "unborn" <=> e >= d
               /\ server' = [server EXCEPT ![d] = "started"]
        BY <2>2 DEF StartDaemon
      <3>2. server[d] = "unborn"
        BY <3>1 DEF Daemons
      <3> QED
        BY <2>2, <3>1, <3>2 DEF StartDaemon, TypeOK
    <2> QED
      BY <2>1, <2>2
  <1>4. at' \in [Launchers -> Places]
    BY <1>2 DEF Places
  <1>5. TypeOK'
    BY <1>1, <1>3, <1>4 DEF TypeOK, At
  <1>6. Untouched'
    BY <1>1, <1>2 DEF Untouched
  <1>7. LockHeld' /\ Answered'
    BY <1>1 DEF LockHeld, Answered, At
  <1>8. Numbered'
    <2>1. ASSUME NEW m \in Launchers PROVE InOnePlace(m)'
      BY <1>1, <1>2 DEF Numbered, InOnePlace
    <2> QED
      BY <1>1, <2>1 DEF Numbered
  <1>9. EndsForCause'
    BY <1>1, <1>2, <1>3, Served DEF EndsForCause, At, Ended
  <1> QED
    BY <1>5, <1>6, <1>7, <1>8, <1>9

\* The connections of a launch.
ConnsOf(l) == {<<l, "probe">>, <<l, "second probe">>, Agent(l)}

\* What a step of a launch, or of its agent, does to a connection: nothing, or
\* it closes its end, sends or reads, or it connects.
ConnMove(k) ==
    /\ conn' \in [Conns -> Conn]
    /\ \A j \in Conns : j # k => conn'[j] = conn[j]
    /\ \/ conn'[k] = conn[k]
       \/ /\ conn[k].daemon \in Daemons
          /\ conn'[k].daemon = conn[k].daemon
          /\ conn'[k].thread = conn[k].thread
          /\ conn'[k].call = conn[k].call
          /\ conn'[k].open => conn[k].open
       \/ /\ conn[k] = NoConn /\ conn'[k].daemon \in Daemons
          /\ conn'[k].thread = "backlog" /\ conn'[k].call = NoCall

\* Where it may go from there.
PlaceMove(l) ==
    /\ at' \in [Launchers -> Places]
    /\ \A m \in Launchers : m # l => at'[m] = at[m]
    /\ at'[l] # "probe"
    /\ at'[l] \in {"probing", "remove", "start", "second probe"} =>
          conn'[<<l, "second probe">>] = NoConn
    /\ at'[l] \in Launching => conn'[Agent(l)] = NoConn
    /\ at'[l] \in {"idle", "waiting", "broken"} => conn'[Agent(l)].open
    /\ at'[l] = "broken" => conn'[Agent(l)].thread \in {"ended", "failed"}

\* What it may do to the counts.
CallsMove(l) ==
    /\ calls' \in [Launchers -> Nat] /\ performed' = performed
    /\ \A m \in Launchers : m # l => calls'[m] = calls[m]
    /\ calls[l] <= calls'[l] /\ calls'[l] <= MaxCalls[l]
    /\ InOnePlace(l)'
    /\ answers' \subseteq [agent : Launchers, asked : Nat, got : Nat]
    /\ \A a \in answers' \ answers :
          /\ a.agent = l /\ a.got = a.asked /\ a.asked \in 1 .. calls[l]
          /\ performed[l][a.asked] = 1

\* A step of a launch that keeps to this keeps the invariant.
LEMMA LaunchFrame ==
    ASSUME ServingInv, NEW l \in Launchers, NEW k \in ConnsOf(l),
           UNCHANGED <<path, server, holder>>,
           ConnMove(k), PlaceMove(l), CallsMove(l)
    PROVE  ServingInv'
  <1> USE DEF ServingInv
  <1>1. k \in Conns
    BY ConnNames DEF ConnsOf
  <1>2. ASSUME NEW m \in Launchers, m # l
        PROVE  /\ conn'[Agent(m)] = conn[Agent(m)]
               /\ conn'[<<m, "probe">>] = conn[<<m, "probe">>]
               /\ conn'[<<m, "second probe">>] = conn[<<m, "second probe">>]
               /\ at'[m] = at[m] /\ calls'[m] = calls[m]
    <2>1. Agent(m) # k /\ <<m, "probe">> # k /\ <<m, "second probe">> # k
      <3>1. \A p, q : <<m, p>> # <<l, q>>
        BY <1>2
      <3> QED
        BY <3>1 DEF ConnsOf, Agent
    <2> QED
      BY <1>2, <2>1, ConnNames DEF ConnMove, PlaceMove, CallsMove
  <1>3. ASSUME NEW m \in Launchers
        PROVE  calls[m] \in Nat /\ calls'[m] \in Nat /\ calls[m] <= calls'[m]
    <2>1. calls[m] \in Nat /\ calls'[m] \in Nat
      BY DEF CallsMove, TypeOK
    <2>2. CASE m = l
      BY <2>1, <2>2 DEF CallsMove
    <2>3. CASE m # l
      <3>1. calls'[m] = calls[m]
        BY <2>3 DEF CallsMove
      <3> QED
        BY <2>1, <3>1
    <2> QED
      BY <2>1, <2>2, <2>3
  <1>4. TypeOK'
    <2>1. ASSUME NEW d \in Daemons, NEW j \in Conns, j \in holder[d]
          PROVE  conn'[j].daemon = d /\ conn'[j].thread = "handling"
      <3>1. conn[j].daemon = d /\ conn[j].thread = "handling"
        BY <2>1 DEF TypeOK, At
      <3>2. conn[j] # NoConn
        BY <3>1, Unmade
      <3> QED
        BY <3>1, <3>2 DEF ConnMove
    <2>2. \A m \in Launchers : calls'[m] <= MaxCalls[m]
      BY <1>2 DEF CallsMove, TypeOK
    <2>3. UNCHANGED <<path, server, holder>>
      OBVIOUS
    <2>4. conn' \in [Conns -> Conn] /\ at' \in [Launchers -> Places]
      BY DEF ConnMove, PlaceMove
    <2>5. /\ calls' \in [Launchers -> Nat] /\ performed' = performed
          /\ answers' \subseteq [agent : Launchers, asked : Nat, got : Nat]
      BY DEF CallsMove
    <2>6. /\ path' \in Daemons \cup {NoDaemon}
          /\ server' \in [Daemons ->
                     {"unborn", "started", "unlinked", "serving", "dead"}]
          /\ holder' \in [Daemons -> SUBSET Conns]
          /\ DOMAIN performed' = Launchers
          /\ \A m \in Launchers : performed'[m] \in [1 .. MaxCalls[m] -> Nat]
      BY <2>3, <2>5 DEF TypeOK
    <2>7. \A d \in Daemons, j \in Conns :
             j \in holder'[d] => conn'[j].daemon = d /\ At(j, "handling")'
      BY <2>1, <2>3 DEF At
    <2> QED
      BY <2>2, <2>4, <2>5, <2>6, <2>7 DEF TypeOK
  <1>5. Untouched'
    <2>1. \A j \in Conns : conn'[j].daemon \in Daemons \/ conn'[j] = NoConn
      BY DEF ConnMove, Untouched
    <2>2. ASSUME NEW m \in Launchers
          PROVE  /\ at'[m] = "probe" => conn'[<<m, "probe">>] = NoConn
                 /\ at'[m] \in {"probe", "probing", "remove", "start",
                                "second probe"} =>
                       conn'[<<m, "second probe">>] = NoConn
                 /\ at'[m] \in {"probe", "probing", "remove", "start",
                                "second probe", "probing again", "launch"} =>
                       conn'[Agent(m)] = NoConn
      <3>1. CASE m = l
        BY <3>1 DEF PlaceMove, Launching
      <3>2. CASE m # l
        BY <1>2, <3>2 DEF Untouched
      <3> QED
        BY <3>1, <3>2
    <2> QED
      BY <2>1, <2>2 DEF Untouched
  <1>6. LockHeld'
    <2> SUFFICES ASSUME NEW j \in Conns
                 PROVE  /\ conn'[j].thread
                               \in {"locking", "handling", "writing"}
                              <=> conn'[j].call # NoCall
                        /\ conn'[j].thread = "locking" =>
                              conn'[j].call.op = "other"
                        /\ conn'[j].thread = "handling"
                           /\ conn'[j].call.op = "other" =>
                              holder[conn'[j].daemon] = {j}
      BY DEF LockHeld, At
    <2>1. CASE /\ conn'[j].thread = conn[j].thread
               /\ conn'[j].call = conn[j].call
               /\ conn'[j].daemon = conn[j].daemon
      BY <2>1 DEF LockHeld, At
    <2>2. CASE conn'[j].thread = "backlog" /\ conn'[j].call = NoCall
      BY <2>2
    <2> QED
      BY <2>1, <2>2 DEF ConnMove
  <1>7. Numbered'
    <2>1. ASSUME NEW m \in Launchers PROVE InOnePlace(m)'
      <3>1. CASE m = l
        BY <3>1 DEF CallsMove
      <3>2. CASE m # l
        <4>1. performed'[m] = performed[m]
          BY DEF CallsMove
        <4> QED
          BY <1>2, <3>2, <4>1, SameAgent
      <3> QED
        BY <3>1, <3>2
    <2>2. ASSUME NEW m \in Launchers, NEW n \in 1 .. MaxCalls[m]
          PROVE  performed[m][n] <= 1 /\ (n > calls'[m] => performed[m][n] = 0)
      <3>1. performed[m][n] <= 1 /\ (n > calls[m] => performed[m][n] = 0)
        BY DEF Numbered
      <3>2. calls[m] \in Nat /\ calls'[m] \in Nat /\ calls[m] <= calls'[m]
        BY <1>3
      <3> QED
        BY <3>1, <3>2
    <2> QED
      BY <2>1, <2>2 DEF Numbered, CallsMove
  <1>8. Answered'
    <2> SUFFICES ASSUME NEW a \in answers'
                 PROVE  /\ a.got = a.asked /\ a.asked \in 1 .. calls'[a.agent]
                        /\ performed[a.agent][a.asked] = 1
      BY DEF Answered, CallsMove
    <2>1. /\ a.agent \in Launchers /\ a.got = a.asked
          /\ a.asked \in 1 .. calls[a.agent]
          /\ performed[a.agent][a.asked] = 1
      BY DEF Answered, CallsMove, TypeOK
    <2>2. /\ calls[a.agent] \in Nat /\ calls'[a.agent] \in Nat
          /\ calls[a.agent] <= calls'[a.agent]
      BY <1>3, <2>1
    <2> QED
      BY <2>1, <2>2
  <1>9. EndsForCause'
    <2>1. ASSUME NEW j \in Conns, conn'[j].thread = "ended"
          PROVE  ~conn'[j].open \/ server[conn'[j].daemon] = "dead"
      <3>1. CASE /\ conn'[j].thread = conn[j].thread
                 /\ conn'[j].daemon = conn[j].daemon
                 /\ conn'[j].open => conn[j].open
        BY <2>1, <3>1 DEF EndsForCause, At
      <3>2. CASE conn'[j] = conn[j]
        BY <2>1, <3>2 DEF EndsForCause, At
      <3> QED
        BY <2>1, <3>1, <3>2 DEF ConnMove
    <2>2. ASSUME NEW m \in Launchers
          PROVE  /\ at'[m] \in {"idle", "waiting", "broken"} =>
                       conn'[Agent(m)].open
                 /\ at'[m] = "broken" =>
                       conn'[Agent(m)].thread \in {"ended", "failed"}
      <3>1. CASE m = l
        BY <3>1 DEF PlaceMove
      <3>2. CASE m # l
        BY <1>2, <3>2 DEF EndsForCause, Ended
      <3> QED
        BY <3>1, <3>2
    <2> QED
      BY <2>1, <2>2 DEF EndsForCause, At, Ended
  <1> QED
    BY <1>4, <1>5, <1>6, <1>7, <1>8, <1>9

\* The counts while nothing is under way for the agent and nothing is sent.
LEMMA NothingSent ==
    ASSUME ServingInv, NEW l \in Launchers,
           UNCHANGED <<calls, performed, answers>>,
           conn'[Agent(l)].sent = NoCall, conn'[Agent(l)].call = NoCall,
           conn'[Agent(l)].reply = 0,
           at[l] \in Launching \/ at'[l] \notin Launching
    PROVE  CallsMove(l)
  <1> USE DEF ServingInv
  <1>1. at[l] \in Launching => calls[l] = 0
    BY DEF Numbered, InOnePlace, Launching
  <1>2. InOnePlace(l)'
    BY <1>1 DEF InOnePlace, Launching
  <1> QED
    BY <1>2 DEF CallsMove, TypeOK

\* A probe makes a connection, or finds no daemon.
LEMMA ProbeInv ==
    ASSUME ServingInv, NEW l \in Launchers, Probe(l)
    PROVE  ServingInv'
  <1> USE DEF ServingInv
  <1> DEFINE k == ProbeOf(l)
             c == [n |-> 1, op |-> "other"]
  <1>1. UNCHANGED <<path, server, holder, calls, performed, answers>>
    BY DEF Probe, history
  <1>2. \/ at[l] = "probe" /\ k = <<l, "probe">>
        \/ at[l] = "second probe" /\ k = <<l, "second probe">>
    BY DEF Probe, Probes, ProbeOf
  <1>3. /\ conn[k] = NoConn /\ conn[Agent(l)] = NoConn
        /\ at[l] = "probe" => conn[<<l, "second probe">>] = NoConn
        /\ k \in ConnsOf(l) /\ k \in Conns /\ k # Agent(l)
    BY <1>2, ConnNames DEF Untouched, ConnsOf
  <1>4. /\ ConnMove(k)
        /\ \/ at[l] = "probe" /\ at' = [at EXCEPT ![l] = "probing"]
           \/ at[l] = "second probe" /\ at' = [at EXCEPT ![l] = "probing again"]
           \/ at[l] = "probe" /\ at' = [at EXCEPT ![l] = "remove"]
           \/ at[l] = "second probe" /\ at' = [at EXCEPT ![l] = "over"]
    <2>1. CASE Listening(path)
      <3>1. path \in Daemons /\ Connect(k, c)
        BY <2>1 DEF Listening, Probe
      <3>2. c \in Call
        BY DEF Call
      <3> HIDE DEF c, k
      <3>3. ConnMove(k)
        BY <1>3, <3>1, <3>2, ConnectType DEF ConnMove, TypeOK
      <3> QED
        BY <1>2, <2>1, <3>3 DEF Probe, Move
    <2>2. CASE ~Listening(path)
      <3>1. conn' = conn /\ GiveUp(l)
        BY <2>2 DEF Probe
      <3> QED
        BY <1>2, <3>1 DEF GiveUp, Move, ConnMove, TypeOK
    <2> QED
      BY <2>1, <2>2
  <1>5. /\ conn'[Agent(l)] = NoConn
        /\ at[l] = "probe" => conn'[<<l, "second probe">>] = NoConn
    <2>1. at[l] = "probe" => k # <<l, "second probe">>
      BY <1>2, ConnNames
    <2> HIDE DEF k
    <2> QED
      BY <1>3, <1>4, <2>1, ConnNames DEF ConnMove
  <1>6. PlaceMove(l)
    BY <1>4, <1>5 DEF PlaceMove, Places, Launching, TypeOK
  <1>7. CallsMove(l)
    BY <1>1, <1>2, <1>5, NothingSent, Unmade DEF Launching
  <1> HIDE DEF k
  <1> QED
    BY <1>1, <1>3, <1>4, <1>6, <1>7, LaunchFrame

\* Closing a connection is a move of it.
LEMMA CloseMove ==
    ASSUME ServingInv, NEW k \in Conns, Close(k)
    PROVE  ConnMove(k)
  <1> USE DEF ServingInv
  <1>1. /\ conn \in [Conns -> Conn] /\ conn' \in [Conns -> Conn]
        /\ conn'[k].daemon = conn[k].daemon /\ ~conn'[k].open
        /\ conn'[k].call = conn[k].call /\ conn'[k].thread = conn[k].thread
        /\ \A j \in Conns : j # k => conn'[j] = conn[j]
    BY CloseType DEF TypeOK
  <1>2. CASE conn[k].daemon \in Daemons
    BY <1>1, <1>2 DEF ConnMove
  <1>3. CASE conn[k] = NoConn
    <2>1. conn'[k] = [NoConn EXCEPT !.open = FALSE, !.reply = 0]
      BY <1>1, <1>3 DEF Close
    <2>2. conn'[k] = NoConn
      BY <2>1 DEF NoConn
    <2> QED
      BY <1>1, <1>3, <2>2 DEF ConnMove
  <1> QED
    BY <1>2, <1>3 DEF Untouched

\* A probe that ends closes its connection.
LEMMA ProbeEndsInv ==
    ASSUME ServingInv, NEW l \in Launchers, ProbeEnds(l)
    PROVE  ServingInv'
  <1> USE DEF ServingInv
  <1> DEFINE k == ProbeOf(l)
  <1>1. UNCHANGED <<path, server, holder, calls, performed, answers>>
    BY DEF ProbeEnds, history
  <1>2. \/ at[l] = "probing" /\ k = <<l, "probe">>
        \/ at[l] = "probing again" /\ k = <<l, "second probe">>
    BY DEF ProbeEnds, ProbeOf
  <1>3. /\ conn[Agent(l)] = NoConn
        /\ at[l] = "probing" => conn[<<l, "second probe">>] = NoConn
        /\ k \in ConnsOf(l) /\ k \in Conns /\ k # Agent(l)
    BY <1>2, ConnNames DEF Untouched, ConnsOf
  <1>4. \/ at[l] = "probing" /\ at' = [at EXCEPT ![l] = "remove"]
        \/ at' = [at EXCEPT ![l] = "launch"]
        \/ at' = [at EXCEPT ![l] = "over"]
    BY <1>2 DEF ProbeEnds, GiveUp, Move
  <1>5. ConnMove(k)
    BY <1>3, CloseMove DEF ProbeEnds
  <1>6. /\ conn'[Agent(l)] = NoConn
        /\ at[l] = "probing" => conn'[<<l, "second probe">>] = NoConn
    <2>1. at[l] = "probing" => k # <<l, "second probe">>
      BY <1>2, ConnNames
    <2> HIDE DEF k
    <2> QED
      BY <1>3, <1>5, <2>1, ConnNames DEF ConnMove
  <1>7. PlaceMove(l)
    BY <1>4, <1>6 DEF PlaceMove, Places, Launching, TypeOK
  <1>8. CallsMove(l)
    BY <1>1, <1>2, <1>6, NothingSent, Unmade DEF Launching
  <1> HIDE DEF k
  <1> QED
    BY <1>1, <1>3, <1>5, <1>7, <1>8, LaunchFrame

\* An agent's connection is made once.
LEMMA LaunchInv ==
    ASSUME ServingInv, NEW l \in Launchers, Launch(l)
    PROVE  ServingInv'
  <1> USE DEF ServingInv
  <1>1. /\ UNCHANGED <<path, server, holder, calls, performed, answers>>
        /\ at[l] = "launch"
    BY DEF Launch, history
  <1>2. /\ conn[Agent(l)] = NoConn
        /\ Agent(l) \in ConnsOf(l) /\ Agent(l) \in Conns
    BY <1>1, ConnNames DEF Untouched, ConnsOf
  <1>3. /\ ConnMove(Agent(l)) /\ conn'[Agent(l)].reply = 0
        /\ conn'[Agent(l)].sent = NoCall /\ conn'[Agent(l)].call = NoCall
        /\ \/ conn'[Agent(l)].open /\ at' = [at EXCEPT ![l] = "idle"]
           \/ at' = [at EXCEPT ![l] = "over"]
    <2>1. CASE Listening(path)
      <3>1. path \in Daemons /\ Connect(Agent(l), NoCall)
        BY <2>1 DEF Listening, Launch
      <3> QED
        BY <1>2, <2>1, <3>1, ConnectType DEF ConnMove, TypeOK, Launch, Move
    <2>2. CASE ~Listening(path)
      BY <1>2, <2>2, Unmade DEF Launch, Move, ConnMove, TypeOK
    <2> QED
      BY <2>1, <2>2
  <1>4. PlaceMove(l)
    BY <1>3 DEF PlaceMove, Places, Launching, TypeOK
  <1>5. CallsMove(l)
    BY <1>1, <1>3, NothingSent DEF Launching
  <1> QED
    BY <1>1, <1>2, <1>3, <1>4, <1>5, LaunchFrame

\* A request is sent when no other is under way.
LEMMA SendCallInv ==
    ASSUME ServingInv, NEW l \in Launchers, SendCall(l)
    PROVE  ServingInv'
  <1> USE DEF ServingInv
  <1> DEFINE k == Agent(l)
  <1>1. /\ UNCHANGED <<path, server, holder, performed, answers>>
        /\ at[l] = "idle" /\ calls[l] < MaxCalls[l]
    BY DEF SendCall, history
  <1>2. /\ k \in ConnsOf(l) /\ k \in Conns /\ conn[k].open
        /\ conn[k].sent = NoCall /\ conn[k].call = NoCall
        /\ conn[k].reply = 0 /\ conn[k].daemon \in Daemons
    <2>1. k \in ConnsOf(l) /\ k \in Conns /\ conn[k].open
      BY <1>1, ConnNames DEF ConnsOf, EndsForCause
    <2>2. conn[k].daemon \in Daemons
      BY <2>1, Unmade DEF Untouched
    <2> QED
      BY <1>1, <2>1, <2>2 DEF Numbered, InOnePlace
  <1>3. conn \in [Conns -> Conn] /\ calls[l] \in Nat /\ MaxCalls[l] \in Nat
    BY Bounds DEF TypeOK
  <1>4. CASE Ended(k)
    <2>1. conn' = conn /\ calls' = calls /\ at' = [at EXCEPT ![l] = "broken"]
      BY <1>4 DEF SendCall, Move
    <2>2. ConnMove(k)
      BY <1>3, <2>1 DEF ConnMove
    <2>3. PlaceMove(l)
      BY <1>2, <1>4, <2>1 DEF PlaceMove, Places, Launching, TypeOK, Ended
    <2>4. CallsMove(l)
      <3>1. at'[l] \notin Launching
        BY <2>1 DEF Launching, TypeOK
      <3> QED
        BY <1>1, <1>2, <2>1, <3>1, NothingSent
    <2> HIDE DEF k
    <2> QED
      BY <1>1, <1>2, <2>2, <2>3, <2>4, LaunchFrame
  <1>5. CASE ~Ended(k)
    <2>1. PICK op \in {"read_verdict", "other"} :
             conn' = [conn EXCEPT ![k].sent = [n |-> calls[l] + 1, op |-> op]]
      BY <1>5 DEF SendCall
    <2>2. /\ calls' = [calls EXCEPT ![l] = @ + 1]
          /\ at' = [at EXCEPT ![l] = "waiting"]
      BY <1>5 DEF SendCall, Move
    <2> DEFINE c == [n |-> calls[l] + 1, op |-> op]
    <2>3. c \in Call /\ c.n = calls[l] + 1
      BY <1>3 DEF Call
    <2>4. /\ conn' \in [Conns -> Conn] /\ conn'[k].sent = c
          /\ conn'[k].daemon = conn[k].daemon /\ conn'[k].open = conn[k].open
          /\ conn'[k].call = NoCall /\ conn'[k].thread = conn[k].thread
          /\ conn'[k].reply = 0 /\ \A j \in Conns : j # k => conn'[j] = conn[j]
      <3>1. conn' = [conn EXCEPT ![k].sent = c]
        BY <2>1
      <3> HIDE DEF c, k
      <3> QED
        BY <1>2, <1>3, <2>3, <3>1 DEF Conn
    <2>5. ConnMove(k)
      BY <1>2, <2>4 DEF ConnMove
    <2>6. PlaceMove(l)
      BY <1>2, <2>2, <2>4 DEF PlaceMove, Places, Launching, TypeOK
    <2>7. CallsMove(l)
      <3>1. /\ calls' \in [Launchers -> Nat] /\ calls'[l] = calls[l] + 1
            /\ \A m \in Launchers : m # l => calls'[m] = calls[m]
        BY <2>2 DEF TypeOK
      <3>2. performed[l][calls[l] + 1] = 0
        <4>1. calls[l] + 1 \in 1 .. MaxCalls[l] /\ calls[l] + 1 > calls[l]
          BY <1>1, <1>3
        <4> QED
          BY <4>1 DEF Numbered
      <3>3. InOnePlace(l)'
        <4>1. /\ conn'[Agent(l)].sent # NoCall
              /\ conn'[Agent(l)].sent.n = calls'[l]
              /\ conn'[Agent(l)].call = NoCall /\ conn'[Agent(l)].reply = 0
          BY <2>3, <2>4, <3>1, Bounds
        <4>2. performed'[l][calls'[l]] = 0 /\ calls'[l] >= 1
          BY <1>1, <1>3, <3>1, <3>2
        <4>3. at'[l] = "waiting"
          BY <2>2 DEF TypeOK
        <4> QED
          BY <4>1, <4>2, <4>3 DEF InOnePlace
      <3>4. calls[l] <= calls'[l] /\ calls'[l] <= MaxCalls[l]
        BY <1>1, <1>3, <3>1
      <3> QED
        BY <1>1, <3>1, <3>3, <3>4 DEF CallsMove, TypeOK
    <2> HIDE DEF k
    <2> QED
      BY <1>1, <1>2, <2>5, <2>6, <2>7, LaunchFrame
  <1> QED
    BY <1>4, <1>5

\* The answer read is that of the request sent last.
LEMMA ReadAnswerInv ==
    ASSUME ServingInv, NEW l \in Launchers, ReadAnswer(l)
    PROVE  ServingInv'
  <1> USE DEF ServingInv
  <1> DEFINE k == Agent(l)
             a == [agent |-> l, asked |-> calls[l], got |-> conn[k].reply]
  <1>1. /\ UNCHANGED <<path, server, holder, calls, performed>>
        /\ at[l] = "waiting" /\ conn[k].reply # 0
        /\ at' = [at EXCEPT ![l] = "idle"] /\ answers' = answers \cup {a}
        /\ conn' = [conn EXCEPT ![k].reply = 0]
    BY DEF ReadAnswer, Move
  <1>2. k \in ConnsOf(l) /\ k \in Conns /\ conn[k].open
    BY <1>1, ConnNames DEF ConnsOf, EndsForCause
  <1>3. conn[k].daemon \in Daemons
    BY <1>2, Unmade DEF Untouched
  <1>4. /\ conn[k].sent = NoCall /\ conn[k].call = NoCall
        /\ conn[k].reply = calls[l] /\ performed[l][calls[l]] = 1
    BY <1>1 DEF Numbered, InOnePlace
  <1>5. conn \in [Conns -> Conn] /\ calls[l] \in Nat /\ conn[k].reply \in Nat
    BY <1>2 DEF TypeOK, Conn
  <1>6. /\ conn' \in [Conns -> Conn] /\ conn'[k].reply = 0
        /\ conn'[k].daemon = conn[k].daemon /\ conn'[k].open = conn[k].open
        /\ conn'[k].sent = NoCall /\ conn'[k].call = NoCall
        /\ conn'[k].thread = conn[k].thread
        /\ \A j \in Conns : j # k => conn'[j] = conn[j]
    <2> HIDE DEF k
    <2> QED
      BY <1>1, <1>2, <1>4, <1>5 DEF Conn
  <1>7. ConnMove(k)
    BY <1>3, <1>4, <1>6 DEF ConnMove
  <1>8. PlaceMove(l)
    BY <1>1, <1>2, <1>6 DEF PlaceMove, Places, Launching, TypeOK
  <1>9. CallsMove(l)
    <2>1. InOnePlace(l)'
      <3>1. at'[l] = "idle"
        BY <1>1 DEF TypeOK
      <3> QED
        BY <1>6, <3>1 DEF InOnePlace
    <2>2. a \in [agent : Launchers, asked : Nat, got : Nat]
      BY <1>5
    <2>3. a.agent = l /\ a.got = a.asked /\ a.asked = calls[l]
      BY <1>4
    <2>4. calls[l] \in 1 .. calls[l]
      BY <1>1, <1>4, <1>5
    <2> HIDE DEF a
    <2> QED
      BY <1>1, <1>4, <2>1, <2>2, <2>3, <2>4 DEF CallsMove, TypeOK
  <1> HIDE DEF k
  <1> QED
    BY <1>1, <1>2, <1>7, <1>8, <1>9, LaunchFrame

\* A client that reads the end of the stream stops.
LEMMA ReadEndInv ==
    ASSUME ServingInv, NEW l \in Launchers, ReadEnd(l)
    PROVE  ServingInv'
  <1> USE DEF ServingInv
  <1>1. /\ UNCHANGED <<path, server, holder, conn, calls, performed, answers>>
        /\ at[l] = "waiting" /\ Ended(Agent(l))
        /\ at' = [at EXCEPT ![l] = "broken"]
    BY DEF ReadEnd, Move, history
  <1>2. Agent(l) \in ConnsOf(l) /\ conn[Agent(l)].open
    BY <1>1 DEF ConnsOf, EndsForCause
  <1>3. ConnMove(Agent(l))
    BY <1>1 DEF ConnMove, TypeOK
  <1>4. PlaceMove(l)
    BY <1>1, <1>2 DEF PlaceMove, Places, Launching, TypeOK, Ended
  <1>5. CallsMove(l)
    <2>1. InOnePlace(l)'
      <3>1. at'[l] = "broken" /\ InOnePlace(l)
        BY <1>1 DEF TypeOK, Numbered
      <3> QED
        BY <1>1, <3>1 DEF InOnePlace
    <2> QED
      BY <1>1, <2>1 DEF CallsMove, TypeOK
  <1> QED
    BY <1>1, <1>2, <1>3, <1>4, <1>5, LaunchFrame

\* An agent may leave at any time.
LEMMA LeaveInv ==
    ASSUME ServingInv, NEW l \in Launchers, Leave(l)
    PROVE  ServingInv'
  <1> USE DEF ServingInv
  <1> DEFINE k == Agent(l)
  <1>1. /\ UNCHANGED <<path, server, holder, calls, performed, answers>>
        /\ at' = [at EXCEPT ![l] = "over"] /\ Close(k)
        /\ at[l] \in {"idle", "waiting", "broken"}
    BY DEF Leave, Move, history
  <1>2. k \in ConnsOf(l) /\ k \in Conns
    BY ConnNames DEF ConnsOf
  <1>3. ConnMove(k)
    BY <1>1, <1>2, CloseMove
  <1>4. PlaceMove(l)
    BY <1>1 DEF PlaceMove, Places, Launching, TypeOK
  <1>5. CallsMove(l)
    <2>1. /\ conn'[k].sent = conn[k].sent /\ conn'[k].call = conn[k].call
          /\ conn'[k].thread = conn[k].thread /\ conn'[k].reply = 0
      BY <1>1, <1>2, CloseType DEF TypeOK
    <2>2. InOnePlace(l) /\ at'[l] = "over"
      BY <1>1 DEF TypeOK, Numbered
    <2>3. InOnePlace(l)'
      BY <1>1, <2>1, <2>2 DEF InOnePlace
    <2> QED
      BY <1>1, <2>3 DEF CallsMove, TypeOK
  <1> HIDE DEF k
  <1> QED
    BY <1>1, <1>2, <1>3, <1>4, <1>5, LaunchFrame

\* No step breaks the invariant.
LEMMA ServingStep == ServingInv /\ [Next]_vars => ServingInv'
  <1> SUFFICES ASSUME ServingInv, [Next]_vars PROVE ServingInv'
    OBVIOUS
  <1>1. CASE UNCHANGED vars
    <2>1. UNCHANGED <<path, server, holder, conn, at, calls, performed,
                      answers>>
      BY <1>1 DEF vars, history
    <2>2. TypeOK' /\ Untouched' /\ LockHeld'
      BY <2>1 DEF ServingInv, TypeOK, Untouched, LockHeld, At
    <2>3. Numbered' /\ Answered' /\ EndsForCause'
      BY <2>1 DEF ServingInv, Numbered, InOnePlace, Answered, EndsForCause,
                  At, Ended
    <2> QED
      BY <2>2, <2>3 DEF ServingInv
  <1>2. ASSUME NEW d \in Daemons, Unlink(d) \/ Bind(d) \/ Die(d)
        PROVE  ServingInv'
    BY <1>2, UnlinkInv, DieInv
  <1>3. ASSUME NEW k \in Conns, ThreadStep(k)
        PROVE  ServingInv'
    BY <1>3, AcceptInv, ReadLineInv, EndOfInputInv, TakeLockInv, HandleInv,
       PanicInv, WriteAnswerInv DEF ThreadStep
  <1>4. ASSUME NEW l \in Launchers,
               \/ Probe(l) \/ ProbeEnds(l) \/ RemoveSocket(l) \/ StartDaemon(l)
               \/ Launch(l)
        PROVE  ServingInv'
    BY <1>4, ProbeInv, ProbeEndsInv, StartInv, LaunchInv
  <1>5. ASSUME NEW l \in Launchers,
               SendCall(l) \/ ReadAnswer(l) \/ ReadEnd(l) \/ Leave(l)
        PROVE  ServingInv'
    BY <1>5, SendCallInv, ReadAnswerInv, ReadEndInv, LeaveInv
  <1> QED
    BY <1>1, <1>2, <1>3, <1>4, <1>5 DEF Next

\* Every reachable state satisfies the invariant.
THEOREM ServingInvariant == Spec => []ServingInv
  <1>1. Init => ServingInv
    BY ServingInit
  <1>2. ServingInv /\ [Next]_vars => ServingInv'
    BY ServingStep
  <1> QED
    BY <1>1, <1>2, PTL DEF Spec

\* Every state of the socket serving is well typed, and a lock is held only by
\* threads of its daemon that handle a request.
THEOREM ServingTypes == Spec => []TypeOK
  <1>1. ServingInv => TypeOK
    BY DEF ServingInv
  <1> QED
    BY <1>1, ServingInvariant, PTL

\* HANDLE_LOCK does its work (daemon.rs 84-98) for any number of agents,
\* daemons and requests, with panics under it.
THEOREM MutatingRequestsOneAtATime == Spec => []OneAtATime
  <1>1. ServingInv => OneAtATime
    <2> SUFFICES ASSUME ServingInv, NEW j \in Conns, NEW k \in Conns,
                        At(j, "handling"), At(k, "handling"),
                        conn[j].daemon = conn[k].daemon,
                        conn[j].call.op = "other", conn[k].call.op = "other"
                 PROVE  j = k
      BY DEF OneAtATime
    <2>1. holder[conn[j].daemon] = {j} /\ holder[conn[k].daemon] = {k}
      BY DEF ServingInv, LockHeld
    <2> QED
      BY <2>1
  <1> QED
    BY <1>1, ServingInvariant, PTL

\* No request is carried out twice, and an answer is read only by the call it
\* answers (harness.py 45-61), whatever dies on the way.
THEOREM RequestsCarriedOutOnce == Spec => []EachCallOnce
  <1>1. ServingInv => EachCallOnce
    BY DEF ServingInv, Numbered, Answered, EachCallOnce
  <1> QED
    BY <1>1, ServingInvariant, PTL

\* A panic costs its own connection only (daemon.rs:97).
THEOREM OnlyItsOwnConnection == Spec => []BrokenHasCause
  <1>1. ServingInv => BrokenHasCause
    <2> SUFFICES ASSUME ServingInv, NEW l \in Launchers, at[l] = "broken",
                        ~At(Agent(l), "failed")
                 PROVE  server[conn[Agent(l)].daemon] = "dead"
      BY DEF BrokenHasCause
    <2>1. conn[Agent(l)].thread = "ended" /\ conn[Agent(l)].open
      BY DEF ServingInv, EndsForCause, Ended, At
    <2> QED
      BY <2>1, ConnNames DEF ServingInv, EndsForCause, At
  <1> QED
    BY <1>1, ServingInvariant, PTL

(***************************************************************************)
(* Serving implements CallService.                                          *)
(***************************************************************************)

\* An agent that is about to ask has read the answer to its last request.
IdleAnswered ==
    \A l \in Launchers :
        at[l] = "idle" => calls[l] = 0 \/ <<l, calls[l]>> \in Given

\* What an agent has read is an answer to its last request.
LEMMA GivenGrows ==
    ASSUME ServingInv, NEW l \in Launchers, ReadAnswer(l)
    PROVE  Given' = Given \cup {<<l, calls[l]>>}
  <1> DEFINE a == [agent |-> l, asked |-> calls[l],
                   got |-> conn[Agent(l)].reply]
  <1>1. answers' = answers \cup {a}
    BY DEF ReadAnswer
  <1>2. a.agent = l /\ a.got = calls[l]
    BY DEF ReadAnswer, ServingInv, Numbered, InOnePlace
  <1> HIDE DEF a
  <1> QED
    BY <1>1, <1>2 DEF Given

\* What is left alone, or becomes idle with cause, keeps it.
LEMMA IdleFrame ==
    ASSUME IdleAnswered, Given \subseteq Given',
           \A l \in Launchers : at'[l] = "idle" =>
              \/ at[l] = "idle" /\ calls'[l] = calls[l]
              \/ calls'[l] = 0
              \/ <<l, calls'[l]>> \in Given'
    PROVE  IdleAnswered'
  BY DEF IdleAnswered

\* A move of one launch to a place where it does not ask.
LEMMA MovesElsewhere ==
    ASSUME ServingInv, IdleAnswered, NEW l \in Launchers, NEW place,
           place # "idle", Move(l, place), answers' = answers,
           \A m \in Launchers \ {l} : calls'[m] = calls[m]
    PROVE  IdleAnswered'
  <1>1. Given' = Given
    BY DEF Given
  <1>2. \A m \in Launchers :
           at'[m] = IF m = l THEN place ELSE at[m]
    BY DEF Move, ServingInv, TypeOK
  <1> QED
    BY <1>1, <1>2, IdleFrame

\* Every step keeps it.
LEMMA IdleAnsweredStep ==
    ASSUME ServingInv, IdleAnswered, [Next]_vars
    PROVE  IdleAnswered'
  <1>1. CASE UNCHANGED <<at, calls, answers>>
    <2>1. Given' = Given
      BY <1>1 DEF Given
    <2> QED
      BY <1>1, <2>1, IdleFrame
  <1>2. ASSUME NEW l \in Launchers, Launch(l)
        PROVE  IdleAnswered'
    <2>1. calls[l] = 0
      BY <1>2 DEF Launch, ServingInv, Numbered, InOnePlace
    <2>2. calls' = calls /\ answers' = answers /\ Given' = Given
      BY <1>2 DEF Launch, history, Given
    <2>3. \A m \in Launchers \ {l} : at'[m] = at[m]
      BY <1>2 DEF Launch, Move, ServingInv, TypeOK
    <2> QED
      BY <2>1, <2>2, <2>3, IdleFrame
  <1>3. ASSUME NEW l \in Launchers, ReadAnswer(l)
        PROVE  IdleAnswered'
    <2>1. calls' = calls /\ Given' = Given \cup {<<l, calls[l]>>}
      BY <1>3, GivenGrows DEF ReadAnswer
    <2>2. \A m \in Launchers \ {l} : at'[m] = at[m]
      BY <1>3 DEF ReadAnswer, Move, ServingInv, TypeOK
    <2> QED
      BY <2>1, <2>2, IdleFrame
  <1>4. ASSUME NEW l \in Launchers, Probe(l) \/ ProbeEnds(l)
        PROVE  IdleAnswered'
    <2>1. \E place \in Places \ {"idle"} : Move(l, place)
      BY <1>4 DEF Probe, ProbeEnds, GiveUp, Places
    <2> QED
      BY <1>4, <2>1, MovesElsewhere DEF Probe, ProbeEnds, history
  <1>5. ASSUME NEW l \in Launchers,
               \/ RemoveSocket(l) \/ StartDaemon(l) \/ ReadEnd(l) \/ Leave(l)
        PROVE  IdleAnswered'
    BY <1>5, MovesElsewhere
    DEF RemoveSocket, StartDaemon, ReadEnd, Leave, history
  <1>6. ASSUME NEW l \in Launchers, SendCall(l)
        PROVE  IdleAnswered'
    <2>1. \E place \in {"broken", "waiting"} : Move(l, place)
      BY <1>6 DEF SendCall
    <2>2. \A m \in Launchers \ {l} : calls'[m] = calls[m]
      BY <1>6 DEF SendCall, ServingInv, TypeOK
    <2> QED
      BY <1>6, <2>1, <2>2, MovesElsewhere DEF SendCall, history
  <1>7. CASE \E d \in Daemons : Unlink(d) \/ Bind(d) \/ Die(d)
    BY <1>1, <1>7 DEF Unlink, Bind, Die, history
  <1>8. CASE \E k \in Conns : ThreadStep(k)
    BY <1>1, <1>8 DEF ThreadStep, Accept, ReadLine, EndOfInput, TakeLock,
                      Handle, Panic, WriteAnswer, history
  <1> QED
    BY <1>1, <1>2, <1>3, <1>4, <1>5, <1>6, <1>7, <1>8 DEF Next, vars, history

\* Requests that are being handled are carried out: none was before.
LEMMA PerformIsCarryOut ==
    ASSUME ServingInv, NEW ks, \A k \in ks : At(k, "handling"), Perform(ks),
           UNCHANGED <<calls, answers>>
    PROVE  \E as \in SUBSET Launchers : Calls!CarryOut(as)
  <1> DEFINE as == AgentsOf(ks)
  <1>1. as \subseteq Launchers /\ Given' = Given
    BY DEF AgentsOf, Given
  <1>2. ASSUME NEW l \in as
        PROVE  /\ calls[l] > 0 /\ performed[l][calls[l]] = 0
               /\ conn[Agent(l)].call.n = calls[l]
    <2>1. l \in Launchers /\ Agent(l) \in Conns /\ At(Agent(l), "handling")
      BY <1>1, ConnNames DEF AgentsOf
    <2>2. conn[Agent(l)].call # NoCall
      BY <2>1 DEF ServingInv, LockHeld, At
    <2>3. /\ calls[l] >= 1 /\ conn[Agent(l)].call.n = calls[l]
          /\ performed[l][calls[l]] = 0
      BY <2>1, <2>2 DEF ServingInv, Numbered, InOnePlace, At
    <2> QED
      BY <2>1, <2>3 DEF ServingInv, TypeOK
  <1>3. performed' = [l \in Launchers |->
           IF l \in as THEN [performed[l] EXCEPT ![calls[l]] = 1]
           ELSE performed[l]]
    <2>1. ASSUME NEW l \in as
          PROVE  [performed[l] EXCEPT ![conn[Agent(l)].call.n] = @ + 1]
                    = [performed[l] EXCEPT ![calls[l]] = 1]
      BY <1>2
    <2> QED
      BY <2>1 DEF Perform
  <1> QED
    BY <1>1, <1>2, <1>3 DEF Calls!CarryOut

\* Every step is one of the service's, or changes nothing the agents see.
LEMMA CallsStep ==
    ASSUME ServingInv, IdleAnswered, [Next]_vars
    PROVE  [Calls!Next]_<<calls, performed, Given>>
  <1>1. CASE UNCHANGED <<calls, performed, answers>>
    BY <1>1 DEF Given
  <1>2. ASSUME NEW d \in Daemons, Die(d)
        PROVE  Calls!Next
    <2>1. PICK ks \in SUBSET {k \in Conns : conn[k].daemon = d
                                               /\ At(k, "handling")} :
              Perform(ks)
      BY <1>2 DEF Die
    <2> QED
      BY <1>2, <2>1, PerformIsCarryOut DEF Die, Calls!Next
  <1>3. ASSUME NEW k \in Conns, Handle(k) \/ Panic(k)
        PROVE  Calls!Next
    <2>1. PICK ks \in {{}, {k}} : Perform(ks)
      BY <1>3 DEF Handle, Panic
    <2>2. At(k, "handling") /\ UNCHANGED <<calls, answers>>
      BY <1>3 DEF Handle, Panic
    <2> QED
      BY <2>1, <2>2, PerformIsCarryOut DEF Calls!Next
  <1>4. ASSUME NEW l \in Launchers, SendCall(l), ~UNCHANGED calls
        PROVE  Calls!Next
    <2>1. /\ at[l] = "idle" /\ calls[l] < MaxCalls[l]
          /\ calls' = [calls EXCEPT ![l] = @ + 1]
          /\ UNCHANGED <<performed, answers>>
      BY <1>4 DEF SendCall, history
    <2>2. calls[l] = 0 \/ <<l, calls[l]>> \in Given
      BY <2>1 DEF IdleAnswered
    <2>3. Given' = Given
      BY <2>1 DEF Given
    <2> QED
      BY <2>1, <2>2, <2>3 DEF Calls!Ask, Calls!Next
  <1>5. ASSUME NEW l \in Launchers, ReadAnswer(l)
        PROVE  Calls!Next
    <2>1. /\ conn[Agent(l)].reply = calls[l] /\ calls[l] > 0
          /\ performed[l][calls[l]] = 1
      <3>1. /\ conn[Agent(l)].reply = calls[l] /\ calls[l] # 0
            /\ performed[l][calls[l]] = 1
        BY <1>5 DEF ReadAnswer, ServingInv, Numbered, InOnePlace
      <3> QED
        BY <3>1 DEF ServingInv, TypeOK
    <2>2. Given' = Given \cup {<<l, calls[l]>>}
      BY <1>5, GivenGrows
    <2>3. UNCHANGED <<calls, performed>>
      BY <1>5 DEF ReadAnswer
    <2> QED
      BY <2>1, <2>2, <2>3 DEF Calls!Answer, Calls!Next
  <1>6. CASE \E d \in Daemons : Unlink(d) \/ Bind(d)
    BY <1>1, <1>6 DEF Unlink, Bind, history
  <1>7. CASE \E k \in Conns : \/ Accept(k) \/ ReadLine(k) \/ EndOfInput(k)
                              \/ TakeLock(k) \/ WriteAnswer(k)
    BY <1>1, <1>7
    DEF Accept, ReadLine, EndOfInput, TakeLock, WriteAnswer, history
  <1>8. CASE \E l \in Launchers :
                \/ Probe(l) \/ ProbeEnds(l) \/ RemoveSocket(l)
                \/ StartDaemon(l) \/ Launch(l) \/ ReadEnd(l) \/ Leave(l)
    BY <1>1, <1>8 DEF Probe, ProbeEnds, RemoveSocket, StartDaemon, Launch,
                      ReadEnd, Leave, history
  <1>9. ASSUME NEW l \in Launchers, SendCall(l), UNCHANGED calls
        PROVE  UNCHANGED <<calls, performed, answers>>
    BY <1>9 DEF SendCall, history
  <1>10. CASE UNCHANGED vars
    BY <1>1, <1>10 DEF vars, history
  <1> QED
    BY <1>1, <1>2, <1>3, <1>4, <1>5, <1>6, <1>7, <1>8, <1>9, <1>10
    DEF Next, ThreadStep

\* The socket serves calls one after another to each agent, carries each out
\* once at most and hands every answer to its own call, for any number of
\* agents, daemons and requests (daemon.rs 42-110, harness.py 45-61).
THEOREM ServingImplementsCalls == Spec => ImplementsCalls
  <1>1. Init => Calls!Init
    BY DEF Init, Calls!Init, Given
  <1>2. ServingInv /\ IdleAnswered /\ [Next]_vars
           => [Calls!Next]_<<calls, performed, Given>>
    BY CallsStep
  <1>3. Init => IdleAnswered
    BY DEF Init, IdleAnswered
  <1>4. ServingInv /\ IdleAnswered /\ [Next]_vars => IdleAnswered'
    BY IdleAnsweredStep
  <1> QED
    BY <1>1, <1>2, <1>3, <1>4, ServingInvariant, PTL
    DEF Spec, ImplementsCalls, Calls!Spec

================================================================================
