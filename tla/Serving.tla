-------------------------------- MODULE Serving --------------------------------
(***************************************************************************)
(* How requests reach harnessd's handlers and answers come back: the socket *)
(* mode of the daemon (a thread for each connection, HANDLE_LOCK around     *)
(* everything but read_verdict), the agent's client, and the launch script, *)
(* which looks for a living daemon and starts one.  What a request does is  *)
(* Daemon's and Poller's matter; here it is performed or not.               *)
(*                                                                          *)
(* Sockets are external: connecting succeeds while the daemon behind the    *)
(* path listens, and an end that is closed reads as the end of the stream.  *)
(***************************************************************************)
EXTENDS Integers, FiniteSets

CONSTANTS Launchers,  \* runs of agent-isolated.sh
          Probed,     \* those that have found a daemon before
          MaxDaemons, \* bound: harnessd processes
          MaxCalls,   \* requests of each agent: a launch has --max-turns
          NoCall

ASSUME ServingAssumption ==
    /\ Probed \subseteq Launchers
    /\ MaxCalls \in [Launchers -> Nat]
    /\ MaxDaemons \in Nat \ {0}
    /\ NoCall \notin [n : Nat, op : {"read_verdict", "other"}]

VARIABLES
    path,       \* the daemon that bound the socket the path leads to
    server,     \* the daemon processes
    holder,     \* the connections whose thread holds HANDLE_LOCK
    conn,       \* the connections
    at,         \* where each launch script, or the agent it became, is
    calls,      \* the requests each agent has sent
    performed,  \* history: the times each agent's request was carried out
    answers     \* history: what each agent has read

\* Processes in the order of their start.
Daemons  == 1 .. MaxDaemons
NoDaemon == 0

history == <<performed, answers>>
vars == <<path, server, holder, conn, at, calls, history>>

\* A launch makes up to three connections: two probes and the agent's.
Conns == Launchers \X {"probe", "second probe", "agent"}
Agent(l) == <<l, "agent">>
AgentsOf(ks) == {l \in Launchers : Agent(l) \in ks}

Call == [n : Nat, op : {"read_verdict", "other"}]

\* open: the client has its end open.  sent and reply are what is under way
\* in the two directions; a client waits for its answer, so neither holds
\* more than one line.  call is the request the thread is at.
Threads == {"none", "backlog", "reading", "locking", "handling", "writing",
            "ended", "failed"}
Conn == [daemon : Daemons \cup {NoDaemon}, open : BOOLEAN, thread : Threads,
         sent : Call \cup {NoCall}, call : Call \cup {NoCall},
         reply : Nat]

NoConn == [daemon |-> NoDaemon, open |-> FALSE, thread |-> "none",
           sent |-> NoCall, call |-> NoCall, reply |-> 0]

Listening(d) == d \in Daemons /\ server[d] = "serving"

\* At the beginning a daemon may be serving, or there is the socket file of a
\* dead one, or nothing, or a daemon that somebody has just started by hand.
Init ==
    /\ path \in {NoDaemon, 1}
    /\ server \in [Daemons -> {"unborn", "started", "serving", "dead"}]
    /\ server[1] \in IF path = 1 THEN {"serving", "dead"}
                     ELSE {"unborn", "started"}
    /\ \A d \in Daemons \ {1} : server[d] = "unborn"
    /\ holder = [d \in Daemons |-> {}]
    /\ conn = [k \in Conns |-> NoConn]
    /\ at = [l \in Launchers |-> IF l \in Probed THEN "launch" ELSE "probe"]
    /\ calls = [l \in Launchers |-> 0]
    /\ performed = [l \in Launchers |-> [n \in 1 .. MaxCalls[l] |-> 0]]
    /\ answers = {}

At(k, pc) == conn[k].thread = pc

Goto(k, pc) == conn' = [conn EXCEPT ![k].thread = pc]

\* Threads end, and their end of the connection is closed.
End(ks, pc) ==
    conn' = [k \in Conns |->
        IF k \in ks THEN [conn[k] EXCEPT !.thread = pc, !.call = NoCall]
        ELSE conn[k]]

Ended(k) == conn[k].thread \in {"ended", "failed"}

(***************************************************************************)
(* The daemon process.                                                      *)
(***************************************************************************)

\* It removes whatever is at the path, its own or another's socket, ...
Unlink(d) ==
    /\ server[d] = "started"
    /\ path' = NoDaemon
    /\ server' = [server EXCEPT ![d] = "unlinked"]
    /\ UNCHANGED <<holder, conn, at, calls, history>>

\* ... and binds, which fails when another one was faster.
Bind(d) ==
    /\ server[d] = "unlinked"
    /\ IF path = NoDaemon
       THEN path' = d /\ server' = [server EXCEPT ![d] = "serving"]
       ELSE path' = path /\ server' = [server EXCEPT ![d] = "dead"]
    /\ UNCHANGED <<holder, conn, at, calls, history>>

Perform(ks) ==
    performed' = [l \in Launchers |->
        IF l \in AgentsOf(ks)
        THEN [performed[l] EXCEPT ![conn[Agent(l)].call.n] = @ + 1]
        ELSE performed[l]]

\* A killed daemon leaves its requests done or not done, its connections
\* closed and its socket file behind.
Die(d) ==
    /\ server[d] \in {"started", "unlinked", "serving"}
    /\ server' = [server EXCEPT ![d] = "dead"]
    /\ End({k \in Conns : conn[k].daemon = d}, "ended")
    /\ holder' = [holder EXCEPT ![d] = {}]
    /\ \E ks \in SUBSET {k \in Conns : conn[k].daemon = d
                                          /\ At(k, "handling")} :
          Perform(ks)
    /\ UNCHANGED <<path, at, calls, answers>>

(***************************************************************************)
(* The thread of a connection.                                              *)
(***************************************************************************)
\* The accept loop starts a thread, which gives up when it cannot clone the
\* stream.
Accept(k) ==
    /\ At(k, "backlog")
    /\ Goto(k, "reading") \/ End({k}, "failed")
    /\ UNCHANGED <<path, server, holder, at, calls, history>>

\* The lock is for every request.
LocksAlways(op) == TRUE

\* read_verdict sleeps, and must not hold the lock while it does.
Locks(op) == op # "read_verdict"

ReadLine(k) ==
    /\ At(k, "reading") /\ conn[k].sent # NoCall
    /\ LET c == conn[k].sent
       IN  conn' = [conn EXCEPT ![k].sent = NoCall, ![k].call = c,
                       ![k].thread = IF Locks(c.op) THEN "locking"
                                     ELSE "handling"]
    /\ UNCHANGED <<path, server, holder, at, calls, history>>

EndOfInput(k) ==
    /\ At(k, "reading") /\ conn[k].sent = NoCall /\ ~conn[k].open
    /\ End({k}, "ended")
    /\ UNCHANGED <<path, server, holder, at, calls, history>>

\* The guard is dropped as soon as it is taken.
TakeLockForNothing(k) ==
    /\ At(k, "locking") /\ holder[conn[k].daemon] = {}
    /\ Goto(k, "handling")
    /\ UNCHANGED <<path, server, holder, at, calls, history>>

\* A lock that a panic has poisoned is taken as it is.
TakeLock(k) ==
    /\ At(k, "locking") /\ holder[conn[k].daemon] = {}
    /\ Goto(k, "handling")
    /\ holder' = [holder EXCEPT ![conn[k].daemon] = {k}]
    /\ UNCHANGED <<path, server, at, calls, history>>

Release(k) == holder' = [holder EXCEPT ![conn[k].daemon] = @ \ {k}]

\* The handler returns, with a result or an error, and the guard goes.
Handle(k) ==
    /\ At(k, "handling")
    /\ Perform({k}) /\ Release(k) /\ Goto(k, "writing")
    /\ UNCHANGED <<path, server, at, calls, answers>>

\* The lock is a flag that nobody resets when a handler panics.
PanicUnderLock(k) ==
    /\ At(k, "handling")
    /\ Perform({}) \/ Perform({k})
    /\ End({k}, "failed")
    /\ UNCHANGED <<path, server, holder, at, calls, answers>>

\* A poisoned lock has those who wait for it panic in their turn.
PanicPoisons(k) ==
    /\ At(k, "handling")
    /\ Perform({}) \/ Perform({k})
    /\ Release(k)
    /\ LET hit == {j \in Conns : /\ At(j, "locking")
                                 /\ conn[j].daemon = conn[k].daemon}
       IN  End({k} \cup hit, "ended")
    /\ UNCHANGED <<path, server, at, calls, answers>>

\* The handler panics, somewhere on its way: the thread unwinds, which drops
\* the guard and closes the connection.
Panic(k) ==
    /\ At(k, "handling")
    /\ Perform({}) \/ Perform({k})
    /\ Release(k)
    /\ End({k}, "failed")
    /\ UNCHANGED <<path, server, at, calls, answers>>

\* An answer that nobody waits for ends the thread.
WriteAnswer(k) ==
    /\ At(k, "writing")
    /\ IF conn[k].open
       THEN conn' = [conn EXCEPT ![k].thread = "reading", ![k].call = NoCall,
                                 ![k].reply = conn[k].call.n]
       ELSE End({k}, "ended")
    /\ UNCHANGED <<path, server, holder, at, calls, history>>

(***************************************************************************)
(* The launch script.                                                       *)
(***************************************************************************)
Connect(k, request) ==
    conn' = [conn EXCEPT ![k] =
        [NoConn EXCEPT !.daemon = path, !.open = TRUE, !.thread = "backlog",
                       !.sent = request]]

\* The client's end goes, and with it an answer nobody has read.
Close(k) == conn' = [conn EXCEPT ![k].open = FALSE, ![k].reply = 0]

Probes == {"probe", "second probe"}
Move(l, place) == at' = [at EXCEPT ![l] = place]

\* sock_alive, once before a daemon is started and once after.
GiveUp(l) ==
    Move(l, IF at[l] \in {"probe", "probing"} THEN "remove" ELSE "over")

ProbeOf(l) == <<l, IF at[l] \in {"probe", "probing"} THEN "probe"
                   ELSE "second probe">>

Probe(l) ==
    /\ at[l] \in Probes
    /\ IF Listening(path)
       THEN /\ Connect(ProbeOf(l), [n |-> 1, op |-> "other"])
            /\ Move(l, IF at[l] = "probe" THEN "probing" ELSE "probing again")
       ELSE GiveUp(l) /\ conn' = conn
    /\ UNCHANGED <<path, server, holder, calls, history>>

\* An answer, the end of the stream, or nothing for five seconds.
ProbeEnds(l) ==
    /\ at[l] \in {"probing", "probing again"}
    /\ \/ conn[ProbeOf(l)].reply # 0 /\ Move(l, "launch")
       \/ conn[ProbeOf(l)].reply = 0 /\ GiveUp(l)
    /\ Close(ProbeOf(l))
    /\ UNCHANGED <<path, server, holder, calls, history>>

RemoveSocket(l) ==
    /\ at[l] = "remove"
    /\ path' = NoDaemon
    /\ Move(l, "start")
    /\ UNCHANGED <<server, holder, conn, calls, history>>

\* Starts a daemon and waits up to five seconds for a socket at the path.
StartDaemon(l) ==
    /\ at[l] = "start"
    /\ \E d \in Daemons :
          /\ \A e \in Daemons : server[e] = "unborn" <=> e >= d
          /\ server' = [server EXCEPT ![d] = "started"]
    /\ Move(l, "second probe")
    /\ UNCHANGED <<path, holder, conn, calls, history>>

(***************************************************************************)
(* The agent's client.                                                      *)
(***************************************************************************)
Launch(l) ==
    /\ at[l] = "launch"
    /\ IF Listening(path)
       THEN Connect(Agent(l), NoCall) /\ Move(l, "idle")
       ELSE Move(l, "over") /\ conn' = conn
    /\ UNCHANGED <<path, server, holder, calls, history>>

\* Writes a line; the daemon's end may be closed by then.
SendCall(l) ==
    /\ at[l] = "idle" /\ calls[l] < MaxCalls[l]
    /\ IF Ended(Agent(l))
       THEN Move(l, "broken") /\ UNCHANGED <<conn, calls>>
       ELSE \E op \in {"read_verdict", "other"} :
               /\ conn' = [conn EXCEPT ![Agent(l)].sent =
                              [n |-> calls[l] + 1, op |-> op]]
               /\ calls' = [calls EXCEPT ![l] = @ + 1]
               /\ Move(l, "waiting")
    /\ UNCHANGED <<path, server, holder, history>>

\* The call gives up on its answer after a while, and the client goes on.
ReadAnswerOrGiveUp(l) ==
    /\ at[l] = "waiting"
    /\ IF conn[Agent(l)].reply # 0
       THEN answers' = answers \cup {[agent |-> l, asked |-> calls[l],
                                      got |-> conn[Agent(l)].reply]}
       ELSE answers' = answers
    /\ conn' = [conn EXCEPT ![Agent(l)].reply = 0]
    /\ Move(l, "idle")
    /\ UNCHANGED <<path, server, holder, calls, performed>>

\* Waits for a line, however long it takes.
ReadAnswer(l) ==
    /\ at[l] = "waiting" /\ conn[Agent(l)].reply # 0
    /\ answers' = answers \cup {[agent |-> l, asked |-> calls[l],
                                 got |-> conn[Agent(l)].reply]}
    /\ conn' = [conn EXCEPT ![Agent(l)].reply = 0]
    /\ Move(l, "idle")
    /\ UNCHANGED <<path, server, holder, calls, performed>>

\* The request is sent again, on a new connection.
Resend(l) ==
    /\ at[l] = "waiting"
    /\ conn[Agent(l)].reply = 0 /\ Ended(Agent(l))
    /\ Listening(path)
    /\ Connect(Agent(l), [n |-> calls[l], op |-> "other"])
    /\ UNCHANGED <<path, server, holder, at, calls, history>>

\* "harnessd connection closed": there is no retry, and no new connection.
ReadEnd(l) ==
    /\ at[l] = "waiting"
    /\ conn[Agent(l)].reply = 0 /\ Ended(Agent(l))
    /\ Move(l, "broken")
    /\ UNCHANGED <<path, server, holder, conn, calls, history>>

\* The agent's process ends, whatever it is waiting for.
Leave(l) ==
    /\ at[l] \in {"idle", "waiting", "broken"}
    /\ Close(Agent(l))
    /\ Move(l, "over")
    /\ UNCHANGED <<path, server, holder, calls, history>>

ThreadStep(k) ==
    \/ Accept(k) \/ ReadLine(k) \/ EndOfInput(k) \/ TakeLock(k) \/ Handle(k)
    \/ Panic(k) \/ WriteAnswer(k)

Next ==
    \/ \E d \in Daemons : Unlink(d) \/ Bind(d) \/ Die(d)
    \/ \E k \in Conns : ThreadStep(k)
    \/ \E l \in Launchers :
          \/ Probe(l) \/ ProbeEnds(l) \/ RemoveSocket(l) \/ StartDaemon(l)
          \/ Launch(l) \/ SendCall(l) \/ ReadAnswer(l) \/ ReadEnd(l)
          \/ Leave(l)

Spec == Init /\ [][Next]_vars

\* A thread runs unless it sleeps in read_verdict, of which nothing is
\* assumed.
Runs(k) ==
    \/ Accept(k) \/ ReadLine(k) \/ EndOfInput(k) \/ TakeLock(k)
    \/ At(k, "handling") /\ conn[k].call.op = "other" /\ Handle(k)
    \/ WriteAnswer(k)

\* Nothing is assumed of the order in which the lock is handed on, either.
FairSpec ==
    /\ Spec
    /\ \A k \in Conns : WF_vars(Runs(k))
    /\ \A l \in Launchers : WF_vars(ReadAnswer(l) \/ ReadEnd(l))

(***************************************************************************)
(* Properties.                                                              *)
(***************************************************************************)
Places == {"probe", "probing", "remove", "start", "second probe",
           "probing again", "launch", "idle", "waiting", "broken", "over"}

\* Every variable stays in its type, and a lock is held by threads of its own
\* daemon, and only while they handle a request.
TypeOK ==
    /\ path \in Daemons \cup {NoDaemon}
    /\ server \in [Daemons ->
                      {"unborn", "started", "unlinked", "serving", "dead"}]
    /\ holder \in [Daemons -> SUBSET Conns]
    /\ \A d \in Daemons, k \in Conns :
          k \in holder[d] => conn[k].daemon = d /\ At(k, "handling")
    /\ conn \in [Conns -> Conn]
    /\ at \in [Launchers -> Places]
    /\ calls \in [Launchers -> Nat]
    /\ \A l \in Launchers : /\ calls[l] <= MaxCalls[l]
                            /\ performed[l] \in [1 .. MaxCalls[l] -> Nat]
    /\ DOMAIN performed = Launchers
    /\ answers \subseteq [agent : Launchers, asked : Nat, got : Nat]

\* HANDLE_LOCK (daemon.rs 15-17, 84-98): within one daemon no two requests
\* other than read_verdict are handled at a time, whoever panics, leaves or
\* is killed; Daemon counts on it.
OneAtATime ==
    \A j, k \in Conns :
        /\ At(j, "handling") /\ At(k, "handling")
        /\ conn[j].daemon = conn[k].daemon
        /\ conn[j].call.op = "other" /\ conn[k].call.op = "other"
        => j = k

\* "No retries that could double-apply a patch" (harness.py 10-11): however
\* connections and daemons end, a request is carried out at most once, and
\* one that was answered exactly once, and the answer is its own.
EachCallOnce ==
    /\ \A l \in Launchers : \A n \in 1 .. MaxCalls[l] : performed[l][n] <= 1
    /\ \A a \in answers :
          a.got = a.asked /\ performed[a.agent][a.asked] = 1

\* A panic, which poisons the lock, ends its own connection and no other
\* (daemon.rs:97): an agent loses its connection only to its own request or
\* with the whole daemon.
BrokenHasCause ==
    \A l \in Launchers : at[l] = "broken" =>
        \/ At(Agent(l), "failed")
        \/ server[conn[Agent(l)].daemon] = "dead"

\* The answers as their agents read them, and what they are answers to.
Given == {<<a.agent, a.got>> : a \in answers}

Calls == INSTANCE CallService
    WITH Agents <- Launchers, Limit <- MaxCalls, asked <- calls,
         answered <- Given

\* The socket serves calls: for all that threads, panics, dying daemons and
\* launches do, an agent's next request comes after the answer to its last,
\* and none is carried out again, or answered in another's place.
ImplementsCalls == Calls!Spec

\* The agent waits for a request, under way or at the thread, that is not
\* read_verdict.
AsksOther(l) ==
    /\ at[l] = "waiting"
    /\ \E c \in {conn[Agent(l)].sent, conn[Agent(l)].call} :
          c # NoCall /\ c.op = "other"

\* A request other than read_verdict comes to an end, with an answer or with
\* the connection, although read_verdict may sleep for ever in other threads
\* (daemon.rs 84-85) and handlers panic under the lock.
CallsEnd ==
    \A l \in Launchers :
        AsksOther(l) ~> (at[l] # "waiting")

================================================================================
