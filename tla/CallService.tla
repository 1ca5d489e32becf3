----------------------------- MODULE CallService -----------------------------
(***************************************************************************)
(* What an agent may count on of the socket, however many connections,      *)
(* threads and daemons there are behind it: it has one request under way at *)
(* a time, each is carried out once at most, and what it reads is the       *)
(* answer to the request it waits for, which has then been carried out.     *)
(***************************************************************************)
EXTENDS Integers

CONSTANTS Agents,
          Limit       \* requests of each agent

VARIABLES asked,      \* the number of each agent's last request
          performed,  \* how often each request has been carried out
          answered    \* the requests that have been answered, with their agents

Init ==
    /\ asked = [a \in Agents |-> 0]
    /\ performed = [a \in Agents |-> [n \in 1 .. Limit[a] |-> 0]]
    /\ answered = {}

\* The next request, once the last one has been answered.
Ask(a) ==
    /\ asked[a] = 0 \/ <<a, asked[a]>> \in answered
    /\ asked[a] < Limit[a]
    /\ asked' = [asked EXCEPT ![a] = @ + 1]
    /\ UNCHANGED <<performed, answered>>

\* Requests under way are carried out, those of several agents at once.
CarryOut(as) ==
    /\ \A a \in as : asked[a] > 0 /\ performed[a][asked[a]] = 0
    /\ performed' = [a \in Agents |->
           IF a \in as THEN [performed[a] EXCEPT ![asked[a]] = 1]
           ELSE performed[a]]
    /\ UNCHANGED <<asked, answered>>

Answer(a) ==
    /\ asked[a] > 0 /\ performed[a][asked[a]] = 1
    /\ answered' = answered \cup {<<a, asked[a]>>}
    /\ UNCHANGED <<asked, performed>>

Next ==
    \/ \E a \in Agents : Ask(a) \/ Answer(a)
    \/ \E as \in SUBSET Agents : CarryOut(as)

Spec == Init /\ [][Next]_<<asked, performed, answered>>

==============================================================================
