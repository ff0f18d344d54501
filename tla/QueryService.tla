---------------------------- MODULE QueryService ----------------------------
(***************************************************************************)
(* What the queue manager of libtg (tg/queue.c) promises to the code that  *)
(* sends a query with tg_send_query_async: the query is submitted once,    *)
(* and later either exactly one callback is claimed for it and run, or it  *)
(* is withdrawn (cancelled, or its thread gave up) and no callback ever    *)
(* runs.  An answer can be claimed only for a query the server was asked   *)
(* about.                                                                  *)
(*                                                                         *)
(* Nothing here mentions threads, mutexes, message ids or sockets: those   *)
(* belong to QueueManager, which is shown to implement this module.        *)
(***************************************************************************)

CONSTANTS
    Queries     \* the queries an application submits

VARIABLES
    phase,      \* how far each query has come
    served,     \* the queries the server was asked about
    outcome     \* what the query's callback was given, if it was run

serviceVars == <<phase, served, outcome>>

Phases   == {"idle", "pending", "claimed", "over"}
Outcomes == {"none", "answer", "null"}

ServiceTypeOK ==
    /\ phase   \in [Queries -> Phases]
    /\ served  \in SUBSET Queries
    /\ outcome \in [Queries -> Outcomes]

ServiceInit ==
    /\ phase   = [q \in Queries |-> "idle"]
    /\ served  = {}
    /\ outcome = [q \in Queries |-> "none"]

\* The query enters the manager's list.
Submit(q) ==
    /\ phase[q] = "idle"
    /\ phase' = [phase EXCEPT ![q] = "pending"]
    /\ UNCHANGED <<served, outcome>>

\* The query never gets as far as the list (no connection).
Refuse(q) ==
    /\ phase[q] = "idle"
    /\ phase' = [phase EXCEPT ![q] = "over"]
    /\ UNCHANGED <<served, outcome>>

\* A request reaches the server, which may happen more than once for a query.  It
\* asks about each query that has the request's message id, one as a rule.
Serve(S) ==
    /\ \A q \in S : phase[q] # "idle"
    /\ served' = served \union S
    /\ UNCHANGED <<phase, outcome>>

\* Some thread takes the query in order to run its callback.
Claim(q) ==
    /\ phase[q] = "pending"
    /\ q \in served
    /\ phase' = [phase EXCEPT ![q] = "claimed"]
    /\ UNCHANGED <<served, outcome>>

\* The callback of a claimed query is run.
Complete(q, value) ==
    /\ phase[q] = "claimed"
    /\ phase'   = [phase EXCEPT ![q] = "over"]
    /\ outcome' = [outcome EXCEPT ![q] = value]
    /\ UNCHANGED served

\* Pending queries are given up, one by one or all of them at once.
Withdraw(S) ==
    /\ \A q \in S : phase[q] = "pending"
    /\ phase' = [q \in Queries |-> IF q \in S THEN "over" ELSE phase[q]]
    /\ UNCHANGED <<served, outcome>>

ServiceNext ==
    \/ \E S \in SUBSET Queries : Serve(S) \/ Withdraw(S)
    \/ \E q \in Queries : Submit(q) \/ Refuse(q) \/ Claim(q)
    \/ \E q \in Queries, value \in Outcomes \ {"none"} : Complete(q, value)

ServiceSpec == ServiceInit /\ [][ServiceNext]_serviceVars

=============================================================================
