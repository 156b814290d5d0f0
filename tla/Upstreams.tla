------------------------------ MODULE Upstreams -----------------------------
(***************************************************************************)
(* The upstream nodes of the stratum server: the counters of an RPCClient  *)
(* (rpc/rpc.go) and the choice of the node that is used (checkUpstreams,   *)
(* stratum/stratum.go).                                                    *)
(*                                                                         *)
(* The checker is one goroutine; the callers of s.rpc() are the goroutines *)
(* that fetch a template or submit a block.  A step is a remote call, a    *)
(* section under the client's mutex or an atomic load or store.            *)
(*                                                                         *)
(* A node may stop and come back at any time.  It is "down" when a call    *)
(* fails, cannot be decoded or gets an RPC error, and "refuses" when it    *)
(* answers with an HTTP status that is not a success or with a result that *)
(* is not of the type asked for: doPost counts only the former.            *)
(***************************************************************************)
EXTENDS Integers, FiniteSets, FiniteSetsExt

CONSTANTS
    Count,              \* upstreams 1 .. Count, in the order of the config
    SickAt,             \* failed calls that make a client sick (5)
    AliveAt,            \* checks that make it well again (5)
    Callers,            \* goroutines that use s.rpc() at the same time
    MaxErrors           \* bound: calls that a node answers with an RPC
                        \* error although it is up (a block it does not want)

ASSUME CountAssumption == Count \in Nat \ {0}
ASSUME RatesAssumption == SickAt \in Nat \ {0} /\ AliveAt \in Nat \ {0}
ASSUME ErrorsAssumption == MaxErrors \in Nat

VARIABLES
    health,             \* of each node
    client,             \* the RPCClient of each node
    upstream,           \* the node in use
    checker,            \* the goroutine of checkUpstreams
    calling,            \* a caller's client, 0 for none
    errors,             \* bounds MaxErrors
    \* --- history ---
    streak              \* checks a node answered since its last failure that
                        \* counted, up to AliveAt

upstreamsVars == <<health, client, upstream, checker, calling, errors, streak>>

Upstreams == 1 .. Count
Healthy(u) == health[u] = "up"

\* The checker between two rounds.
Resting == [pc |-> "idle", at |-> 1, candidate |-> 1, backup |-> FALSE]

\* Five failed calls make a client sick, and nothing but five checks makes
\* it well: its flag is its counter, whatever the order of the sections.
UpstreamsTypeOK ==
    /\ health \in [Upstreams -> {"up", "down", "refuses"}]
    /\ client \in [Upstreams -> [sickRate : 0 .. SickAt,
                                 successRate : 0 .. AliveAt - 1,
                                 sick : BOOLEAN]]
    /\ \A u \in Upstreams : client[u].sick <=> client[u].sickRate = SickAt
    /\ upstream \in Upstreams
    /\ checker \in [pc : {"idle", "post", "alive", "read", "switch"},
                    at : Upstreams, candidate : Upstreams, backup : BOOLEAN]
    /\ calling \in [Callers -> 0 .. Count]
    /\ errors \in 0 .. MaxErrors
    /\ streak \in [Upstreams -> 0 .. AliveAt]

UpstreamsInit ==
    /\ health \in [Upstreams -> {"up", "down", "refuses"}]
    /\ client = [u \in Upstreams |->
                    [sickRate |-> 0, successRate |-> 0, sick |-> FALSE]]
    /\ upstream = 1
    /\ checker = Resting
    /\ calling = [c \in Callers |-> 0]
    /\ errors = 0
    /\ streak = [u \in Upstreams |-> 0]

-----------------------------------------------------------------------------
(* The client.                                                             *)

\* Mutant: markSick forgets to compare the counter when the client was well.
MarkedSickLate(r) ==
    [r EXCEPT !.sickRate = Min({@ + 1, SickAt}), !.successRate = 0,
              !.sick = @ \/ r.sickRate >= SickAt]

\* Mutant: markSick does not start the count of answered checks again.
MarkedSickOnly(r) ==
    LET failures == Min({r.sickRate + 1, SickAt})
    IN  [r EXCEPT !.sickRate = failures, !.sick = @ \/ failures >= SickAt]

\* One more failure.  sickRate is only compared with SickAt and stays there.
MarkedSick(r) ==
    LET failures == Min({r.sickRate + 1, SickAt})
    IN  [sickRate |-> failures, successRate |-> 0,
         sick |-> r.sick \/ failures >= SickAt]

\* One more check that was answered.
MarkedAlive(r) ==
    IF r.successRate + 1 >= AliveAt
    THEN [sickRate |-> 0, successRate |-> 0, sick |-> FALSE]
    ELSE [r EXCEPT !.successRate = @ + 1]

Counted(u) == [streak EXCEPT ![u] = Min({@ + 1, AliveAt})]

\* doPost fails on u: a refusal changes nothing.
PostFails(u) ==
    /\ ~Healthy(u)
    /\ IF health[u] = "down"
       THEN /\ client' = [client EXCEPT ![u] = MarkedSick(@)]
            /\ streak' = [streak EXCEPT ![u] = 0]
       ELSE UNCHANGED <<client, streak>>

-----------------------------------------------------------------------------
(* checkUpstreams.                                                         *)

\* The loop goes on past upstream at, or ends.
Past(c) ==
    IF c.at < Count THEN [c EXCEPT !.pc = "post", !.at = @ + 1]
                    ELSE [c EXCEPT !.pc = "switch"]

\* The timer fires.
StartRound ==
    /\ checker.pc = "idle"
    /\ checker' = [Resting EXCEPT !.pc = "post"]
    /\ UNCHANGED <<health, client, upstream, calling, errors, streak>>

\* Check calls GetWork.
CheckPost ==
    /\ checker.pc = "post"
    /\ \/ /\ Healthy(checker.at)
          /\ checker' = [checker EXCEPT !.pc = "alive"]
          /\ UNCHANGED <<client, streak>>
       \/ /\ PostFails(checker.at)
          /\ checker' = Past(checker)
    /\ UNCHANGED <<health, upstream, calling, errors>>

\* markAlive, after an answer.
CheckAlive ==
    /\ checker.pc = "alive"
    /\ client' = [client EXCEPT ![checker.at] = MarkedAlive(@)]
    /\ streak' = Counted(checker.at)
    /\ checker' = [checker EXCEPT !.pc = "read"]
    /\ UNCHANGED <<health, upstream, calling, errors>>

\* Mutant: The loop takes the last client that is well, not the first.
ChosenLast(c) ==
    IF ~client[c.at].sick
    THEN [c EXCEPT !.candidate = c.at, !.backup = TRUE]
    ELSE c

\* Sick, in the return of Check: the first client that is well is the
\* candidate.
Chosen(c) ==
    IF ~client[c.at].sick /\ ~c.backup
    THEN [c EXCEPT !.candidate = c.at, !.backup = TRUE]
    ELSE c

CheckRead ==
    /\ checker.pc = "read"
    /\ checker' = Past(Chosen(checker))
    /\ UNCHANGED <<health, client, upstream, calling, errors, streak>>

\* The end of a round: without a candidate the first upstream is used.
Switch ==
    /\ checker.pc = "switch"
    /\ upstream' = checker.candidate
    /\ checker' = Resting
    /\ UNCHANGED <<health, client, calling, errors, streak>>

-----------------------------------------------------------------------------
(* The callers.                                                            *)

\* s.rpc()
Load(c) ==
    /\ calling[c] = 0
    /\ calling' = [calling EXCEPT ![c] = upstream]
    /\ UNCHANGED <<health, client, upstream, checker, errors, streak>>

\* The call to the client that was loaded: it succeeds, which marks nothing,
\* or fails, or is answered with an error.
Answer(c) ==
    /\ calling[c] # 0
    /\ \/ Healthy(calling[c]) /\ UNCHANGED <<client, streak, errors>>
       \/ PostFails(calling[c]) /\ UNCHANGED errors
       \/ /\ Healthy(calling[c]) /\ errors < MaxErrors
          /\ errors' = errors + 1
          /\ client' = [client EXCEPT ![calling[c]] = MarkedSick(@)]
          /\ streak' = [streak EXCEPT ![calling[c]] = 0]
    /\ calling' = [calling EXCEPT ![c] = 0]
    /\ UNCHANGED <<health, upstream, checker>>

\* A node stops, comes back or starts to refuse calls.
NodeChanges(u) ==
    /\ \E h \in {"up", "down", "refuses"} \ {health[u]} :
          health' = [health EXCEPT ![u] = h]
    /\ UNCHANGED <<client, upstream, checker, calling, errors, streak>>

Checker == StartRound \/ CheckPost \/ CheckAlive \/ CheckRead \/ Switch

UpstreamsNext ==
    \/ Checker
    \/ \E c \in Callers : Load(c) \/ Answer(c)
    \/ \E u \in Upstreams : NodeChanges(u)

UpstreamsSpec == UpstreamsInit /\ [][UpstreamsNext]_upstreamsVars

\* The timer of the checker is set again after each round and a call ends at
\* the latest with the timeout of the client, so the checker never stops.
\* Nothing is assumed of the callers and of the nodes.
UpstreamsFairSpec == UpstreamsSpec /\ WF_upstreamsVars(Checker)

-----------------------------------------------------------------------------
(* Properties.                                                             *)

\* A client that is sick is used again only after AliveAt checks were
\* answered with no failed call between them, of the checker or of another
\* goroutine (markSick and markAlive, rpc/rpc.go).
WellAfterChecksInARow ==
    [][\A u \in Upstreams :
          client[u].sick /\ ~client'[u].sick => streak'[u] = AliveAt
      ]_upstreamsVars

\* Failover and its return: when from some time on u is up and every upstream
\* before it is not, the server ends up using u and stays with it, whatever
\* failed before (checkUpstreams, stratum/stratum.go).
FollowsHealth ==
    \A u \in Upstreams :
        <>[](Healthy(u) /\ \A v \in 1 .. u - 1 : ~Healthy(v))
            => <>[](upstream = u)
=============================================================================
