------------------------------- MODULE Stratum ------------------------------
(***************************************************************************)
(* Block templates and jobs in the stratum server: fetchBlockTemplate      *)
(* (stratum/blocks.go), login, getjob, authorize (stratum/stratum.go) and  *)
(* the broadcast of new jobs (stratum/handlers.go), and the jobs of a      *)
(* session (stratum/miner.go).                                             *)
(*                                                                         *)
(* Templates are fetched when the server starts, by the refresh timer and  *)
(* by the goroutines that found a block; each session has its connection's *)
(* goroutine and one goroutine per broadcast.  A step is what a goroutine  *)
(* does between two accesses to shared state: an RPC, an atomic load, swap *)
(* or store, a section under a mutex, a write to the socket.               *)
(*                                                                         *)
(* A template stands for its height: the node gives one header per height. *)
(* Shares are in Shares.tla, the difficulty of a job in Difficulty.tla.    *)
(***************************************************************************)
EXTENDS Integers, Sequences, FiniteSets

CONSTANTS
    Sessions,           \* the connections
    Fetchers,           \* goroutines that fetch a template at the same time
    Starter,            \* ... that of NewStratum at first
    Pushes,             \* bound: push goroutines at the same time (a broadcast
                        \* waits for a free one)
    MaxJobs,            \* pushJob keeps that many jobs of a session (4)
    LastHeight          \* bound: the heights of the upstreams

ASSUME StratumAssumption ==
    /\ Sessions # {} /\ IsFiniteSet(Pushes) /\ Starter \in Fetchers
    /\ MaxJobs \in Nat \ {0} /\ LastHeight \in Nat

VARIABLES
    template,           \* blockTemplate: its height, 0 for none
    fetcher,            \* a goroutine in refreshBlockTemplate
    minerKnown,         \* a miner has logged in (miners are never removed)
    registered,         \* sessions: those that a broadcast reaches
    lastBlockHeight,    \* ... of each session
    validJobs,          \* ... of each session
    handler,            \* the goroutine of a session's connection
    push,               \* the goroutines of broadcastNewJobs
    \* --- history ---
    due,                \* heights that were broadcast to a session and are
                        \* not offered yet
    offered,            \* heights a session was given a job for
    discarded           \* ... whose only job was kept from the session

session == <<registered, lastBlockHeight, validJobs, due, offered, discarded>>
vars == <<template, fetcher, minerKnown, session, handler, push>>

Heights == 1 .. LastHeight
Requests == {"login", "getjob", "authorize"}

IdleFetcher == [pc |-> "idle", height |-> 0, bcast |-> FALSE]
NoPush == [pc |-> "none", session |-> CHOOSE s \in Sessions : TRUE,
           height |-> 0]
Waiting == [pc |-> "idle", height |-> 0, replies |-> TRUE]
Closed == [pc |-> "closed", height |-> 0, replies |-> TRUE]

TypeOK ==
    /\ template \in 0 .. LastHeight
    /\ fetcher \in [Fetchers -> [pc : {"start", "idle", "store", "load",
                                       "broadcast"},
                                 height : 0 .. LastHeight, bcast : BOOLEAN]]
    /\ minerKnown \in BOOLEAN
    /\ registered \subseteq Sessions
    /\ lastBlockHeight \in [Sessions -> 0 .. LastHeight]
    /\ validJobs \in [Sessions -> Seq(Heights)]
    /\ \A s \in Sessions : Len(validJobs[s]) <= MaxJobs
    /\ handler \in [Sessions -> [pc : {"closed", "idle", "register", "swap",
                                       "push"},
                                 height : 0 .. LastHeight,
                                 replies : BOOLEAN]]
    /\ push \in [Pushes -> [pc : {"none", "swap", "push", "send"},
                            session : Sessions, height : 0 .. LastHeight]]
    /\ due \in [Sessions -> SUBSET Heights]
    /\ offered \in [Sessions -> SUBSET Heights]
    /\ discarded \in [Sessions -> SUBSET Heights]

Init ==
    /\ template = 0
    /\ fetcher = [f \in Fetchers |->
            IF f = Starter THEN [IdleFetcher EXCEPT !.pc = "start"]
            ELSE IdleFetcher]
    /\ minerKnown = FALSE
    /\ registered = {}
    /\ lastBlockHeight = [s \in Sessions |-> 0]
    /\ validJobs = [s \in Sessions |-> <<>>]
    /\ handler = [s \in Sessions |-> Closed]
    /\ push = [p \in Pushes |-> NoPush]
    /\ due = [s \in Sessions |-> {}]
    /\ offered = [s \in Sessions |-> {}]
    /\ discarded = [s \in Sessions |-> {}]

-----------------------------------------------------------------------------
(* Templates.                                                               *)

\* GetWork, and the check that its block is higher than the template's ("we
\* have fresh job").  The upstreams may be at any height; a failing call
\* changes nothing.  Only work that passes the check is a step here.  The
\* refresh that NewStratum starts, which makes no broadcast, runs beside those
\* of the timer and may be slower.
FetchTemplate(f) ==
    /\ fetcher[f].pc \in {"start", "idle"}
    /\ \E h \in Heights :
        /\ h > template
        /\ fetcher' = [fetcher EXCEPT ![f] =
                [pc |-> "store", height |-> h, bcast |-> @.pc = "idle"]]
    /\ UNCHANGED <<template, minerKnown, session, handler, push>>

StoreTemplate(f) ==
    /\ fetcher[f].pc = "store"
    /\ template' = fetcher[f].height
    /\ fetcher' = [fetcher EXCEPT ![f] =
            IF fetcher[f].bcast THEN [IdleFetcher EXCEPT !.pc = "load"]
            ELSE IdleFetcher]
    /\ UNCHANGED <<minerKnown, session, handler, push>>

-----------------------------------------------------------------------------
(* The jobs of a session.                                                   *)

\* Mutant: the newest job is dropped from a full list.
KeepOldest(s, h) ==
    IF Len(validJobs[s]) < MaxJobs THEN Append(validJobs[s], h)
    ELSE validJobs[s]

\* Mutant: the list grows by one too many.
KeepOneMore(s, h) ==
    LET jobs == Append(validJobs[s], h)
    IN  IF Len(jobs) > MaxJobs + 1 THEN Tail(jobs) ELSE jobs

Keep(s, h) ==
    LET jobs == Append(validJobs[s], h)
    IN  IF Len(jobs) > MaxJobs THEN Tail(jobs) ELSE jobs

\* The rest of getJob and getNewJob: a new job for a template, which goes to
\* the miner ...
PushJob(s, h) ==
    /\ validJobs' = [validJobs EXCEPT ![s] = Keep(s, h)]
    /\ offered' = [offered EXCEPT ![s] = @ \cup {h}]
    /\ due' = [due EXCEPT ![s] = @ \ {h}]
    /\ discarded' = [discarded EXCEPT ![s] = @ \ {h}]
    /\ UNCHANGED <<registered, lastBlockHeight>>

\* ... or not: mining.authorize drops the reply of its login, and answers with
\* "true" and with a job that is a constant of the code.
DiscardJob(s, h) ==
    /\ validJobs' = [validJobs EXCEPT ![s] = Keep(s, h)]
    /\ discarded' = [discarded EXCEPT ![s] = (@ \cup {h}) \ offered[s]]
    /\ UNCHANGED <<registered, lastBlockHeight, due, offered>>

-----------------------------------------------------------------------------
(* Broadcasts.                                                              *)

\* Mutant: sessions that have a job are left out.
ReceiversWithoutJob == {s \in registered : validJobs[s] = <<>>}

Receivers == registered

\* broadcastNewJobs loads the template again, which may be a later one ...
LoadTemplate(f) ==
    /\ fetcher[f].pc = "load"
    /\ fetcher' = [fetcher EXCEPT ![f].pc = "broadcast", ![f].height = template]
    /\ UNCHANGED <<template, minerKnown, session, handler, push>>

\* ... and starts a goroutine per registered session.
Broadcast(f) ==
    /\ fetcher[f].pc = "broadcast"
    /\ fetcher' = [fetcher EXCEPT ![f] = IdleFetcher]
    /\ \E slot \in [Receivers -> {p \in Pushes : push[p] = NoPush}] :
        /\ \A s, t \in Receivers : slot[s] = slot[t] => s = t
        /\ push' = [p \in Pushes |->
                IF \E s \in Receivers : slot[s] = p
                THEN [pc |-> "swap", height |-> fetcher[f].height,
                      session |-> CHOOSE s \in Receivers : slot[s] = p]
                ELSE push[p]]
    /\ due' = [s \in Sessions |->
                IF s \in registered
                THEN (due[s] \cup {fetcher[f].height}) \ offered[s]
                ELSE due[s]]
    /\ UNCHANGED <<template, minerKnown, registered, lastBlockHeight,
                   validJobs, offered, discarded, handler>>

\* getNewJob swaps the session's height; a session that is there already gets
\* an empty job.
PushSwap(p) ==
    /\ push[p].pc = "swap"
    /\ LET s == push[p].session
       IN  /\ push' = [push EXCEPT ![p].pc =
                IF lastBlockHeight[s] = push[p].height THEN "send" ELSE "push"]
           /\ lastBlockHeight' = [lastBlockHeight EXCEPT ![s] = push[p].height]
    /\ UNCHANGED <<template, fetcher, minerKnown, registered,
                   validJobs, due, offered, discarded, handler>>

PushNewJob(p) ==
    /\ push[p].pc = "push"
    /\ PushJob(push[p].session, push[p].height)
    /\ push' = [push EXCEPT ![p].pc = "send"]
    /\ UNCHANGED <<template, fetcher, minerKnown, handler>>

\* pushMessage; when the write fails the session is removed.
PushSend(p) ==
    /\ push[p].pc = "send"
    /\ \E sent \in BOOLEAN :
        registered' = IF sent THEN registered
                      ELSE registered \ {push[p].session}
    /\ push' = [push EXCEPT ![p] = NoPush]
    /\ UNCHANGED <<template, fetcher, minerKnown, lastBlockHeight,
                   validJobs, due, offered, discarded, handler>>

-----------------------------------------------------------------------------
(* A connection.                                                            *)

Connect(s) ==
    /\ handler[s].pc = "closed"
    /\ handler' = [handler EXCEPT ![s] = Waiting]
    /\ UNCHANGED <<template, fetcher, minerKnown, session, push>>

\* The connection ends and its Session object with it; goroutines that still
\* push to it no longer matter to anybody.
Drop(s) ==
    /\ handler' = [handler EXCEPT ![s] = Closed]
    /\ registered' = registered \ {s}
    /\ lastBlockHeight' = [lastBlockHeight EXCEPT ![s] = 0]
    /\ validJobs' = [validJobs EXCEPT ![s] = <<>>]
    /\ due' = [due EXCEPT ![s] = {}]
    /\ offered' = [offered EXCEPT ![s] = {}]
    /\ discarded' = [discarded EXCEPT ![s] = {}]
    /\ push' = [p \in Pushes |-> IF push[p].session = s THEN NoPush
                                 ELSE push[p]]

Disconnect(s) ==
    /\ handler[s].pc = "idle"
    /\ Drop(s)
    /\ UNCHANGED <<template, fetcher, minerKnown>>

\* login (also that of mining.authorize) and getjob load the current template;
\* without one, or for a getjob with the id of no miner, the client is
\* disconnected.
Request(s, request) ==
    /\ handler[s].pc = "idle"
    /\ IF template = 0 \/ (request = "getjob" /\ ~minerKnown)
       THEN Drop(s)
       ELSE /\ handler' = [handler EXCEPT ![s] =
                [pc |-> IF request = "getjob" THEN "swap" ELSE "register",
                 height |-> template, replies |-> request # "authorize"]]
            /\ UNCHANGED <<session, push>>
    /\ UNCHANGED <<template, fetcher, minerKnown>>

Register(s) ==
    /\ handler[s].pc = "register"
    /\ minerKnown' = TRUE
    /\ registered' = registered \cup {s}
    /\ handler' = [handler EXCEPT ![s].pc = "swap"]
    /\ UNCHANGED <<template, fetcher, lastBlockHeight, validJobs, due,
                   offered, discarded, push>>

\* getJob swaps the session's height: "Job not ready" when it is the same.
GetJob(s) ==
    /\ handler[s].pc = "swap"
    /\ IF lastBlockHeight[s] = handler[s].height
       THEN Drop(s)
       ELSE /\ lastBlockHeight' =
                    [lastBlockHeight EXCEPT ![s] = handler[s].height]
            /\ handler' = [handler EXCEPT ![s].pc = "push"]
            /\ UNCHANGED <<registered, validJobs, due, offered, discarded,
                           push>>
    /\ UNCHANGED <<template, fetcher, minerKnown>>

GetJobPush(s) ==
    /\ handler[s].pc = "push"
    /\ IF handler[s].replies
       THEN PushJob(s, handler[s].height)
       ELSE DiscardJob(s, handler[s].height)
    /\ handler' = [handler EXCEPT ![s] = Waiting]
    /\ UNCHANGED <<template, fetcher, minerKnown, push>>

Refresh(f) == StoreTemplate(f) \/ LoadTemplate(f) \/ Broadcast(f)
Deliver(p) == PushSwap(p) \/ PushNewJob(p) \/ PushSend(p)
Serve(s) == Register(s) \/ GetJob(s) \/ GetJobPush(s)

Next ==
    \/ \E f \in Fetchers : FetchTemplate(f) \/ Refresh(f)
    \/ \E p \in Pushes : Deliver(p)
    \/ \E s \in Sessions :
        \/ Connect(s) \/ Disconnect(s) \/ Serve(s)
        \/ \E request \in Requests : Request(s, request)

Spec == Init /\ [][Next]_vars

(* Fairness: the goroutines keep running.  Nothing is assumed of the miners *)
(* and of the node.                                                          *)
Fairness ==
    /\ \A f \in Fetchers : WF_vars(Refresh(f))
    /\ \A p \in Pushes : WF_vars(Deliver(p))
    /\ \A s \in Sessions : WF_vars(Serve(s))

FairSpec == Spec /\ Fairness

-----------------------------------------------------------------------------
(* Safety.                                                                   *)

\* The goroutines that will still push a job of height h to a session.
Coming(s, h) ==
    \/ \E p \in Pushes : /\ push[p].session = s
                         /\ push[p].pc = "push"
                         /\ push[p].height = h
    \/ handler[s].pc = "push" /\ handler[s].height = h

\* Later pushes of the same height answer with an empty job because the
\* session has one: whoever swapped lastBlockHeight first does provide it,
\* however many goroutines are between the swap and the push.
LastHeightHasJob ==
    \A s \in Sessions :
        \/ lastBlockHeight[s] = 0
        \/ Coming(s, lastBlockHeight[s])
        \/ \E n \in DOMAIN validJobs[s] :
                validJobs[s][n] = lastBlockHeight[s]

\* "No need to update, we have fresh job" (blocks.go:100): a template is never
\* replaced by an older one.
TemplateStaysFresh == [][template' >= template]_vars

(* Liveness.                                                                 *)

\* A session that was registered when a template was broadcast gets a job for
\* it, unless its connection breaks, or mining.authorize has taken that job and
\* kept it from the miner.
BroadcastArrives ==
    \A s \in Sessions, h \in Heights :
        h \in due[s] ~> \/ h \notin due[s] \/ s \notin registered
                       \/ h \in discarded[s]
=============================================================================
