---------------------------- MODULE StratumProofs ---------------------------
(***************************************************************************)
(* Proofs about the two modules of the stratum server.  Stratum.tla, for   *)
(* any number of sessions, fetchers and heights: the types, and that the   *)
(* height which a session remembers has a job, if fewer goroutines push to *)
(* a session at a time than it keeps jobs; and that what was broadcast and *)
(* is not offered has a goroutine that will push it, or was discarded by   *)
(* mining.authorize.  Upstreams.tla, for any number of nodes and callers   *)
(* and any two rates: the flag of a client follows its counter, and a sick *)
(* client recovers after checks in a row only.                             *)
(* The two share no variable; neither specification mentions the other's.  *)
(***************************************************************************)
EXTENDS Stratum, Upstreams, FiniteSetTheorems, TLAPS

-----------------------------------------------------------------------------
(* Types.  What is pushed is the height of a template.                       *)

HeightsInv ==
    /\ \A f \in Fetchers :
        /\ fetcher[f].pc = "store" => fetcher[f].height \in Heights
        /\ fetcher[f].pc = "load" => template # 0
        /\ fetcher[f].pc = "broadcast" => fetcher[f].height \in Heights
    /\ \A p \in Pushes : push[p].pc # "none" => push[p].height \in Heights
    /\ \A s \in Sessions : handler[s].pc \in {"register", "swap", "push"} =>
            handler[s].height \in Heights

Types == TypeOK /\ HeightsInv

FetcherType == [pc : {"start", "idle", "store", "load", "broadcast"},
                height : 0 .. LastHeight, bcast : BOOLEAN]
HandlerType == [pc : {"closed", "idle", "register", "swap", "push"},
                height : 0 .. LastHeight, replies : BOOLEAN]
PushType == [pc : {"none", "swap", "push", "send"}, session : Sessions,
             height : 0 .. LastHeight]

LEMMA IdleTypes ==
  /\ IdleFetcher \in FetcherType /\ IdleFetcher.pc = "idle"
  /\ \A step \in {"start", "load"} :
        /\ [IdleFetcher EXCEPT !.pc = step] \in FetcherType
        /\ [IdleFetcher EXCEPT !.pc = step].pc = step
  /\ NoPush \in PushType /\ NoPush.pc = "none"
  /\ Waiting \in HandlerType /\ Waiting.pc = "idle"
  /\ Closed \in HandlerType /\ Closed.pc = "closed"
  /\ Heights \subseteq 0 .. LastHeight
  /\ \A h \in Heights : h # 0
<1>1. 0 \in 0 .. LastHeight /\ Heights \subseteq 0 .. LastHeight
      /\ \A h \in Heights : h # 0
  BY StratumAssumption DEF Heights
<1>2. /\ IdleFetcher \in FetcherType /\ IdleFetcher.pc = "idle"
      /\ Waiting \in HandlerType /\ Waiting.pc = "idle"
      /\ Closed \in HandlerType /\ Closed.pc = "closed"
  BY <1>1 DEF IdleFetcher, Waiting, Closed, FetcherType, HandlerType
<1>3. ASSUME NEW step \in {"start", "load"}
      PROVE  /\ [IdleFetcher EXCEPT !.pc = step] \in FetcherType
             /\ [IdleFetcher EXCEPT !.pc = step].pc = step
  BY <1>2, <1>3 DEF FetcherType
<1>4. NoPush \in PushType /\ NoPush.pc = "none"
  BY <1>1, StratumAssumption DEF NoPush, PushType
<1> QED
  BY <1>1, <1>2, <1>3, <1>4

LEMMA InitTypes == Init => Types
<1> SUFFICES ASSUME Init PROVE Types
  OBVIOUS
<1>1. /\ fetcher \in [Fetchers -> FetcherType]
      /\ handler \in [Sessions -> HandlerType]
      /\ push \in [Pushes -> PushType]
  BY IdleTypes DEF Init
<1>2. /\ validJobs \in [Sessions -> Seq(Heights)]
      /\ \A s \in Sessions : Len(validJobs[s]) <= MaxJobs
  <2>1. <<>> \in Seq(Heights) /\ Len(<<>>) <= MaxJobs
    BY StratumAssumption
  <2> QED
    BY <2>1 DEF Init
<1>3. TypeOK
  <2>1. template \in 0 .. LastHeight /\ 0 \in 0 .. LastHeight
    BY StratumAssumption DEF Init
  <2>2. /\ minerKnown \in BOOLEAN /\ registered \subseteq Sessions
        /\ lastBlockHeight \in [Sessions -> 0 .. LastHeight]
        /\ due \in [Sessions -> SUBSET Heights]
        /\ offered \in [Sessions -> SUBSET Heights]
        /\ discarded \in [Sessions -> SUBSET Heights]
    BY <2>1 DEF Init
  <2> QED
    BY <1>1, <1>2, <2>1, <2>2 DEF TypeOK, FetcherType, HandlerType, PushType
<1>4. HeightsInv
  BY IdleTypes DEF Init, HeightsInv
<1> QED
  BY <1>3, <1>4 DEF Types

\* A list of jobs with one more, cut to MaxJobs: what is kept, and where.
LEMMA KeepsJobs ==
  ASSUME TypeOK, NEW s \in Sessions, NEW h \in Heights
  PROVE  /\ Keep(s, h) \in Seq(Heights)
         /\ Len(validJobs[s]) < MaxJobs =>
                /\ Len(Keep(s, h)) = Len(validJobs[s]) + 1
                /\ \A n \in 1 .. Len(validJobs[s]) :
                        Keep(s, h)[n] = validJobs[s][n]
         /\ Len(validJobs[s]) = MaxJobs =>
                /\ Len(Keep(s, h)) = MaxJobs
                /\ \A n \in 2 .. MaxJobs : Keep(s, h)[n - 1] = validJobs[s][n]
         /\ Len(Keep(s, h)) \in 1 .. MaxJobs
         /\ Keep(s, h)[Len(Keep(s, h))] = h
<1> DEFINE old == validJobs[s]  new == Append(old, h)
<1>1. old \in Seq(Heights) /\ Len(old) \in Nat /\ Len(old) <= MaxJobs
  BY DEF TypeOK
<1>2. MaxJobs \in Nat \ {0}
  BY StratumAssumption
<1> HIDE DEF old
<1>3. /\ new \in Seq(Heights) /\ Len(new) = Len(old) + 1
      /\ \A n \in 1 .. Len(old) : new[n] = old[n]
      /\ new[Len(old) + 1] = h
  BY <1>1
<1> HIDE DEF new
<1>4. CASE Len(old) < MaxJobs
  <2>1. Keep(s, h) = new
    BY <1>1, <1>2, <1>3, <1>4 DEF Keep, old, new
  <2> QED
    BY <1>1, <1>2, <1>3, <1>4, <2>1 DEF old
<1>5. CASE Len(old) = MaxJobs
  <2>1. Keep(s, h) = Tail(new)
    BY <1>1, <1>2, <1>3, <1>5 DEF Keep, old, new
  <2>2. /\ Tail(new) \in Seq(Heights) /\ Len(Tail(new)) = MaxJobs
        /\ \A n \in 1 .. MaxJobs : Tail(new)[n] = new[n + 1]
    BY <1>1, <1>2, <1>3, <1>5
  <2> QED
    BY <1>1, <1>2, <1>3, <1>5, <2>1, <2>2 DEF old
<1> QED
  BY <1>1, <1>2, <1>4, <1>5 DEF old

\* A goroutine goes on to its next step.
LEMMA HandlerMoves ==
  ASSUME TypeOK, NEW s \in Sessions, NEW step \in {"swap", "push"},
         handler' = [handler EXCEPT ![s].pc = step]
  PROVE  /\ handler' \in [Sessions -> HandlerType]
         /\ handler'[s].pc = step /\ handler'[s].height = handler[s].height
         /\ \A t \in Sessions \ {s} : handler'[t] = handler[t]
<1>1. handler \in [Sessions -> HandlerType]
  BY DEF TypeOK, HandlerType
<1>2. PICK moved : moved = [handler[s] EXCEPT !.pc = step]
  OBVIOUS
<1>3. /\ moved \in HandlerType /\ moved.pc = step
      /\ moved.height = handler[s].height
  BY <1>1, <1>2 DEF HandlerType
<1>4. handler' = [handler EXCEPT ![s] = moved]
  BY <1>1, <1>2
<1> QED
  BY <1>1, <1>3, <1>4

\* A job is added to a session, whether or not its miner hears of it.
NewJob(s, h) == PushJob(s, h) \/ DiscardJob(s, h)

LEMMA NewJobTypes ==
  ASSUME TypeOK, NEW s \in Sessions, NEW h \in Heights, NewJob(s, h)
  PROVE  /\ validJobs' \in [Sessions -> Seq(Heights)]
         /\ \A t \in Sessions : Len(validJobs'[t]) <= MaxJobs
         /\ due' \in [Sessions -> SUBSET Heights]
         /\ offered' \in [Sessions -> SUBSET Heights]
         /\ discarded' \in [Sessions -> SUBSET Heights]
         /\ UNCHANGED <<registered, lastBlockHeight>>
<1>1. Keep(s, h) \in Seq(Heights) /\ Len(Keep(s, h)) <= MaxJobs
  BY KeepsJobs, StratumAssumption
<1>2. validJobs' = [validJobs EXCEPT ![s] = Keep(s, h)]
  BY DEF NewJob, PushJob, DiscardJob
<1>3. validJobs' \in [Sessions -> Seq(Heights)]
  BY <1>1, <1>2 DEF TypeOK
<1>4. \A t \in Sessions : Len(validJobs'[t]) <= MaxJobs
  BY <1>1, <1>2 DEF TypeOK
<1>5. /\ due' \in [Sessions -> SUBSET Heights]
      /\ offered' \in [Sessions -> SUBSET Heights]
      /\ discarded' \in [Sessions -> SUBSET Heights]
      /\ UNCHANGED <<registered, lastBlockHeight>>
  <2>1. CASE PushJob(s, h)
    BY <2>1 DEF PushJob, TypeOK
  <2>2. CASE DiscardJob(s, h)
    BY <2>2 DEF DiscardJob, TypeOK
  <2> QED
    BY <2>1, <2>2 DEF NewJob
<1> QED
  BY <1>3, <1>4, <1>5

LEMMA DropTypes ==
  ASSUME Types, NEW s \in Sessions, Drop(s),
         UNCHANGED <<template, fetcher, minerKnown>>
  PROVE  Types'
<1>1. validJobs' \in [Sessions -> Seq(Heights)]
      /\ \A t \in Sessions : Len(validJobs'[t]) <= MaxJobs
  <2>1. <<>> \in Seq(Heights) /\ Len(<<>>) <= MaxJobs
    BY StratumAssumption
  <2> QED
    BY <2>1 DEF Drop, Types, TypeOK
<1>2. /\ handler' \in [Sessions -> HandlerType]
      /\ push' \in [Pushes -> PushType]
      /\ \A p \in Pushes : push'[p] = push[p] \/ push'[p] = NoPush
      /\ \A t \in Sessions : handler'[t] = handler[t] \/ handler'[t] = Closed
  BY IdleTypes DEF Drop, Types, TypeOK, HandlerType, PushType
<1>3. TypeOK'
  BY <1>1, <1>2, StratumAssumption
     DEF Drop, Types, TypeOK, HandlerType, PushType, Heights
<1>4. HeightsInv'
  BY <1>2, IdleTypes DEF Types, HeightsInv, Heights
<1> QED
  BY <1>3, <1>4 DEF Types

LEMMA FetchersKeepTypes ==
  ASSUME Types, NEW f \in Fetchers, FetchTemplate(f) \/ Refresh(f)
  PROVE  Types'
<1>1. CASE FetchTemplate(f)
  <2>1. /\ fetcher' \in [Fetchers -> FetcherType]
        /\ \A g \in Fetchers \ {f} : fetcher'[g] = fetcher[g]
        /\ fetcher'[f].pc = "store" /\ fetcher'[f].height \in Heights
    BY <1>1, IdleTypes DEF FetchTemplate, Types, TypeOK, FetcherType
  <2> QED
    BY <1>1, <2>1 DEF FetchTemplate, session, Types, TypeOK, HeightsInv,
       FetcherType, Heights
<1>2. CASE StoreTemplate(f)
  <2>1. template' \in Heights
    BY <1>2 DEF StoreTemplate, Types, HeightsInv
  <2>2. /\ fetcher' \in [Fetchers -> FetcherType]
        /\ \A g \in Fetchers \ {f} : fetcher'[g] = fetcher[g]
        /\ fetcher'[f].pc \in {"idle", "load"}
    BY <1>2, IdleTypes, StratumAssumption
       DEF StoreTemplate, Types, TypeOK, FetcherType
  <2>3. UNCHANGED <<minerKnown, session, handler, push>>
    BY <1>2 DEF StoreTemplate
  <2> QED
    BY <2>1, <2>2, <2>3, IdleTypes
       DEF session, Types, TypeOK, HeightsInv, FetcherType, Heights
<1>3. CASE LoadTemplate(f)
  <2>1. template \in Heights
    BY <1>3, StratumAssumption DEF LoadTemplate, Types, TypeOK, HeightsInv, Heights
  <2>2. /\ fetcher' \in [Fetchers -> FetcherType]
        /\ \A g \in Fetchers \ {f} : fetcher'[g] = fetcher[g]
        /\ fetcher'[f].pc = "broadcast" /\ fetcher'[f].height \in Heights
    BY <1>3, <2>1, IdleTypes DEF LoadTemplate, Types, TypeOK, FetcherType
  <2> QED
    BY <1>3, <2>2 DEF LoadTemplate, session, Types, TypeOK, HeightsInv,
       FetcherType, Heights
<1>4. CASE Broadcast(f)
  <2> DEFINE h == fetcher[f].height
  <2>1. h \in Heights
    BY <1>4 DEF Broadcast, Types, HeightsInv
  <2>2. /\ fetcher' = [fetcher EXCEPT ![f] = IdleFetcher]
        /\ UNCHANGED <<template, minerKnown, registered, lastBlockHeight,
                       validJobs, offered, discarded, handler>>
    BY <1>4 DEF Broadcast
  <2>3. due' \in [Sessions -> SUBSET Heights]
    BY <1>4, <2>1 DEF Broadcast, Types, TypeOK
  <2>4. PICK slot \in [Receivers -> {p \in Pushes : push[p] = NoPush}] :
          push' = [p \in Pushes |->
                    IF \E s \in Receivers : slot[s] = p
                    THEN [pc |-> "swap", height |-> h,
                          session |-> CHOOSE s \in Receivers : slot[s] = p]
                    ELSE push[p]]
    BY <1>4 DEF Broadcast
  <2>5. \A p \in Pushes : /\ push'[p] \in PushType
                          /\ push'[p].pc # "none" => push'[p].height \in Heights
    <3> SUFFICES ASSUME NEW p \in Pushes
                 PROVE  /\ push'[p] \in PushType
                        /\ push'[p].pc # "none" => push'[p].height \in Heights
      OBVIOUS
    <3>1. CASE \E s \in Receivers : slot[s] = p
      <4> DEFINE r == CHOOSE s \in Receivers : slot[s] = p
      <4>1. r \in Sessions
        BY <3>1 DEF Receivers, Types, TypeOK
      <4>2. push'[p] = [pc |-> "swap", height |-> h, session |-> r]
        BY <2>4, <3>1
      <4> HIDE DEF r
      <4>3. h \in Heights /\ h \in 0 .. LastHeight
        BY <2>1, IdleTypes
      <4>4. [pc |-> "swap", height |-> h, session |-> r] \in PushType
        BY <4>1, <4>3 DEF PushType
      <4> QED
        BY <4>2, <4>3, <4>4
    <3>2. CASE ~ \E s \in Receivers : slot[s] = p
      <4>1. push'[p] = push[p]
        BY <2>4, <3>2
      <4> QED
        BY <4>1 DEF Types, TypeOK, HeightsInv, PushType
    <3> QED
      BY <3>1, <3>2
  <2>6. push' \in [Pushes -> PushType]
    BY <2>4, <2>5
  <2>7. TypeOK'
    BY <2>2, <2>3, <2>6, IdleTypes
       DEF Types, TypeOK, FetcherType, PushType, Heights
  <2>8. HeightsInv'
    BY <2>1, <2>2, <2>5, IdleTypes DEF Types, TypeOK, HeightsInv, Heights
  <2> QED
    BY <2>7, <2>8 DEF Types
<1> QED
  BY <1>1, <1>2, <1>3, <1>4 DEF Refresh

LEMMA PushesKeepTypes ==
  ASSUME Types, NEW p \in Pushes, Deliver(p)
  PROVE  Types'
<1> DEFINE s == push[p].session  h == push[p].height
<1>1. push[p].pc # "none"
  BY DEF Deliver, PushSwap, PushNewJob, PushSend
<1>2. s \in Sessions /\ h \in Heights
  BY <1>1 DEF Types, TypeOK, HeightsInv
<1> HIDE DEF s, h
<1>3. CASE PushSwap(p)
  <2>1. /\ lastBlockHeight' = [lastBlockHeight EXCEPT ![s] = h]
        /\ push' = [push EXCEPT ![p].pc =
                        IF lastBlockHeight[s] = h THEN "send" ELSE "push"]
        /\ UNCHANGED <<template, fetcher, minerKnown, registered, validJobs,
                       due, offered, discarded, handler>>
    BY <1>3 DEF PushSwap, s, h
  <2>2. lastBlockHeight' \in [Sessions -> 0 .. LastHeight]
    BY <1>2, <2>1, IdleTypes DEF Types, TypeOK
  <2>3. push' \in [Pushes -> PushType]
        /\ \A q \in Pushes : push'[q].height = push[q].height
                             /\ (push'[q].pc = "none" <=> push[q].pc = "none")
    <3> DEFINE step == IF lastBlockHeight[s] = h THEN "send" ELSE "push"
    <3>1. push' = [push EXCEPT ![p].pc = step] /\ step \in {"send", "push"}
      BY <2>1
    <3> HIDE DEF step
    <3> QED
      BY <1>1, <3>1 DEF Types, TypeOK, PushType
  <2>4. TypeOK'
    BY <2>1, <2>2, <2>3 DEF Types, TypeOK, PushType, Heights
  <2>5. HeightsInv'
    BY <2>1, <2>3 DEF Types, HeightsInv, Heights
  <2> QED
    BY <2>4, <2>5 DEF Types
<1>4. CASE PushNewJob(p)
  <2>1. /\ PushJob(s, h)
        /\ push' = [push EXCEPT ![p].pc = "send"]
        /\ UNCHANGED <<template, fetcher, minerKnown, handler>>
    BY <1>4 DEF PushNewJob, s, h
  <2>2. push' \in [Pushes -> PushType]
        /\ \A q \in Pushes : push'[q].pc # "none" => push'[q].height \in Heights
    <3>1. push \in [Pushes -> PushType]
      BY DEF Types, TypeOK, PushType
    <3>2. push[p] \in PushType /\ push[p].height \in Heights
      BY <1>2, <3>1 DEF h
    <3>3. PICK moved : moved = [push[p] EXCEPT !.pc = "send"]
      OBVIOUS
    <3>4. moved \in PushType /\ moved.height \in Heights
      BY <3>2, <3>3 DEF PushType
    <3>5. push' = [push EXCEPT ![p] = moved]
      BY <2>1, <3>1, <3>3
    <3> QED
      BY <3>1, <3>4, <3>5 DEF Types, HeightsInv
  <2>3. NewJob(s, h)
    BY <2>1 DEF NewJob
  <2>4. TypeOK'
    <3> USE NewJobTypes DEF Types
    <3> QED
      BY <1>2, <2>1, <2>2, <2>3 DEF TypeOK, PushType, Heights
  <2>5. HeightsInv'
    BY <2>1, <2>2 DEF Types, HeightsInv, Heights
  <2> QED
    BY <2>4, <2>5 DEF Types
<1>5. CASE PushSend(p)
  <2>1. /\ push' = [push EXCEPT ![p] = NoPush]
        /\ registered' \subseteq registered
        /\ UNCHANGED <<template, fetcher, minerKnown, lastBlockHeight,
                       validJobs, due, offered, discarded, handler>>
    BY <1>5 DEF PushSend
  <2>2. push' \in [Pushes -> PushType]
        /\ \A q \in Pushes : push'[q].pc # "none" => push'[q].height \in Heights
    BY <2>1, IdleTypes DEF Types, TypeOK, HeightsInv, PushType
  <2> QED
    BY <2>1, <2>2 DEF Types, TypeOK, HeightsInv, PushType, Heights
<1> QED
  BY <1>3, <1>4, <1>5 DEF Deliver

LEMMA ConnectionsKeepTypes ==
  ASSUME Types, NEW s \in Sessions,
         \/ Connect(s) \/ Disconnect(s) \/ Serve(s)
         \/ \E request \in Requests : Request(s, request)
  PROVE  Types'
<1>1. CASE Connect(s)
  BY <1>1, IdleTypes DEF Connect, session, Types, TypeOK, HeightsInv, Heights,
     HandlerType
<1>2. CASE Disconnect(s)
  BY <1>2, DropTypes DEF Disconnect
<1>3. ASSUME NEW request \in Requests, Request(s, request)
      PROVE  Types'
  <2>1. CASE template = 0 \/ (request = "getjob" /\ ~minerKnown)
    BY <1>3, <2>1, DropTypes DEF Request
  <2>2. CASE ~(template = 0 \/ (request = "getjob" /\ ~minerKnown))
    <3>1. template \in Heights
      BY <2>2, StratumAssumption DEF Types, TypeOK, Heights
    <3>2. /\ handler' \in [Sessions -> HandlerType]
          /\ handler'[s].height \in Heights
          /\ \A t \in Sessions \ {s} : handler'[t] = handler[t]
      <4> DEFINE step == IF request = "getjob" THEN "swap" ELSE "register"
      <4>1. /\ handler' = [handler EXCEPT ![s] =
                    [pc |-> step, height |-> template,
                     replies |-> request # "authorize"]]
            /\ step \in {"swap", "register"}
        BY <1>3, <2>2 DEF Request
      <4> HIDE DEF step
      <4> QED
        BY <3>1, <4>1, IdleTypes DEF Types, TypeOK, HandlerType
    <3>3. UNCHANGED <<session, push, template, fetcher, minerKnown>>
      BY <1>3, <2>2 DEF Request
    <3> QED
      BY <3>2, <3>3 DEF session, Types, TypeOK, HeightsInv, HandlerType, Heights
  <2> QED
    BY <2>1, <2>2
<1>4. CASE Register(s)
  <2>1. /\ handler' \in [Sessions -> HandlerType]
        /\ handler'[s].height = handler[s].height
        /\ \A t \in Sessions \ {s} : handler'[t] = handler[t]
    BY <1>4, HandlerMoves DEF Register, Types
  <2>2. TypeOK'
    BY <1>4, <2>1 DEF Register, Types, TypeOK, HandlerType, Heights
  <2>3. HeightsInv'
    BY <1>4, <2>1 DEF Register, Types, HeightsInv, Heights
  <2> QED
    BY <2>2, <2>3 DEF Types
<1>5. CASE GetJob(s)
  <2>1. CASE lastBlockHeight[s] = handler[s].height
    BY <1>5, <2>1, DropTypes DEF GetJob
  <2>2. CASE lastBlockHeight[s] # handler[s].height
    <3>1. /\ handler[s].pc = "swap" /\ handler[s].height \in Heights
          /\ lastBlockHeight' = [lastBlockHeight EXCEPT ![s] = handler[s].height]
          /\ handler' = [handler EXCEPT ![s].pc = "push"]
          /\ UNCHANGED <<registered, validJobs, due, offered, discarded, push, template,
                         fetcher, minerKnown>>
      BY <1>5, <2>2 DEF GetJob, Types, HeightsInv
    <3>2. /\ handler' \in [Sessions -> HandlerType]
          /\ handler'[s].height \in Heights
          /\ \A t \in Sessions \ {s} : handler'[t] = handler[t]
      BY <3>1, HandlerMoves DEF Types
    <3>3. lastBlockHeight' \in [Sessions -> 0 .. LastHeight]
      BY <3>1, IdleTypes DEF Types, TypeOK
    <3>4. TypeOK'
      BY <3>1, <3>2, <3>3 DEF Types, TypeOK, HandlerType, Heights
    <3>5. HeightsInv'
      BY <3>1, <3>2 DEF Types, HeightsInv, Heights
    <3> QED
      BY <3>4, <3>5 DEF Types
  <2> QED
    BY <2>1, <2>2
<1>6. CASE GetJobPush(s)
  <2>1. /\ handler[s].height \in Heights /\ NewJob(s, handler[s].height)
        /\ handler' = [handler EXCEPT ![s] = Waiting]
        /\ UNCHANGED <<template, fetcher, minerKnown, push>>
    BY <1>6 DEF GetJobPush, NewJob, Types, HeightsInv
  <2>2. /\ handler' \in [Sessions -> HandlerType]
        /\ \A t \in Sessions : handler'[t] = handler[t] \/ handler'[t] = Waiting
    BY <2>1, IdleTypes DEF Types, TypeOK, HandlerType
  <2>3. TypeOK'
    <3>1. /\ validJobs' \in [Sessions -> Seq(Heights)]
          /\ \A t \in Sessions : Len(validJobs'[t]) <= MaxJobs
          /\ due' \in [Sessions -> SUBSET Heights]
          /\ offered' \in [Sessions -> SUBSET Heights]
          /\ discarded' \in [Sessions -> SUBSET Heights]
          /\ UNCHANGED <<registered, lastBlockHeight>>
      BY <2>1, NewJobTypes DEF Types
    <3> QED
      BY <2>1, <2>2, <3>1 DEF Types, TypeOK, HandlerType, Heights
  <2>4. HeightsInv'
    BY <2>1, <2>2, IdleTypes DEF Types, HeightsInv, Heights
  <2> QED
    BY <2>3, <2>4 DEF Types
<1> QED
  BY <1>1, <1>2, <1>3, <1>4, <1>5, <1>6 DEF Serve

LEMMA NextKeepsTypes == Types /\ [Next]_vars => Types'
<1> SUFFICES ASSUME Types, [Next]_vars PROVE Types'
  OBVIOUS
<1>1. CASE UNCHANGED vars
  BY <1>1 DEF vars, session, Types, TypeOK, HeightsInv, Heights
<1>2. CASE Next
  BY <1>2, FetchersKeepTypes, PushesKeepTypes, ConnectionsKeepTypes DEF Next
<1> QED
  BY <1>1, <1>2

\* Every variable of the stratum server keeps its type: a session has at most
\* MaxJobs jobs (miner.go:206-214), all of templates that were fetched.
THEOREM TypeCorrect == Spec => []TypeOK
<1>1. Types => TypeOK
  BY DEF Types
<1> QED
  BY <1>1, InitTypes, NextKeepsTypes, PTL DEF Spec

-----------------------------------------------------------------------------
(* The last height of a session has a job.  A job that was pushed may be     *)
(* dropped from the list by later pushes, but only by those of goroutines    *)
(* that swapped the height before: a later swap changes the last height.  So *)
(* the goroutines between swap and push, with the jobs behind the one of the *)
(* last height, are fewer than the jobs that a session keeps.                *)

\* Fewer goroutines push to a session at a time than it keeps jobs.
JobsSuffice == Cardinality(Pushes) < MaxJobs

Pushing(s) == {p \in Pushes : push[p].session = s /\ push[p].pc = "push"}
Serving(s) == IF handler[s].pc = "push" THEN 1 ELSE 0
Behind(s) == Cardinality(Pushing(s)) + Serving(s)

Kept(s) ==
    \E n \in 1 .. Len(validJobs[s]) :
        /\ validJobs[s][n] = lastBlockHeight[s]
        /\ Len(validJobs[s]) - n + Behind(s) < MaxJobs

JobInv(s) ==
    \/ lastBlockHeight[s] = 0
    \/ Coming(s, lastBlockHeight[s])
    \/ Kept(s)

Inv == Types /\ \A s \in Sessions : JobInv(s)

LEMMA PushingFinite ==
  ASSUME NEW s \in Sessions
  PROVE  /\ IsFiniteSet(Pushing(s)) /\ IsFiniteSet(Pushes)
         /\ Cardinality(Pushing(s)) \in Nat /\ Cardinality(Pushes) \in Nat
         /\ Cardinality(Pushing(s)) <= Cardinality(Pushes)
<1>1. Pushing(s) \subseteq Pushes /\ IsFiniteSet(Pushes)
  BY StratumAssumption DEF Pushing
<1> QED
  BY <1>1, FS_Subset, FS_CardinalityType

LEMMA InvImplies ==
  ASSUME Inv
  PROVE  LastHeightHasJob
<1> SUFFICES ASSUME NEW s \in Sessions, Kept(s)
             PROVE  \E n \in DOMAIN validJobs[s] :
                        validJobs[s][n] = lastBlockHeight[s]
  BY DEF Inv, JobInv, LastHeightHasJob
<1>1. DOMAIN validJobs[s] = 1 .. Len(validJobs[s])
  BY DEF Inv, Types, TypeOK
<1> QED
  BY <1>1 DEF Kept

\* A step that leaves a session's height, jobs and pushing goroutines alone.
LEMMA UntouchedKeepsJob ==
  ASSUME NEW s \in Sessions, JobInv(s),
         lastBlockHeight'[s] = lastBlockHeight[s], validJobs'[s] = validJobs[s],
         Pushing(s)' = Pushing(s),
         \A p \in Pushing(s) : push'[p] = push[p],
         handler'[s].pc = "push" <=> handler[s].pc = "push",
         handler[s].pc = "push" => handler'[s].height = handler[s].height
  PROVE  JobInv(s)'
<1>1. CASE Coming(s, lastBlockHeight[s])
  BY <1>1 DEF Coming, Pushing, JobInv
<1>2. CASE Kept(s)
  <2>1. Behind(s)' = Behind(s)
    BY DEF Behind, Serving
  <2> QED
    BY <1>2, <2>1 DEF Kept, JobInv
<1> QED
  BY <1>1, <1>2 DEF JobInv

\* A push: the goroutine that pushes is not behind any more.
LEMMA NewJobKeepsJob ==
  ASSUME JobsSuffice, TypeOK, NEW s \in Sessions, NEW h \in Heights,
         NewJob(s, h), JobInv(s),
         Behind(s)' = Behind(s) - 1, Behind(s) \in 1 .. MaxJobs,
         lastBlockHeight[s] # h =>
            (Coming(s, lastBlockHeight[s]) => Coming(s, lastBlockHeight[s])')
  PROVE  JobInv(s)'
<1> DEFINE old == validJobs[s]  new == Keep(s, h)  last == lastBlockHeight[s]
<1>1. lastBlockHeight'[s] = last /\ validJobs'[s] = new
  BY DEF NewJob, PushJob, DiscardJob, TypeOK
<1>2. /\ MaxJobs \in Nat \ {0} /\ Len(old) \in Nat /\ Len(old) <= MaxJobs
      /\ Len(new) \in 1 .. MaxJobs
  <2>1. old \in Seq(Heights) /\ Len(old) <= MaxJobs
    BY DEF TypeOK
  <2>2. Len(new) \in 1 .. MaxJobs
    BY KeepsJobs
  <2> HIDE DEF old, new
  <2> QED
    BY <2>1, <2>2, StratumAssumption
<1>3. CASE last = h
  <2>1. new[Len(new)] = last
    BY <1>3, KeepsJobs
  <2>2. Len(new) - Len(new) + Behind(s)' < MaxJobs
    BY <1>2
  <2>3. Kept(s)'
    BY <1>1, <1>2, <2>1, <2>2 DEF Kept
  <2> QED
    BY <2>3 DEF JobInv
<1>4. CASE last # h /\ last # 0 /\ ~Coming(s, last)
  <2>1. PICK n \in 1 .. Len(old) :
          old[n] = last /\ Len(old) - n + Behind(s) < MaxJobs
    BY <1>4 DEF JobInv, Kept
  <2>2. \E m \in 1 .. Len(new) :
          new[m] = last /\ Len(new) - m + Behind(s)' < MaxJobs
    <3>1. CASE Len(old) < MaxJobs
      <4>1. Len(new) = Len(old) + 1 /\ new[n] = old[n]
        BY <3>1, KeepsJobs
      <4>2. Len(new) - n + Behind(s)' < MaxJobs /\ n \in 1 .. Len(new)
        BY <1>2, <2>1, <4>1
      <4> QED
        BY <2>1, <4>1, <4>2
    <3>2. CASE Len(old) = MaxJobs
      <4>1. n \in 2 .. MaxJobs
        BY <1>2, <2>1, <3>2
      <4>2. Len(new) = MaxJobs /\ new[n - 1] = old[n]
        BY <3>2, <4>1, KeepsJobs
      <4>3. Len(new) - (n - 1) + Behind(s)' < MaxJobs /\ n - 1 \in 1 .. Len(new)
        BY <1>2, <2>1, <3>2, <4>1, <4>2
      <4> QED
        BY <2>1, <4>2, <4>3
    <3> QED
      BY <1>2, <3>1, <3>2
  <2>3. Kept(s)'
    BY <1>1, <2>2 DEF Kept
  <2> QED
    BY <2>3 DEF JobInv
<1>5. CASE last # h /\ (last = 0 \/ Coming(s, last))
  BY <1>1, <1>5 DEF JobInv
<1> QED
  BY <1>3, <1>4, <1>5

\* The goroutines that push to the session, of which one is about to end.
LEMMA FewBehind ==
  ASSUME JobsSuffice, NEW s \in Sessions
  PROVE  /\ Behind(s) \in 0 .. MaxJobs
         /\ Pushing(s) # {} \/ handler[s].pc = "push" => Behind(s) \in 1 .. MaxJobs
<1>1. /\ Cardinality(Pushing(s)) \in Nat /\ Cardinality(Pushes) \in Nat
      /\ Cardinality(Pushing(s)) <= Cardinality(Pushes)
  BY PushingFinite
<1>2. Pushing(s) # {} => Cardinality(Pushing(s)) # 0
  BY PushingFinite, FS_EmptySet
<1>3. Serving(s) \in 0 .. 1 /\ (handler[s].pc = "push" => Serving(s) = 1)
  BY DEF Serving
<1> QED
  BY <1>1, <1>2, <1>3, StratumAssumption DEF Behind, JobsSuffice

LEMMA DropKeepsJobs ==
  ASSUME Inv, NEW s \in Sessions, Drop(s)
  PROVE  \A t \in Sessions : JobInv(t)'
<1>1. JobInv(s)'
  BY DEF Drop, Inv, Types, TypeOK, JobInv
<1>2. ASSUME NEW t \in Sessions \ {s}
      PROVE  JobInv(t)'
  <2>1. /\ lastBlockHeight'[t] = lastBlockHeight[t]
        /\ validJobs'[t] = validJobs[t] /\ handler'[t] = handler[t]
    BY <1>2 DEF Drop, Inv, Types, TypeOK
  <2>2. \A p \in Pushes : push'[p] = IF push[p].session = s THEN NoPush ELSE push[p]
    BY DEF Drop
  <2>3. Pushing(t)' = Pushing(t) /\ \A p \in Pushing(t) : push'[p] = push[p]
    BY <1>2, <2>2, IdleTypes DEF Pushing
  <2> QED
    BY <1>2, <2>1, <2>3, UntouchedKeepsJob DEF Inv
<1> QED
  BY <1>1, <1>2

\* Steps that leave the heights, the jobs and the pushing goroutines alone.
LEMMA QuietKeepsJobs ==
  ASSUME Inv, UNCHANGED <<lastBlockHeight, validJobs>>,
         \A p \in Pushes : \/ push'[p] = push[p]
                           \/ push[p].pc # "push" /\ push'[p].pc # "push",
         \A s \in Sessions : \/ handler'[s] = handler[s]
                             \/ handler[s].pc # "push" /\ handler'[s].pc # "push"
  PROVE  \A s \in Sessions : JobInv(s)'
<1> SUFFICES ASSUME NEW s \in Sessions PROVE JobInv(s)'
  OBVIOUS
<1>1. Pushing(s)' = Pushing(s) /\ \A p \in Pushing(s) : push'[p] = push[p]
  BY DEF Pushing
<1> QED
  BY <1>1, UntouchedKeepsJob DEF Inv

LEMMA FetchersKeepJobs ==
  ASSUME Inv, NEW f \in Fetchers, FetchTemplate(f) \/ Refresh(f)
  PROVE  \A s \in Sessions : JobInv(s)'
<1>1. CASE FetchTemplate(f) \/ StoreTemplate(f) \/ LoadTemplate(f)
  BY <1>1, QuietKeepsJobs DEF FetchTemplate, StoreTemplate, LoadTemplate, session
<1>2. CASE Broadcast(f)
  <2>1. UNCHANGED <<lastBlockHeight, validJobs, handler>>
    BY <1>2 DEF Broadcast
  <2>2. PICK slot \in [Receivers -> {p \in Pushes : push[p] = NoPush}] :
          push' = [p \in Pushes |->
                    IF \E s \in Receivers : slot[s] = p
                    THEN [pc |-> "swap", height |-> fetcher[f].height,
                          session |-> CHOOSE s \in Receivers : slot[s] = p]
                    ELSE push[p]]
    BY <1>2 DEF Broadcast
  <2>3. ASSUME NEW p \in Pushes
        PROVE  \/ push'[p] = push[p]
               \/ push[p].pc # "push" /\ push'[p].pc # "push"
    <3>1. CASE \E s \in Receivers : slot[s] = p
      <4>1. push[p] = NoPush
        BY <2>2, <3>1
      <4>2. push'[p].pc = "swap"
        BY <2>2, <3>1
      <4> QED
        BY <4>1, <4>2, IdleTypes
    <3>2. CASE ~ \E s \in Receivers : slot[s] = p
      BY <2>2, <3>2
    <3> QED
      BY <3>1, <3>2
  <2> QED
    BY <2>1, <2>3, QuietKeepsJobs
<1> QED
  BY <1>1, <1>2 DEF Refresh

LEMMA PushesKeepJobs ==
  ASSUME JobsSuffice, Inv, NEW p \in Pushes, Deliver(p)
  PROVE  \A s \in Sessions : JobInv(s)'
<1> DEFINE s == push[p].session  h == push[p].height
<1>1. s \in Sessions /\ h \in Heights
  BY DEF Deliver, PushSwap, PushNewJob, PushSend, Inv, Types, TypeOK, HeightsInv
<1> HIDE DEF s, h
<1>2. CASE PushSwap(p)
  <2>1. /\ push[p].pc = "swap"
        /\ lastBlockHeight' = [lastBlockHeight EXCEPT ![s] = h]
        /\ push' = [push EXCEPT ![p].pc =
                        IF lastBlockHeight[s] = h THEN "send" ELSE "push"]
        /\ UNCHANGED <<validJobs, handler>>
    BY <1>2 DEF PushSwap, s, h
  <2>2. \A q \in Pushes \ {p} : push'[q] = push[q]
    BY <2>1 DEF Inv, Types, TypeOK
  <2>3. CASE lastBlockHeight[s] = h
    <3>1. push'[p].pc = "send"
      BY <2>1, <2>3 DEF Inv, Types, TypeOK
    <3>2. lastBlockHeight' = lastBlockHeight
      BY <1>1, <2>1, <2>3 DEF Inv, Types, TypeOK
    <3> QED
      BY <2>1, <2>2, <3>1, <3>2, QuietKeepsJobs
  <2>4. CASE lastBlockHeight[s] # h
    <3>1. /\ push'[p].pc = "push" /\ push'[p].session = s /\ push'[p].height = h
          /\ lastBlockHeight'[s] = h
      BY <1>1, <2>1, <2>4 DEF Inv, Types, TypeOK, s, h
    <3>2. ASSUME NEW t \in Sessions, t = s
          PROVE  JobInv(t)'
      <4>1. \E q \in Pushes : push'[q].session = t /\ push'[q].pc = "push"
                              /\ push'[q].height = lastBlockHeight'[t]
        BY <3>1, <3>2
      <4> QED
        BY <4>1 DEF JobInv, Coming
    <3>3. ASSUME NEW t \in Sessions \ {s}
          PROVE  JobInv(t)'
      <4>1. lastBlockHeight'[t] = lastBlockHeight[t]
        BY <2>1, <3>3 DEF Inv, Types, TypeOK
      <4>2. Pushing(t)' = Pushing(t) /\ \A q \in Pushing(t) : push'[q] = push[q]
        BY <2>1, <2>2, <3>1, <3>3 DEF Pushing, s
      <4> QED
        BY <2>1, <3>3, <4>1, <4>2, UntouchedKeepsJob DEF Inv
    <3> QED
      BY <3>2, <3>3
  <2> QED
    BY <2>3, <2>4
<1>3. CASE PushNewJob(p)
  <2>1. /\ push[p].pc = "push" /\ PushJob(s, h)
        /\ push' = [push EXCEPT ![p].pc = "send"]
        /\ UNCHANGED handler
    BY <1>3 DEF PushNewJob, s, h
  <2>2. /\ push'[p].pc = "send"
        /\ \A q \in Pushes \ {p} : push'[q] = push[q]
    BY <2>1 DEF Inv, Types, TypeOK
  <2>3. /\ validJobs' = [validJobs EXCEPT ![s] = Keep(s, h)]
        /\ UNCHANGED lastBlockHeight
    BY <2>1 DEF PushJob
  <2>4. ASSUME NEW t \in Sessions, t = s
        PROVE  JobInv(t)'
    <3>1. p \in Pushing(t) /\ Pushing(t)' = Pushing(t) \ {p}
      BY <2>1, <2>2, <2>4 DEF Pushing, s
    <3>2. Cardinality(Pushing(t)') = Cardinality(Pushing(t)) - 1
      BY <3>1, PushingFinite, FS_RemoveElement
    <3>3. Behind(t)' = Behind(t) - 1 /\ Behind(t) \in 1 .. MaxJobs
      BY <2>1, <3>1, <3>2, FewBehind, PushingFinite DEF Behind, Serving
    <3>4. lastBlockHeight[t] # h /\ Coming(t, lastBlockHeight[t])
            => Coming(t, lastBlockHeight[t])'
      BY <2>1, <2>2, <2>3 DEF Coming, h
    <3>5. TypeOK /\ JobInv(t) /\ NewJob(t, h)
      BY <2>1, <2>4 DEF Inv, Types, NewJob
    <3> QED
      BY <1>1, <3>3, <3>4, <3>5, NewJobKeepsJob
  <2>5. ASSUME NEW t \in Sessions \ {s}
        PROVE  JobInv(t)'
    <3>1. validJobs'[t] = validJobs[t]
      BY <2>3, <2>5 DEF Inv, Types, TypeOK
    <3>2. Pushing(t)' = Pushing(t) /\ \A q \in Pushing(t) : push'[q] = push[q]
      BY <2>1, <2>2, <2>5 DEF Pushing, s
    <3> QED
      BY <2>1, <2>3, <2>5, <3>1, <3>2, UntouchedKeepsJob DEF Inv
  <2> QED
    BY <2>4, <2>5
<1>4. CASE PushSend(p)
  <2>1. /\ push[p].pc = "send" /\ push' = [push EXCEPT ![p] = NoPush]
        /\ UNCHANGED <<lastBlockHeight, validJobs, handler>>
    BY <1>4 DEF PushSend
  <2>2. /\ push'[p].pc = "none"
        /\ \A q \in Pushes \ {p} : push'[q] = push[q]
    BY <2>1, IdleTypes DEF Inv, Types, TypeOK
  <2> QED
    BY <2>1, <2>2, QuietKeepsJobs
<1> QED
  BY <1>2, <1>3, <1>4 DEF Deliver

LEMMA ConnectionsKeepJobs ==
  ASSUME JobsSuffice, Inv, NEW s \in Sessions,
         \/ Connect(s) \/ Disconnect(s) \/ Serve(s)
         \/ \E request \in Requests : Request(s, request)
  PROVE  \A t \in Sessions : JobInv(t)'
<1>1. CASE Connect(s)
  <2>1. handler[s].pc = "closed" /\ handler'[s].pc = "idle"
        /\ \A t \in Sessions \ {s} : handler'[t] = handler[t]
    BY <1>1, IdleTypes DEF Connect, Inv, Types, TypeOK
  <2> QED
    BY <1>1, <2>1, QuietKeepsJobs DEF Connect, session
<1>2. CASE Disconnect(s)
  BY <1>2, DropKeepsJobs DEF Disconnect
<1>3. ASSUME NEW request \in Requests, Request(s, request)
      PROVE  \A t \in Sessions : JobInv(t)'
  <2>1. CASE template = 0 \/ (request = "getjob" /\ ~minerKnown)
    BY <1>3, <2>1, DropKeepsJobs DEF Request
  <2>2. CASE ~(template = 0 \/ (request = "getjob" /\ ~minerKnown))
    <3>1. /\ handler[s].pc = "idle" /\ handler'[s].pc \in {"swap", "register"}
          /\ \A t \in Sessions \ {s} : handler'[t] = handler[t]
      BY <1>3, <2>2 DEF Request, Inv, Types, TypeOK
    <3>2. UNCHANGED <<session, push>>
      BY <1>3, <2>2 DEF Request
    <3> QED
      BY <3>1, <3>2, QuietKeepsJobs DEF session
  <2> QED
    BY <2>1, <2>2
<1>4. CASE Register(s)
  <2>1. /\ handler[s].pc = "register" /\ handler'[s].pc = "swap"
        /\ \A t \in Sessions \ {s} : handler'[t] = handler[t]
    BY <1>4 DEF Register, Inv, Types, TypeOK
  <2> QED
    BY <1>4, <2>1, QuietKeepsJobs DEF Register
<1>5. CASE GetJob(s)
  <2>1. CASE lastBlockHeight[s] = handler[s].height
    BY <1>5, <2>1, DropKeepsJobs DEF GetJob
  <2>2. CASE lastBlockHeight[s] # handler[s].height
    <3>1. /\ lastBlockHeight' = [lastBlockHeight EXCEPT ![s] = handler[s].height]
          /\ handler' = [handler EXCEPT ![s].pc = "push"]
          /\ UNCHANGED <<validJobs, push>>
      BY <1>5, <2>2 DEF GetJob
    <3>2. JobInv(s)'
      BY <3>1 DEF JobInv, Coming, Inv, Types, TypeOK
    <3>3. ASSUME NEW t \in Sessions \ {s}
          PROVE  JobInv(t)'
      <4>1. /\ lastBlockHeight'[t] = lastBlockHeight[t]
            /\ handler'[t] = handler[t]
        BY <3>1, <3>3 DEF Inv, Types, TypeOK
      <4>2. Pushing(t)' = Pushing(t)
        BY <3>1 DEF Pushing
      <4> QED
        BY <3>1, <3>3, <4>1, <4>2, UntouchedKeepsJob DEF Inv
    <3> QED
      BY <3>2, <3>3
  <2> QED
    BY <2>1, <2>2
<1>6. CASE GetJobPush(s)
  <2> DEFINE h == handler[s].height
  <2>1. /\ handler[s].pc = "push" /\ h \in Heights /\ NewJob(s, h)
        /\ handler' = [handler EXCEPT ![s] = Waiting]
        /\ UNCHANGED push
    BY <1>6 DEF GetJobPush, NewJob, Inv, Types, HeightsInv
  <2>2. /\ handler'[s].pc = "idle"
        /\ \A t \in Sessions \ {s} : handler'[t] = handler[t]
    BY <2>1, IdleTypes DEF Inv, Types, TypeOK
  <2>3. /\ validJobs' = [validJobs EXCEPT ![s] = Keep(s, h)]
        /\ UNCHANGED lastBlockHeight
    BY <2>1 DEF NewJob, PushJob, DiscardJob
  <2>4. \A t \in Sessions : Pushing(t)' = Pushing(t)
    BY <2>1 DEF Pushing
  <2>5. JobInv(s)'
    <3>1. Behind(s)' = Behind(s) - 1 /\ Behind(s) \in 1 .. MaxJobs
      BY <2>1, <2>2, <2>4, FewBehind, PushingFinite DEF Behind, Serving
    <3>2. lastBlockHeight[s] # h /\ Coming(s, lastBlockHeight[s])
            => Coming(s, lastBlockHeight[s])'
      BY <2>1, <2>3 DEF Coming
    <3> QED
      BY <2>1, <3>1, <3>2, NewJobKeepsJob DEF Inv, Types
  <2>6. ASSUME NEW t \in Sessions \ {s}
        PROVE  JobInv(t)'
    <3>1. validJobs'[t] = validJobs[t]
      BY <2>3, <2>6 DEF Inv, Types, TypeOK
    <3> QED
      BY <2>1, <2>2, <2>3, <2>4, <2>6, <3>1, UntouchedKeepsJob DEF Inv
  <2> QED
    BY <2>5, <2>6
<1> QED
  BY <1>1, <1>2, <1>3, <1>4, <1>5, <1>6 DEF Serve

LEMMA NextKeepsInv ==
  ASSUME JobsSuffice, Inv, [Next]_vars
  PROVE  Inv'
<1>1. Types'
  BY NextKeepsTypes DEF Inv
<1>2. CASE UNCHANGED vars
  BY <1>1, <1>2, QuietKeepsJobs DEF vars, session, Inv
<1>3. CASE Next
  BY <1>1, <1>3, FetchersKeepJobs, PushesKeepJobs, ConnectionsKeepJobs
     DEF Next, Inv
<1> QED
  BY <1>2, <1>3

\* A session that answers a broadcast with an empty job, because it has one of
\* that height already, does have it or gets it (miner.go:166-172), whatever
\* the order of the goroutines, if they are fewer than the jobs it keeps.
THEOREM LastHeightKeepsItsJob ==
  ASSUME JobsSuffice
  PROVE  Spec => []LastHeightHasJob
<1>1. Init => Inv
  <2>1. Init => \A s \in Sessions : JobInv(s)
    BY DEF Init, JobInv
  <2> QED
    BY <2>1, InitTypes DEF Inv
<1>2. Inv /\ [Next]_vars => Inv'
  BY NextKeepsInv
<1>3. Inv => LastHeightHasJob
  BY InvImplies
<1> QED
  BY <1>1, <1>2, <1>3, PTL DEF Spec

-----------------------------------------------------------------------------
(* Broadcasts.  A push goroutine that finds the height of its template in    *)
(* lastBlockHeight pushes nothing: whoever swapped it in before has given    *)
(* the session the job, or is about to.                                      *)

\* A goroutine that will swap the height of a broadcast.
ToSwap(s, h) ==
    \E p \in Pushes : push[p].session = s /\ push[p].pc = "swap"
                      /\ push[p].height = h

\* A goroutine will push a job of that height, or it was kept from the miner.
OnItsWay(s, h) == Coming(s, h) \/ ToSwap(s, h) \/ h \in discarded[s]

\* A template that was broadcast to a session and is not offered yet has a
\* goroutine that will push its job (handlers.go:147, miner.go:166), unless
\* mining.authorize has taken the job (stratum.go:408-439).
DueIsOnItsWay == \A s \in Sessions : \A h \in due[s] : OnItsWay(s, h)

\* The height a session remembers is offered, about to be or discarded: this
\* is why a goroutine that finds its height there leaves.
Provided(s) ==
    \/ lastBlockHeight[s] = 0
    \/ Coming(s, lastBlockHeight[s])
    \/ lastBlockHeight[s] \in offered[s] \cup discarded[s]

DueInv(s) ==
    /\ Provided(s)
    /\ \A h \in due[s] : h \notin offered[s] /\ OnItsWay(s, h)

DeliveryInv == Types /\ \A s \in Sessions : DueInv(s)

\* A step that lets the goroutines of a session be which owe it a job.
LEMMA OthersKeepDue ==
  ASSUME NEW s \in Sessions, DueInv(s),
         lastBlockHeight'[s] = lastBlockHeight[s],
         due'[s] = due[s], offered'[s] = offered[s],
         discarded'[s] = discarded[s],
         \A p \in Pushes :
            push[p].session = s /\ push[p].pc \in {"swap", "push"} =>
                push'[p] = push[p],
         handler[s].pc = "push" => handler'[s] = handler[s]
  PROVE  DueInv(s)'
<1>1. ASSUME NEW h, Coming(s, h) PROVE Coming(s, h)'
  BY <1>1 DEF Coming
<1>2. ASSUME NEW h, ToSwap(s, h) PROVE ToSwap(s, h)'
  BY <1>2 DEF ToSwap
<1>3. Provided(s)'
  BY <1>1 DEF DueInv, Provided
<1>4. \A h \in due'[s] : h \notin offered'[s] /\ OnItsWay(s, h)'
  BY <1>1, <1>2 DEF DueInv, OnItsWay
<1> QED
  BY <1>3, <1>4 DEF DueInv

LEMMA DropKeepsDue ==
  ASSUME DeliveryInv, NEW s \in Sessions, Drop(s)
  PROVE  \A t \in Sessions : DueInv(t)'
<1>1. ASSUME NEW t \in Sessions, t # s PROVE DueInv(t)'
  <2>1. \A p \in Pushes : push[p].session = t => push'[p] = push[p]
    BY <1>1 DEF Drop
  <2>2. /\ lastBlockHeight'[t] = lastBlockHeight[t] /\ due'[t] = due[t]
        /\ offered'[t] = offered[t] /\ discarded'[t] = discarded[t]
        /\ handler'[t] = handler[t]
    BY <1>1 DEF Drop, DeliveryInv, Types, TypeOK
  <2> QED
    BY <2>1, <2>2, OthersKeepDue DEF DeliveryInv
<1>2. DueInv(s)'
  <2>1. lastBlockHeight'[s] = 0 /\ due'[s] = {}
    BY DEF Drop, DeliveryInv, Types, TypeOK
  <2> QED
    BY <2>1 DEF DueInv, Provided
<1> QED
  BY <1>1, <1>2

\* The job is offered, and not due any more, or discarded; the others are as
\* before.
LEMMA NewJobKeepsDue ==
  ASSUME DeliveryInv, NEW s \in Sessions, NEW h \in Heights, NewJob(s, h),
         \A k \in Heights : k # h => (Coming(s, k) => Coming(s, k)'),
         \A k \in Heights : ToSwap(s, k) => ToSwap(s, k)'
  PROVE  DueInv(s)'
<1>1. /\ lastBlockHeight'[s] = lastBlockHeight[s]
      /\ due[s] \subseteq Heights /\ DueInv(s)
      /\ lastBlockHeight[s] # 0 => lastBlockHeight[s] \in Heights
      /\ offered[s] \subseteq offered'[s]
      /\ discarded[s] \ {h} \subseteq discarded'[s] \cup offered[s]
      /\ offered'[s] \subseteq offered[s] \cup {h} /\ due'[s] \subseteq due[s]
      /\ h \in offered'[s] \cup discarded'[s]
      /\ h \in due'[s] =>
            offered'[s] = offered[s] /\ (h \in discarded'[s] \/ h \in offered[s])
  <2>1. CASE PushJob(s, h)
    BY <2>1 DEF PushJob, DeliveryInv, Types, TypeOK, Heights
  <2>2. CASE DiscardJob(s, h)
    BY <2>2 DEF DiscardJob, DeliveryInv, Types, TypeOK, Heights
  <2> QED
    BY <2>1, <2>2 DEF NewJob
<1>2. Provided(s)'
  BY <1>1 DEF DueInv, Provided
<1>3. \A k \in due'[s] : k \notin offered'[s] /\ OnItsWay(s, k)'
  BY <1>1 DEF DueInv, OnItsWay
<1> QED
  BY <1>2, <1>3 DEF DueInv

LEMMA FetchersKeepDue ==
  ASSUME DeliveryInv, NEW f \in Fetchers, FetchTemplate(f) \/ Refresh(f)
  PROVE  \A s \in Sessions : DueInv(s)'
<1>1. CASE UNCHANGED <<session, handler, push>>
  BY <1>1, OthersKeepDue DEF session, DeliveryInv
<1>2. CASE Broadcast(f)
  <2>0. PICK k : k = fetcher[f].height
    OBVIOUS
  <2>1. PICK slot \in [Receivers -> {p \in Pushes : push[p] = NoPush}] :
          /\ \A s, t \in Receivers : slot[s] = slot[t] => s = t
          /\ push' = [p \in Pushes |->
                IF \E s \in Receivers : slot[s] = p
                THEN [pc |-> "swap", height |-> k,
                      session |-> CHOOSE s \in Receivers : slot[s] = p]
                ELSE push[p]]
    BY <1>2, <2>0 DEF Broadcast
  <2>2. /\ UNCHANGED <<lastBlockHeight, offered, discarded, handler>>
        /\ due' = [s \in Sessions |->
                IF s \in registered THEN (due[s] \cup {k}) \ offered[s]
                ELSE due[s]]
    BY <1>2, <2>0 DEF Broadcast
  <2>3. ASSUME NEW p \in Pushes, push[p].pc # "none" PROVE push'[p] = push[p]
    <3>1. \A s \in Receivers : slot[s] # p
      BY <2>1, <2>3, IdleTypes
    <3> QED
      BY <2>1, <3>1
  <2>4. ASSUME NEW s \in Receivers PROVE ToSwap(s, k)'
    <3> DEFINE p == slot[s]
    <3>1. p \in Pushes /\ p = slot[s]
      BY <2>1, <2>4
    <3>2. (CHOOSE t \in Receivers : slot[t] = p) = s
      BY <2>1, <2>4, <3>1
    <3> HIDE DEF p
    <3>3. push'[p] = [pc |-> "swap", height |-> k, session |-> s]
      BY <2>1, <2>4, <3>1, <3>2
    <3> QED
      BY <2>2, <3>1, <3>3 DEF ToSwap
  <2>5. ASSUME NEW s \in Sessions PROVE DueInv(s)'
    <3>1. /\ DueInv(s)
          /\ \A h : Coming(s, h) => Coming(s, h)'
          /\ \A h : ToSwap(s, h) => ToSwap(s, h)'
      BY <2>2, <2>3 DEF DeliveryInv, Coming, ToSwap
    <3>2. Provided(s)'
      BY <2>2, <3>1 DEF DueInv, Provided
    <3>3. ASSUME NEW h \in due'[s]
          PROVE  h \notin offered'[s] /\ OnItsWay(s, h)'
      <4>1. CASE h \in due[s]
        BY <2>2, <3>1, <3>3, <4>1 DEF DueInv, OnItsWay
      <4>2. CASE h \notin due[s]
        <5>1. s \in Receivers /\ h = k /\ h \notin offered[s]
          BY <2>2, <3>3, <4>2 DEF Receivers
        <5> QED
          BY <2>2, <2>4, <5>1 DEF OnItsWay
      <4> QED
        BY <4>1, <4>2
    <3> QED
      BY <3>2, <3>3 DEF DueInv
  <2> QED
    BY <2>5
<1> QED
  BY <1>1, <1>2 DEF FetchTemplate, Refresh, StoreTemplate, LoadTemplate

LEMMA PushesKeepDue ==
  ASSUME DeliveryInv, NEW p \in Pushes, Deliver(p)
  PROVE  \A s \in Sessions : DueInv(s)'
<1>1. push[p] \in PushType /\ push[p].pc # "none"
  BY DEF Deliver, PushSwap, PushNewJob, PushSend,
         DeliveryInv, Types, TypeOK, PushType
<1>2. PICK s \in Sessions, h \in Heights :
        s = push[p].session /\ h = push[p].height
  BY <1>1 DEF DeliveryInv, Types, HeightsInv, PushType
<1>3. CASE PushSwap(p)
  <2>1. /\ push[p].pc = "swap" /\ UNCHANGED <<due, offered, discarded, handler>>
        /\ push' = [push EXCEPT ![p].pc =
                        IF lastBlockHeight[s] = h THEN "send" ELSE "push"]
        /\ lastBlockHeight' = [lastBlockHeight EXCEPT ![s] = h]
    BY <1>2, <1>3 DEF PushSwap
  <2>2. /\ \A q \in Pushes \ {p} : push'[q] = push[q]
        /\ push'[p].session = s /\ push'[p].height = h
        /\ push'[p].pc = IF lastBlockHeight[s] = h THEN "send" ELSE "push"
        /\ lastBlockHeight'[s] = h
        /\ \A t \in Sessions \ {s} : lastBlockHeight'[t] = lastBlockHeight[t]
    BY <1>1, <1>2, <2>1 DEF DeliveryInv, Types, TypeOK, PushType
  <2>3. ASSUME NEW t \in Sessions, t # s PROVE DueInv(t)'
    <3>1. \A q \in Pushes : push[q].session = t => push'[q] = push[q]
      BY <1>2, <2>2, <2>3
    <3> QED
      BY <2>1, <2>2, <2>3, <3>1, OthersKeepDue DEF DeliveryInv
  <2>4. DueInv(s)'
    <3>1. DueInv(s)
      BY DEF DeliveryInv
    <3>2. \A k : Coming(s, k) => Coming(s, k)'
      BY <2>1, <2>2 DEF Coming
    <3>3. \A k : k # h /\ ToSwap(s, k) => ToSwap(s, k)'
      BY <1>2, <2>2 DEF ToSwap
    <3>4. h # 0
      BY IdleTypes
    <3>5. Coming(s, h)' \/ h \in offered[s] \cup discarded[s]
      <4>1. CASE lastBlockHeight[s] = h
        BY <3>1, <3>2, <3>4, <4>1 DEF DueInv, Provided
      <4>2. CASE lastBlockHeight[s] # h
        BY <2>2, <4>2 DEF Coming
      <4> QED
        BY <4>1, <4>2
    <3>6. Provided(s)'
      BY <2>1, <2>2, <3>5 DEF Provided
    <3>7. ASSUME NEW k \in due'[s]
          PROVE  k \notin offered'[s] /\ OnItsWay(s, k)'
      BY <2>1, <3>1, <3>2, <3>3, <3>5, <3>7 DEF DueInv, OnItsWay
    <3> QED
      BY <3>6, <3>7 DEF DueInv
  <2> QED
    BY <2>3, <2>4
<1>4. CASE PushNewJob(p)
  <2>1. /\ push[p].pc = "push" /\ PushJob(s, h) /\ UNCHANGED handler
        /\ push' = [push EXCEPT ![p].pc = "send"]
    BY <1>2, <1>4 DEF PushNewJob
  <2>2. \A q \in Pushes \ {p} : push'[q] = push[q]
    BY <2>1 DEF DeliveryInv, Types, TypeOK
  <2>3. ASSUME NEW t \in Sessions, t # s PROVE DueInv(t)'
    <3>1. \A q \in Pushes : push[q].session = t => push'[q] = push[q]
      BY <1>2, <2>2, <2>3
    <3>2. /\ lastBlockHeight'[t] = lastBlockHeight[t] /\ due'[t] = due[t]
          /\ offered'[t] = offered[t] /\ discarded'[t] = discarded[t]
      BY <2>1, <2>3 DEF NewJob, PushJob, DiscardJob, DeliveryInv, Types, TypeOK
    <3> QED
      BY <2>1, <3>1, <3>2, OthersKeepDue DEF DeliveryInv
  <2>4. DueInv(s)'
    <3>2. \A k \in Heights : k # h => (Coming(s, k) => Coming(s, k)')
      BY <1>2, <2>1, <2>2 DEF Coming
    <3>3. \A k \in Heights : ToSwap(s, k) => ToSwap(s, k)'
      BY <2>1, <2>2 DEF ToSwap
    <3> QED
      BY <2>1, <3>2, <3>3, NewJobKeepsDue DEF NewJob
  <2> QED
    BY <2>3, <2>4
<1>5. CASE PushSend(p)
  <2>1. /\ push[p].pc = "send"
        /\ UNCHANGED <<lastBlockHeight, due, offered, discarded, handler>>
        /\ \A q \in Pushes \ {p} : push'[q] = push[q]
    BY <1>5 DEF PushSend, DeliveryInv, Types, TypeOK
  <2>2. \A q \in Pushes : push[q].pc \in {"swap", "push"} => push'[q] = push[q]
    BY <2>1
  <2> QED
    BY <2>1, <2>2, OthersKeepDue DEF DeliveryInv
<1> QED
  BY <1>3, <1>4, <1>5 DEF Deliver

LEMMA ConnectionsKeepDue ==
  ASSUME DeliveryInv, NEW s \in Sessions,
         \/ Connect(s) \/ Disconnect(s) \/ Serve(s)
         \/ \E request \in Requests : Request(s, request)
  PROVE  \A t \in Sessions : DueInv(t)'
<1>0. PICK h : h = handler[s].height
  OBVIOUS
<1>1. CASE Drop(s)
  BY <1>1, DropKeepsDue
<1>2. CASE /\ handler[s].pc # "push" /\ UNCHANGED push
           /\ \A t \in Sessions \ {s} : handler'[t] = handler[t]
           /\ UNCHANGED <<lastBlockHeight, due, offered, discarded>>
  BY <1>2, OthersKeepDue DEF DeliveryInv
<1>3. CASE Connect(s) \/ Register(s)
  <2>1. \A t \in Sessions \ {s} : handler'[t] = handler[t]
    BY <1>3 DEF Connect, Register, DeliveryInv, Types, TypeOK
  <2> QED
    BY <1>2, <1>3, <2>1 DEF Connect, Register, session
<1>4. CASE \E request \in Requests : Request(s, request)
  <2>1. CASE ~Drop(s)
    <3>1. \A t \in Sessions \ {s} : handler'[t] = handler[t]
      BY <1>4, <2>1 DEF Request, DeliveryInv, Types, TypeOK
    <3> QED
      BY <1>2, <1>4, <2>1, <3>1 DEF Request, session
  <2> QED
    BY <1>1, <2>1
<1>5. CASE GetJob(s) /\ ~Drop(s)
  <2>1. /\ handler[s].pc = "swap" /\ UNCHANGED <<due, offered, discarded, push>>
        /\ lastBlockHeight' = [lastBlockHeight EXCEPT ![s] = h]
        /\ handler' = [handler EXCEPT ![s].pc = "push"]
    BY <1>0, <1>5 DEF GetJob
  <2>2. /\ handler'[s].pc = "push" /\ handler'[s].height = h
        /\ lastBlockHeight'[s] = h
        /\ \A t \in Sessions \ {s} : /\ handler'[t] = handler[t]
                                     /\ lastBlockHeight'[t] = lastBlockHeight[t]
    BY <1>0, <2>1 DEF DeliveryInv, Types, TypeOK
  <2>3. ASSUME NEW t \in Sessions, t # s PROVE DueInv(t)'
    BY <2>1, <2>2, <2>3, OthersKeepDue DEF DeliveryInv
  <2>4. DueInv(s)'
    <3>1. /\ DueInv(s) /\ \A k : Coming(s, k) => Coming(s, k)'
          /\ \A k : ToSwap(s, k) => ToSwap(s, k)'
      BY <2>1 DEF DeliveryInv, Coming, ToSwap
    <3>2. Provided(s)'
      BY <2>2 DEF Provided, Coming
    <3>3. \A k \in due'[s] :
            k \notin offered'[s] /\ OnItsWay(s, k)'
      BY <2>1, <3>1 DEF DueInv, OnItsWay
    <3> QED
      BY <3>2, <3>3 DEF DueInv
  <2> QED
    BY <2>3, <2>4
<1>6. CASE GetJobPush(s)
  <2>1. /\ handler[s].pc = "push" /\ NewJob(s, h) /\ UNCHANGED push
        /\ handler' = [handler EXCEPT ![s] = Waiting]
    BY <1>0, <1>6 DEF GetJobPush, NewJob
  <2>2. h \in Heights /\ \A t \in Sessions \ {s} : handler'[t] = handler[t]
    BY <1>0, <2>1 DEF DeliveryInv, Types, TypeOK, HeightsInv
  <2>3. ASSUME NEW t \in Sessions, t # s PROVE DueInv(t)'
    <3>1. /\ lastBlockHeight'[t] = lastBlockHeight[t] /\ due'[t] = due[t]
          /\ offered'[t] = offered[t] /\ discarded'[t] = discarded[t]
      BY <2>1, <2>3 DEF NewJob, PushJob, DiscardJob, DeliveryInv, Types, TypeOK
    <3> QED
      BY <2>1, <2>2, <2>3, <3>1, OthersKeepDue DEF DeliveryInv
  <2>4. DueInv(s)'
    <3>1. \A k \in Heights : k # h => (Coming(s, k) => Coming(s, k)')
      BY <1>0, <2>1 DEF Coming
    <3>2. \A k \in Heights : ToSwap(s, k) => ToSwap(s, k)'
      BY <2>1 DEF ToSwap
    <3> QED
      BY <2>1, <2>2, <3>1, <3>2, NewJobKeepsDue
  <2> QED
    BY <2>3, <2>4
<1> QED
  BY <1>1, <1>3, <1>4, <1>5, <1>6 DEF Disconnect, Serve, GetJob

\* What is due has a goroutine that will offer it, as long as goroutines run:
\* neither other broadcasts nor the requests of the session take it away, but
\* for a mining.authorize (blocks.go:134-140, miner.go:168-204).  Under the fairness of FairSpec this
\* is why a broadcast arrives.
THEOREM BroadcastsAreOnTheirWay == Spec => []DueIsOnItsWay
<1>1. Init => DeliveryInv
  <2>1. ASSUME Init, NEW s \in Sessions PROVE DueInv(s)
    BY <2>1 DEF Init, DueInv, Provided
  <2> QED
    BY <2>1, InitTypes DEF DeliveryInv
<1>2. DeliveryInv /\ [Next]_vars => DeliveryInv'
  <2> SUFFICES ASSUME DeliveryInv, [Next]_vars PROVE DeliveryInv'
    OBVIOUS
  <2>1. Types'
    BY NextKeepsTypes DEF DeliveryInv
  <2>2. CASE UNCHANGED vars
    BY <2>1, <2>2, OthersKeepDue DEF vars, session, DeliveryInv
  <2>3. CASE Next
    BY <2>1, <2>3, FetchersKeepDue, PushesKeepDue, ConnectionsKeepDue
       DEF Next, DeliveryInv
  <2> QED
    BY <2>2, <2>3
<1>3. DeliveryInv => DueIsOnItsWay
  BY DEF DeliveryInv, DueInv, DueIsOnItsWay
<1> QED
  BY <1>1, <1>2, <1>3, PTL DEF Spec

-----------------------------------------------------------------------------
(* The upstream nodes of the server (Upstreams.tla).                         *)
USE CountAssumption, RatesAssumption, ErrorsAssumption DEF Upstreams, Healthy

-----------------------------------------------------------------------------
(* The counters.                                                             *)

LEMMA MinOfTwo ==
  ASSUME NEW a \in Nat, NEW b \in Nat
  PROVE  Min({a, b}) = IF a <= b THEN a ELSE b
<1>1. \A x \in {a, b} : (\A y \in {a, b} : x <= y)
                            <=> x = IF a <= b THEN a ELSE b
  OBVIOUS
<1>2. QED
  BY <1>1 DEF Min

\* What the flag and the counters of one client look like.
ClientOK(r) ==
    /\ r \in [sickRate : 0 .. SickAt, successRate : 0 .. AliveAt - 1,
              sick : BOOLEAN]
    /\ r.sick <=> r.sickRate = SickAt

LEMMA MarkedSickOK ==
  ASSUME NEW r, ClientOK(r)
  PROVE  /\ ClientOK(MarkedSick(r))
         /\ MarkedSick(r).successRate = 0
         /\ r.sick => MarkedSick(r).sick
<1> DEFINE failures == Min({r.sickRate + 1, SickAt})
<1>1. r.sickRate \in 0 .. SickAt /\ r.sick \in BOOLEAN
  BY DEF ClientOK
<1>2. failures = IF r.sickRate + 1 <= SickAt THEN r.sickRate + 1 ELSE SickAt
  BY <1>1, MinOfTwo
<1>3. failures \in 0 .. SickAt /\ (failures >= SickAt <=> failures = SickAt)
  BY <1>1, <1>2
<1>4. r.sick => failures = SickAt
  BY <1>1, <1>2 DEF ClientOK
<1>5. CASE failures = SickAt
  <2>1. MarkedSick(r) = [sickRate |-> SickAt, successRate |-> 0,
                         sick |-> TRUE]
    BY <1>3, <1>5 DEF MarkedSick
  <2>2. QED
    BY <2>1 DEF ClientOK
<1>6. CASE failures # SickAt
  <2>1. ~r.sick /\ failures \in 0 .. SickAt
    BY <1>3, <1>4, <1>6
  <2>2. MarkedSick(r) = [sickRate |-> failures, successRate |-> 0,
                         sick |-> FALSE]
    BY <1>1, <1>3, <1>6, <2>1 DEF MarkedSick
  <2>3. QED
    BY <1>6, <2>1, <2>2 DEF ClientOK
<1>7. QED
  BY <1>5, <1>6

LEMMA MarkedAliveOK ==
  ASSUME NEW r, ClientOK(r)
  PROVE  /\ ClientOK(MarkedAlive(r))
         /\ \/ /\ MarkedAlive(r).successRate = r.successRate + 1
               /\ MarkedAlive(r).sick = r.sick
            \/ /\ MarkedAlive(r).successRate = 0
               /\ r.successRate = AliveAt - 1
<1>1. CASE r.successRate + 1 >= AliveAt
  <2>1. MarkedAlive(r) = [sickRate |-> 0, successRate |-> 0, sick |-> FALSE]
    BY <1>1 DEF MarkedAlive
  <2>2. r.successRate = AliveAt - 1
    BY <1>1 DEF ClientOK
  <2>3. QED
    BY <2>1, <2>2 DEF ClientOK
<1>2. CASE ~(r.successRate + 1 >= AliveAt)
  <2>1. MarkedAlive(r) = [r EXCEPT !.successRate = @ + 1]
    BY <1>2 DEF MarkedAlive
  <2>2. r.successRate + 1 \in 0 .. AliveAt - 1
    BY <1>2 DEF ClientOK
  <2>3. QED
    BY <2>1, <2>2 DEF ClientOK
<1>3. QED
  BY <1>1, <1>2

-----------------------------------------------------------------------------
(* The inductive invariant: the checks that successRate counts are among     *)
(* those since the last failure.                                             *)

ClientsInv ==
    /\ UpstreamsTypeOK
    /\ \A u \in Upstreams : client[u].successRate <= streak[u]

LEMMA ClientsOK == UpstreamsTypeOK => \A u \in Upstreams : ClientOK(client[u])
  BY DEF UpstreamsTypeOK, ClientOK

CheckerStates == [pc : {"idle", "post", "alive", "read", "switch"},
                  at : Upstreams, candidate : Upstreams, backup : BOOLEAN]

\* The variables that no counter depends on.
OthersOK ==
    /\ health \in [Upstreams -> {"up", "down", "refuses"}]
    /\ upstream \in Upstreams
    /\ checker \in CheckerStates
    /\ calling \in [Callers -> 0 .. Count]
    /\ errors \in 0 .. MaxErrors

\* A step that marks one client, and changes the streak of that client alone.
Marks(u, r, n) ==
    /\ client' = [client EXCEPT ![u] = r]
    /\ streak' = [streak EXCEPT ![u] = n]

LEMMA MarksKeepInv ==
  ASSUME ClientsInv, OthersOK', NEW u \in Upstreams, NEW r,
         NEW n \in 0 .. AliveAt,
         ClientOK(r), r.successRate <= n, Marks(u, r, n)
  PROVE  ClientsInv'
<1>1. client' \in [Upstreams -> [sickRate : 0 .. SickAt,
                                 successRate : 0 .. AliveAt - 1,
                                 sick : BOOLEAN]]
  BY DEF ClientsInv, UpstreamsTypeOK, Marks, ClientOK
<1>2. streak' \in [Upstreams -> 0 .. AliveAt]
  BY DEF ClientsInv, UpstreamsTypeOK, Marks
<1>3. \A v \in Upstreams : client'[v].sick <=> client'[v].sickRate = SickAt
  BY DEF ClientsInv, UpstreamsTypeOK, Marks, ClientOK
<1>4. \A v \in Upstreams : client'[v].successRate <= streak'[v]
  BY DEF ClientsInv, UpstreamsTypeOK, Marks
<1>5. QED
  BY <1>1, <1>2, <1>3, <1>4
  DEF ClientsInv, UpstreamsTypeOK, OthersOK, CheckerStates

LEMMA NothingMarkedKeepsInv ==
  ASSUME ClientsInv, OthersOK', UNCHANGED <<client, streak>>
  PROVE  ClientsInv'
  BY DEF ClientsInv, UpstreamsTypeOK, OthersOK, CheckerStates

LEMMA OthersTyped == ClientsInv => OthersOK
  BY DEF ClientsInv, UpstreamsTypeOK, OthersOK, CheckerStates

-----------------------------------------------------------------------------
(* The three ways in which a client is marked.                               *)

LEMMA FailureMarks ==
  ASSUME ClientsInv, NEW u \in Upstreams, Marks(u, MarkedSick(client[u]), 0)
  PROVE  /\ OthersOK' => ClientsInv'
         /\ \A v \in Upstreams : client[v].sick => client'[v].sick
<1>1. ClientOK(client[u])
  BY ClientsOK DEF ClientsInv
<1>2. /\ ClientOK(MarkedSick(client[u]))
      /\ MarkedSick(client[u]).successRate = 0
      /\ client[u].sick => MarkedSick(client[u]).sick
  BY <1>1, MarkedSickOK
<1>3. ASSUME OthersOK' PROVE ClientsInv'
  BY <1>2, <1>3, MarksKeepInv
<1>4. \A v \in Upstreams : client[v].sick => client'[v].sick
  BY <1>2 DEF ClientsInv, UpstreamsTypeOK, Marks
<1>5. QED
  BY <1>3, <1>4

LEMMA PostFailsMarks ==
  ASSUME ClientsInv, NEW u \in Upstreams, PostFails(u)
  PROVE  /\ OthersOK' => ClientsInv'
         /\ \A v \in Upstreams : client[v].sick => client'[v].sick
<1>1. CASE Marks(u, MarkedSick(client[u]), 0)
  BY <1>1, FailureMarks
<1>2. CASE UNCHANGED <<client, streak>>
  BY <1>2, NothingMarkedKeepsInv
<1>3. QED
  BY <1>1, <1>2 DEF PostFails, Marks

LEMMA AliveMarks ==
  ASSUME ClientsInv, CheckAlive
  PROVE  /\ OthersOK' => ClientsInv'
         /\ \A v \in Upstreams :
                client[v].sick /\ ~client'[v].sick => streak'[v] = AliveAt
<1> DEFINE u == checker.at
           r == MarkedAlive(client[u])
           n == Min({streak[u] + 1, AliveAt})
<1>1. u \in Upstreams /\ streak[u] \in 0 .. AliveAt
  BY DEF ClientsInv, UpstreamsTypeOK
<1>2. ClientOK(client[u]) /\ client[u].successRate \in 0 .. streak[u]
  <2>1. ClientOK(client[u])
    BY <1>1, ClientsOK DEF ClientsInv
  <2>2. client[u].successRate <= streak[u]
    BY <1>1 DEF ClientsInv
  <2>3. client[u].successRate \in 0 .. AliveAt - 1
    BY <2>1 DEF ClientOK
  <2>4. QED
    BY <1>1, <2>1, <2>2, <2>3
<1>3. n = IF streak[u] + 1 <= AliveAt THEN streak[u] + 1 ELSE AliveAt
  BY <1>1, MinOfTwo
<1>4. Marks(u, r, n)
  BY <1>1 DEF CheckAlive, Counted, Marks, ClientsInv, UpstreamsTypeOK
<1>5. /\ ClientOK(r)
      /\ \/ /\ r.successRate = client[u].successRate + 1
            /\ r.sick = client[u].sick
         \/ /\ r.successRate = 0
            /\ client[u].successRate = AliveAt - 1
  BY <1>2, MarkedAliveOK
<1> HIDE DEF u, r, n
<1>6. n \in 0 .. AliveAt /\ r.successRate <= n
  BY <1>1, <1>2, <1>3, <1>5 DEF ClientOK
<1>7. r.sick = client[u].sick \/ n = AliveAt
  BY <1>1, <1>2, <1>3, <1>5
<1>8. ASSUME OthersOK' PROVE ClientsInv'
  BY <1>1, <1>4, <1>5, <1>6, <1>8, MarksKeepInv
<1>9. ASSUME NEW v \in Upstreams, client[v].sick, ~client'[v].sick
      PROVE  streak'[v] = AliveAt
  <2>1. v = u
    BY <1>4, <1>9 DEF Marks, ClientsInv, UpstreamsTypeOK
  <2>2. client'[u] = r /\ streak'[u] = n
    BY <1>1, <1>4 DEF Marks, ClientsInv, UpstreamsTypeOK
  <2>3. QED
    BY <1>7, <1>9, <2>1, <2>2
<1>10. QED
  BY <1>8, <1>9

-----------------------------------------------------------------------------
(* Every step.                                                               *)

LEMMA BehindTyped ==
  ASSUME NEW c \in CheckerStates
  PROVE  Past(c) \in CheckerStates
<1>1. CASE c.at < Count
  <2>1. c.at + 1 \in Upstreams
    BY <1>1 DEF CheckerStates
  <2>2. Past(c) = [pc |-> "post", at |-> c.at + 1,
                     candidate |-> c.candidate, backup |-> c.backup]
    BY <1>1 DEF Past, CheckerStates
  <2>3. QED
    BY <2>1, <2>2 DEF CheckerStates
<1>2. CASE ~(c.at < Count)
  <2>1. Past(c) = [pc |-> "switch", at |-> c.at,
                     candidate |-> c.candidate, backup |-> c.backup]
    BY <1>2 DEF Past, CheckerStates
  <2>2. QED
    BY <2>1 DEF CheckerStates
<1>3. QED
  BY <1>1, <1>2

LEMMA StepKeepsOthers ==
  ASSUME ClientsInv, [UpstreamsNext]_upstreamsVars
  PROVE  OthersOK'
<1> USE OthersTyped DEF OthersOK
<1>1. CASE StartRound
  <2>1. checker' = [pc |-> "post", at |-> 1, candidate |-> 1,
                    backup |-> FALSE]
    BY <1>1 DEF StartRound, Resting
  <2>2. checker' \in CheckerStates
    BY <2>1 DEF CheckerStates
  <2>3. QED
    BY <1>1, <2>2 DEF StartRound
<1>2. CASE CheckPost
  BY <1>2, BehindTyped DEF CheckPost, CheckerStates
<1>3. CASE CheckAlive
  BY <1>3 DEF CheckAlive, CheckerStates
<1>4. CASE CheckRead
  <2>1. Chosen(checker) \in CheckerStates
    BY DEF Chosen, CheckerStates
  <2>2. QED
    BY <1>4, <2>1, BehindTyped DEF CheckRead
<1>5. CASE Switch
  BY <1>5 DEF Switch, Resting, CheckerStates
<1>6. ASSUME NEW c \in Callers, Load(c)
      PROVE  OthersOK'
  BY <1>6 DEF Load
<1>7. ASSUME NEW c \in Callers, Answer(c)
      PROVE  OthersOK'
  BY <1>7 DEF Answer
<1>8. ASSUME NEW u \in Upstreams, NodeChanges(u)
      PROVE  OthersOK'
  BY <1>8 DEF NodeChanges
<1>9. CASE UNCHANGED upstreamsVars
  BY <1>9 DEF upstreamsVars
<1>10. QED
  BY <1>1, <1>2, <1>3, <1>4, <1>5, <1>6, <1>7, <1>8, <1>9
  DEF UpstreamsNext, Checker

LEMMA StepMarks ==
  ASSUME ClientsInv, [UpstreamsNext]_upstreamsVars
  PROVE  /\ OthersOK' => ClientsInv'
         /\ \A v \in Upstreams :
                client[v].sick /\ ~client'[v].sick => streak'[v] = AliveAt
<1>1. CASE UNCHANGED <<client, streak>>
  BY <1>1, NothingMarkedKeepsInv
<1>2. CASE CheckPost
  <2>1. checker.at \in Upstreams
    BY DEF ClientsInv, UpstreamsTypeOK
  <2>2. CASE PostFails(checker.at)
    BY <2>1, <2>2, PostFailsMarks
  <2>3. QED
    BY <1>1, <1>2, <2>2 DEF CheckPost
<1>3. CASE CheckAlive
  BY <1>3, AliveMarks
<1>4. ASSUME NEW c \in Callers, Answer(c)
      PROVE  /\ OthersOK' => ClientsInv'
             /\ \A v \in Upstreams :
                    client[v].sick /\ ~client'[v].sick => streak'[v] = AliveAt
  <2>1. calling[c] \in Upstreams
    BY <1>4 DEF Answer, ClientsInv, UpstreamsTypeOK
  <2>2. CASE PostFails(calling[c])
    BY <2>1, <2>2, PostFailsMarks
  <2>3. CASE Marks(calling[c], MarkedSick(client[calling[c]]), 0)
    BY <2>1, <2>3, FailureMarks
  <2>4. QED
    BY <1>1, <1>4, <2>2, <2>3 DEF Answer, Marks
<1>5. QED
  BY <1>1, <1>2, <1>3, <1>4
  DEF UpstreamsNext, Checker, StartRound, CheckRead, Switch, Load, NodeChanges,
      upstreamsVars

LEMMA InitInv ==
  ASSUME UpstreamsInit
  PROVE  ClientsInv
  BY DEF UpstreamsInit, ClientsInv, UpstreamsTypeOK, Resting

LEMMA Invariance == UpstreamsSpec => []ClientsInv
<1>1. ClientsInv /\ [UpstreamsNext]_upstreamsVars => ClientsInv'
  BY StepKeepsOthers, StepMarks
<1>2. QED
  BY InitInv, <1>1, PTL DEF UpstreamsSpec

-----------------------------------------------------------------------------
(* The theorems.                                                             *)

\* The flag of every client is what its counter says, whatever the order in
\* which the checker and the callers mark it (markSick, markAlive).
THEOREM UpstreamsTypeCorrect == UpstreamsSpec => []UpstreamsTypeOK
<1>1. ClientsInv => UpstreamsTypeOK
  BY DEF ClientsInv
<1>2. QED
  BY Invariance, <1>1, PTL

\* A sick client recovers only after AliveAt checks with no failed call
\* between them (markSick starts the count again, rpc/rpc.go).
THEOREM RecoversAfterChecksInARow == UpstreamsSpec => WellAfterChecksInARow
<1>1. ClientsInv /\ [UpstreamsNext]_upstreamsVars =>
        \A u \in Upstreams :
            client[u].sick /\ ~client'[u].sick => streak'[u] = AliveAt
  BY StepMarks
<1>2. QED
  BY Invariance, <1>1, PTL DEF UpstreamsSpec, WellAfterChecksInARow
=============================================================================
