---------------------------- MODULE SharesProofs ----------------------------
(***************************************************************************)
(* Proofs about Shares.tla, for every number of clients, shares and faults:*)
(* the pool unlocks the blocks that the node took and no others, each with *)
(* the round that it closed; every share that was counted is in one round; *)
(* and a text is counted once, if the texts are kept for as long as a      *)
(* handler may lag behind.                                                 *)
(***************************************************************************)
EXTENDS Shares, Sums

-----------------------------------------------------------------------------
(* Types.  A total is a sum over the clients of a round: what kind of number *)
(* it is does not matter here.                                               *)

Totals == {0} \cup {SumFunction(f) : f \in [Clients -> Nat]}

Steps == {"idle", "check", "node", "sweep", "pow", "exec", "candidate"}

TypeInv ==
    /\ height \in Heights
    /\ submissions \in [Clients -> SUBSET Submissions]
    /\ handler \in [Clients -> [pc : Steps, share : ShareIds, height : Heights,
                                total : Totals]]
    /\ accepted \subseteq Blocks
    /\ pow \subseteq [share : ShareIds, height : Heights]
    /\ roundCurrent \in [Clients -> Nat]
    /\ rounds \subseteq [share : Blocks, height : Heights,
                         shares : [Clients -> Nat]]
    /\ candidates \subseteq [share : Blocks, height : Heights, total : Totals]
    /\ counted \in [ShareIds -> Nat]
    /\ unwritten \subseteq ShareIds

\* After the check of the template a share is for the height of its handler;
\* only blocks are sent to the node and become candidates.
Handling == {"node", "sweep", "pow", "exec", "candidate"}

HandlerInv ==
    \A c \in Clients :
        /\ handler[c].pc \in Handling =>
                /\ handler[c].height = HeightOf[Share(c)]
                /\ handler[c].height <= height
        /\ handler[c].pc \in {"node", "candidate"} => Share(c) \in Blocks

-----------------------------------------------------------------------------
(* The life of a block.  The node takes a block once, so one handler at most *)
(* is past the node with it, and what that handler has not written yet is    *)
(* nowhere in Redis.                                                         *)

PastNode == {"sweep", "pow", "exec", "candidate"}
Past(c) == handler[c].pc \in PastNode /\ Share(c) \in Blocks

OnlyAccepted ==
    /\ \A c \in Clients : Past(c) => Share(c) \in accepted
    /\ \A r \in rounds : r.share \in accepted
    /\ \A b \in candidates : b.share \in accepted
    /\ \A e \in pow : e.share \in Blocks => e.share \in accepted
    /\ \A s, t \in accepted : WorkOf[s] = WorkOf[t] => s = t

NotWrittenYet ==
    \A c \in Clients : Past(c) =>
        /\ \A d \in Clients : Past(d) /\ Share(d) = Share(c) => d = c
        /\ handler[c].pc \in {"sweep", "pow"} =>
                \A e \in pow : e.share # Share(c)
        /\ handler[c].pc \in {"sweep", "pow", "exec"} =>
                \A r \in rounds : r.share # Share(c)
        /\ \A b \in candidates : b.share # Share(c)

\* A round and the total that a candidate, or the handler about to write one,
\* has for it.
Names(s, h, total) ==
    \E r \in rounds : /\ r.share = s /\ r.height = h
                      /\ total = SumFunction(r.shares)

NamesInv ==
    /\ \A b \in candidates : Names(b.share, b.height, b.total)
    /\ \A c \in Clients : At(c, "candidate") =>
            Names(Share(c), handler[c].height, handler[c].total)
    /\ \A b \in candidates : b.height = HeightOf[b.share]
    /\ \A r \in rounds : r.height = HeightOf[r.share]

\* What has happened to a block so far leads on to its candidate.
Listed(s) == s \in unwritten \/ \E b \in candidates : b.share = s

NothingForgotten ==
    /\ \A s \in accepted :
        Listed(s) \/ \E c \in Clients : Past(c) /\ Share(c) = s
    /\ \A r \in rounds :
        Listed(r.share) \/ \E c \in Clients : At(c, "candidate")
                                              /\ Share(c) = r.share

BlockInv == OnlyAccepted /\ NotWrittenYet /\ NamesInv /\ NothingForgotten

Inv == TypeInv /\ HandlerInv /\ BlockInv

LEMMA InvImplies == Inv => CandidatesNameRounds /\ BlocksRecorded
<1> SUFFICES ASSUME Inv PROVE CandidatesNameRounds /\ BlocksRecorded
  OBVIOUS
<1>1. CandidatesNameRounds
  BY DEF Inv, BlockInv, NamesInv, Names, NothingForgotten, Listed,
         CandidatesNameRounds
<1>2. BlocksRecorded
  BY DEF Inv, BlockInv, OnlyAccepted, NothingForgotten, Listed, Past, PastNode,
         At, BlocksRecorded
<1> QED
  BY <1>1, <1>2

LEMMA IdleType ==
  /\ Idle \in [pc : Steps, share : ShareIds, height : Heights, total : Totals]
  /\ Idle.pc = "idle"
BY SharesAssumption DEF Idle, Steps, Heights, Totals

LEMMA InitInv == Init => Inv
<1> SUFFICES ASSUME Init PROVE Inv
  OBVIOUS
<1>1. TypeInv
  BY IdleType, SharesAssumption DEF Init, TypeInv, Heights, NoShares
<1>2. HandlerInv
  BY IdleType DEF Init, HandlerInv, Handling
<1>3. BlockInv
  BY IdleType DEF Init, BlockInv, OnlyAccepted, NotWrittenYet, NamesInv,
     NothingForgotten, Past, PastNode, At
<1> QED
  BY <1>1, <1>2, <1>3 DEF Inv

-----------------------------------------------------------------------------
(* Steps that change neither the books nor a handler past the node.          *)

LEMMA QuietKeepsBlocks ==
  ASSUME BlockInv, UNCHANGED <<accepted, rounds, candidates, unwritten>>,
         pow' \subseteq pow,
         \A c \in Clients : (Past(c)' <=> Past(c))
                            /\ (Past(c) => UNCHANGED handler[c]),
         \A c \in Clients : (At(c, "candidate")' <=> At(c, "candidate"))
                            /\ (At(c, "candidate") => UNCHANGED handler[c])
  PROVE  BlockInv'
<1>1. OnlyAccepted'
  BY DEF BlockInv, OnlyAccepted, Share
<1>2. NotWrittenYet'
  BY DEF BlockInv, NotWrittenYet, Share
<1>3. NamesInv'
  BY DEF BlockInv, NamesInv, Names, Share
<1>4. NothingForgotten'
  BY DEF BlockInv, NothingForgotten, Listed, Share
<1> QED
  BY <1>1, <1>2, <1>3, <1>4 DEF BlockInv

LEMMA StutterKeepsInv ==
  ASSUME Inv, UNCHANGED vars
  PROVE  Inv'
<1>1. TypeInv'
  BY DEF Inv, vars, redis, TypeInv, Heights
<1>2. HandlerInv'
  BY DEF Inv, vars, HandlerInv, Share
<1>3. BlockInv'
  BY QuietKeepsBlocks DEF Inv, vars, redis, Past, At, Share
<1> QED
  BY <1>1, <1>2, <1>3 DEF Inv

LEMMA SubmitKeepsInv ==
  ASSUME Inv, NEW c \in Clients, NEW s \in ShareIds, Submit(c, s)
  PROVE  Inv'
<1>1. /\ handler' = [handler EXCEPT ![c].pc = "check", ![c].share = s]
      /\ submissions' = [submissions EXCEPT ![c] = @ \cup {Submission(s)}]
      /\ handler[c].pc = "idle"
      /\ UNCHANGED <<height, accepted, redis, counted, unwritten, faults>>
  BY DEF Submit, At
<1>2. /\ handler'[c].pc = "check"
      /\ \A d \in Clients \ {c} : handler'[d] = handler[d]
  BY <1>1 DEF Inv, TypeInv
<1>3. TypeInv'
  <2>1. Submission(s) \in Submissions
    BY SharesAssumption DEF Submission, Submissions
  <2> QED
    BY <1>1, <2>1 DEF Inv, TypeInv, redis, Heights, Steps
<1>4. HandlerInv'
  BY <1>1, <1>2 DEF Inv, HandlerInv, Handling, Share
<1>5. BlockInv'
  BY <1>1, <1>2, QuietKeepsBlocks DEF Inv, redis, Past, PastNode, At, Share
<1> QED
  BY <1>3, <1>4, <1>5 DEF Inv

LEMMA CheckKeepsInv ==
  ASSUME Inv, NEW c \in Clients, Check(c)
  PROVE  Inv'
<1>1. /\ handler[c].pc = "check"
      /\ UNCHANGED <<height, submissions, accepted, redis, counted, unwritten,
                     faults>>
  BY DEF Check, At
<1>2. CASE HeightOf[Share(c)] = height
  <2> DEFINE step == FirstCall(Share(c))
  <2>1. step \in {"node", "sweep"} /\ (step = "node" <=> Share(c) \in Blocks)
    BY DEF FirstCall
  <2>2. handler' = [handler EXCEPT ![c].height = height, ![c].pc = step]
    BY <1>2 DEF Check
  <2> HIDE DEF step
  <2>3. /\ handler'[c] = [handler[c] EXCEPT !.height = height, !.pc = step]
        /\ \A d \in Clients \ {c} : handler'[d] = handler[d]
    BY <2>2 DEF Inv, TypeInv
  <2>4. /\ handler'[c].pc = step /\ handler'[c].height = height
        /\ handler'[c].share = handler[c].share
    BY <2>3 DEF Inv, TypeInv
  <2>5. TypeInv'
    BY <1>1, <2>1, <2>2 DEF Inv, TypeInv, redis, Heights, Steps
  <2>6. HandlerInv'
    <3>1. height \in Nat /\ height' = height
      BY <1>1, SharesAssumption DEF Inv, TypeInv, Heights
    <3>2. /\ handler'[c].height = HeightOf[handler'[c].share]
          /\ handler'[c].height <= height
          /\ handler'[c].pc = "node" => handler'[c].share \in Blocks
          /\ handler'[c].pc # "candidate"
      BY <1>2, <2>1, <2>4, <3>1 DEF Share
    <3>3. \A d \in Clients \ {c} : handler'[d] = handler[d]
      BY <2>3
    <3> QED
      BY <3>1, <3>2, <3>3 DEF Inv, HandlerInv, Share
  <2>7. BlockInv'
    <3>1. ~Past(c) /\ ~Past(c)' /\ ~At(c, "candidate") /\ ~At(c, "candidate")'
      BY <1>1, <2>1, <2>4 DEF Past, PastNode, At, Share
    <3> QED
      BY <1>1, <2>3, <3>1, QuietKeepsBlocks DEF Inv, redis, Past, At, Share
  <2> QED
    BY <2>5, <2>6, <2>7 DEF Inv
<1>3. CASE HeightOf[Share(c)] # height
  <2>1. handler' = [handler EXCEPT ![c] = Idle]
    BY <1>3 DEF Check, Goto
  <2>2. /\ handler'[c].pc = "idle"
        /\ \A d \in Clients \ {c} : handler'[d] = handler[d]
    BY <2>1, IdleType DEF Inv, TypeInv
  <2>3. TypeInv'
    BY <1>1, <2>1, IdleType DEF Inv, TypeInv, redis, Heights
  <2>4. HandlerInv'
    BY <1>1, <2>2 DEF Inv, HandlerInv, Handling, Share
  <2>5. BlockInv'
    BY <1>1, <2>2, QuietKeepsBlocks DEF Inv, redis, Past, PastNode, At, Share
  <2> QED
    BY <2>3, <2>4, <2>5 DEF Inv
<1> QED
  BY <1>2, <1>3

LEMMA ReconnectKeepsInv ==
  ASSUME Inv, NEW c \in Clients, Reconnect(c)
  PROVE  Inv'
<1>1. TypeInv'
  BY DEF Reconnect, Inv, TypeInv, redis, Heights
<1>2. HandlerInv'
  BY DEF Reconnect, Inv, HandlerInv, Share
<1>3. BlockInv'
  BY QuietKeepsBlocks DEF Reconnect, Inv, redis, Past, At, Share
<1> QED
  BY <1>1, <1>2, <1>3 DEF Inv

LEMMA NewTemplateKeepsInv ==
  ASSUME Inv, NewTemplate
  PROVE  Inv'
<1>1. /\ height' \in Heights /\ height' > height
      /\ UNCHANGED <<submissions, handler, accepted, redis, counted, unwritten,
                     faults>>
  BY SharesAssumption DEF NewTemplate, Inv, TypeInv, Heights
<1>2. TypeInv'
  BY <1>1 DEF Inv, TypeInv, redis, Heights
<1>3. HandlerInv'
  BY <1>1, SharesAssumption DEF Inv, TypeInv, Heights, HandlerInv, Share
<1>4. BlockInv'
  BY <1>1, QuietKeepsBlocks DEF Inv, redis, Past, At, Share
<1> QED
  BY <1>2, <1>3, <1>4 DEF Inv

-----------------------------------------------------------------------------
(* The calls.                                                                *)

LEMMA GotoMoves ==
  ASSUME TypeInv, NEW c \in Clients, NEW step \in Steps, Goto(c, step)
  PROVE  /\ handler' \in [Clients -> [pc : Steps, share : ShareIds,
                                      height : Heights, total : Totals]]
         /\ handler'[c].pc = step
         /\ step # "idle" => /\ handler'[c].share = handler[c].share
                             /\ handler'[c].height = handler[c].height
                             /\ handler'[c].total = handler[c].total
         /\ \A d \in Clients \ {c} : handler'[d] = handler[d]
<1>1. CASE step = "idle"
  BY <1>1, IdleType DEF Goto, TypeInv
<1>2. CASE step # "idle"
  BY <1>2 DEF Goto, TypeInv
<1> QED
  BY <1>1, <1>2


LEMMA CountType ==
  ASSUME TypeInv, NEW c \in Clients, NEW o \in Outcomes, Count(c, o)
  PROVE  /\ unwritten' \subseteq ShareIds /\ unwritten \subseteq unwritten'
         /\ ~o.ok => Share(c) \in unwritten'
         /\ o.ok => UNCHANGED unwritten
BY DEF Count, TypeInv, Share

LEMMA SubmitBlockKeepsInv ==
  ASSUME Inv, NEW c \in Clients, SubmitBlock(c)
  PROVE  Inv'
<1>1. PICK o \in Outcomes, accepts \in BOOLEAN :
        /\ accepts => o.done /\ ~Known(Share(c))
        /\ accepted' = IF accepts THEN accepted \cup {Share(c)} ELSE accepted
        /\ Count(c, o)
        /\ Goto(c, IF o.ok /\ accepts THEN "sweep" ELSE "idle")
  BY DEF SubmitBlock
<1>2. /\ handler[c].pc = "node" /\ Share(c) \in Blocks
      /\ UNCHANGED <<height, submissions, redis, counted>>
  BY DEF SubmitBlock, At, Inv, HandlerInv
<1>3. CASE o.ok /\ accepts
  <2>1. Goto(c, "sweep")
    BY <1>1, <1>3
  <2>2. /\ handler' \in [Clients -> [pc : Steps, share : ShareIds,
                                     height : Heights, total : Totals]]
        /\ handler'[c].pc = "sweep" /\ handler'[c].share = Share(c)
        /\ handler'[c].height = handler[c].height
        /\ \A d \in Clients \ {c} : handler'[d] = handler[d]
    BY <2>1, GotoMoves DEF Inv, Steps, Share
  <2>3. /\ accepted' = accepted \cup {Share(c)} /\ Share(c) \notin accepted
        /\ \A t \in accepted : WorkOf[t] # WorkOf[Share(c)]
        /\ UNCHANGED unwritten
    BY <1>1, <1>3, CountType DEF Inv, Known
  <2>4. TypeInv'
    BY <1>2, <2>2, <2>3 DEF Inv, TypeInv, redis, Heights
  <2>5. HandlerInv'
    BY <1>2, <2>2 DEF Inv, HandlerInv, Handling, Share
  <2>6. /\ Past(c)' /\ ~Past(c) /\ ~At(c, "candidate")'
        /\ \A d \in Clients \ {c} : (Past(d)' <=> Past(d))
                                    /\ UNCHANGED Share(d)
    BY <1>2, <2>2 DEF Past, PastNode, At, Share
  <2>7. \A d \in Clients : Past(d) => Share(d) # Share(c)
    BY <2>3 DEF Inv, BlockInv, OnlyAccepted
  <2>8. OnlyAccepted'
    <3>1. \A s, t \in accepted' : WorkOf[s] = WorkOf[t] => s = t
      BY <2>3 DEF Inv, BlockInv, OnlyAccepted
    <3> QED
      BY <1>2, <2>2, <2>3, <2>6, <3>1
         DEF Inv, BlockInv, OnlyAccepted, redis, Share
  <2>9. NotWrittenYet'
    <3>1. /\ \A e \in pow : e.share # Share(c)
          /\ \A r \in rounds : r.share # Share(c)
          /\ \A b \in candidates : b.share # Share(c)
      BY <1>2, <2>3 DEF Inv, BlockInv, OnlyAccepted
    <3> QED
      BY <1>2, <2>2, <2>6, <2>7, <3>1
         DEF Inv, BlockInv, NotWrittenYet, redis, Share
  <2>10. NamesInv'
    BY <1>2, <2>2 DEF Inv, BlockInv, NamesInv, Names, redis, At, Share
  <2>11. NothingForgotten'
    BY <1>2, <2>2, <2>3, <2>6
       DEF Inv, BlockInv, NothingForgotten, Listed, redis, At, Share
  <2> QED
    BY <2>4, <2>5, <2>8, <2>9, <2>10, <2>11 DEF Inv, BlockInv
<1>4. CASE ~(o.ok /\ accepts)
  <2>1. Goto(c, "idle")
    BY <1>1, <1>4
  <2>2. /\ handler' \in [Clients -> [pc : Steps, share : ShareIds,
                                     height : Heights, total : Totals]]
        /\ handler'[c].pc = "idle"
        /\ \A d \in Clients \ {c} : handler'[d] = handler[d]
    BY <2>1, GotoMoves DEF Inv, Steps
  <2>3. /\ accepted \subseteq accepted'
        /\ \A s \in accepted' : s \in accepted \/ (s \in unwritten' /\ s \in Blocks)
        /\ unwritten' \subseteq ShareIds /\ unwritten \subseteq unwritten'
        /\ \A s, t \in accepted' : WorkOf[s] = WorkOf[t] => s = t
    BY <1>1, <1>2, <1>4, CountType DEF Inv, BlockInv, OnlyAccepted, Known
  <2>4. TypeInv'
    BY <1>2, <2>2, <2>3 DEF Inv, TypeInv, redis, Heights
  <2>5. HandlerInv'
    BY <1>2, <2>2 DEF Inv, HandlerInv, Handling, Share
  <2>6. /\ ~Past(c)' /\ ~Past(c) /\ ~At(c, "candidate") /\ ~At(c, "candidate")'
        /\ \A d \in Clients \ {c} : (Past(d)' <=> Past(d))
                                    /\ UNCHANGED Share(d)
    BY <1>2, <2>2 DEF Past, PastNode, At, Share
  <2>7. OnlyAccepted'
    BY <1>2, <2>2, <2>3, <2>6 DEF Inv, BlockInv, OnlyAccepted, redis, Share
  <2>8. NotWrittenYet'
    BY <1>2, <2>2, <2>6 DEF Inv, BlockInv, NotWrittenYet, redis, Share
  <2>9. NamesInv'
    BY <1>2, <2>2, <2>6 DEF Inv, BlockInv, NamesInv, Names, redis, At, Share
  <2>10. NothingForgotten'
    BY <1>2, <2>2, <2>3, <2>6
       DEF Inv, BlockInv, NothingForgotten, Listed, redis, At, Share
  <2> QED
    BY <2>4, <2>5, <2>7, <2>8, <2>9, <2>10 DEF Inv, BlockInv
<1> QED
  BY <1>3, <1>4

LEMMA SweepPowKeepsInv ==
  ASSUME Inv, NEW c \in Clients, SweepPow(c)
  PROVE  Inv'
<1>1. /\ handler[c].pc = "sweep" /\ Goto(c, "pow")
      /\ pow' \subseteq pow
      /\ UNCHANGED <<height, submissions, accepted, roundCurrent, rounds,
                     candidates, counted, unwritten>>
  BY DEF SweepPow, At
<1>2. /\ handler' \in [Clients -> [pc : Steps, share : ShareIds,
                                   height : Heights, total : Totals]]
      /\ handler'[c].pc = "pow" /\ handler'[c].share = handler[c].share
      /\ handler'[c].height = handler[c].height
      /\ \A d \in Clients \ {c} : handler'[d] = handler[d]
  BY <1>1, GotoMoves DEF Inv, Steps
<1>3. TypeInv'
  BY <1>1, <1>2 DEF Inv, TypeInv, Heights
<1>4. HandlerInv'
  BY <1>1, <1>2 DEF Inv, HandlerInv, Handling, Share
<1>5. /\ \A d \in Clients : (Past(d)' <=> Past(d)) /\ UNCHANGED Share(d)
      /\ ~At(c, "candidate") /\ ~At(c, "candidate")'
  BY <1>1, <1>2 DEF Past, PastNode, At, Share
<1>6. OnlyAccepted'
  BY <1>1, <1>5 DEF Inv, BlockInv, OnlyAccepted
<1>7. NotWrittenYet'
  BY <1>1, <1>2, <1>5 DEF Inv, BlockInv, NotWrittenYet
<1>8. NamesInv'
  BY <1>1, <1>2, <1>5 DEF Inv, BlockInv, NamesInv, Names, At
<1>9. NothingForgotten'
  BY <1>1, <1>2, <1>5 DEF Inv, BlockInv, NothingForgotten, Listed, At
<1> QED
  BY <1>3, <1>4, <1>6, <1>7, <1>8, <1>9 DEF Inv, BlockInv

LEMMA CheckPoWExistKeepsInv ==
  ASSUME Inv, NEW c \in Clients, CheckPoWExist(c)
  PROVE  Inv'
<1> DEFINE e == [share |-> Share(c), height |-> handler[c].height]
<1>1. PICK o \in Outcomes :
        /\ Count(c, o)
        /\ pow' = IF o.done THEN pow \cup {e} ELSE pow
        /\ Goto(c, IF o.ok /\ e \notin pow THEN "exec" ELSE "idle")
  BY DEF CheckPoWExist
<1>2. /\ handler[c].pc = "pow" /\ e.share = Share(c)
      /\ e \in [share : ShareIds, height : Heights]
      /\ UNCHANGED <<height, submissions, accepted, roundCurrent, rounds,
                     candidates, counted>>
  BY DEF CheckPoWExist, At, Inv, TypeInv, Share
<1>3. /\ pow' \subseteq pow \cup {e}
      /\ unwritten' \subseteq ShareIds /\ unwritten \subseteq unwritten'
  BY <1>1, CountType DEF Inv
<1> HIDE DEF e
<1>4. CASE o.ok /\ e \notin pow
  <2>1. Goto(c, "exec")
    BY <1>1, <1>4
  <2>2. /\ handler' \in [Clients -> [pc : Steps, share : ShareIds,
                                     height : Heights, total : Totals]]
        /\ handler'[c].pc = "exec" /\ handler'[c].share = handler[c].share
        /\ handler'[c].height = handler[c].height
        /\ \A d \in Clients \ {c} : handler'[d] = handler[d]
    BY <2>1, GotoMoves DEF Inv, Steps
  <2>3. TypeInv'
    BY <1>2, <1>3, <2>2 DEF Inv, TypeInv, Heights
  <2>4. HandlerInv'
    BY <1>2, <2>2 DEF Inv, HandlerInv, Handling, Share
  <2>5. /\ \A d \in Clients : (Past(d)' <=> Past(d)) /\ UNCHANGED Share(d)
        /\ ~At(c, "candidate") /\ ~At(c, "candidate")'
    BY <1>2, <2>2 DEF Past, PastNode, At, Share
  <2>6. Share(c) \in Blocks => Past(c)
    BY <1>2 DEF Past, PastNode
  <2>7. OnlyAccepted'
    BY <1>2, <1>3, <2>5, <2>6 DEF Inv, BlockInv, OnlyAccepted
  <2>8. NotWrittenYet'
    <3>1. \A d \in Clients \ {c} : Past(d) => Share(d) # Share(c)
      BY <2>6 DEF Inv, BlockInv, NotWrittenYet, Past
    <3>2. ASSUME NEW d \in Clients, Past(d)', handler'[d].pc \in {"sweep", "pow"}
          PROVE  \A x \in pow' : x.share # Share(d)'
      BY <1>2, <1>3, <2>2, <2>5, <3>1, <3>2 DEF Inv, BlockInv, NotWrittenYet
    <3> QED
      BY <1>2, <2>2, <2>5, <3>2 DEF Inv, BlockInv, NotWrittenYet
  <2>9. NamesInv'
    BY <1>2, <2>2, <2>5 DEF Inv, BlockInv, NamesInv, Names, At
  <2>10. NothingForgotten'
    BY <1>2, <1>3, <2>2, <2>5
       DEF Inv, BlockInv, NothingForgotten, Listed, At
  <2> QED
    BY <2>3, <2>4, <2>7, <2>8, <2>9, <2>10 DEF Inv, BlockInv
<1>5. CASE ~(o.ok /\ e \notin pow)
  <2>1. Goto(c, "idle")
    BY <1>1, <1>5
  <2>2. /\ handler' \in [Clients -> [pc : Steps, share : ShareIds,
                                     height : Heights, total : Totals]]
        /\ handler'[c].pc = "idle"
        /\ \A d \in Clients \ {c} : handler'[d] = handler[d]
    BY <2>1, GotoMoves DEF Inv, Steps
  <2>3. TypeInv'
    BY <1>2, <1>3, <2>2 DEF Inv, TypeInv, Heights
  <2>4. HandlerInv'
    BY <1>2, <2>2 DEF Inv, HandlerInv, Handling, Share
  <2>5. /\ ~Past(c)' /\ ~At(c, "candidate") /\ ~At(c, "candidate")'
        /\ \A d \in Clients \ {c} : (Past(d)' <=> Past(d))
                                    /\ UNCHANGED Share(d)
    BY <1>2, <2>2 DEF Past, PastNode, At, Share
  <2>6. Share(c) \in Blocks => Past(c)
    BY <1>2 DEF Past, PastNode
  <2>7. Share(c) \in Blocks => Share(c) \in unwritten'
    <3>1. Share(c) \in Blocks => e \notin pow
      BY <1>2, <2>6 DEF Inv, BlockInv, NotWrittenYet
    <3> QED
      BY <1>1, <1>5, <3>1, CountType DEF Inv
  <2>8. OnlyAccepted'
    BY <1>2, <1>3, <2>5, <2>6 DEF Inv, BlockInv, OnlyAccepted
  <2>9. NotWrittenYet'
    <3>1. \A d \in Clients \ {c} : Past(d) => Share(d) # Share(c)
      BY <2>6 DEF Inv, BlockInv, NotWrittenYet, Past
    <3>2. ASSUME NEW d \in Clients, Past(d)', handler'[d].pc \in {"sweep", "pow"}
          PROVE  \A x \in pow' : x.share # Share(d)'
      BY <1>2, <1>3, <2>2, <2>5, <3>1, <3>2 DEF Inv, BlockInv, NotWrittenYet
    <3> QED
      BY <1>2, <2>2, <2>5, <3>2 DEF Inv, BlockInv, NotWrittenYet
  <2>10. NamesInv'
    BY <1>2, <2>2, <2>5 DEF Inv, BlockInv, NamesInv, Names, At
  <2>11. NothingForgotten'
    <3>1. \A s \in accepted : Listed(s)' \/ \E d \in Clients : Past(d)' /\ Share(d)' = s
      BY <1>2, <1>3, <2>5, <2>7
         DEF Inv, BlockInv, NothingForgotten, Listed, Past
    <3>2. \A r \in rounds :
            Listed(r.share)' \/ \E d \in Clients : At(d, "candidate")'
                                                    /\ Share(d)' = r.share
      BY <1>2, <1>3, <2>2, <2>5
         DEF Inv, BlockInv, NothingForgotten, Listed, At
    <3> QED
      BY <1>2, <3>1, <3>2 DEF NothingForgotten
  <2> QED
    BY <2>3, <2>4, <2>8, <2>9, <2>10, <2>11 DEF Inv, BlockInv
<1> QED
  BY <1>4, <1>5


\* The closed round gets a name that no round has.
LEMMA RenameAdds ==
  ASSUME Inv, NEW c \in Clients, handler[c].pc = "exec", Share(c) \in Blocks
  PROVE  Rename(c) = rounds \cup
                {[share |-> Share(c), height |-> handler[c].height,
                  shares |-> ClosedRound(c)]}
<1>1. \A r \in rounds : r.share # Share(c)
  BY DEF Inv, BlockInv, NotWrittenYet, Past, PastNode
<1>2. /\ Share(c) \in accepted
      /\ \A r \in rounds : r.share \in accepted
      /\ \A s, t \in accepted : WorkOf[s] = WorkOf[t] => s = t
  BY DEF Inv, BlockInv, OnlyAccepted, Past, PastNode
<1>3. /\ handler[c].height = HeightOf[Share(c)]
      /\ \A r \in rounds : r.height = HeightOf[r.share] /\ r.share \in Blocks
  BY DEF Inv, HandlerInv, Handling, BlockInv, NamesInv, TypeInv
<1>4. \A r \in rounds : \/ NonceOf[r.share] # NonceOf[Share(c)]
                        \/ r.height # handler[c].height
  BY <1>1, <1>2, <1>3, WorkAssumption
<1> QED
  BY <1>4 DEF Rename

LEMMA ExecKeepsInv ==
  ASSUME Inv, NEW c \in Clients, Exec(c)
  PROVE  Inv'
<1>1. PICK o \in Outcomes :
        /\ Count(c, o)
        /\ IF ~o.done
           THEN UNCHANGED <<roundCurrent, roundShares, rounds, candidates,
                            counted>>
           ELSE /\ counted' = [counted EXCEPT ![Share(c)] = @ + 1]
                /\ IF Share(c) \in Blocks THEN WriteBlock(c) ELSE WriteShare(c)
        /\ IF o.ok /\ Share(c) \in Blocks
           THEN handler' = [handler EXCEPT ![c].pc = "candidate",
                                           ![c].total = TotalShares(c)]
           ELSE Goto(c, "idle")
  BY DEF Exec
<1>2. /\ handler[c].pc = "exec" /\ Share(c) \in ShareIds
      /\ UNCHANGED <<height, submissions, accepted, pow, candidates>>
  BY <1>1 DEF Exec, At, WriteBlock, WriteShare, Inv, TypeInv, Share
<1>3. /\ unwritten' \subseteq ShareIds /\ unwritten \subseteq unwritten'
  BY <1>1, CountType DEF Inv
<1>4. /\ counted' \in [ShareIds -> Nat]
      /\ roundCurrent' \in [Clients -> Nat]
  <2>1. NoShares \in [Clients -> Nat]
    BY DEF NoShares
  <2> QED
    BY <1>1, <1>2, <2>1 DEF Inv, TypeInv, WriteBlock, WriteShare
<1> DEFINE round == [share |-> Share(c), height |-> handler[c].height,
                     shares |-> ClosedRound(c)]
<1>5. round \in [share : ShareIds, height : Heights, shares : [Clients -> Nat]]
      /\ round.share = Share(c) /\ round.height = handler[c].height
      /\ SumFunction(round.shares) = TotalShares(c)
  BY <1>2 DEF ClosedRound, TotalShares, Inv, TypeInv
<1>6. /\ Share(c) \in Blocks => Past(c)
      /\ handler[c].height = HeightOf[Share(c)]
  BY <1>2 DEF Past, PastNode, Inv, HandlerInv, Handling
<1>7. CASE o.done /\ Share(c) \in Blocks
  <2>1. rounds' = rounds \cup {round}
    BY <1>1, <1>2, <1>7, RenameAdds DEF WriteBlock
  <2>2. /\ \A r \in rounds : r.share # Share(c)
        /\ \A b \in candidates : b.share # Share(c)
        /\ \A d \in Clients : Past(d) /\ Share(d) = Share(c) => d = c
        /\ Share(c) \in accepted
    BY <1>2, <1>6, <1>7 DEF Inv, BlockInv, NotWrittenYet, OnlyAccepted
  <2>3. round \in [share : Blocks, height : Heights, shares : [Clients -> Nat]]
    BY <1>5, <1>7
  <2> HIDE DEF round
  <2>4. CASE o.ok
    <3>1. handler' = [handler EXCEPT ![c].pc = "candidate",
                                     ![c].total = TotalShares(c)]
      BY <1>1, <1>7, <2>4
    <3>2. TotalShares(c) \in Totals
      <4>1. ClosedRound(c) \in [Clients -> Nat]
        BY DEF ClosedRound, Inv, TypeInv
      <4> QED
        BY <4>1 DEF Totals, TotalShares
    <3>3. /\ handler' \in [Clients -> [pc : Steps, share : ShareIds,
                                       height : Heights, total : Totals]]
          /\ handler'[c].pc = "candidate" /\ handler'[c].share = handler[c].share
          /\ handler'[c].height = handler[c].height
          /\ handler'[c].total = TotalShares(c)
          /\ \A d \in Clients \ {c} : handler'[d] = handler[d]
      BY <3>1, <3>2 DEF Inv, TypeInv, Steps
    <3>4. TypeInv'
      BY <1>2, <1>3, <1>4, <2>1, <2>3, <3>3 DEF Inv, TypeInv, Heights
    <3>5. HandlerInv'
      BY <1>2, <1>7, <3>3 DEF Inv, HandlerInv, Handling, Share
    <3>6. /\ \A d \in Clients : (Past(d)' <=> Past(d)) /\ UNCHANGED Share(d)
          /\ At(c, "candidate")'
      BY <1>2, <3>3 DEF Past, PastNode, At, Share
    <3>7. OnlyAccepted'
      BY <1>2, <1>5, <2>1, <2>2, <3>6 DEF Inv, BlockInv, OnlyAccepted
    <3>8. NotWrittenYet'
      BY <1>2, <1>5, <2>1, <2>2, <3>3, <3>6 DEF Inv, BlockInv, NotWrittenYet
    <3>9. NamesInv'
      <4>1. ASSUME NEW d \in Clients, At(d, "candidate")'
            PROVE  Names(Share(d), handler[d].height, handler[d].total)'
        <5>1. CASE d = c
          <6>1. \E r \in rounds' : /\ r.share = Share(c)
                                   /\ r.height = handler[c].height
                                   /\ TotalShares(c) = SumFunction(r.shares)
            BY <1>5, <2>1
          <6> QED
            BY <3>3, <3>6, <5>1, <6>1 DEF Names
        <5>2. CASE d # c
          <6>1. Names(Share(d), handler[d].height, handler[d].total)
            BY <3>3, <4>1, <5>2 DEF Inv, BlockInv, NamesInv, At
          <6> QED
            BY <2>1, <3>3, <3>6, <5>2, <6>1 DEF Names
        <5> QED
          BY <5>1, <5>2
      <4>2. \A b \in candidates' : Names(b.share, b.height, b.total)'
        BY <1>2, <2>1 DEF Inv, BlockInv, NamesInv, Names
      <4>3. \A r \in rounds' : r.height = HeightOf[r.share]
        BY <1>5, <1>6, <2>1 DEF Inv, BlockInv, NamesInv
      <4> QED
        BY <1>2, <4>1, <4>2, <4>3 DEF Inv, BlockInv, NamesInv
    <3>10. NothingForgotten'
      BY <1>2, <1>3, <1>5, <2>1, <3>3, <3>6
         DEF Inv, BlockInv, NothingForgotten, Listed, At
    <3> QED
      BY <3>4, <3>5, <3>7, <3>8, <3>9, <3>10 DEF Inv, BlockInv
  <2>5. CASE ~o.ok
    <3>1. /\ handler' \in [Clients -> [pc : Steps, share : ShareIds,
                                       height : Heights, total : Totals]]
          /\ handler'[c].pc = "idle"
          /\ \A d \in Clients \ {c} : handler'[d] = handler[d]
      BY <1>1, <2>5, GotoMoves DEF Inv, Steps
    <3>2. Share(c) \in unwritten'
      BY <1>1, <2>5, CountType DEF Inv
    <3>3. TypeInv'
      BY <1>2, <1>3, <1>4, <2>1, <2>3, <3>1 DEF Inv, TypeInv, Heights
    <3>4. HandlerInv'
      BY <1>2, <3>1 DEF Inv, HandlerInv, Handling, Share
    <3>5. /\ ~Past(c)' /\ ~At(c, "candidate") /\ ~At(c, "candidate")'
          /\ \A d \in Clients \ {c} : (Past(d)' <=> Past(d))
                                      /\ UNCHANGED Share(d)
      BY <1>2, <3>1 DEF Past, PastNode, At, Share
    <3>6. OnlyAccepted'
      BY <1>2, <1>5, <2>1, <2>2, <3>5 DEF Inv, BlockInv, OnlyAccepted
    <3>7. NotWrittenYet'
      BY <1>2, <1>5, <2>1, <2>2, <3>1, <3>5 DEF Inv, BlockInv, NotWrittenYet
    <3>8. NamesInv'
      <4>1. \A b \in candidates' : Names(b.share, b.height, b.total)'
        BY <1>2, <2>1 DEF Inv, BlockInv, NamesInv, Names
      <4>2. \A d \in Clients : At(d, "candidate")' =>
                Names(Share(d), handler[d].height, handler[d].total)'
        BY <2>1, <3>1, <3>5 DEF Inv, BlockInv, NamesInv, Names, At
      <4>3. \A r \in rounds' : r.height = HeightOf[r.share]
        BY <1>5, <1>6, <2>1 DEF Inv, BlockInv, NamesInv
      <4> QED
        BY <1>2, <4>1, <4>2, <4>3 DEF Inv, BlockInv, NamesInv
    <3>9. NothingForgotten'
      BY <1>2, <1>3, <1>5, <2>1, <3>1, <3>2, <3>5
         DEF Inv, BlockInv, NothingForgotten, Listed, At, Past
    <3> QED
      BY <3>3, <3>4, <3>6, <3>7, <3>8, <3>9 DEF Inv, BlockInv
  <2> QED
    BY <2>4, <2>5
<1>8. CASE ~(o.done /\ Share(c) \in Blocks)
  <2>1. rounds' = rounds
    BY <1>1, <1>8 DEF WriteShare
  <2>2. /\ handler' \in [Clients -> [pc : Steps, share : ShareIds,
                                     height : Heights, total : Totals]]
        /\ handler'[c].pc = "idle"
        /\ \A d \in Clients \ {c} : handler'[d] = handler[d]
    BY <1>1, <1>8, GotoMoves DEF Inv, Steps, Outcomes
  <2>3. Share(c) \in Blocks => Share(c) \in unwritten'
    BY <1>1, <1>8, CountType DEF Inv, Outcomes
  <2>4. TypeInv'
    BY <1>2, <1>3, <1>4, <2>1, <2>2 DEF Inv, TypeInv, Heights
  <2>5. HandlerInv'
    BY <1>2, <2>2 DEF Inv, HandlerInv, Handling, Share
  <2>6. /\ ~Past(c)' /\ ~At(c, "candidate") /\ ~At(c, "candidate")'
        /\ \A d \in Clients \ {c} : (Past(d)' <=> Past(d))
                                    /\ UNCHANGED Share(d)
    BY <1>2, <2>2 DEF Past, PastNode, At, Share
  <2>7. OnlyAccepted'
    BY <1>2, <2>1, <2>6 DEF Inv, BlockInv, OnlyAccepted
  <2>8. NotWrittenYet'
    BY <1>2, <2>1, <2>2, <2>6 DEF Inv, BlockInv, NotWrittenYet
  <2>9. NamesInv'
    BY <1>2, <2>1, <2>2, <2>6 DEF Inv, BlockInv, NamesInv, Names, At
  <2>10. NothingForgotten'
    <3>1. \A x \in accepted : Listed(x)' \/ \E d \in Clients : Past(d)' /\ Share(d)' = x
      BY <1>2, <1>3, <2>3, <2>6
         DEF Inv, BlockInv, NothingForgotten, Listed, Past
    <3>2. \A r \in rounds :
            Listed(r.share)' \/ \E d \in Clients : At(d, "candidate")'
                                                    /\ Share(d)' = r.share
      BY <1>2, <1>3, <2>2, <2>6
         DEF Inv, BlockInv, NothingForgotten, Listed, At
    <3> QED
      BY <1>2, <2>1, <3>1, <3>2 DEF NothingForgotten
  <2> QED
    BY <2>4, <2>5, <2>7, <2>8, <2>9, <2>10 DEF Inv, BlockInv
<1> QED
  BY <1>7, <1>8

LEMMA AddCandidateKeepsInv ==
  ASSUME Inv, NEW c \in Clients, AddCandidate(c)
  PROVE  Inv'
<1> DEFINE new == [share |-> Share(c), height |-> handler[c].height,
                   total |-> handler[c].total]
<1>1. PICK o \in Outcomes :
        /\ Count(c, o)
        /\ candidates' = IF o.done THEN candidates \cup {new} ELSE candidates
  BY DEF AddCandidate
<1>2. /\ handler[c].pc = "candidate" /\ Goto(c, "idle")
      /\ UNCHANGED <<height, submissions, accepted, pow, roundCurrent, rounds,
                     counted>>
  BY DEF AddCandidate, At
<1>3. /\ handler' \in [Clients -> [pc : Steps, share : ShareIds,
                                   height : Heights, total : Totals]]
      /\ handler'[c].pc = "idle"
      /\ \A d \in Clients \ {c} : handler'[d] = handler[d]
  BY <1>2, GotoMoves DEF Inv, Steps
<1>4. /\ new \in [share : Blocks, height : Heights, total : Totals]
      /\ new.share = Share(c) /\ new.height = HeightOf[Share(c)]
      /\ Names(new.share, new.height, new.total)
      /\ Past(c)
  BY <1>2 DEF Inv, TypeInv, HandlerInv, Handling, BlockInv, NamesInv, Past,
              PastNode, At, Share
<1> HIDE DEF new
<1>5. /\ candidates \subseteq candidates' /\ candidates' \subseteq candidates \cup {new}
      /\ unwritten' \subseteq ShareIds /\ unwritten \subseteq unwritten'
      /\ new \in candidates' \/ Share(c) \in unwritten'
  BY <1>1, CountType DEF Inv, Outcomes
<1>6. TypeInv'
  BY <1>2, <1>3, <1>4, <1>5 DEF Inv, TypeInv, Heights
<1>7. HandlerInv'
  BY <1>2, <1>3 DEF Inv, HandlerInv, Handling, Share
<1>8. /\ ~Past(c)' /\ ~At(c, "candidate")'
      /\ \A d \in Clients \ {c} : (Past(d)' <=> Past(d))
                                  /\ UNCHANGED Share(d)
      /\ \A d \in Clients \ {c} : Past(d) => Share(d) # Share(c)
  BY <1>2, <1>3, <1>4
     DEF Past, PastNode, At, Share, Inv, BlockInv, NotWrittenYet
<1>9. OnlyAccepted'
  BY <1>2, <1>4, <1>5, <1>8 DEF Inv, BlockInv, OnlyAccepted
<1>10. NotWrittenYet'
  BY <1>2, <1>3, <1>4, <1>5, <1>8 DEF Inv, BlockInv, NotWrittenYet
<1>11. NamesInv'
  BY <1>2, <1>3, <1>4, <1>5, <1>8 DEF Inv, BlockInv, NamesInv, Names, At
<1>12. NothingForgotten'
  <2>1. \A x \in accepted : Listed(x)' \/ \E d \in Clients : Past(d)' /\ Share(d)' = x
    BY <1>4, <1>5, <1>8 DEF Inv, BlockInv, NothingForgotten, Listed
  <2>2. \A r \in rounds :
          Listed(r.share)' \/ \E d \in Clients : At(d, "candidate")'
                                                  /\ Share(d)' = r.share
    BY <1>3, <1>4, <1>5, <1>8 DEF Inv, BlockInv, NothingForgotten, Listed, At
  <2> QED
    BY <1>2, <2>1, <2>2 DEF NothingForgotten
<1> QED
  BY <1>6, <1>7, <1>9, <1>10, <1>11, <1>12 DEF Inv, BlockInv

LEMMA CrashKeepsInv ==
  ASSUME Inv, Crash
  PROVE  Inv'
<1>1. /\ unwritten' = unwritten \cup
                {Share(c) : c \in {d \in Clients : ~At(d, "idle")}}
      /\ handler' = [c \in Clients |-> Idle]
      /\ submissions' = [c \in Clients |-> {}]
      /\ UNCHANGED <<height, accepted, redis, counted>>
  BY DEF Crash
<1>2. \A c \in Clients : handler'[c].pc = "idle" /\ ~Past(c)'
                         /\ ~At(c, "candidate")'
  BY <1>1, IdleType DEF Past, PastNode, At
<1>3. \A c \in Clients : Past(c) \/ At(c, "candidate") => Share(c) \in unwritten'
  BY <1>1 DEF Past, PastNode, At
<1>4. TypeInv'
  <2>1. unwritten' \subseteq ShareIds
    BY <1>1 DEF Inv, TypeInv, Share
  <2> QED
    BY <1>1, <2>1, IdleType DEF Inv, TypeInv, redis, Heights
<1>5. HandlerInv'
  BY <1>2 DEF HandlerInv, Handling
<1>6. OnlyAccepted' /\ NotWrittenYet'
  BY <1>1, <1>2 DEF Inv, BlockInv, OnlyAccepted, NotWrittenYet, redis
<1>7. NamesInv'
  BY <1>1, <1>2 DEF Inv, BlockInv, NamesInv, Names, redis
<1>8. NothingForgotten'
  BY <1>1, <1>3 DEF Inv, BlockInv, NothingForgotten, Listed, redis
<1> QED
  BY <1>4, <1>5, <1>6, <1>7, <1>8 DEF Inv, BlockInv

LEMMA NextKeepsInv ==
  ASSUME Inv, [Next]_vars
  PROVE  Inv'
BY StutterKeepsInv, SubmitKeepsInv, CheckKeepsInv, SubmitBlockKeepsInv,
   SweepPowKeepsInv, CheckPoWExistKeepsInv, ExecKeepsInv, AddCandidateKeepsInv,
   ReconnectKeepsInv, NewTemplateKeepsInv, CrashKeepsInv DEF Next

LEMMA InvHolds == Spec => []Inv
<1>1. Init => Inv
  BY InitInv
<1>2. Inv /\ [Next]_vars => Inv'
  BY NextKeepsInv
<1> QED
  BY <1>1, <1>2, PTL DEF Spec

\* Whatever calls fail and whenever the server dies, the pool unlocks the
\* blocks that the node took, and no others, unless a call of that very block
\* failed.
THEOREM AcceptedBlocksRecorded == Spec => []BlocksRecorded
BY InvHolds, InvImplies, PTL

\* The RENAMEs of several clients do not mix their rounds: a candidate names
\* the round that its own block closed, and the total of that round.
THEOREM CandidatesHaveTheirRound == Spec => []CandidatesNameRounds
BY InvHolds, InvImplies, PTL

-----------------------------------------------------------------------------
(* The books.  The counter of counted shares, the round under way and the    *)
(* closed rounds are moved by the same transactions; a round that is closed  *)
(* takes the name of its block, which no closed round has.                   *)

Closed == SumFunction([r \in rounds |-> SumFunction(r.shares)])

BooksInv ==
    /\ IsFiniteSet(rounds)
    /\ SumFunction(counted) = SumFunction(roundCurrent) + Closed
    /\ roundShares = SumFunction(roundCurrent)
    /\ faults \in 0 .. MaxFaults

\* A round's sum.
LEMMA RoundSum ==
  ASSUME NEW f \in [Clients -> Nat]
  PROVE  SumFunction(f) \in Nat
BY FiniteAssumption, SumNat DEF SumFunction

\* One more share for one client, or for one share.
LEMMA OneMore ==
  ASSUME NEW S, IsFiniteSet(S), NEW f \in [S -> Nat], NEW x \in S
  PROVE  SumFunction([f EXCEPT ![x] = @ + 1]) = SumFunction(f) + 1
<1> DEFINE g == [f EXCEPT ![x] = @ + 1]
<1>1. f \in [S -> Int] /\ 1 \in Int /\ g = [f EXCEPT ![x] = f[x] + 1]
  OBVIOUS
<1> HIDE DEF g
<1>2. SumFunction(g) = SumFunction(f) + 1
  BY <1>1, SumIncrement
<1> QED
  BY <1>2 DEF g

LEMMA NoSharesSum == SumFunction(NoShares) = 0
<1>1. \A c \in Clients : NoShares[c] = 0
  BY DEF NoShares
<1>2. SumFunctionOnSet(NoShares, Clients) = 0
  BY <1>1, FiniteAssumption, SumZero
<1> QED
  BY <1>2 DEF SumFunction, NoShares

\* A closed round adds its sum.
LEMMA ClosedInsert ==
  ASSUME TypeInv, IsFiniteSet(rounds), NEW new, new \notin rounds,
         SumFunction(new.shares) \in Int, rounds' = rounds \cup {new}
  PROVE  /\ Closed \in Int
         /\ Closed' = Closed + SumFunction(new.shares)
<1> DEFINE f == [r \in rounds |-> SumFunction(r.shares)]
           g == [r \in rounds \cup {new} |-> SumFunction(r.shares)]
<1>1. \A r \in rounds : f[r] \in Int /\ g[r] = f[r]
  BY RoundSum DEF TypeInv
<1>2. g[new] = SumFunction(new.shares) /\ g[new] \in Int
  OBVIOUS
<1>3. Closed = SumFunctionOnSet(f, rounds)
  <2>1. DOMAIN f = rounds
    OBVIOUS
  <2>2. Closed = SumFunction(f)
    BY DEF Closed
  <2> HIDE DEF f
  <2> QED
    BY <2>1, <2>2 DEF SumFunction
<1>4. Closed' = SumFunctionOnSet(g, rounds \cup {new})
  <2>1. DOMAIN g = rounds \cup {new}
    OBVIOUS
  <2>2. Closed' = SumFunction(g)
    BY DEF Closed
  <2> HIDE DEF g
  <2> QED
    BY <2>1, <2>2 DEF SumFunction
<1> HIDE DEF f, g
<1>5. SumFunctionOnSet(f, rounds) \in Int
  BY <1>1, SumInt
<1>6. SumFunctionOnSet(g, rounds \cup {new}) = g[new] + SumFunctionOnSet(f, rounds)
  BY <1>1, <1>2, SumInsert
<1> QED
  BY <1>2, <1>3, <1>4, <1>5, <1>6

LEMMA ClosedInt ==
  ASSUME TypeInv, IsFiniteSet(rounds)
  PROVE  Closed \in Int
<1> DEFINE f == [r \in rounds |-> SumFunction(r.shares)]
<1>1. \A r \in rounds : f[r] \in Int
  BY RoundSum DEF TypeInv
<1>2. DOMAIN f = rounds /\ Closed = SumFunction(f)
  BY DEF Closed
<1> HIDE DEF f
<1> QED
  BY <1>1, <1>2, SumInt DEF SumFunction

LEMMA InitBooks == Init => BooksInv
<1> SUFFICES ASSUME Init PROVE BooksInv
  OBVIOUS
<1>1. rounds = {} /\ roundShares = 0 /\ faults = 0 /\ roundCurrent = NoShares
      /\ counted = [s \in ShareIds |-> 0]
  BY DEF Init
<1>2. SumFunction(counted) = 0
  <2>1. \A s \in ShareIds : counted[s] = 0
    BY <1>1
  <2>2. SumFunctionOnSet(counted, ShareIds) = 0
    BY <2>1, FiniteAssumption, SumZero
  <2> QED
    BY <1>1, <2>2 DEF SumFunction
<1>3. Closed = 0
  <2>1. \A f : SumFunctionOnSet(f, {}) = 0
    BY SumEmpty
  <2> QED
    BY <1>1, <2>1 DEF Closed, SumFunction
<1> QED
  BY <1>1, <1>2, <1>3, NoSharesSum, FS_EmptySet, SharesAssumption DEF BooksInv

LEMMA FaultsType ==
  ASSUME BooksInv, NEW c \in Clients, NEW o \in Outcomes, Count(c, o)
  PROVE  faults' \in 0 .. MaxFaults
BY SharesAssumption DEF BooksInv, Count, Outcomes

\* Only the transaction of a share writes in the books.
LEMMA QuietKeepsBooks ==
  ASSUME BooksInv, UNCHANGED <<roundCurrent, roundShares, rounds, counted>>,
         faults' \in 0 .. MaxFaults
  PROVE  BooksInv'
<1>1. Closed' = Closed
  BY DEF Closed
<1> QED
  BY <1>1 DEF BooksInv

LEMMA ExecKeepsBooks ==
  ASSUME Inv, BooksInv, NEW c \in Clients, Exec(c)
  PROVE  BooksInv'
<1>1. PICK o \in Outcomes :
        /\ Count(c, o)
        /\ IF ~o.done
           THEN UNCHANGED <<roundCurrent, roundShares, rounds, candidates,
                            counted>>
           ELSE /\ counted' = [counted EXCEPT ![Share(c)] = @ + 1]
                /\ IF Share(c) \in Blocks THEN WriteBlock(c) ELSE WriteShare(c)
  BY DEF Exec
<1>2. faults' \in 0 .. MaxFaults
  BY <1>1, FaultsType
<1>3. CASE ~o.done
  BY <1>1, <1>2, <1>3, QuietKeepsBooks
<1>4. /\ TypeInv /\ roundCurrent \in [Clients -> Nat]
      /\ counted \in [ShareIds -> Nat] /\ Share(c) \in ShareIds
      /\ IsFiniteSet(Clients) /\ IsFiniteSet(ShareIds) /\ IsFiniteSet(rounds)
      /\ SumFunction(counted) = SumFunction(roundCurrent) + Closed
      /\ roundShares = SumFunction(roundCurrent)
  BY FiniteAssumption DEF Inv, TypeInv, Share, BooksInv
<1>5. SumFunction(roundCurrent) \in Nat /\ Closed \in Int
  BY <1>4, RoundSum, ClosedInt
<1>6. CASE o.done /\ Share(c) \notin Blocks
  <2>1. /\ counted' = [counted EXCEPT ![Share(c)] = @ + 1]
        /\ roundCurrent' = [roundCurrent EXCEPT ![c] = @ + 1]
        /\ roundShares' = roundShares + 1
        /\ UNCHANGED rounds
    BY <1>1, <1>6 DEF WriteShare
  <2>2. SumFunction(counted') = SumFunction(counted) + 1
    BY <1>4, <2>1, OneMore
  <2>3. SumFunction(roundCurrent') = SumFunction(roundCurrent) + 1
    BY <1>4, <2>1, OneMore
  <2>4. Closed' = Closed
    BY <2>1 DEF Closed
  <2>5. SumFunction(counted') = SumFunction(roundCurrent') + Closed'
    BY <1>4, <1>5, <2>2, <2>3, <2>4
  <2>6. roundShares' = SumFunction(roundCurrent')
    BY <1>4, <2>1, <2>3
  <2> QED
    BY <1>2, <1>4, <2>1, <2>5, <2>6 DEF BooksInv, SumFunction
<1>7. CASE o.done /\ Share(c) \in Blocks
  <2>1. PICK new : new = [share |-> Share(c), height |-> handler[c].height,
                          shares |-> ClosedRound(c)]
    OBVIOUS
  <2>2. /\ counted' = [counted EXCEPT ![Share(c)] = @ + 1]
        /\ roundCurrent' = NoShares /\ roundShares' = 0
        /\ rounds' = Rename(c)
    BY <1>1, <1>7 DEF WriteBlock
  <2>3. handler[c].pc = "exec"
    BY DEF Exec, At
  <2>4. rounds' = rounds \cup {new}
    BY <1>7, <2>1, <2>2, <2>3, RenameAdds
  <2>5. new \notin rounds
    <3>1. \A r \in rounds : r.share # Share(c)
      BY <1>7, <2>3 DEF Inv, BlockInv, NotWrittenYet, Past, PastNode
    <3> QED
      BY <2>1, <3>1
  <2>6. SumFunction(new.shares) = SumFunction(roundCurrent) + 1
    <3>1. new.shares = [roundCurrent EXCEPT ![c] = @ + 1]
      BY <2>1 DEF ClosedRound
    <3>2. SumFunction([roundCurrent EXCEPT ![c] = @ + 1]) =
            SumFunction(roundCurrent) + 1
      BY <1>4, OneMore
    <3> QED
      BY <3>1, <3>2, Zenon
  <2>7. SumFunction(new.shares) \in Int
    BY <1>5, <2>6
  <2>8. Closed' = Closed + SumFunction(new.shares)
    BY <1>4, <2>4, <2>5, <2>7, ClosedInsert
  <2>9. SumFunction(counted') = SumFunction(counted) + 1
    BY <1>4, <2>2, OneMore
  <2>10. SumFunction(roundCurrent') = 0
    BY <2>2, NoSharesSum DEF SumFunction, NoShares
  <2>11. SumFunction(counted') = SumFunction(roundCurrent') + Closed'
    BY <1>4, <1>5, <2>6, <2>8, <2>9, <2>10
  <2>12. roundShares' = SumFunction(roundCurrent')
    BY <2>2, <2>10
  <2>13. IsFiniteSet(rounds')
    BY <1>4, <2>4, FS_AddElement
  <2> QED
    BY <1>2, <2>11, <2>12, <2>13 DEF BooksInv, SumFunction
<1> QED
  BY <1>3, <1>6, <1>7

\* The calls that leave the round under way and the closed rounds alone.
LEMMA CallKeepsBooks ==
  ASSUME BooksInv, NEW c \in Clients,
         SubmitBlock(c) \/ SweepPow(c) \/ CheckPoWExist(c) \/ AddCandidate(c)
  PROVE  BooksInv'
<1>1. UNCHANGED <<roundCurrent, roundShares, rounds, counted>>
  BY DEF SubmitBlock, SweepPow, CheckPoWExist, AddCandidate, redis
<1>2. faults' \in 0 .. MaxFaults
  <2>1. CASE SweepPow(c)
    BY <2>1, SharesAssumption DEF SweepPow, BooksInv
  <2>2. CASE \E o \in Outcomes : Count(c, o)
    BY <2>2, FaultsType
  <2> QED
    BY <2>1, <2>2 DEF SubmitBlock, CheckPoWExist, AddCandidate
<1> QED
  BY <1>1, <1>2, QuietKeepsBooks

LEMMA RestKeepsBooks ==
  ASSUME BooksInv,
         \/ \E c \in Clients :
                (\E s \in ShareIds : Submit(c, s)) \/ Check(c) \/ Reconnect(c)
         \/ NewTemplate
         \/ Crash
         \/ UNCHANGED vars
  PROVE  BooksInv'
<1>1. UNCHANGED <<roundCurrent, roundShares, rounds, counted>>
  BY DEF Submit, Check, Reconnect, NewTemplate, Crash, vars, redis
<1>2. faults' \in 0 .. MaxFaults
  <2>1. CASE Crash
    BY <2>1, SharesAssumption DEF Crash, BooksInv
  <2>2. CASE UNCHANGED faults
    BY <2>2 DEF BooksInv
  <2> QED
    BY <2>1, <2>2 DEF Submit, Check, Reconnect, NewTemplate, vars
<1> QED
  BY <1>1, <1>2, QuietKeepsBooks

LEMMA NextKeepsBooks ==
  ASSUME Inv, BooksInv, [Next]_vars
  PROVE  BooksInv'
<1>1. CASE \E c \in Clients : Exec(c)
  BY <1>1, ExecKeepsBooks
<1>2. CASE \E c \in Clients : SubmitBlock(c) \/ SweepPow(c) \/ CheckPoWExist(c)
                              \/ AddCandidate(c)
  BY <1>2, CallKeepsBooks
<1> QED
  BY <1>1, <1>2, RestKeepsBooks DEF Next

LEMMA BooksHold == Spec => [](Inv /\ BooksInv)
<1>1. Init => BooksInv
  BY InitBooks
<1>2. Inv /\ BooksInv /\ [Next]_vars => BooksInv'
  BY NextKeepsBooks
<1> QED
  BY <1>1, <1>2, InvHolds, PTL DEF Spec

\* No share that was counted is lost when rounds are closed under the hands of
\* several clients: it is in the round under way or in one closed round, and
\* the pool's luck counter is the size of the round under way.
THEOREM CountedSharesKept == Spec => []SharesKept
<1>1. BooksInv => SharesKept
  BY DEF BooksInv, Closed, SharesKept
<1> QED
  BY <1>1, BooksHold, PTL

\* Every variable keeps its type; in particular the total of a round, by which
\* the rewards are divided, is a natural number.
THEOREM TypeCorrect == Spec => []TypeOK
<1>1. ASSUME Inv, BooksInv PROVE TypeOK
  <2>1. Totals \subseteq Nat
    BY RoundSum DEF Totals
  <2>2. handler \in [Clients -> Handler]
    BY <1>1, <2>1 DEF Inv, TypeInv, Handler, Steps
  <2>3. candidates \subseteq [share : Blocks, height : Heights, total : Nat]
    BY <1>1, <2>1 DEF Inv, TypeInv
  <2>4. roundShares \in Nat
    BY <1>1, RoundSum DEF Inv, TypeInv, BooksInv
  <2> QED
    BY <1>1, <2>2, <2>3, <2>4 DEF Inv, TypeInv, BooksInv, TypeOK
<1> QED
  BY <1>1, BooksHold, PTL

-----------------------------------------------------------------------------
(* Counted once.  A text that was taken is in the sorted set as long as a    *)
(* handler may still bring it again: the chain moves MaxLag heights at most  *)
(* under a handler, and the sweep keeps PowBacklog heights, provided that    *)
(* the subtraction does not wrap around.                                     *)

BacklogSuffices ==
    /\ MaxLag <= PowBacklog
    /\ PowBacklog <= FirstHeight /\ LastHeight < Wrap

Taken(s) == counted[s] > 0 \/ \E c \in Clients : At(c, "exec") /\ Share(c) = s

\* Heights that a handler past the check may still have.
Recent(s) == height <= HeightOf[s] + MaxLag

CountInv ==
    /\ \A c \in Clients : handler[c].pc \in Handling => Recent(Share(c))
    /\ \A c \in Clients : At(c, "exec") => counted[Share(c)] = 0
    /\ \A c, d \in Clients :
            At(c, "exec") /\ At(d, "exec") /\ Share(c) = Share(d) => c = d
    /\ \A s \in ShareIds : Taken(s) /\ Recent(s) =>
            [share |-> s, height |-> HeightOf[s]] \in pow
    /\ CountedOnce

\* What makes the invariant hold after a step that counts nothing: nobody but
\* c moves, nothing that is still needed leaves the sorted set, and what c
\* brings to the transaction is new.
LEMMA UncountedKeepsCount ==
  ASSUME Inv, Inv', CountInv, NEW c \in Clients, UNCHANGED <<height, counted>>,
         \A d \in Clients \ {c} : handler'[d] = handler[d],
         handler'[c].pc \in Handling => Recent(handler'[c].share),
         \A s \in ShareIds : Recent(s) /\ [share |-> s, height |-> HeightOf[s]] \in pow
                => [share |-> s, height |-> HeightOf[s]] \in pow',
         handler'[c].pc = "exec" =>
            /\ ~Taken(handler'[c].share)
            /\ [share |-> handler'[c].share, height |-> HeightOf[handler'[c].share]]
                    \in pow'
  PROVE  CountInv'
<1>1. \A d \in Clients : handler'[d].share \in ShareIds
  BY DEF Inv, TypeInv
<1>2. counted \in [ShareIds -> Nat]
  BY DEF Inv, TypeInv
<1>3. (\A d \in Clients : handler[d].pc \in Handling => Recent(Share(d)))'
  BY DEF CountInv, Recent, Share
<1>4. (\A d \in Clients : At(d, "exec") => counted[Share(d)] = 0)'
  BY <1>1, <1>2 DEF CountInv, At, Share, Taken
<1>5. (\A d, f \in Clients :
        At(d, "exec") /\ At(f, "exec") /\ Share(d) = Share(f) => d = f)'
  BY DEF CountInv, At, Share, Taken
<1>6. (\A s \in ShareIds : Taken(s) /\ Recent(s) =>
        [share |-> s, height |-> HeightOf[s]] \in pow)'
  <2> SUFFICES ASSUME NEW s \in ShareIds, Taken(s)', Recent(s)'
               PROVE  [share |-> s, height |-> HeightOf[s]] \in pow'
    OBVIOUS
  <2>1. CASE Taken(s)
    BY <2>1 DEF CountInv, Recent
  <2>2. CASE ~Taken(s)
    <3>1. handler'[c].pc = "exec" /\ handler'[c].share = s
      BY <2>2 DEF Taken, At, Share
    <3> QED
      BY <3>1
  <2> QED
    BY <2>1, <2>2
<1>7. CountedOnce'
  BY DEF CountInv, CountedOnce
<1> QED
  BY <1>3, <1>4, <1>5, <1>6, <1>7 DEF CountInv

\* The steps that leave the sorted set alone and bring nobody to the
\* transaction.
LEMMA HarmlessKeepsCount ==
  ASSUME Inv, Inv', CountInv, NEW c \in Clients,
         UNCHANGED <<height, counted, pow>>,
         \A d \in Clients \ {c} : handler'[d] = handler[d],
         handler'[c].pc \in Handling => Recent(handler'[c].share),
         handler'[c].pc # "exec"
  PROVE  CountInv'
BY UncountedKeepsCount

LEMMA SubmitKeepsCount ==
  ASSUME Inv, Inv', CountInv, NEW c \in Clients, NEW s \in ShareIds, Submit(c, s)
  PROVE  CountInv'
<1>1. /\ handler'[c].pc = "check"
      /\ \A d \in Clients \ {c} : handler'[d] = handler[d]
  BY DEF Submit, Inv, TypeInv
<1> QED
  BY <1>1, HarmlessKeepsCount DEF Submit, redis, Handling

LEMMA CheckKeepsCount ==
  ASSUME Inv, Inv', CountInv, NEW c \in Clients, Check(c)
  PROVE  CountInv'
<1>1. \A d \in Clients \ {c} : handler'[d] = handler[d]
  BY DEF Check, Goto, Inv, TypeInv
<1>2. UNCHANGED <<height, counted, pow>>
  BY DEF Check, redis
<1>3. CASE HeightOf[Share(c)] = height
  <2>1. /\ handler'[c].pc \in {"node", "sweep"}
        /\ handler'[c].share = Share(c)
    BY <1>3 DEF Check, FirstCall, Share, Inv, TypeInv
  <2>2. Recent(Share(c))
    <3>1. height \in Nat /\ MaxLag \in Nat
      BY SharesAssumption DEF Inv, TypeInv, Heights
    <3> QED
      BY <1>3, <3>1 DEF Recent
  <2> QED
    BY <1>1, <1>2, <2>1, <2>2, HarmlessKeepsCount
<1>4. CASE HeightOf[Share(c)] # height
  <2>1. handler'[c].pc = "idle"
    BY <1>4, IdleType DEF Check, Goto, Inv, TypeInv
  <2> QED
    BY <1>1, <1>2, <2>1, HarmlessKeepsCount DEF Handling
<1> QED
  BY <1>3, <1>4

LEMMA SubmitBlockKeepsCount ==
  ASSUME Inv, Inv', CountInv, NEW c \in Clients, SubmitBlock(c)
  PROVE  CountInv'
<1>1. PICK step \in {"sweep", "idle"} : Goto(c, step)
  BY DEF SubmitBlock
<1>2. /\ handler'[c].pc = step
      /\ step # "idle" => handler'[c].share = Share(c)
      /\ \A d \in Clients \ {c} : handler'[d] = handler[d]
  BY <1>1, GotoMoves DEF Inv, Steps, Share
<1>3. Recent(Share(c))
  BY DEF SubmitBlock, At, CountInv, Handling
<1>4. UNCHANGED <<height, counted, pow>>
  BY DEF SubmitBlock, redis
<1> QED
  BY <1>2, <1>3, <1>4, HarmlessKeepsCount DEF Handling

\* The sweep spares what a handler may still bring.
LEMMA SweepPowKeepsCount ==
  ASSUME BacklogSuffices, Inv, Inv', CountInv, NEW c \in Clients, SweepPow(c)
  PROVE  CountInv'
<1>1. /\ handler[c].pc = "sweep" /\ Goto(c, "pow")
      /\ UNCHANGED <<height, counted>>
      /\ \A e \in pow : e.height >= SweepFloor(handler[c].height) => e \in pow'
  BY DEF SweepPow, At
<1>2. /\ handler'[c].pc = "pow" /\ handler'[c].share = Share(c)
      /\ \A d \in Clients \ {c} : handler'[d] = handler[d]
  BY <1>1, GotoMoves DEF Inv, Steps, Share
<1>3. Recent(Share(c))
  BY <1>1 DEF CountInv, Handling
<1>4. /\ handler[c].height \in Nat /\ handler[c].height <= height /\ height \in Nat
      /\ PowBacklog <= handler[c].height /\ handler[c].height < Wrap
      /\ PowBacklog \in Nat /\ MaxLag \in Nat /\ Wrap \in Nat
  BY <1>1, SharesAssumption
     DEF Inv, TypeInv, HandlerInv, Handling, Heights, BacklogSuffices
<1>5. SweepFloor(handler[c].height) = handler[c].height - PowBacklog
  BY <1>4 DEF SweepFloor
<1>6. ASSUME NEW s \in ShareIds, Recent(s),
             [share |-> s, height |-> HeightOf[s]] \in pow
      PROVE  [share |-> s, height |-> HeightOf[s]] \in pow'
  <2>1. HeightOf[s] \in Nat
    BY SharesAssumption
  <2>2. HeightOf[s] >= SweepFloor(handler[c].height)
    BY <1>4, <1>5, <1>6, <2>1 DEF Recent, BacklogSuffices
  <2> QED
    BY <1>1, <1>6, <2>2
<1> QED
  BY <1>1, <1>2, <1>3, <1>6, UncountedKeepsCount DEF Handling

\* ZADD answers 1 to one handler only.
LEMMA CheckPoWExistKeepsCount ==
  ASSUME Inv, Inv', CountInv, NEW c \in Clients, CheckPoWExist(c)
  PROVE  CountInv'
<1> DEFINE e == [share |-> Share(c), height |-> handler[c].height]
<1>1. PICK o \in Outcomes :
        /\ pow' = IF o.done THEN pow \cup {e} ELSE pow
        /\ Goto(c, IF o.ok /\ e \notin pow THEN "exec" ELSE "idle")
  BY DEF CheckPoWExist
<1>2. /\ handler[c].pc = "pow" /\ UNCHANGED <<height, counted>>
      /\ Share(c) \in ShareIds
  BY DEF CheckPoWExist, At, Inv, TypeInv, Share
<1>3. e = [share |-> Share(c), height |-> HeightOf[Share(c)]]
  BY <1>2 DEF Inv, HandlerInv, Handling
<1>4. Recent(Share(c))
  BY <1>2 DEF CountInv, Handling
<1> HIDE DEF e
<1>5. CASE o.ok /\ e \notin pow
  <2>1. Goto(c, "exec")
    BY <1>1, <1>5
  <2>2. /\ handler'[c].pc = "exec" /\ handler'[c].share = Share(c)
        /\ \A d \in Clients \ {c} : handler'[d] = handler[d]
    BY <2>1, GotoMoves DEF Inv, Steps, Share
  <2>3. pow' = pow \cup {e}
    BY <1>1, <1>5 DEF Outcomes
  <2>4. ~Taken(Share(c))
    BY <1>2, <1>3, <1>4, <1>5 DEF CountInv
  <2> QED
    BY <1>2, <1>3, <1>4, <2>2, <2>3, <2>4, UncountedKeepsCount
<1>6. CASE ~(o.ok /\ e \notin pow)
  <2>1. Goto(c, "idle")
    BY <1>1, <1>6
  <2>2. /\ handler'[c].pc = "idle"
        /\ \A d \in Clients \ {c} : handler'[d] = handler[d]
    BY <2>1, GotoMoves DEF Inv, Steps
  <2>3. pow \subseteq pow'
    BY <1>1
  <2> QED
    BY <1>2, <2>2, <2>3, UncountedKeepsCount DEF Handling
<1> QED
  BY <1>5, <1>6

LEMMA ExecKeepsCount ==
  ASSUME Inv, Inv', CountInv, NEW c \in Clients, Exec(c)
  PROVE  CountInv'
<1>1. PICK o \in Outcomes :
        /\ o.done => counted' = [counted EXCEPT ![Share(c)] = @ + 1]
        /\ ~o.done => counted' = counted
        /\ handler'[c].pc \in {"candidate", "idle"}
        /\ handler'[c].pc = "candidate" => handler'[c].share = Share(c)
        /\ \A d \in Clients \ {c} : handler'[d] = handler[d]
  <2>1. PICK o \in Outcomes :
          /\ IF ~o.done
             THEN UNCHANGED <<roundCurrent, roundShares, rounds, candidates,
                              counted>>
             ELSE /\ counted' = [counted EXCEPT ![Share(c)] = @ + 1]
                  /\ IF Share(c) \in Blocks THEN WriteBlock(c) ELSE WriteShare(c)
          /\ IF o.ok /\ Share(c) \in Blocks
             THEN handler' = [handler EXCEPT ![c].pc = "candidate",
                                             ![c].total = TotalShares(c)]
             ELSE Goto(c, "idle")
    BY DEF Exec
  <2>2. CASE o.ok /\ Share(c) \in Blocks
    BY <2>1, <2>2 DEF Inv, TypeInv, Share
  <2>3. CASE ~(o.ok /\ Share(c) \in Blocks)
    <3>1. Goto(c, "idle")
      BY <2>1, <2>3
    <3>2. handler'[c].pc = "idle" /\ \A d \in Clients \ {c} : handler'[d] = handler[d]
      BY <3>1, GotoMoves DEF Inv, Steps
    <3> QED
      BY <2>1, <3>2
  <2> QED
    BY <2>2, <2>3
<1>2. /\ handler[c].pc = "exec" /\ UNCHANGED <<height, pow>>
      /\ Share(c) \in ShareIds /\ Recent(Share(c)) /\ counted[Share(c)] = 0
      /\ \A d \in Clients \ {c} : At(d, "exec") => Share(d) # Share(c)
  BY DEF Exec, At, Inv, TypeInv, Share, CountInv, Handling
<1>3. /\ counted \in [ShareIds -> Nat] /\ counted' \in [ShareIds -> Nat]
      /\ counted'[Share(c)] \in {0, 1}
      /\ \A s \in ShareIds : s # Share(c) => counted'[s] = counted[s]
  BY <1>1, <1>2 DEF Inv, TypeInv
<1>4. \A d \in Clients : At(d, "exec")' => d # c /\ At(d, "exec")
                                           /\ UNCHANGED Share(d)
  BY <1>1 DEF At, Share
<1>5. (\A d \in Clients : handler[d].pc \in Handling => Recent(Share(d)))'
  BY <1>1, <1>2 DEF CountInv, Recent, Share, Handling
<1>6. (\A d \in Clients : At(d, "exec") => counted[Share(d)] = 0)'
  <2>1. \A d \in Clients : Share(d) \in ShareIds
    BY DEF Inv, TypeInv, Share
  <2> QED
    BY <1>2, <1>3, <1>4, <2>1 DEF CountInv
<1>7. (\A d, f \in Clients :
        At(d, "exec") /\ At(f, "exec") /\ Share(d) = Share(f) => d = f)'
  BY <1>4 DEF CountInv
<1>8. (\A s \in ShareIds : Taken(s) /\ Recent(s) =>
        [share |-> s, height |-> HeightOf[s]] \in pow)'
  <2> SUFFICES ASSUME NEW s \in ShareIds, Taken(s)', Recent(s)'
               PROVE  [share |-> s, height |-> HeightOf[s]] \in pow
    BY <1>2
  <2>1. Taken(s)
    <3>1. CASE s = Share(c)
      BY <1>2, <3>1 DEF Taken, At
    <3>2. CASE s # Share(c)
      BY <1>3, <1>4, <3>2 DEF Taken
    <3> QED
      BY <3>1, <3>2
  <2> QED
    BY <1>2, <2>1 DEF CountInv, Recent
<1>9. CountedOnce'
  BY <1>3 DEF CountInv, CountedOnce
<1> QED
  BY <1>5, <1>6, <1>7, <1>8, <1>9 DEF CountInv

LEMMA AddCandidateKeepsCount ==
  ASSUME Inv, Inv', CountInv, NEW c \in Clients, AddCandidate(c)
  PROVE  CountInv'
<1>1. /\ handler'[c].pc = "idle"
      /\ \A d \in Clients \ {c} : handler'[d] = handler[d]
  BY GotoMoves DEF AddCandidate, Inv, Steps
<1>2. UNCHANGED <<height, counted, pow>>
  BY DEF AddCandidate
<1> QED
  BY <1>1, <1>2, HarmlessKeepsCount DEF Handling

LEMMA RestKeepsCount ==
  ASSUME Inv, Inv', CountInv,
         \/ \E c \in Clients : Reconnect(c)
         \/ NewTemplate
         \/ Crash
         \/ UNCHANGED vars
  PROVE  CountInv'
<1>1. CASE UNCHANGED vars \/ \E c \in Clients : Reconnect(c)
  <2>1. UNCHANGED <<height, handler, counted, pow>>
    BY <1>1 DEF vars, redis, Reconnect
  <2> QED
    BY <2>1 DEF CountInv, CountedOnce, Recent, Taken, At, Share
<1>2. CASE NewTemplate
  <2>1. /\ height' > height /\ height \in Nat /\ height' \in Nat
        /\ UNCHANGED <<handler, counted, pow>>
        /\ \A c \in Clients : ~At(c, "idle") => height' <= HeightOf[Share(c)] + MaxLag
    BY <1>2, SharesAssumption DEF NewTemplate, redis, Inv, TypeInv, Heights
  <2>2. (\A c \in Clients : handler[c].pc \in Handling => Recent(Share(c)))'
    BY <2>1 DEF Recent, Share, Handling, At
  <2>3. ASSUME NEW s \in ShareIds, Recent(s)'
        PROVE  Recent(s)
    <3>1. HeightOf[s] \in Nat /\ MaxLag \in Nat
      BY SharesAssumption
    <3> QED
      BY <2>1, <2>3, <3>1 DEF Recent
  <2> QED
    BY <2>1, <2>2, <2>3 DEF CountInv, CountedOnce, Taken, At, Share
<1>3. CASE Crash
  <2>1. /\ UNCHANGED <<height, counted, pow>>
        /\ \A c \in Clients : handler'[c].pc = "idle"
    BY <1>3, IdleType DEF Crash, redis
  <2> QED
    BY <2>1 DEF CountInv, CountedOnce, Recent, Taken, At, Share, Handling
<1> QED
  BY <1>1, <1>2, <1>3

LEMMA CountHolds ==
  ASSUME BacklogSuffices
  PROVE  Spec => [](Inv /\ CountInv)
<1>1. Init => CountInv
  BY IdleType DEF Init, CountInv, CountedOnce, Taken, At, Handling
<1>2. Inv /\ Inv' /\ CountInv /\ [Next]_vars => CountInv'
  BY SubmitKeepsCount, CheckKeepsCount, SubmitBlockKeepsCount,
     SweepPowKeepsCount, CheckPoWExistKeepsCount, ExecKeepsCount,
     AddCandidateKeepsCount, RestKeepsCount DEF Next
<1> QED
  BY <1>1, <1>2, InvHolds, PTL DEF Spec

\* What checkPoWExist promises: a text is counted at most once, however many
\* clients submit it at the same time or again, and whatever calls fail, if a
\* handler lags behind the chain by no more than the backlog, and the heights
\* are at least the backlog (below it the subtraction wraps around, and a text
\* is counted again).  Another text of the same proof of work is another share.
THEOREM SharesCountedOnce ==
  ASSUME BacklogSuffices
  PROVE  Spec => []CountedOnce
<1>1. CountInv => CountedOnce
  BY DEF CountInv
<1> QED
  BY <1>1, CountHolds, PTL

=============================================================================
