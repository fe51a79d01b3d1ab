--------------------------- MODULE NodeWatchProofs ---------------------------
(***************************************************************************)
(* Theorems about NodeWatch, for any pods, margin and chain.               *)
(***************************************************************************)
EXTENDS NodeWatch, TLAPS

\* A verdict stands on a pod that was more than the margin ahead of the node.
Accused ==
    verdict = TRUE => call.own.height \in Nat /\ call.own.height + Margin < top

\* While no answer misleads and every round begins with the last transaction
\* settled, a transaction that waits is one of a jailed validator, and an answer
\* that makes the script send one is still true.
NeedIsReal ==
    ~misled => /\ sent => jailed
               /\ pc = "decide" /\ Jailed => jailed /\ ~sent

WatchInv == TypeOK /\ Accused /\ NeedIsReal /\ FeeForJailedOnly

LEMMA InitInv == Init => WatchInv
<1>. SUFFICES ASSUME Init PROVE WatchInv
  OBVIOUS
<1>. USE WatchAssumption DEF Init
<1>1. HeightsType
  BY DEF HeightsType, Status
<1>2. QuestionType
  BY DEF QuestionType, Verdict
<1>3. StakingType
  BY DEF StakingType
<1>5. LoopType
  <2>1. pc \in {"status", "decide", "sleep"} /\ status = Nil
    OBVIOUS
  <2>2. misled \in BOOLEAN
    BY Zenon
  <2>3. faults \in 0..MaxFaults
    OBVIOUS
  <2>. QED  BY <2>1, <2>2, <2>3 DEF LoopType
<1>4. Accused /\ NeedIsReal /\ FeeForJailedOnly
  BY DEF Accused, NeedIsReal, FeeForJailedOnly, Jailed
<1>. QED  BY <1>1, <1>2, <1>3, <1>4, <1>5 DEF WatchInv, TypeOK

\* A node that executes a block is at most at the top.
LEMMA FollowType ==
    ASSUME HeightsType, NEW s \in Status, s.height < top, NEW r \in Follow(s)
    PROVE  r \in Status /\ r.height <= top
<1>. DEFINE b == s.catching_up /\ s.height + 1 < top
<1>1. r = [height |-> s.height + 1, catching_up |-> b]
  BY DEF Follow
<1>2. b \in BOOLEAN
  OBVIOUS
<1>3. s.height + 1 \in 0..MaxHeight /\ s.height + 1 <= top
  BY WatchAssumption DEF HeightsType, Status
<1>. HIDE DEF b
<1>. QED  BY <1>1, <1>2, <1>3 DEF Status

\* The heights and answers of the chain, the node and the pods keep their types.
LEMMA HeightsStep == HeightsType /\ [Next]_vars => HeightsType'
<1>. SUFFICES ASSUME HeightsType, [Next]_vars PROVE HeightsType'
  OBVIOUS
<1>. USE WatchAssumption DEF HeightsType, Status
<1>1. CASE Grow
  BY <1>1 DEF Grow
<1>2. CASE NodeFollows
  BY <1>2, FollowType DEF NodeFollows
<1>3. CASE CaughtUp
  BY <1>3 DEF CaughtUp
<1>4. CASE PodFollows
  <2>1. PICK p \in Pods : /\ pod[p].height < top
                          /\ \E s \in Follow(pod[p]) : pod' = [pod EXCEPT ![p] = s]
    BY <1>4 DEF PodFollows
  <2>2. PICK s \in Follow(pod[p]) : pod' = [pod EXCEPT ![p] = s]
    BY <2>1
  <2>3. s \in Status /\ s.height <= top
    BY <2>1, FollowType
  <2>. HIDE DEF Status
  <2>4. UNCHANGED <<top, node>>
    BY <1>4 DEF PodFollows
  <2>. QED  BY <2>2, <2>3, <2>4
<1>5. CASE NodeRestarts
  BY <1>5 DEF NodeRestarts
<1>6. CASE UNCHANGED heights
  BY <1>6 DEF heights
<1>7. Grow \/ NodeFollows \/ CaughtUp \/ PodFollows \/ NodeRestarts \/ UNCHANGED heights
  BY DEF Next, vars, Chain, Watch, ReadStatus, AskPod, NoneAhead, Jail, JailTimePasses, UpdateSet,
         NodeSees, SeatChanges, Include, Answer, NoAnswer, Idle, Unjail, Sleep
<1>. QED  BY <1>1, <1>2, <1>3, <1>4, <1>5, <1>6, <1>7

\* A call of is_behind accuses because of a pod that is ahead.
LEMMA QuestionStep ==
    HeightsType /\ QuestionType /\ Accused /\ [Next]_vars => QuestionType' /\ Accused'
<1>. SUFFICES ASSUME HeightsType, QuestionType, Accused, [Next]_vars
              PROVE  QuestionType' /\ Accused'
  OBVIOUS
<1>. USE WatchAssumption DEF HeightsType, QuestionType, Accused
<1>1. CASE ReadStatus
  <2>1. call' \in [own : Status, todo : SUBSET Pods] /\ top_then' = top
    BY <1>1 DEF ReadStatus
  <2>2. verdict' \in Verdict /\ verdict' # TRUE
    BY <1>1 DEF ReadStatus, Verdict
  <2>3. UNCHANGED top
    BY <1>1 DEF ReadStatus, heights
  <2>4. top_then' \in 0..top'
    BY <2>1, <2>3
  <2>. QED  BY <2>1, <2>2, <2>4
<1>2. CASE AskPod
  <2>1. PICK p \in call.todo :
           /\ call' = [call EXCEPT !.todo = @ \ {p}]
           /\ \/ verdict' = (IF ahead(pod[p]) THEN TRUE ELSE Nil) /\ UNCHANGED faults
              \/ verdict' = Nil /\ Fault
    BY <1>2 DEF AskPod
  <2>2. call \in [own : Status, todo : SUBSET Pods]
    BY <1>2 DEF AskPod
  <2>3. call' \in [own : Status, todo : SUBSET Pods] /\ call'.own = call.own
    BY <2>1, <2>2
  <2>4. UNCHANGED <<heights, top_then>>
    BY <1>2 DEF AskPod
  <2>5. verdict' \in Verdict
    BY <2>1 DEF Verdict
  <2>6. QuestionType'
    BY <2>3, <2>4, <2>5 DEF heights
  <2>7. ASSUME verdict' = TRUE
        PROVE  call.own.height \in Nat /\ call.own.height + Margin < top
    <3>1. ahead(pod[p])
      BY <2>1, <2>7
    <3>2. pod[p] \in Status /\ pod[p].height <= top
      BY <2>1, <2>2
    <3>. QED  BY <2>2, <3>1, <3>2 DEF ahead, Status
  <2>. QED  BY <2>3, <2>4, <2>6, <2>7 DEF heights
<1>3. CASE NoneAhead
  <2>1. verdict' \in Verdict /\ verdict' # TRUE /\ UNCHANGED <<heights, call, top_then>>
    BY <1>3 DEF NoneAhead, Verdict
  <2>. QED  BY <2>1 DEF heights
<1>4. CASE Grow
  <2>1. top' = top + 1 /\ UNCHANGED question
    BY <1>4 DEF Grow
  <2>2. QuestionType'
    BY <2>1 DEF question
  <2>3. Accused'
    BY <2>1 DEF question, Status
  <2>. QED  BY <2>2, <2>3
<1>5. CASE UNCHANGED <<top, question>>
  BY <1>5 DEF question
<1>6. ReadStatus \/ AskPod \/ NoneAhead \/ Grow \/ UNCHANGED <<top, question>>
  BY DEF Next, vars, heights, Chain, Watch, NodeFollows, CaughtUp, PodFollows, NodeRestarts, Jail,
         JailTimePasses, UpdateSet, NodeSees, SeatChanges, Include, Answer, NoAnswer, Idle,
         Unjail, Sleep
<1>. QED  BY <1>1, <1>2, <1>3, <1>4, <1>5, <1>6

\* The validator and the watch keep their types.
LEMMA LoopTypeStep ==
    HeightsType /\ StakingType /\ LoopType /\ [Next]_vars => StakingType' /\ LoopType'
<1>. SUFFICES ASSUME HeightsType, StakingType, LoopType, [Next]_vars
              PROVE  StakingType' /\ LoopType'
  OBVIOUS
<1>. USE WatchAssumption DEF StakingType, LoopType, Fault, staking, loop
<1>1. CASE Grow \/ NodeFollows \/ CaughtUp \/ PodFollows \/ NodeRestarts
  BY <1>1 DEF Grow, NodeFollows, CaughtUp, PodFollows, NodeRestarts
<1>2. CASE ReadStatus \/ AskPod \/ NoneAhead
  <2>1. UNCHANGED <<staking, sent, loop, wasted>>
    BY <1>2 DEF ReadStatus, AskPod, NoneAhead
  <2>2. faults' = faults \/ Fault
    BY <1>2 DEF ReadStatus, AskPod, NoneAhead
  <2>3. StakingType'
    BY <2>1
  <2>. QED  BY <2>1, <2>2, <2>3
<1>3. CASE Jail \/ SeatChanges \/ JailTimePasses \/ UpdateSet \/ NodeSees
  <2>1. UNCHANGED <<sent, loop, wasted>>
    BY <1>3 DEF Jail, SeatChanges, JailTimePasses, UpdateSet, NodeSees
  <2>2. faults' = faults \/ Fault
    BY <1>3 DEF Jail, SeatChanges, JailTimePasses, UpdateSet, NodeSees
  <2>3. /\ jailed' \in BOOLEAN /\ served' \in BOOLEAN /\ barred' \in BOOLEAN
        /\ seat' \in BOOLEAN /\ power' \in BOOLEAN /\ seen' \in BOOLEAN
    BY <1>3 DEF Jail, SeatChanges, JailTimePasses, UpdateSet, NodeSees
  <2>. QED  BY <2>1, <2>2, <2>3
<1>4. CASE Include
  BY <1>4 DEF Include
<1>5. CASE Answer
  <2>1. status' \in [voting_power : BOOLEAN, catching_up : BOOLEAN] /\ misled' \in BOOLEAN
    BY <1>5 DEF Answer, HeightsType, Status
  <2>. QED  BY <1>5, <2>1 DEF Answer
<1>6. CASE NoAnswer
  BY <1>6 DEF NoAnswer
<1>7. CASE Idle \/ Unjail \/ Sleep
  BY <1>7 DEF Idle, Unjail, Sleep
<1>8. CASE UNCHANGED vars
  BY <1>8 DEF vars
<1>. QED
  BY <1>1, <1>2, <1>3, <1>4, <1>5, <1>6, <1>7, <1>8 DEF Next, Chain, Watch

\* A transaction is sent, and taken, out of need.
LEMMA NeedStep ==
    /\ StakingType /\ LoopType /\ NeedIsReal /\ FeeForJailedOnly /\ [Next]_vars
    => NeedIsReal' /\ FeeForJailedOnly'
<1>. SUFFICES ASSUME StakingType, LoopType, NeedIsReal, FeeForJailedOnly, [Next]_vars
              PROVE  NeedIsReal' /\ FeeForJailedOnly'
  OBVIOUS
<1>. USE DEF NeedIsReal, FeeForJailedOnly, Jailed, staking, loop
<1>1. CASE Jail \/ JailTimePasses
  <2>1. (jailed => jailed') /\ UNCHANGED <<sent, pc, status, misled, wasted>>
    BY <1>1 DEF Jail, JailTimePasses
  <2>. QED  BY <2>1
<1>2. CASE Include
  <2>1. /\ sent /\ ~sent' /\ UNCHANGED <<pc, status, misled>>
        /\ wasted' = (wasted \/ ~jailed)
    BY <1>2 DEF Include
  <2>. QED  BY <2>1
<1>3. CASE Answer
  BY <1>3 DEF Answer, Misleading, StakingType, LoopType
<1>4. CASE NoAnswer
  BY <1>4 DEF NoAnswer
<1>5. CASE Idle \/ Sleep
  BY <1>5 DEF Idle, Sleep
<1>6. CASE Unjail
  BY <1>6 DEF Unjail, LoopType
<1>7. CASE UNCHANGED <<jailed, sent, loop, wasted>>
  BY <1>7
<1>8. \/ Jail \/ JailTimePasses \/ Include \/ Watch
      \/ UNCHANGED <<jailed, sent, loop, wasted>>
  BY DEF Next, vars, Chain, Grow, NodeFollows, CaughtUp, PodFollows, NodeRestarts, ReadStatus,
         AskPod, NoneAhead, UpdateSet, NodeSees, SeatChanges
<1>. QED  BY <1>1, <1>2, <1>3, <1>4, <1>5, <1>6, <1>7, <1>8 DEF Watch

\* WatchInv is an invariant.
THEOREM WatchInvariant == Spec => []WatchInv
<1>1. WatchInv /\ [Next]_vars => WatchInv'
  BY HeightsStep, QuestionStep, LoopTypeStep, NeedStep DEF WatchInv, TypeOK
<1>. QED  BY <1>1, InitInv, PTL DEF Spec

\* Every variable has its type, and no node is above the chain's top
\* (rpcstatus.py:21-35).
THEOREM TypeCorrect == Spec => []TypeOK
<1>1. WatchInv => TypeOK
  BY DEF WatchInv
<1>. QED  BY <1>1, WatchInvariant, PTL

\* is_behind accuses no node that was at the top when it answered, with any
\* number of pods and any margin, while the chain grows by no more than the
\* margin (rpcstatus.py:42-56).
THEOREM AccusationIsReal == Spec => []BehindIsReal
<1>1. WatchInv => BehindIsReal
  <2>. SUFFICES ASSUME WatchInv, verdict = TRUE, top - top_then <= Margin
                PROVE  call.own.height < top_then
    BY DEF BehindIsReal
  <2>. QED
    BY WatchAssumption DEF WatchInv, TypeOK, HeightsType, QuestionType, Accused, Status
<1>. QED  BY <1>1, WatchInvariant, PTL

\* The jail watch wastes no fee on a validator that is not jailed unless the
\* node's own answer misled it or a transaction was waiting when a round began:
\* nothing else in its loop can, for any chain (unjaild.sh:20-49).
THEOREM NoFeeWasted == Spec => []FeeForJailedOnly
<1>1. WatchInv => FeeForJailedOnly
  BY DEF WatchInv
<1>. QED  BY <1>1, WatchInvariant, PTL

=============================================================================
