----------------------------- MODULE NodeWatch -----------------------------
(***************************************************************************)
(* Two observers of a running node that only have its /status: is_behind   *)
(* of bin/rpcstatus.py, which compares the node with the pods of its       *)
(* cluster, and the loop of bin/unjaild.sh, which sends an unjail          *)
(* transaction for a validator without voting power.  Both act on an       *)
(* answer after the node and the chain have moved on; and a node answers   *)
(* with the voting power of its own height, which is 0 for a jailed        *)
(* validator, for one outside the active set, and for a full node.         *)
(*                                                                         *)
(* External: the node, the chain, its staking module, the other pods.      *)
(***************************************************************************)
EXTENDS Naturals

CONSTANTS
    Nil,
    Pods,       \* the pods the cluster's DNS names
    Margin,     \* the blocks is_behind allows, 100
    MaxHeight,  \* bound on the chain
    MaxFaults   \* bound on restarts, jailings, lost or won seats and
                \* unanswered requests

ASSUME WatchAssumption ==
    /\ Margin \in Nat /\ MaxHeight \in Nat /\ MaxFaults \in Nat
    /\ Nil \notin BOOLEAN

VARIABLES
    top,        \* the chain's height
    node,       \* our node: its height, and the catching_up it answers
    pod,        \* the same of each pod
    call,       \* the call of is_behind: where it is, the node's status it
                \* has read, the pods left to ask; Nil before the first
    verdict,    \* what it returned, Nil: not yet
    top_then,   \* history: top when the node's status was read
    jailed,     \* the validator, as the chain has it
    served,     \* its jail time is over
    barred,     \* it is not let out again: tombstoned, or with too little of
                \* its own stake
    seat,       \* its stake is enough for the active set; not a full node's
    power,      \* it is in the validator set
    seen,       \* the same at the node's height, which /status tells
    sent,       \* an unjail transaction is waiting to be included
    pc,         \* where unjaild.sh is
    status,     \* the answer it acts on, Nil: none
    misled,     \* history: a round was told no power of a validator that is
                \* not jailed, or began with a transaction waiting
    wasted,     \* history: a transaction found the validator not jailed
    faults

heights == <<top, node, pod>>
question == <<call, verdict, top_then>>
staking == <<jailed, served, barred, seat, power, seen>>
loop == <<pc, status, misled>>
vars == <<heights, question, staking, sent, loop, wasted, faults>>

Status == [height : 0..MaxHeight, catching_up : BOOLEAN]

Verdict == {Nil, TRUE, FALSE}

Init ==
    /\ top = 0
    /\ node = [height |-> 0, catching_up |-> FALSE]
    /\ pod = [p \in Pods |-> [height |-> 0, catching_up |-> FALSE]]
    /\ call = Nil /\ verdict = Nil /\ top_then = 0
    /\ jailed = FALSE /\ served = FALSE /\ barred = FALSE
    /\ seat \in BOOLEAN /\ power = seat /\ seen = seat
    /\ sent = FALSE
    /\ pc = "status" /\ status = Nil
    /\ misled = FALSE /\ wasted = FALSE
    /\ faults = 0

Fault == faults < MaxFaults /\ faults' = faults + 1

-----------------------------------------------------------------------------
(* The chain, the node and the pods.  A node can be stuck below the top     *)
(* without knowing.                                                         *)

Grow ==
    /\ top < MaxHeight
    /\ top' = top + 1
    /\ UNCHANGED <<node, pod, question, staking, sent, loop, wasted, faults>>

\* Of catching up, a node is done at the top.
Follow(s) ==
    {[height |-> s.height + 1, catching_up |-> s.catching_up /\ s.height + 1 < top]}

NodeFollows ==
    /\ node.height < top
    /\ node' \in Follow(node)
    /\ UNCHANGED <<top, pod, question, staking, sent, loop, wasted, faults>>

CaughtUp ==
    /\ node.catching_up /\ node.height = top
    /\ node' = [node EXCEPT !.catching_up = FALSE]
    /\ UNCHANGED <<top, pod, question, staking, sent, loop, wasted, faults>>

PodFollows ==
    /\ \E p \in Pods :
          pod[p].height < top /\ \E s \in Follow(pod[p]) : pod' = [pod EXCEPT ![p] = s]
    /\ UNCHANGED <<top, node, question, staking, sent, loop, wasted, faults>>

NodeRestarts ==
    /\ Fault
    /\ node' = [node EXCEPT !.catching_up = TRUE]
    /\ UNCHANGED <<top, pod, question, staking, sent, loop, wasted>>

-----------------------------------------------------------------------------
(* RpcStatus.is_behind *)

ReadStatus ==
    /\ call = Nil \/ verdict # Nil
    /\ call' = [own |-> node, todo |-> Pods]
    /\ verdict' = IF node.catching_up THEN FALSE ELSE Nil
    /\ top_then' = top
    /\ UNCHANGED <<heights, staking, sent, loop, wasted, faults>>

\* A slip: no margin for the time between the two answers.
ahead_at_all(s) == ~s.catching_up /\ s.height > call.own.height

ahead(s) == ~s.catching_up /\ s.height > call.own.height + Margin

\* get_service_rpc_status yields one answer after the other; a pod that does
\* not resolve or answer is passed over.
AskPod ==
    /\ call # Nil /\ verdict = Nil
    /\ \E p \in call.todo :
          /\ call' = [call EXCEPT !.todo = @ \ {p}]
          /\ \/ verdict' = (IF ahead(pod[p]) THEN TRUE ELSE Nil) /\ UNCHANGED faults
             \/ verdict' = Nil /\ Fault
    /\ UNCHANGED <<heights, top_then, staking, sent, loop, wasted>>

NoneAhead ==
    /\ call # Nil /\ verdict = Nil /\ call.todo = {}
    /\ verdict' = FALSE
    /\ UNCHANGED <<heights, call, top_then, staking, sent, loop, wasted, faults>>

-----------------------------------------------------------------------------
(* The validator *)

Jail ==
    /\ Fault
    /\ ~jailed /\ power
    /\ jailed' = TRUE /\ served' = FALSE
    /\ barred' \in BOOLEAN
    /\ UNCHANGED <<heights, question, seat, power, seen, sent, loop, wasted>>

\* Others have more stake now, or less.
SeatChanges ==
    /\ Fault
    /\ seat' = ~seat
    /\ UNCHANGED <<jailed, served, barred, power, seen>>
    /\ UNCHANGED <<heights, question, sent, loop, wasted>>

JailTimePasses ==
    /\ jailed /\ ~served
    /\ served' = TRUE
    /\ UNCHANGED <<jailed, barred, seat, power, seen>>
    /\ UNCHANGED <<heights, question, sent, loop, wasted, faults>>

\* The validator set follows at the end of a block.
UpdateSet ==
    /\ power # (seat /\ ~jailed)
    /\ power' = (seat /\ ~jailed)
    /\ UNCHANGED <<jailed, served, barred, seat, seen>>
    /\ UNCHANGED <<heights, question, sent, loop, wasted, faults>>

\* Below the top the node has an older set.
NodeSees ==
    /\ node.height = top /\ seen # power
    /\ seen' = power
    /\ UNCHANGED <<jailed, served, barred, seat, power>>
    /\ UNCHANGED <<heights, question, sent, loop, wasted, faults>>

\* Too early, or for a validator that is not jailed or not let out, it fails and
\* costs its fee all the same.
Include ==
    /\ sent
    /\ sent' = FALSE
    /\ jailed' = (jailed /\ (barred \/ ~served))
    /\ wasted' = (wasted \/ ~jailed)
    /\ UNCHANGED <<heights, question, served, barred, seat, power, seen, loop, faults>>

-----------------------------------------------------------------------------
(* bin/unjaild.sh *)

Misleading == sent \/ (~jailed /\ ~seen)

Answer ==
    /\ pc = "status" /\ pc' = "decide"
    /\ status' = [voting_power |-> seen, catching_up |-> node.catching_up]
    /\ misled' = (misled \/ Misleading)
    /\ UNCHANGED <<heights, question, staking, sent, wasted, faults>>

\* Slips: the watch gives up; it acts on the answer of the last round.
NoAnswerExits ==
    /\ pc = "status" /\ pc' = "exit"
    /\ Fault
    /\ UNCHANGED <<heights, question, staking, sent, status, misled, wasted>>

NoAnswerOld ==
    /\ pc = "status" /\ pc' = "decide"
    /\ Fault
    /\ UNCHANGED <<heights, question, staking, sent, status, misled, wasted>>

\* An empty answer has no VotingPower, and the round ends.
NoAnswer ==
    /\ pc = "status" /\ pc' = "decide"
    /\ Fault
    /\ status' = Nil
    /\ UNCHANGED <<heights, question, staking, sent, misled, wasted>>

Jailed == status # Nil /\ ~status.voting_power

Idle ==
    /\ pc = "decide" /\ pc' = "sleep"
    /\ Jailed => status.catching_up
    /\ UNCHANGED <<heights, question, staking, sent, status, misled, wasted, faults>>

\* A transaction equal to one that still waits has its sequence number and is
\* refused.
Unjail ==
    /\ pc = "decide" /\ pc' = "sleep"
    /\ Jailed /\ ~status.catching_up
    /\ sent' = TRUE
    /\ UNCHANGED <<heights, question, staking, status, misled, wasted, faults>>

Sleep ==
    /\ pc = "sleep" /\ pc' = "status"
    /\ UNCHANGED <<heights, question, staking, sent, status, misled, wasted, faults>>

-----------------------------------------------------------------------------

Chain == Jail \/ SeatChanges \/ JailTimePasses \/ UpdateSet \/ Include

Watch == Answer \/ NoAnswer \/ Idle \/ Unjail \/ Sleep

Next ==
    \/ Grow \/ NodeFollows \/ CaughtUp \/ NodeSees \/ PodFollows \/ NodeRestarts
    \/ ReadStatus \/ AskPod \/ NoneAhead
    \/ Chain \/ Watch

\* The script goes on, a node with peers catches up and then has the chain's
\* validator set, and the chain serves jail times, includes transactions and
\* updates its validators.
Spec ==
    /\ Init /\ [][Next]_vars
    /\ WF_vars(Watch) /\ WF_vars(NodeFollows \/ CaughtUp) /\ WF_vars(NodeSees)
    /\ WF_vars(JailTimePasses) /\ WF_vars(UpdateSet) /\ WF_vars(Include)

-----------------------------------------------------------------------------
(* Properties *)

HeightsType ==
    /\ top \in 0..MaxHeight
    /\ node \in Status /\ node.height <= top
    /\ pod \in [Pods -> Status] /\ \A p \in Pods : pod[p].height <= top

QuestionType ==
    /\ call # Nil => call \in [own : Status, todo : SUBSET Pods]
    /\ verdict \in Verdict
    /\ top_then \in 0..top

StakingType ==
    /\ jailed \in BOOLEAN /\ served \in BOOLEAN /\ barred \in BOOLEAN
    /\ seat \in BOOLEAN /\ power \in BOOLEAN /\ seen \in BOOLEAN
    /\ sent \in BOOLEAN /\ wasted \in BOOLEAN

LoopType ==
    /\ pc \in {"status", "decide", "sleep"}
    /\ status # Nil => status \in [voting_power : BOOLEAN, catching_up : BOOLEAN]
    /\ misled \in BOOLEAN
    /\ faults \in 0..MaxFaults

\* Every variable has its type, and nobody is above the top.
TypeOK == HeightsType /\ QuestionType /\ StakingType /\ LoopType

\* is_behind never accuses a node that was at the top, although it compares an
\* old answer with newer ones of pods that may have gone on, unless the chain
\* has grown by more than the margin meanwhile (rpcstatus.py:51-54).
BehindIsReal ==
    verdict = TRUE /\ top - top_then <= Margin => call.own.height < top_then

\* A fee is wasted on a validator that is not jailed only after the node itself
\* has told the watch no power of such a validator (outside the active set, a
\* full node, a node below the top), or a round began with the last transaction
\* still waiting.  Unanswered rounds, restarts, and the time between an answer
\* and the inclusion of the transaction add no other way (unjaild.sh:21-45).
FeeForJailedOnly == ~misled => ~wasted

\* A jailed validator that may come back does: the watch survives unanswered
\* rounds, waits for a node that catches up, and repeats what came too early.
GetsOut == jailed /\ ~barred ~> ~jailed

=============================================================================
