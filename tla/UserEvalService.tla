-------------------------- MODULE UserEvalService --------------------------
(***************************************************************************)
(* What usereval() promises to the evaluation of a deal, whoever computes  *)
(* it: one request at a time, each answered before the deal changes, with  *)
(* the metric that was asked for the side and the deal in hand.            *)
(***************************************************************************)
EXTENDS Integers

CONSTANTS Tags, QuitTags, Slots, Writes, MaxGen

VARIABLES deal, pending, reply

svars == <<deal, pending, reply>>

Idle == [tag |-> -1, side |-> 0, slot |-> -1]

Init ==
  /\ deal = 1
  /\ pending = Idle
  /\ reply = [tag |-> -1, side |-> 0, slot |-> -1, deal |-> -1,
              value |-> [tag |-> -1, side |-> 0, deal |-> -1]]

\* The reply in the next state answers request r about the current deal.
Answers(r) ==
  /\ reply'.tag = r.tag /\ reply'.side = r.side /\ reply'.slot = r.slot
  /\ reply'.deal = deal
  /\ r.tag \notin QuitTags /\ r.slot \in Writes[r.tag] =>
       reply'.value = [tag |-> r.tag, side |-> r.side, deal |-> deal]

Request(r) ==
  /\ pending = Idle
  /\ pending' = r
  /\ UNCHANGED <<deal, reply>>

Reply ==
  /\ pending # Idle
  /\ Answers(pending)
  /\ pending' = Idle
  /\ UNCHANGED deal

\* Request and reply in one step: the answer is already known.
ReplyAtOnce(r) ==
  /\ pending = Idle
  /\ Answers(r)
  /\ UNCHANGED <<deal, pending>>

NextDeal ==
  /\ pending = Idle
  /\ deal < MaxGen
  /\ deal' = deal + 1
  /\ UNCHANGED <<pending, reply>>

Next ==
  \/ \E r \in [tag : Tags, side : {0, 1}, slot : Slots] : Request(r) \/ ReplyAtOnce(r)
  \/ Reply
  \/ NextDeal

Spec == Init /\ [][Next]_svars
=============================================================================
