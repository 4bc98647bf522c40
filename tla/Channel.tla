------------------------------- MODULE Channel -------------------------------
(***************************************************************************)
(* What the two programs expect of a connection, and what Session is built *)
(* on: messages arrive whole, once and in the order in which they were     *)
(* posted.  Only the message being sent when its sender goes away is lost. *)
(***************************************************************************)
EXTENDS Naturals, Sequences

CONSTANT Messages

VARIABLES
  posted,    \* the messages whose sending has begun
  complete,  \* how many of them have been sent to their end
  taken      \* the messages the other end has received

ChannelVars == <<posted, complete, taken>>

ChannelInit == posted = <<>> /\ complete = 0 /\ taken = <<>>

\* One message is sent at a time.
Post(m) ==
  /\ complete = Len(posted)
  /\ posted' = Append(posted, m)
  /\ UNCHANGED <<complete, taken>>

Complete ==
  /\ complete < Len(posted)
  /\ complete' = complete + 1
  /\ UNCHANGED <<posted, taken>>

Take ==
  /\ Len(taken) < complete
  /\ taken' = Append(taken, posted[Len(taken) + 1])
  /\ UNCHANGED <<posted, complete>>

ChannelNext == (\E m \in Messages : Post(m)) \/ Complete \/ Take

ChannelSpec == ChannelInit /\ [][ChannelNext]_ChannelVars
=============================================================================
