----------------------------- MODULE ByteStream -----------------------------
(***************************************************************************)
(* One direction of a connection, byte by byte: BaseSocket::Send and       *)
(* BaseSocket::Receive (common/socket_manager.cpp).  A message is a header *)
(* of two bytes, its length with the high byte first, and its body.        *)
(*                                                                         *)
(* send takes as many bytes as there is room for, so a message leaves in   *)
(* any number of pieces, and the reader finds any number of bytes.  The    *)
(* sender may be killed between two pieces, and the reader may go away     *)
(* between two messages.                                                   *)
(***************************************************************************)
EXTENDS Naturals, Sequences

CONSTANTS
  Base,      \* the values of a byte are 0..Base - 1
  Bodies,    \* bodies of messages
  MaxPosted, \* bound: messages sent on the connection
  Room       \* bytes the kernel keeps between send and recv

ASSUME StreamAssumption ==
  /\ Base \in Nat \ {0, 1} /\ MaxPosted \in Nat /\ Room \in Nat \ {0}
  /\ Bodies \subseteq Seq(0 .. Base - 1)
  /\ \A b \in Bodies : Len(b) \in 1 .. Base * Base - 1

VARIABLES
  begun,    \* the bodies whose sending has begun
  unsent,   \* the bytes of the last of them that send has not taken yet
  sender,   \* "open", "closed" after its last message, "killed", "refused"
  pipe,     \* the bytes between send and recv
  reader,   \* the step of Receive: "header", "body", "spin", or how it ended
  missing,  \* totalToReceive - totalRecvd
  body,     \* what has been received of a body
  arrived   \* the bodies Receive has returned

streamVars == <<begun, unsent, sender, pipe, reader, missing, body, arrived>>
readVars == <<reader, missing, body, arrived>>

StreamInit ==
  /\ begun = <<>> /\ unsent = <<>> /\ sender = "open" /\ pipe = <<>>
  /\ reader = "header" /\ missing = 0 /\ body = <<>> /\ arrived = <<>>

Ended == {"left", "atEnd", "shortHeader"}

-----------------------------------------------------------------------------
(* BaseSocket::Send.                                                       *)

\* Mutant of Header: the low byte first.
HeaderReversed(b) == <<Len(b) % Base, Len(b) \div Base>>

Header(b) == <<Len(b) \div Base, Len(b) % Base>>

BeginSend(b) ==
  /\ sender = "open" /\ unsent = <<>> /\ Len(begun) < MaxPosted
  /\ begun' = Append(begun, b)
  /\ unsent' = Header(b) \o b
  /\ UNCHANGED <<sender, pipe, readVars>>

\* Mutant of SendSome: a piece that is not taken whole is taken for sent.
SendSomeOnce(n) ==
  /\ sender = "open" /\ unsent # <<>> /\ reader \notin Ended
  /\ n <= Room - Len(pipe)
  /\ pipe' = pipe \o SubSeq(unsent, 1, n)
  /\ unsent' = <<>>
  /\ UNCHANGED <<begun, sender, readVars>>

\* One call of send, which takes the first n bytes that are left.
SendSome(n) ==
  /\ sender = "open" /\ reader \notin Ended
  /\ n <= Room - Len(pipe)
  /\ pipe' = pipe \o SubSeq(unsent, 1, n)
  /\ unsent' = SubSeq(unsent, n + 1, Len(unsent))
  /\ UNCHANGED <<begun, sender, readVars>>

\* The reader is gone: send fails.
SendRefused ==
  /\ sender = "open" /\ unsent # <<>> /\ reader \in Ended
  /\ sender' = "refused"
  /\ UNCHANGED <<begun, unsent, pipe, readVars>>

\* The sender closes between two messages, or is killed anywhere.
CloseSender ==
  /\ sender = "open"
  /\ sender' \in (IF unsent = <<>> THEN {"closed", "killed"} ELSE {"killed"})
  /\ UNCHANGED <<begun, unsent, pipe, readVars>>

-----------------------------------------------------------------------------
(* BaseSocket::Receive.                                                    *)

\* Mutant of ReceiveHeader: wait for the header and a PDU of the smallest size.
ReceiveHeaderOfPdu ==
  /\ reader = "header" /\ Len(pipe) >= 4
  /\ reader' = "body"
  /\ missing' = pipe[1] * Base + pipe[2]
  /\ pipe' = SubSeq(pipe, 3, Len(pipe))
  /\ UNCHANGED <<begun, unsent, sender, body, arrived>>

\* The first recv asks for two bytes, and does not ask again for the second.
ReceiveHeader ==
  /\ reader = "header" /\ pipe # <<>>
  /\ IF Len(pipe) = 1
     THEN reader' = "shortHeader" /\ pipe' = <<>> /\ UNCHANGED missing
     ELSE /\ reader' = "body"
          /\ missing' = pipe[1] * Base + pipe[2]
          /\ pipe' = SubSeq(pipe, 3, Len(pipe))
  /\ UNCHANGED <<begun, unsent, sender, body, arrived>>

\* recv returns 0 where a header should begin: Receive fails.
ReceiveEnd ==
  /\ reader = "header" /\ pipe = <<>> /\ sender # "open"
  /\ reader' = "atEnd"
  /\ UNCHANGED <<begun, unsent, sender, pipe, missing, body, arrived>>

\* Mutant of ReceiveBody: one recv is taken for the whole body.
ReceiveBodyOnce ==
  /\ reader = "body" /\ pipe # <<>>
  /\ LET n == IF missing < Len(pipe) THEN missing ELSE Len(pipe)
     IN  /\ pipe' = SubSeq(pipe, n + 1, Len(pipe))
         /\ arrived' = Append(arrived, body \o SubSeq(pipe, 1, n))
         /\ reader' = "header" /\ missing' = 0 /\ body' = <<>>
  /\ UNCHANGED <<begun, unsent, sender>>

\* One more recv; Receive returns when nothing is missing.
ReceiveBody ==
  /\ reader = "body" /\ pipe # <<>>
  /\ LET n == IF missing < Len(pipe) THEN missing ELSE Len(pipe)
     IN  /\ pipe' = SubSeq(pipe, n + 1, Len(pipe))
         /\ IF n = missing
            THEN /\ arrived' = Append(arrived, body \o SubSeq(pipe, 1, n))
                 /\ reader' = "header" /\ missing' = 0 /\ body' = <<>>
            ELSE /\ body' = body \o SubSeq(pipe, 1, n)
                 /\ missing' = missing - n
                 /\ UNCHANGED <<reader, arrived>>
  /\ UNCHANGED <<begun, unsent, sender>>

\* recv returns 0 inside a body.  That is not -1: the loop goes round for ever.
Spin ==
  /\ reader = "body" /\ pipe = <<>> /\ sender # "open"
  /\ reader' = "spin"
  /\ UNCHANGED <<begun, unsent, sender, pipe, missing, body, arrived>>

\* The reader's program closes between two messages, or is killed.
Leave ==
  /\ reader \notin Ended
  /\ reader' = "left"
  /\ UNCHANGED <<begun, unsent, sender, pipe, missing, body, arrived>>

-----------------------------------------------------------------------------
Sending == (\E n \in 1 .. Len(unsent) : SendSome(n)) \/ SendRefused
Receiving == ReceiveHeader \/ ReceiveEnd \/ ReceiveBody

StreamNext == (\E b \in Bodies : BeginSend(b)) \/ Sending \/ CloseSender
              \/ Receiving \/ Spin \/ Leave

StreamSpec == StreamInit /\ [][StreamNext]_streamVars

\* The kernel carries bytes, and a program that is inside Send or Receive loops.
StreamFairness == WF_streamVars(Sending) /\ WF_streamVars(Receiving)

-----------------------------------------------------------------------------
(* Properties.                                                             *)

\* How many messages have left whole.
Whole == IF unsent = <<>> THEN Len(begun) ELSE Len(begun) - 1

\* A connection is a Channel: the bytes of Send and Receive, in whatever pieces
\* they travel, make the messages that were sent, whole and in order.
Ch == INSTANCE Channel
        WITH Messages <- Bodies, posted <- begun, complete <- Whole, taken <- arrived

ImplementsChannel == Ch!ChannelSpec

\* Receive never returns for want of data while a message that left whole is
\* still to come, and its endless loop on a recv of 0 is entered only when the
\* sender was cut off inside the body.
EndsForCause ==
  /\ reader = "atEnd" => Len(arrived) = Whole
  /\ reader = "spin" => Len(arrived) = Whole /\ unsent # <<>> /\ sender = "killed"

\* Messages that left whole arrive: again and again none is under way, unless the
\* reader has left or met a header of which only one byte had come, with which
\* Receive gives the connection up; and Receive ends, or loops without end, for the
\* causes above only.
Delivered == []EndsForCause /\ []<>(Len(arrived) = Whole \/ reader \in {"left", "shortHeader"})
=============================================================================
