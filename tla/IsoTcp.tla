------------------------------- MODULE IsoTcp -------------------------------
(***************************************************************************)
(* One connection of the ISO 8583 TCP transport: a peer writes frames (a   *)
(* two-byte big-endian length, then the body), the network delivers the    *)
(* bytes in chunks cut anywhere, and handleSocket takes the frames out of  *)
(* its buffer again.  handleMessage is not awaited: network management,    *)
(* reversals and unknown messages are answered as soon as the handler is   *)
(* done with the chunk, the others when the host has answered.             *)
(*                                                                         *)
(* A body is a sequence of bytes whose first one stands for the four       *)
(* characters of the MTI.                                                  *)
(***************************************************************************)
EXTENDS Integers, Sequences, SequencesExt

CONSTANTS
    Bodies,      \* bodies a peer sends
    AskHost,     \* first bytes of the messages passed to the HostEmulator
    Radix,       \* values of a byte (256)
    MaxFrame     \* bound: frames sent

ASSUME IsoTcpAssumption ==
    /\ Radix \in Nat \ {0, 1} /\ MaxFrame \in Nat
    /\ \A b \in Bodies : b \in Seq(Nat) /\ Len(b) < Radix * Radix

VARIABLES
    sock,      \* "open" or "closed"
    sent,      \* the bodies the peer has sent
    net,       \* bytes under way
    buf,       \* bytes received and not yet taken out
    handled,   \* the bodies handleMessage was called with (totalRequests)
    asked,     \* those the host has not answered yet, by position in `handled'
    replies    \* those answered, in the order the peer reads the answers

linkVars == <<sock, sent, net, buf, handled, asked, replies>>

LinkOff ==
    /\ sock = "closed"
    /\ sent = <<>> /\ net = <<>> /\ buf = <<>>
    /\ handled = <<>> /\ asked = {} /\ replies = <<>>

LinkInit ==
    /\ sock = "open"
    /\ sent = <<>> /\ net = <<>> /\ buf = <<>>
    /\ handled = <<>> /\ asked = {} /\ replies = <<>>

(* A frame as the peer writes it.                                          *)
Framed(body) == <<Len(body) \div Radix, Len(body) % Radix>> \o body

(* The length that the buffer begins with, and whether that frame is all   *)
(* there.                                                                  *)
FrameLength(bytes) == bytes[1] * Radix + bytes[2]
Complete(bytes) == Len(bytes) >= 2 /\ Len(bytes) >= 2 + FrameLength(bytes)

(* dispatch awaits the host for an authentication or a withdrawal.         *)
NeedsHost(body) == body # <<>> /\ Head(body) \in AskHost

(* A turn of the while loop: handleMessage, called with the first complete *)
(* frame, asks the host or answers.                                        *)
TakeFrame(link) ==
    LET end == 2 + FrameLength(link.buf)
        body == SubSeq(link.buf, 3, end)
        number == Len(link.handled) + 1
    IN
    IF ~ Complete(link.buf) THEN link
    ELSE [buf |-> SubSeq(link.buf, end + 1, Len(link.buf)),
          handled |-> Append(link.handled, body),
          asked |-> link.asked \union (IF NeedsHost(body) THEN {number} ELSE {}),
          replies |-> link.replies \o (IF NeedsHost(body) THEN <<>> ELSE <<number>>)]

(* Variant: one frame at most is taken out of a chunk.                     *)
TakeFrames_One(link) == TakeFrame(link)

(* The while loop of the data handler.                                     *)
TakeFrames(link) ==
    LET turn[n \in 0 .. Len(link.buf)] == IF n = 0 THEN link ELSE TakeFrame(turn[n - 1])
    IN  turn[Len(link.buf)]

-----------------------------------------------------------------------------
Send(body) ==
    /\ sock = "open" /\ Len(sent) < MaxFrame
    /\ sent' = Append(sent, body)
    /\ net' = net \o Framed(body)
    /\ UNCHANGED <<sock, buf, handled, asked, replies>>

(* A chunk of n bytes arrives.                                             *)
Data(n) ==
    LET link == TakeFrames([buf |-> buf \o SubSeq(net, 1, n), handled |-> handled,
                            asked |-> asked, replies |-> replies])
    IN
    /\ sock = "open" /\ n \in 1 .. Len(net)
    /\ net' = SubSeq(net, n + 1, Len(net))
    /\ buf' = link.buf
    /\ handled' = link.handled
    /\ asked' = link.asked
    /\ replies' = link.replies
    /\ UNCHANGED <<sock, sent>>

(* Variant: an error of the host is not caught, and not answered.          *)
HostAnswers_NoCatch(i) ==
    /\ i \in asked
    /\ asked' = asked \ {i}
    /\ replies' = Append(replies, i) \/ UNCHANGED replies
    /\ UNCHANGED <<sock, sent, net, buf, handled>>

(* The host answers or throws (39=96); a closed socket takes no answer.    *)
HostAnswers(i) ==
    /\ i \in asked
    /\ asked' = asked \ {i}
    /\ replies' = IF sock = "open" THEN Append(replies, i) ELSE replies
    /\ UNCHANGED <<sock, sent, net, buf, handled>>

Close ==
    /\ sock = "open"
    /\ sock' = "closed"
    /\ net' = <<>>
    /\ UNCHANGED <<sent, buf, handled, asked, replies>>

LinkNext ==
    \/ \E body \in Bodies : Send(body)
    \/ \E n \in DOMAIN net : Data(n)
    \/ \E i \in asked : HostAnswers(i)
    \/ Close

LinkSpec == LinkInit /\ [][LinkNext]_linkVars

(* TCP delivers what was written, and the host answers or throws.          *)
LinkFairness ==
    /\ WF_linkVars(\E n \in DOMAIN net : Data(n))
    /\ WF_linkVars(\E i \in asked : HostAnswers(i))

-----------------------------------------------------------------------------
(* Answers of the same kind keep their order, none is given twice, and the *)
(* host's come in whatever order it gives them: a peer that has more than  *)
(* one request under way cannot tell by position which one is answered.    *)
AnswersApart ==
    /\ IsInjective(replies)
    /\ \A i \in DOMAIN replies : replies[i] \in DOMAIN handled \ asked
    /\ \A i, j \in DOMAIN replies :
          i < j /\ ~ NeedsHost(handled[replies[i]]) /\ ~ NeedsHost(handled[replies[j]])
             => replies[i] < replies[j]

(* Wherever the network cuts the bytes - inside a length, between frames,  *)
(* several frames in a chunk - the messages handled are the ones sent, in  *)
(* that order; when all bytes are in, none is missing and none is left     *)
(* over in the buffer; and none is answered twice.                         *)
FramesSurvive ==
    /\ AnswersApart
    /\ IsPrefix(handled, sent)
    /\ sock = "open" /\ net = <<>> => handled = sent /\ buf = <<>>

(* Every message sent is answered, unless the connection ends.             *)
EveryFrameAnswered ==
    \A i \in 1 .. MaxFrame :
        (Len(sent) >= i) ~> (sock = "closed" \/ \E k \in DOMAIN replies : replies[k] = i)
=============================================================================
