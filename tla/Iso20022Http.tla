---------------------------- MODULE Iso20022Http ----------------------------
(***************************************************************************)
(* The ISO 20022 HTTP transport: peers post pacs.008 transfers, the        *)
(* handler reads the body to its end, has the host authorize the first     *)
(* transfer of the message and answers with a pacs.002 status.  A peer may *)
(* go away at any point, and may send a payment again.                     *)
(*                                                                         *)
(* A post is a number, in the order of arrival.  Of a message the model    *)
(* keeps what the handler looks at: its shape, its EndToEndId, whether it  *)
(* has a debtor account, and its amount, which nobody looks at before the  *)
(* host subtracts it.  The host's answer is whatever HostEmulator's        *)
(* authorizeWithdrawal may say.                                            *)
(***************************************************************************)
EXTENDS Integers

CONSTANTS
    MaxPost,     \* bound: requests
    Payments,    \* EndToEndIds of the payments peers want to make
    Sums8        \* the whole numbers that a message may name as its amount

ASSUME HttpAssumption ==
    /\ MaxPost \in Nat
    /\ Sums8 \subseteq Int

Posts == 1 .. MaxPost

(* No EndToEndId; the id the handler makes up for a transfer without one;  *)
(* and the one it gives when there is no transfer.                         *)
NoId == "none"
MadeUp == "e2e"
Unknown == "unknown"

(* The text of IntrBkSttlmAmt: a whole number, above zero or not; no text; *)
(* or one of which Number makes NaN or a fraction.                         *)
Text(form, n) == [form |-> form, number |-> n]
AmountTexts == {Text("whole", n) : n \in Sums8} \union {Text("missing", 0), Text("broken", 0)}

(* What a peer may ask for.  The XML parser throws at an unreadable body,  *)
(* and one without a transfer is no pacs.008.                              *)
Transfer == [shape : {"transfer"}, id : Payments \union {NoId}, account : BOOLEAN,
             amount : AmountTexts]
Shape(x) == [shape |-> x, id |-> NoId, account |-> FALSE, amount |-> Text("missing", 0)]
Bodies8 == Transfer \union {Shape("unreadable"), Shape("other")}
Elsewhere == {Shape("health"), Shape("nowhere")}

(* The reason code for each response code that authorizeWithdrawal gives.  *)
mapResponseCodeToReason ==
    [INVALID_CARD |-> "AC01", NOT_SUFFICIENT_FUNDS |-> "AM04", EXCEEDS_WITHDRAWAL_LIMIT |-> "AM01",
     NO_CARD_RECORD |-> "NARR", SYSTEM_MALFUNCTION |-> "NARR"]
Declines == DOMAIN mapResponseCodeToReason

VARIABLES
    phase,     \* where each post is
    asks,      \* what it asks for
    result,    \* what the host's promise was resolved with
    reply,     \* what was answered
    gone,      \* the posts whose connection has ended
    posts,     \* requests so far
    total,     \* totalRequests
    moved      \* what the host has taken from the account for each post

httpVars == <<phase, asks, result, reply, gone, posts, total, moved>>

(* buildPacs002: a status, ACSC or a reason to reject, for an EndToEndId.  *)
buildPacs002(id, status) == [http |-> 200, id |-> id, status |-> status]
Plain(code) == [http |-> code, id |-> NoId, status |-> "none"]
NothingYet == Plain(0)
Unasked == "unasked"
Approved == "APPROVED"

HttpInit ==
    /\ phase = [n \in Posts |-> "none"]
    /\ asks = [n \in Posts |-> Shape("none")]
    /\ result = [n \in Posts |-> Unasked]
    /\ reply = [n \in Posts |-> NothingYet]
    /\ gone = {}
    /\ posts = 0
    /\ total = 0
    /\ moved = [n \in Posts |-> 0]

-----------------------------------------------------------------------------
(* handleRequest: a transfer is counted and its body awaited, /health and  *)
(* unknown paths are answered at once.                                     *)
HandleRequest(ask) ==
    LET n == posts + 1
        post == ask \in Bodies8
    IN
    /\ posts < MaxPost /\ posts' = n
    /\ asks' = [asks EXCEPT ![n] = ask]
    /\ phase' = [phase EXCEPT ![n] = IF post THEN "reading" ELSE "answered"]
    /\ total' = IF post THEN total + 1 ELSE total
    /\ reply' = IF post THEN reply
                ELSE [reply EXCEPT ![n] = Plain(IF ask.shape = "health" THEN 200 ELSE 404)]
    /\ UNCHANGED <<result, gone, moved>>

(* res.end: the answer is lost on a peer that is gone.                     *)
Respond(n, a) ==
    /\ reply' = [reply EXCEPT ![n] = a]
    /\ phase' = [phase EXCEPT ![n] = IF n \in gone THEN "lost" ELSE "answered"]

(* The EndToEndId the answer carries.                                      *)
EndToEndId(n) == IF asks[n].id = NoId THEN MadeUp ELSE asks[n].id

(* Number(amountRaw ?? 0).                                                 *)
AmountOf(n) == IF asks[n].amount.form = "whole" THEN asks[n].amount.number ELSE 0

(* The end of the body: a body the parser throws at is an error, one       *)
(* without a transfer or a debtor account is rejected, and the first       *)
(* transfer of any other goes to the host, whatever its amount.            *)
BodyEnds(n) ==
    /\ phase[n] = "reading" /\ n \notin gone
    /\ CASE asks[n].shape = "unreadable" -> Respond(n, Plain(500))
         [] asks[n].shape = "other" -> Respond(n, buildPacs002(Unknown, "NARR"))
         [] asks[n].shape = "transfer" /\ ~ asks[n].account ->
               Respond(n, buildPacs002(EndToEndId(n), "AC01"))
         [] OTHER -> phase' = [phase EXCEPT ![n] = "host"] /\ UNCHANGED reply
    /\ UNCHANGED <<asks, result, gone, posts, total, moved>>

(* authorizeWithdrawal: it approves and has taken the amount from the      *)
(* account, or declines, for an error of its own too, and BigInt throws at *)
(* what is not whole.  Nothing compares the amount with zero: nothing is   *)
(* taken when it is missing, and the account is credited when it is below. *)
HostAuthorizes(n) ==
    /\ phase[n] = "host"
    /\ phase' = [phase EXCEPT ![n] = "resolved"]
    /\ \/ /\ asks[n].amount.form # "broken"
          /\ result' = [result EXCEPT ![n] = Approved]
          /\ moved' = [moved EXCEPT ![n] = AmountOf(n)]
       \/ /\ \E code \in Declines : result' = [result EXCEPT ![n] = code]
          /\ UNCHANGED moved
    /\ UNCHANGED <<asks, reply, gone, posts, total>>

(* Variant: whatever the host says is reported as settled.                 *)
AnswerPost_AlwaysSettled(n) ==
    /\ phase[n] = "resolved"
    /\ Respond(n, buildPacs002(EndToEndId(n), "ACSC"))
    /\ UNCHANGED <<asks, result, gone, posts, total, moved>>

(* The continuation of handlePacs008 behind the host's answer.             *)
AnswerPost(n) ==
    /\ phase[n] = "resolved"
    /\ Respond(n, buildPacs002(EndToEndId(n), IF result[n] = Approved THEN "ACSC"
                                              ELSE mapResponseCodeToReason[result[n]]))
    /\ UNCHANGED <<asks, result, gone, posts, total, moved>>

(* The connection ends: a body still coming never ends, a payment that is  *)
(* with the host stays there.                                              *)
PeerGone(n) ==
    /\ phase[n] \in {"reading", "host", "resolved"} /\ n \notin gone
    /\ gone' = gone \union {n}
    /\ UNCHANGED <<phase, asks, result, reply, posts, total, moved>>

HttpNext ==
    \/ \E ask \in Bodies8 \union Elsewhere : HandleRequest(ask)
    \/ \E n \in Posts : BodyEnds(n) \/ HostAuthorizes(n) \/ AnswerPost(n) \/ PeerGone(n)

HttpSpec == HttpInit /\ [][HttpNext]_httpVars

(* A peer that stays sends its whole body, and the host answers.           *)
HttpFairness ==
    \A n \in Posts : WF_httpVars(BodyEnds(n)) /\ WF_httpVars(HostAuthorizes(n) \/ AnswerPost(n))

-----------------------------------------------------------------------------
(* Whatever else is under way, and whenever the connection ends: what was  *)
(* taken from the account for a payment told ACSC is the amount its        *)
(* message names (nothing, when it names none, and less than nothing when  *)
(* that is below zero), under the EndToEndId it gave; nothing was taken or *)
(* credited for one told anything else, or cut off before its body was     *)
(* complete; and what was taken with nobody told of it belongs to a        *)
(* connection that ended while the host was at work.                       *)
PaymentsToldTruly ==
    \A n \in Posts :
        /\ phase[n] \in {"answered", "lost"} =>
              moved[n] = IF reply[n].status = "ACSC" THEN AmountOf(n) ELSE 0
        /\ reply[n].status = "ACSC" /\ asks[n].id # NoId => reply[n].id = asks[n].id
        /\ moved[n] # 0 => phase[n] \in {"resolved", "answered", "lost"}
        /\ phase[n] = "lost" => n \in gone

(* Every request is answered while its peer is there.                      *)
EveryPostAnswered ==
    \A n \in Posts : (n <= posts) ~> (phase[n] = "answered" \/ n \in gone)
=============================================================================
