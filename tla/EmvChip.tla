------------------------------ MODULE EmvChip ------------------------------
(***************************************************************************)
(* packages/emv: the BER-TLV codec, the APDU parser and EmvSimulator, the  *)
(* chip of a card.  Bytes are numbers.  Where the code throws, the result  *)
(* has ok = FALSE and nothing changes.                                     *)
(***************************************************************************)
EXTENDS Integers, Sequences, SequencesExt

CONSTANTS
    Apdus,     \* the commands a terminal sends
    MaxApdu    \* bound: commands sent

ASSUME ChipAssumption ==
    /\ \A a \in Apdus : \A i \in DOMAIN a : a[i] \in 0 .. 255
    /\ MaxApdu \in Nat

Throws == [ok |-> FALSE]
Zeros(n) == [i \in 1 .. n |-> 0]

-----------------------------------------------------------------------------
(* Variant: 0x80 still fits in one byte.                                   *)
encodeLength_OffByOne(n) ==
    IF n <= 128 THEN <<n>>
    ELSE IF n < 256 THEN <<129, n>>
    ELSE <<130, n \div 256, n % 256>>

(* Lengths below 65536; a longer one throws.                               *)
encodeLength(n) ==
    IF n < 128 THEN <<n>>
    ELSE IF n < 256 THEN <<129, n>>
    ELSE <<130, n \div 256, n % 256>>

encodeTlv(tag, value) == tag \o encodeLength(Len(value)) \o value

encodeTemplate(tag, children) == encodeTlv(tag, FlattenSeq(children))

(* One byte, or, when its five low bits are set, up to the first byte      *)
(* without the top bit.                                                    *)
TagLength(bytes) ==
    IF bytes[1] % 32 # 31 THEN 1
    ELSE LET more == {k \in 2 .. Len(bytes) : \A i \in 2 .. k : bytes[i] >= 128}
         IN  IF more = {} THEN 2 ELSE Max(more) + 1

IsConstructed(tag) == (tag[1] \div 32) % 2 = 1

(* Uint8Array.slice, which stops at the end.                               *)
Bytes(bytes, from, to) == SubSeq(bytes, from, IF to < Len(bytes) THEN to ELSE Len(bytes))

(* The range check of a value that begins after `head' bytes.              *)
Fits(bytes, head, length) == head + length <= Len(bytes)

(* The nodes of a TLV string.  Lengths of up to three bytes; a fourth byte *)
(* would bring in the sign of a 32-bit shift.                              *)
RECURSIVE decodeTlv(_)
decodeTlv(bytes) ==
    LET tagLen == TagLength(bytes)
        first == bytes[tagLen + 1]
        lenBytes == IF first < 128 THEN 0 ELSE first - 128
        head == tagLen + 1 + lenBytes
        length == IF first < 128 THEN first
                  ELSE FoldLeft(LAMBDA n, b : 256 * n + b, 0, SubSeq(bytes, tagLen + 2, head))
        tag == Bytes(bytes, 1, tagLen)
        value == Bytes(bytes, head + 1, head + length)
        children == IF IsConstructed(tag) THEN decodeTlv(value) ELSE [ok |-> TRUE, nodes |-> <<>>]
        rest == decodeTlv(SubSeq(bytes, head + length + 1, Len(bytes)))
    IN  IF bytes = <<>> THEN [ok |-> TRUE, nodes |-> <<>>]
        ELSE IF tagLen + 1 > Len(bytes) THEN Throws
        ELSE IF first >= 128 /\ lenBytes \notin 1 .. 4 THEN Throws
        ELSE IF head > Len(bytes) THEN Throws
        ELSE IF ~ Fits(bytes, head, length) THEN Throws
        ELSE IF ~ children.ok \/ ~ rest.ok THEN Throws
        ELSE [ok |-> TRUE,
              nodes |-> <<[tag |-> tag, value |-> value, children |-> children.nodes]>>
                            \o rest.nodes]

(* The values of all nodes with this tag; findTag returns the first.       *)
RECURSIVE Tagged(_, _)
Tagged(nodes, tag) ==
    UNION { (IF nodes[i].tag = tag THEN {nodes[i].value} ELSE {})
                \union Tagged(nodes[i].children, tag) : i \in DOMAIN nodes }

-----------------------------------------------------------------------------
parseApdu(b) ==
    LET lc == b[5]
        command(data, le) == [ok |-> TRUE, cla |-> b[1], ins |-> b[2], p1 |-> b[3], p2 |-> b[4],
                              data |-> data, le |-> le]
    IN  CASE Len(b) < 4 -> Throws
          [] Len(b) = 4 -> command(<<>>, 0)
          [] Len(b) = 5 -> command(<<>>, b[5])
          [] Len(b) > 5 /\ Len(b) < 5 + lc -> Throws
          [] OTHER -> command(SubSeq(b, 6, 5 + lc), IF Len(b) = 5 + lc THEN 0 ELSE b[6 + lc])

-----------------------------------------------------------------------------
VARIABLES
    powered,       \* powered
    selectedAid,   \* selectedAid, <<>> for null
    atc,           \* the Application Transaction Counter
    currentRecord, \* currentRecord
    answer,        \* the last command's kind, whether it was 9000, and its data
    applied,       \* history: an application was selected since the last power-on
    apdus          \* commands so far

chipVars == <<powered, selectedAid, atc, currentRecord, answer, applied, apdus>>

NoAnswer == [kind |-> "none", ok |-> FALSE, data |-> <<>>]
Refused(kind) == [kind |-> kind, ok |-> FALSE, data |-> <<>>]
Given(kind, template) == [kind |-> kind, ok |-> TRUE, data |-> template]

ChipInit ==
    /\ powered = FALSE
    /\ selectedAid = <<>>
    /\ atc = 0
    /\ currentRecord = 1
    /\ answer = NoAnswer
    /\ applied = FALSE
    /\ apdus = 0

(* Variant: the application stays selected.                                *)
PowerOn_KeepsAid ==
    /\ powered' = TRUE
    /\ atc' = 0
    /\ answer' = NoAnswer
    /\ applied' = FALSE
    /\ UNCHANGED <<selectedAid, currentRecord, apdus>>

PowerOn ==
    /\ powered' = TRUE
    /\ selectedAid' = <<>>
    /\ atc' = 0
    /\ answer' = NoAnswer
    /\ applied' = FALSE
    /\ UNCHANGED <<currentRecord, apdus>>

PowerOff ==
    /\ powered' = FALSE
    /\ selectedAid' = <<>>
    /\ answer' = NoAnswer
    /\ UNCHANGED <<atc, currentRecord, applied, apdus>>

PSE_NAME == <<49, 80, 65, 89, 46, 83, 89, 83, 46, 68, 68, 70, 48, 49>>

(* SELECT of the payment system, of an application (5 to 16 bytes), or of  *)
(* a name that is neither.                                                 *)
handleSelect(name) ==
    LET fci(label) == encodeTemplate(<<111>>, <<encodeTlv(<<132>>, name),
                                                encodeTemplate(<<165>>, label)>>)
        app == name # PSE_NAME /\ Len(name) \in 5 .. 16
    IN
    /\ answer' =
        IF name = PSE_NAME THEN Given("select", fci(<<encodeTlv(<<136>>, <<1>>)>>))
        ELSE IF app THEN Given("select", fci(<<encodeTlv(<<80>>, Zeros(10)), encodeTlv(<<135>>, <<1>>)>>))
        ELSE Refused("select")
    /\ selectedAid' = IF app THEN name ELSE selectedAid
    /\ applied' = (applied \/ app)
    /\ UNCHANGED <<atc, currentRecord>>

handleGpo ==
    /\ answer' = IF selectedAid = <<>> THEN Refused("gpo")
                 ELSE Given("gpo", encodeTemplate(<<119>>, <<encodeTlv(<<130>>, Zeros(2)),
                                                             encodeTlv(<<148>>, Zeros(16))>>))
    /\ UNCHANGED <<selectedAid, atc, currentRecord, applied>>

(* PAN (5A), expiry (5F24), cardholder name (5F20).                        *)
handleReadRecord(record) ==
    /\ IF selectedAid = <<>>
       THEN answer' = Refused("record") /\ UNCHANGED currentRecord
       ELSE /\ currentRecord' = record
            /\ answer' = Given("record", encodeTemplate(<<112>>,
                            <<encodeTlv(<<90>>, Zeros(8)), encodeTlv(<<95, 36>>, Zeros(3)),
                              encodeTlv(<<95, 32>>, Zeros(26))>>))
    /\ UNCHANGED <<selectedAid, atc, applied>>

(* Cryptogram data (9F27), the counter (9F36), cryptogram (9F26), issuer   *)
(* data (9F10).  The counter has two bytes: below 65536.                   *)
handleGenerateAc ==
    /\ IF selectedAid = <<>>
       THEN answer' = Refused("ac") /\ UNCHANGED atc
       ELSE /\ atc' = atc + 1
            /\ answer' = Given("ac", encodeTemplate(<<119>>,
                            <<encodeTlv(<<159, 39>>, <<128>>),
                              encodeTlv(<<159, 54>>, <<atc' \div 256, atc' % 256>>),
                              encodeTlv(<<159, 38>>, Zeros(8)),
                              encodeTlv(<<159, 16>>, Zeros(18))>>))
    /\ UNCHANGED <<selectedAid, currentRecord, applied>>

(* transmitApdu.  A chip without power, and an APDU that cannot be parsed, *)
(* throw.                                                                  *)
TransmitApdu(bytes) ==
    LET apdu == parseApdu(bytes)
        Is(cla, ins) == apdu.cla = cla /\ apdu.ins = ins
    IN
    /\ powered /\ apdus < MaxApdu
    /\ apdu.ok
    /\ CASE Is(0, 164) -> handleSelect(apdu.data)
         [] Is(128, 168) -> handleGpo
         [] Is(0, 178) -> handleReadRecord(apdu.p1)
         [] Is(128, 174) -> handleGenerateAc
         [] OTHER -> /\ answer' = Refused("other")
                     /\ UNCHANGED <<selectedAid, atc, currentRecord, applied>>
    /\ apdus' = apdus + 1
    /\ UNCHANGED powered

ChipNext ==
    \/ PowerOn
    \/ PowerOff
    \/ \E bytes \in Apdus : TransmitApdu(bytes)

-----------------------------------------------------------------------------
Promised ==
    [select |-> {<<132>>, <<165>>}, gpo |-> {<<130>>, <<148>>},
     record |-> {<<90>>, <<95, 36>>, <<95, 32>>},
     ac |-> {<<159, 39>>, <<159, 54>>, <<159, 38>>, <<159, 16>>}]

(* The chip gives data only of an application that was selected since the  *)
(* chip was last powered on, and whatever it gives is one template that    *)
(* decodeTlv reads, with every element the command promises; the           *)
(* transaction counter in it is the chip's.                                *)
ChipAnswers ==
    answer.ok =>
        LET tree == decodeTlv(answer.data) IN
        /\ tree.ok /\ Len(tree.nodes) = 1
        /\ \A tag \in Promised[answer.kind] : Tagged(tree.nodes, tag) # {}
        /\ answer.kind = "ac" => Tagged(tree.nodes, <<159, 54>>) = {<<atc \div 256, atc % 256>>}
        /\ answer.kind \in {"gpo", "record", "ac"} => powered /\ applied
=============================================================================
