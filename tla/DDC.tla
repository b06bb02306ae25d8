--------------------------------- MODULE DDC ---------------------------------
(***************************************************************************)
(* DDC/CI over I2C: the frames of a command and of a reply, the retries of *)
(* GetVCP, and how a monitor and its bus are found.  A byte is a number.   *)
(***************************************************************************)
EXTENDS Lists

Slave == 55             \* 0x37, the address of a monitor
Host == 81              \* 0x51
Flag == 128             \* 0x80, set in the length of a frame
Retries == 5

(* Exclusive or of two bytes, bit by bit. *)
Bytes == 0 .. 255
Xor(a, b) ==
    LET at(bit) == IF (a \div bit) % 2 # (b \div bit) % 2 THEN bit ELSE 0
    IN  at(1) + at(2) + at(4) + at(8) + at(16) + at(32) + at(64) + at(128)

Parity(bytes) == Fold([p \in Bytes \X Bytes |-> Xor(p[1], p[2])], 0, bytes)

-----------------------------------------------------------------------------
(* A command: sender, length, payload, and a checksum that covers the address
   it is sent to.  SetVCP and GetVCP send one each. *)
Frame(cmd) ==
    LET head == <<Host, Flag + Len(cmd)>> \o cmd IN Append(head, Parity(<<2 * Slave>> \o head))

GetCommand(vcp) == <<1, vcp>>
SetCommand(vcp, val) == <<3, vcp, val \div 256, val % 256>>

-----------------------------------------------------------------------------
(* A reply, read in two parts.  A payload that is cut short is not noticed:
   the rest of the buffer is zero, and the checksum decides. *)
Ok(buf) == [err |-> "none", buf |-> buf]
Refused(err) == [err |-> err, buf |-> << >>]

(* Mutant: the checksum is read and not looked at. *)
RxUnchecked(reply) ==
    LET n == reply[2] % Flag
        buf == [i \in 1 .. n + 1 |-> IF i + 2 <= Len(reply) THEN reply[i + 2] ELSE 0]
    IN  IF reply[1] \div 2 = 0 THEN Refused("no reply")
        ELSE IF reply[1] \div 2 # Slave THEN Refused("bad address")
        ELSE Ok(SubSeq(buf, 1, n))

Rx(reply) ==
    IF Len(reply) < 2 THEN Refused("short")
    ELSE IF reply[1] \div 2 = 0 THEN Refused("no reply")
    ELSE IF reply[1] \div 2 # Slave THEN Refused("bad address")
    ELSE IF reply[2] < Flag THEN Refused("bad length")
    ELSE LET n == reply[2] % Flag
             buf == [i \in 1 .. n + 1 |-> IF i + 2 <= Len(reply) THEN reply[i + 2] ELSE 0]
         IN  IF Parity(<<Host - 1, reply[1], reply[2]>> \o buf) # 0 THEN Refused("checksum")
             ELSE Ok(SubSeq(buf, 1, n))

(* Mutant: the VCP of the reply is not looked at. *)
ParseAnyVCP(vcp, buf) ==
    IF Len(buf) # 8 \/ buf[1] # 2 \/ buf[2] # 0 THEN [err |-> "bad reply"]
    ELSE [err |-> "none", val |-> 256 * buf[7] + buf[8], max |-> 256 * buf[5] + buf[6]]

(* The payload of a reply to GetVCP. *)
Parse(vcp, buf) ==
    IF Len(buf) # 8 \/ buf[1] # 2 THEN [err |-> "bad reply"]
    ELSE IF buf[2] = 1 THEN [err |-> "unsupported"]
    ELSE IF buf[2] # 0 \/ buf[3] # vcp THEN [err |-> "bad reply"]
    ELSE [err |-> "none", val |-> 256 * buf[7] + buf[8], max |-> 256 * buf[5] + buf[6]]

(* No answer yet: no slave in the header, or an empty payload. *)
Silent(rx) == rx.err = "no reply" \/ (rx.err = "none" /\ rx.buf = << >>)

(* GetVCP reads until it is answered, five times at most.  replies are what
   the bus gives to one read after the other. *)
GetVCP(vcp, replies) ==
    LET i == First({k \in 1 .. Retries : ~Silent(Rx(replies[k]))})
    IN  IF i = 0 THEN [err |-> "no reply"]
        ELSE LET rx == Rx(replies[i])
             IN  IF rx.err # "none" THEN [err |-> rx.err] ELSE Parse(vcp, rx.buf)

-----------------------------------------------------------------------------
(* The id of a monitor, from its EDID: a vendor of three letters packed in 15
   bits, the product code and the serial number in hexadecimal. *)
Header == <<0, 255, 255, 255, 255, 255, 255, 0>>

Nibble(b, k) == IF k = 0 THEN b \div 16 ELSE b % 16

Id(edid) ==
    LET vnd == 256 * edid[9] + edid[10]
    IN  <<64 + ((vnd \div 1024) % 32), 64 + ((vnd \div 32) % 32), 64 + (vnd % 32)>>
            \o [i \in 1 .. 12 |-> Nibble(edid[11 + (i - 1) \div 2], (i - 1) % 2)]

Identified(edid) == Len(edid) >= 16 /\ SubSeq(edid, 1, 8) = Header

(* FindMonitor: the first card whose EDID has the id.  A card without an EDID
   is passed over; one whose EDID cannot be read ends the search. *)
FindMonitor(cards, id) ==
    LET ends(c) == c.read = "error" \/ (c.read = "ok" /\ Identified(c.edid) /\ Id(c.edid) = id)
        i == First({k \in DOMAIN cards : ends(cards[k])})
    IN  IF i = 0 THEN [err |-> FALSE, card |-> 0]
        ELSE [err |-> cards[i].read = "error", card |-> IF cards[i].read = "error" THEN 0 ELSE i]

(* FindI2C: the buses named in the directory of the card, or else below ddc. *)
FindI2C(direct, below) == IF direct # << >> THEN direct ELSE below

-----------------------------------------------------------------------------
(* External: a reply as a monitor sends it, and the payload a monitor takes of
   a command, if its length and its checksum are right. *)
Reply(payload) ==
    LET head == <<2 * Slave, Flag + Len(payload)>> \o payload
    IN  Append(head, Parity(<<Host - 1>> \o head))

Received(frame) ==
    LET n == Len(frame) - 3
    IN  IF frame[1] = Host /\ frame[2] = Flag + n /\ Parity(<<2 * Slave>> \o frame) = 0
        THEN SubSeq(frame, 3, n + 2) ELSE << >>

(* A command arrives with the value that is set. *)
CommandArrives(vcp, val) ==
    LET got == Received(Frame(SetCommand(vcp, val)))
    IN  /\ Len(got) = 4 /\ got[1] = 3 /\ got[2] = vcp /\ 256 * got[3] + got[4] = val
        /\ Received(Frame(GetCommand(vcp))) = GetCommand(vcp)

(* A reply as it was sent is understood, and none of which one byte has been
   changed is, nor one that is about something else; one that ends before one of
   its bytes is refused only by the checksum: if what arrived has the parity of a
   whole reply, what is missing is taken for zeros. *)
Answer(vcp, reply) == GetVCP(vcp, [i \in 1 .. Retries |-> reply])

RefusesCorruption(vcp, p, at, as) ==
    LET sent == Reply(p)
        got == [sent EXCEPT ![at] = as]
        cut == SubSeq(sent, 1, at - 1)
        good == Answer(vcp, sent)
    IN  /\ IF p = << >> THEN good.err = "no reply"
           ELSE IF p[2] = 1 THEN good.err = "unsupported"
           ELSE IF p[3] # vcp THEN good.err = "bad reply"
           ELSE good = [err |-> "none", val |-> 256 * p[7] + p[8], max |-> 256 * p[5] + p[6]]
        /\ at \in DOMAIN sent /\ as # sent[at] => Answer(vcp, got).err # "none"
        /\ at \in DOMAIN sent /\ (at < 3 \/ Parity(<<Host - 1>> \o cut) # 0)
              => Answer(vcp, cut).err # "none"

(* What the error for a short payload is for.  Not kept: the code asks for an
   error as well as for a short read. *)
RefusesCuts(vcp, p, at) ==
    at \in DOMAIN Reply(p) => Answer(vcp, SubSeq(Reply(p), 1, at - 1)).err # "none"

(* A monitor that is silent at first is asked again, up to five times. *)
AsksAgain(vcp, before, silent, p) ==
    LET replies == [i \in 1 .. Retries |-> IF i <= before THEN silent ELSE Reply(p)]
    IN  (GetVCP(vcp, replies).err = "none") <=> before < Retries

(* Two EDIDs of one monitor: the vendor, but for its highest bit, the product
   and the serial number are the same. *)
SameMonitor(e, f) ==
    /\ (256 * e[9] + e[10]) % 32768 = (256 * f[9] + f[10]) % 32768
    /\ \A i \in 11 .. 16 : e[i] = f[i]

(* The first card that is found is of the monitor that is meant, and no card
   that cannot be read comes before it. *)
FindsMonitor(cards, wanted) ==
    LET f == FindMonitor(cards, Id(wanted))
        is(c) == c.read = "ok" /\ Identified(c.edid) /\ SameMonitor(c.edid, wanted)
        until(n) == \A i \in 1 .. n : ~is(cards[i]) /\ cards[i].read # "error"
    IN  \/ f.card \in DOMAIN cards /\ ~f.err /\ is(cards[f.card]) /\ until(f.card - 1)
        \/ f.card = 0 /\ f.err /\ \E i \in DOMAIN cards : cards[i].read = "error" /\ until(i - 1)
        \/ f.card = 0 /\ ~f.err /\ until(Len(cards))
=============================================================================
