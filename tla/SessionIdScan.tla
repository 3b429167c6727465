---------------------------- MODULE SessionIdScan ----------------------------
(***************************************************************************)
(* extractSessionId (helpers.hpp): the Session-Id of a Diameter message is *)
(* read from its bytes, by hopping from AVP header to AVP header, before   *)
(* and without any decoding. The lengths it hops by are the sender's.      *)
(*                                                                         *)
(* AVPs start at multiples of four. What the scan sees of a message are    *)
(* its words: the first one of an AVP is its code, the second one its flags*)
(* and length. Any word may be read as either, since a wrong length leads  *)
(* into the data of another AVP.                                           *)
(***************************************************************************)
EXTENDS Naturals

CONSTANTS
    Words,       \* words of a message, from its most significant byte on
    Sizes        \* bytes a message has, or tells that it has

\* The first byte and the other three. How much three bytes can hold plays
\* no part: a length beyond the message is broken framing.
Word == [flags : 0..255, value : Nat]

ASSUME ScanAssumption ==
    /\ Words \subseteq Word
    /\ Sizes \subseteq Nat

MessageHeader == 20
AvpHeader == 8
VendorAvpHeader == 12

VARIABLES
    size,        \* bytes received
    msgLen,      \* bytes the header of the message tells of
    word,        \* the word at each offset
    pos,         \* where the scan is
    scan,        \* whether there is a message, and whether the scan is through
    value        \* where the value found begins and where it ends

scanvars == <<size, msgLen, word, pos, scan, value>>

\* The empty string: no Session-Id, or one that is empty.
NoValue == <<0, 0>>

\* Mutated, for ReadsInside: the scan trusts the length in the header.
EndAsTold == msgLen

End == IF size < msgLen THEN size ELSE msgLen

\* The offsets of whole words after the header of the message.
Offsets == {p \in MessageHeader..size : p % 4 = 0 /\ p + 4 <= size}

ScanTypeOK ==
    /\ size \in Sizes \cup {0}
    /\ msgLen \in Sizes \cup {0}
    /\ word \in [Offsets -> Words]
    /\ pos \in Nat
    /\ scan \in {"none", "reading", "done"}
    /\ value \in Nat \X Nat

ScanInit ==
    /\ size = 0
    /\ msgLen = 0
    /\ word = [p \in {} |-> 0]
    /\ pos = MessageHeader
    /\ scan = "none"
    /\ value = NoValue

-----------------------------------------------------------------------------

\* A request is received; shorter ones than a header are dropped before.
Take ==
    /\ scan = "none"
    /\ size' \in {n \in Sizes : n >= MessageHeader}
    /\ msgLen' \in Sizes
    /\ word' \in [Offsets' -> Words]
    /\ pos' = MessageHeader
    /\ scan' = "reading"
    /\ value' = NoValue

Length(p) == word[p + 4].value
IsVendor(p) == word[p + 4].flags >= 128
HeaderLength(p) == IF IsVendor(p) THEN VendorAvpHeader ELSE AvpHeader

\* Mutated, for ScanEnds: an AVP may be shorter than its header.
FramedByEnd(p) == p + Length(p) <= End

Framed(p) == Length(p) >= HeaderLength(p) /\ p + Length(p) <= End

IsSessionId(p) == word[p] = [flags |-> 0, value |-> 263] /\ ~IsVendor(p)

Readable(p) == p + AvpHeader <= End

Padded(n) == ((n + 3) \div 4) * 4

\* Mutated, for ScanIsRight: the Session-Id of a vendor is taken for the real one.
FoundAnyVendor ==
    /\ scan = "reading"
    /\ Readable(pos)
    /\ Framed(pos)
    /\ word[pos] = [flags |-> 0, value |-> 263]
    /\ value' = <<pos + HeaderLength(pos), pos + Length(pos)>>
    /\ scan' = "done"
    /\ UNCHANGED <<size, msgLen, word, pos>>

Found ==
    /\ scan = "reading"
    /\ Readable(pos)
    /\ Framed(pos)
    /\ IsSessionId(pos)
    /\ value' = <<pos + HeaderLength(pos), pos + Length(pos)>>
    /\ scan' = "done"
    /\ UNCHANGED <<size, msgLen, word, pos>>

Hop ==
    /\ scan = "reading"
    /\ Readable(pos)
    /\ Framed(pos)
    /\ ~IsSessionId(pos)
    /\ pos' = pos + Padded(Length(pos))
    /\ UNCHANGED <<size, msgLen, word, scan, value>>

\* Broken framing, or the end.
GiveUp ==
    /\ scan = "reading"
    /\ Readable(pos) => ~Framed(pos)
    /\ scan' = "done"
    /\ UNCHANGED <<size, msgLen, word, pos, value>>

\* The handler of the request is through with the message.
Release ==
    /\ scan = "done"
    /\ size' = 0
    /\ msgLen' = 0
    /\ word' = [p \in {} |-> 0]
    /\ pos' = MessageHeader
    /\ scan' = "none"
    /\ value' = NoValue

ScanStep == Found \/ Hop \/ GiveUp

ScanNext == Take \/ ScanStep \/ Release

ScanSpec == ScanInit /\ [][ScanNext]_scanvars /\ WF_scanvars(ScanStep)

-----------------------------------------------------------------------------
(* Properties *)

\* Whatever the lengths in the message say, no byte is read beyond those that
\* were received: neither a header nor the value.
ReadsInside ==
    /\ scan = "reading" /\ Readable(pos) => {pos, pos + 4} \subseteq Offsets
    /\ value[1] <= value[2] /\ value[2] <= size

\* The offset p is that of the first AVP, or of one that follows an AVP of s.
Follows(s, p) == p = MessageHeader \/ \E q \in s : p = q + Padded(Length(q))

\* AVPs that follow each other, well framed and none of them the Session-Id.
Skipped(s) == \A p \in s : Framed(p) /\ ~IsSessionId(p) /\ Follows(s, p)

Readables == {p \in Offsets : Readable(p)}

\* helpers.hpp, 104-110: the value is that of the first Session-Id among the
\* AVPs that follow each other; it is empty if there is none, or if the framing
\* is broken before it.
ScanIsRight ==
    scan = "done" => \E s \in SUBSET Readables :
        /\ Skipped(s)
        /\ Follows(s, pos)
        /\ \/ /\ pos \in Readables /\ Framed(pos) /\ IsSessionId(pos)
              /\ value = <<pos + AvpHeader, pos + Length(pos)>>
           \/ /\ pos \in Readables => ~Framed(pos)
              /\ value = NoValue

\* The scan comes to its end, whatever lengths and paddings it hops by.
ScanEnds == scan = "reading" ~> scan = "done"
=============================================================================
