-------------------------- MODULE MCStreamFraming --------------------------
(***************************************************************************)
(* One reply of each form the tests send: errors bare, with a marker and   *)
(* with a message; a status with a marker; data after a marker, of one     *)
(* item, of several, with a null byte in it, and with a length in a byte   *)
(* of its own; data without a marker, and such data that is no CBOR once   *)
(* its null byte is gone; and, for the run that asks about it, data that   *)
(* is no CBOR as it comes.                                                 *)
(***************************************************************************)
EXTENDS StreamFraming

(***************************************************************************)
(* The decoder of these runs: one item in the definite lengths of CBOR.    *)
(* need counts the items still to be read; reading one takes its head, the *)
(* bytes of its argument and, of a string, its text, and asks for its      *)
(* elements.                                                               *)
(***************************************************************************)
Major(b) == b \div 32
Info(b)  == b % 32
Width(b) == CASE Info(b) < 24 -> 0 [] Info(b) = 24 -> 1 [] Info(b) = 25 -> 2
              [] Info(b) = 26 -> 4 [] OTHER -> 8

Argument(bytes, at) ==
    LET b == bytes[at]
    IN  IF Width(b) = 0 THEN Info(b)
        ELSE FoldLeft(LAMBDA n, d : 256 * n + d, 0, SubSeq(bytes, at + 1, at + Width(b)))

Read(s, bytes) ==
    LET at == s.end + 1
        b  == bytes[at]
        n  == Argument(bytes, at)
    IN  CASE s.need = 0 \/ s.short \/ s.bad -> s
          [] OTHER ->
             IF s.end >= Len(bytes) THEN [s EXCEPT !.short = TRUE]
             ELSE IF Info(b) \in 28..30 THEN [s EXCEPT !.bad = TRUE]
             ELSE IF s.end + 1 + Width(b) > Len(bytes) THEN [s EXCEPT !.short = TRUE]
             ELSE [s EXCEPT
                    !.end  = @ + 1 + Width(b) + (IF Major(b) \in {2, 3} THEN n ELSE 0),
                    !.need = @ - 1 + (CASE Major(b) = 4 -> n
                                        [] Major(b) = 5 -> 2 * n
                                        [] Major(b) = 6 -> 1
                                        [] OTHER        -> 0)]

CborDecode(bytes) ==
    LET scan[k \in 0..Len(bytes) + 1] ==
            IF k = 0 THEN [end |-> 0, need |-> 1, short |-> FALSE, bad |-> FALSE]
            ELSE Read(scan[k - 1], bytes)
        last == scan[Len(bytes) + 1]
    IN  CASE last.bad -> Malformed
          [] ~last.bad /\ (last.short \/ last.end > Len(bytes)) -> Eof
          [] OTHER -> Item(last.end)

BareError      == <<164>>
MarkedError    == <<164, 246>>
ErrorMessage   == <<164, 246, 97, 110>>
StatusOnly     == <<132, 246>>
Number         == <<133, 246, 1>>
ArrayWithNull  == <<133, 246, 130, 246, 2>>
LongNumber     == <<133, 246, 24, 246>>
Unmarked       == <<132, 130, 1, 2>>
UnmarkedNull   == <<132, 129, 246>>
LongText       == <<133, 246, 120, 2, 97, 98>>
NullSpoils     == <<132, 131, 24, 246, 24, 28, 1>>
NoCbor         == <<133, 28>>

WellFormed == {BareError, MarkedError, ErrorMessage, StatusOnly, Number,
               ArrayWithNull, LongNumber, Unmarked, UnmarkedNull, LongText,
               NullSpoils}
SomeMalformed == {BareError, Number, NoCbor}

ASSUME WellFormedAssumption == \A r \in WellFormed : IsResponse(r)

\* The decoder is one as the theorems take it, on what this run gives it to read.
ASSUME DecoderAssumption ==
    LET Streams == {r \o q : r \in WellFormed, q \in WellFormed}
    IN  ReadsFromTheLeft(UNION {{SubSeq(s, i, j) : i \in 2..3, j \in 1..Len(s)} : s \in Streams})
=============================================================================
