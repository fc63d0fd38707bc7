---------------------------- MODULE WorkbookText ----------------------------
(***************************************************************************)
(* How a composite workbook keeps exact text in bounded cells: identity    *)
(* values cut into fragments, exact decimals shown rounded, and a content  *)
(* fingerprint over framed members.  src/app/services/composite_workbook/  *)
(* {identity,numeric_display,presentation,source_values,fingerprint}.py.   *)
(*                                                                         *)
(* A text is a sequence of characters, "q" standing for one that JSON      *)
(* escapes with a second character; a decimal is digits times ten to the   *)
(* minus exponent, with its sign.                                          *)
(***************************************************************************)
EXTENDS Integers, SequencesExt

CONSTANTS
    CellUnits,      \* MAX_CELL_UTF16_UNITS
    ChunkUnits      \* JSON_CHUNK_CHARACTERS

\* Two units of quotation and, at worst, two for each character of a chunk.
ASSUME ChunkAssumption ==
    /\ ChunkUnits \in Nat \ {0} /\ CellUnits \in Nat
    /\ 2 * ChunkUnits + 2 <= CellUnits

IsText(text) == text \in Seq(Range(text))

\* A decimal may be of any size, and of a power of ten that is not shown.
IsDecimal(decimal) == {decimal.digits, decimal.exponent} \subseteq Int

-----------------------------------------------------------------------------
(* Identity rows *)

\* The length of a text as a JSON string.
Quoted(text) == Len(text) + 2 + Cardinality({i \in DOMAIN text : text[i] = "q"})

ChunkCount(length) == (length + ChunkUnits - 1) \div ChunkUnits

Chunks(text) ==
    [i \in 1..ChunkCount(Len(text)) |->
        SubSeq(text, (i - 1) * ChunkUnits + 1,
               IF i * ChunkUnits < Len(text) THEN i * ChunkUnits ELSE Len(text))]

\* The rows a field is stored in: its text, or how many fragments follow.
IdentityRows(text) ==
    IF Len(text) <= CellUnits THEN <<[key |-> "value", text |-> text]>>
    ELSE <<[key |-> "chunks", count |-> ChunkCount(Len(text)),
            length |-> Len(text)]>>
         \o [i \in DOMAIN Chunks(text) |-> [key |-> "chunk", text |-> Chunks(text)[i]]]

\* What a reader of the rows puts together again.
Reassembled(stored) ==
    IF stored[1].key = "value" THEN stored[1].text
    ELSE FlattenSeq([i \in 1..(Len(stored) - 1) |-> stored[i + 1].text])

-----------------------------------------------------------------------------
(* Numbers *)

Abs(n) == IF n < 0 THEN -n ELSE n
Sign(n) == IF n < 0 THEN -1 ELSE 1

\* Ten to a power.
TenTo(n) ==
    LET power[k \in 0..n] == IF k = 0 THEN 1 ELSE 10 * power[k - 1]
    IN  power[n]

\* ROUND_HALF_UP of decimal: to the nearest, ties away from zero.
HalfUp(numerator, denominator) ==
    Sign(numerator) * ((2 * Abs(numerator) + denominator) \div (2 * denominator))

\* The number shown, in units of ten to the minus places: the exact decimal,
\* times a hundred when it is shown as a percentage, rounded once.
Displayed(decimal, places, percent) ==
    LET shift == IF percent THEN 2 ELSE 0
        up == places + shift - decimal.exponent
    IN  IF up >= 0 THEN decimal.digits * TenTo(up)
        ELSE HalfUp(decimal.digits, TenTo(-up))

\* Refused before the display is written: a digit too many for a cell.
TooWide(magnitude, percent) ==
    magnitude + (IF percent THEN 2 ELSE 0) >= CellUnits

\* Digits before the point of a number of this magnitude, once shown.
ShownDigits(magnitude, percent) ==
    LET shifted == magnitude + (IF percent THEN 2 ELSE 0)
    IN  IF shifted < 0 THEN 1 ELSE shifted + 1

-----------------------------------------------------------------------------
(* The fingerprint *)

Frame(name, payload) ==
    <<Len(name)>> \o name \o <<Len(payload)>> \o payload

\* The bytes hashed for a package: its members in the order of their names.
Fingerprinted(names, payload) ==
    <<Len(names)>>
        \o FlattenSeq([i \in DOMAIN names |-> Frame(names[i], payload[names[i]])])

-----------------------------------------------------------------------------
(* Properties, of one input each *)

\* No identity is shortened or lost: the rows fit their cells, whatever has
\* to be escaped, and a reader gets the exact text back (identity.py:17-42).
FragmentsAreLossless(text) ==
    LET stored == IdentityRows(text)
    IN  /\ Reassembled(stored) = text
        /\ \A i \in DOMAIN stored :
              stored[i].key = "chunk" => Quoted(stored[i].text) <= CellUnits
        /\ stored[1].key = "chunks" => stored[1].count = Len(stored) - 1

\* A number is shown within half a unit of its last place, a tie away from
\* zero, and a loss exactly as its gain but for the sign
\* (numeric_display.py:11-33, presentation.py:29-51).
DisplayIsNearest(decimal, places, percent) ==
    LET shift == IF percent THEN 2 ELSE 0
        shown == Displayed(decimal, places, percent)
        \* both on the finer of the two scales
        fine == IF decimal.exponent > places + shift THEN decimal.exponent
                ELSE places + shift
        unit == TenTo(fine - places - shift)
        exact == decimal.digits * TenTo(fine - decimal.exponent)
    IN  /\ 2 * Abs(shown * unit - exact) <= unit
        /\ 2 * Abs(shown * unit - exact) = unit => Abs(shown * unit) > Abs(exact)
        /\ Displayed([decimal EXCEPT !.digits = -@], places, percent) = -shown

\* Whatever its scale, a number that is not refused fits a cell, before its
\* decimals (numeric_display.py:18-23).
ShownFits(magnitude, percent) ==
    ~TooWide(magnitude, percent) => ShownDigits(magnitude, percent) <= CellUnits

\* Two workbooks with different members never hash the same bytes
\* (fingerprint.py:10-29).
FramingIsInjective(name, payload, otherName, otherPayload) ==
    Fingerprinted(<<name>>, [n \in {name} |-> payload])
        = Fingerprinted(<<otherName>>, [n \in {otherName} |-> otherPayload])
      => name = otherName /\ payload = otherPayload

=============================================================================
