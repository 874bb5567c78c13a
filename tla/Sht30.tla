------------------------------- MODULE Sht30 -------------------------------
(***************************************************************************)
(* The driver of the SHT30: a measurement is two words, the temperature    *)
(* and the humidity, each with a checksum of eight bits.  A byte or a word *)
(* is the set of its bits that are set, so SymDiff is exclusive or.        *)
(***************************************************************************)
EXTENDS Integers, Sequences, FiniteSetsExt

Bits  == 0..7
Wires == 0..23   \* the bits of two bytes and their checksum

CONSTANT Bytes   \* the bytes of which measurements are made

ASSUME Sht30Assumption == Bytes \subseteq SUBSET Bits

VARIABLES
  thAt,      \* "idle", "measured", "read"
  measured,  \* the words the sensor sends: 16 bits and the checksum
  buffer,    \* the words that came in
  reading    \* the raw values of the last read(), or << >> if it failed

thVars == <<thAt, measured, buffer, reading>>

(* A definition with a two-part name is a plausible bug of the one after    *)
(* it.                                                                      *)
Shifted_Plain(crc) == {i \in Bits : i - 1 \in crc}

(* crc << 1, and ^ 0x31 if the highest bit was set. *)
Shifted(crc) ==
  SymDiff({i \in Bits : i - 1 \in crc}, IF 7 \in crc THEN {0, 4, 5} ELSE {})

ByteCrc(crc) ==
  LET Twice(c) == Shifted(Shifted(c))
      Four(c)  == Twice(Twice(c))
  IN Four(Four(crc))

calculateCRC(high, low) ==
  ByteCrc(SymDiff(ByteCrc(SymDiff(Bits, high)), low))

(* Byte n of a word, counted from its end. *)
Byte(word, n) == {i \in Bits : i + 8 * n \in word}

Word(high, low) ==
  {i \in Wires : \/ i - 16 \in high
                 \/ i - 8 \in low
                 \/ i \in calculateCRC(high, low)}

Value(word) == <<Byte(word, 2), Byte(word, 1)>>
Valid(word) == calculateCRC(Byte(word, 2), Byte(word, 1)) = Byte(word, 0)

(* What noise may do to a word: a burst of at most eight bits, or any two.  *)
Bursts == {{at + i : i \in bits} : at \in 0..16, bits \in SUBSET Bits}
Errors == Bursts \union {{i, j} : i, j \in Wires}

Sht30Init ==
  /\ thAt = "idle" /\ measured = <<{}, {}>> /\ buffer = <<{}, {}>> /\ reading = << >>

Measure ==
  /\ thAt = "idle"
  /\ \E h, l \in Bytes : measured' = <<Word(h, l), Word(l, h)>>
  /\ thAt' = "measured" /\ buffer' = measured'
  /\ UNCHANGED reading

Disturbed ==
  /\ thAt = "measured" /\ buffer = measured
  /\ \E i \in 1..2, e \in Errors :
       buffer' = [buffer EXCEPT ![i] = SymDiff(@, e)]
  /\ UNCHANGED <<thAt, measured, reading>>

(* The bus does not answer, or not with six bytes. *)
ReadFails ==
  /\ thAt = "measured"
  /\ thAt' = "read" /\ reading' = << >>
  /\ UNCHANGED <<measured, buffer>>

ReadWords ==
  /\ thAt = "measured"
  /\ thAt' = "read"
  /\ reading' = IF Valid(buffer[1]) /\ Valid(buffer[2])
                THEN <<Value(buffer[1]), Value(buffer[2])>> ELSE << >>
  /\ UNCHANGED <<measured, buffer>>

Sht30Next == Measure \/ Disturbed \/ ReadFails \/ ReadWords

Sht30Spec == Sht30Init /\ [][Sht30Next]_thVars

-----------------------------------------------------------------------------
(* What read() returns is what was measured: neither a burst of eight bits *)
(* nor any two wrong bits pass the checksums (C_TH_SHT30.cpp:31-89).       *)
ReadingIsMeasured ==
  thAt = "read" /\ reading # << >> =>
    reading = <<Value(measured[1]), Value(measured[2])>>
=============================================================================
