---------------------------- MODULE SnxObfuscate ------------------------------
(* The byte scrambling of the credentials on the wire (snx-obfuscate.c).  A  *)
(* byte string is a sequence of 0 .. 255; its hexadecimal form is left out.  *)
EXTENDS Naturals, SequencesExt, Bitwise

(* The first bytes of xor_table, which repeats; all its 76 entries are in    *)
(* 16 .. 89.                                                                 *)
XorTable == <<45, 79, 68, 73>>

TranslateByte(index, c) ==
  LET v == (c % 255) ^^ XorTable[((index - 1) % Len(XorTable)) + 1]
  IN  IF v = 0 THEN 255 ELSE v

Translate(data) == Reverse([i \in DOMAIN data |-> TranslateByte(i, data[i])])

\* Mutant: the reversal is not undone before the bytes are translated.
DeobfuscateInPlace(hex) == Reverse(Translate(hex))
Obfuscate(data) == Translate(data)
Deobfuscate(hex) == Reverse(Translate(Reverse(hex)))
===============================================================================
