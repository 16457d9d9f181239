-------------------------------- MODULE Hosts --------------------------------
(***************************************************************************)
(* The spellings of one ssh host (internal/shellintent/hosts.go): coverage   *)
(* and guards are globs over command text, so a host typed in a form that    *)
(* ssh resolves differently is looked up in every form.                     *)
(***************************************************************************)
EXTENDS Shapes

CONSTANTS Byte,       \* the values of one byte of an address: 256
          Lower,      \* symbol -> symbol: how the others are written in lower case
          Canonical6  \* IPv6 literal -> the form that netip writes

ASSUME ByteAssumption == Byte \in Nat \ {0}

RECURSIVE Split(_, _)
Split(w, mark) ==
  LET i == Find(w, 1, {mark})
  IN  IF i = 0 THEN <<w>> ELSE <<SubSeq(w, 1, i - 1)>> \o Split(From(w, i + 1), mark)

RECURSIVE Between(_, _)
Between(parts, mark) == IF Len(parts) <= 1 THEN FlattenSeq(parts)
                        ELSE Head(parts) \o <<mark>> \o Between(Tail(parts), mark)

LowerCase(w) == [i \in DOMAIN w |-> IF w[i] \in DOMAIN Lower THEN Lower[w[i]] ELSE w[i]]

DigitOrder == <<"0", "1", "2", "3", "4", "5", "6", "7", "8", "9", "a", "b", "c", "d", "e", "f">>
DigitValue(c) == LET at == {k \in DOMAIN DigitOrder : DigitOrder[k] = c}
                 IN  IF at = {} THEN 16 ELSE (CHOOSE k \in at : TRUE) - 1

\* Horner's rule, modulo the width.
Numeral(digits, base, width) ==
  FoldLeft(LAMBDA v, c : (v * base + DigitValue(c)) % width, 0, digits)

IsNumeral(digits, base) == digits # <<>> /\ \A i \in DOMAIN digits : DigitValue(digits[i]) < base

Invalid == Byte * Byte * Byte * Byte * Byte * Byte * Byte * Byte

\* atonPart: decimal, octal or hexadecimal; it wraps at eight bytes.
NumberIn(digits, base) == IF IsNumeral(digits, base) THEN Numeral(digits, base, Invalid) ELSE Invalid

AtonPart(p) ==
  IF At(p, 1) = "0" /\ At(p, 2) = "x" THEN NumberIn(From(p, 3), 16)
  ELSE NumberIn(p, IF p # <<"0">> /\ At(p, 1) = "0" THEN 8 ELSE 10)

RECURSIVE Decimal(_)
Decimal(n) == IF n < 10 THEN <<DigitOrder[n + 1]>> ELSE Decimal(n \div 10) \o Decimal(n % 10)

\* dottedQuad, of the four bytes.
DottedQuad(b) == Between([i \in 1..4 |-> Decimal(b[i])], ".")

\* The last k bytes of a number.
Bytes(n, k) == [i \in 1..k |-> (n \div (IF k - i = 0 THEN 1 ELSE IF k - i = 1 THEN Byte
                                        ELSE IF k - i = 2 THEN Byte * Byte ELSE Byte * Byte * Byte)) % Byte]
Fits(n, k) == n \div Byte < (CASE k = 1 -> 1 [] k = 2 -> Byte [] k = 3 -> Byte * Byte
                               [] k = 4 -> Byte * Byte * Byte)

\* inetAton: the last part fills the bytes that remain; a lone one wraps.
Quads(vals) ==
  LET n == Len(vals)
      k == 5 - n
  IN  IF \/ n > 4 \/ \E i \in 1..n : vals[i] = Invalid
         \/ n > 1 /\ (~Fits(vals[n], k) \/ \E i \in 1..(n - 1) : ~Fits(vals[i], 1))
      THEN {} ELSE {DottedQuad(SubSeq(vals, 1, n - 1) \o Bytes(vals[n], k))}

InetAton(parts) == Quads([i \in DOMAIN parts |-> AtonPart(parts[i])])

\* dottedDecimal: leading zeros are decimal.
DottedDecimal(parts) ==
  LET val(p) == Numeral(p, 10, Invalid)
  IN  IF \/ Len(parts) # 4
         \/ \E i \in DOMAIN parts : ~IsNumeral(parts[i], 10) \/ ~Fits(val(parts[i]), 1)
      THEN {} ELSE {DottedQuad([i \in 1..4 |-> val(parts[i])])}

\* hostSpellings, without the host as typed.
IPv6Forms(h) ==
  LET zone == Find(h, 1, {"%"})
      addr == IF zone = 0 THEN h ELSE SubSeq(h, 1, zone - 1)
  IN  {IF addr \in DOMAIN Canonical6 THEN Canonical6[addr] ELSE LowerCase(h)}

NameForms(name, read) == IF read # {} THEN read ELSE IF name # <<>> THEN {name} ELSE {}

OtherSpellings(host) ==
  LET h    == Unbracketed(host)
      name == LowerCase(IF h # <<>> /\ h[Len(h)] = "." THEN Front(h) ELSE h)
      parts == Split(name, ".")
  IN  (IF \E i \in DOMAIN h : h[i] = ":" THEN IPv6Forms(h)
       ELSE NameForms(name, InetAton(parts) \cup DottedDecimal(parts))) \ {host}

HostSpellings(host) == <<host>> \o SetToSeq(OtherSpellings(host))
=============================================================================
